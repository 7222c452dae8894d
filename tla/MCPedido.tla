------------------------------- MODULE MCPedido -------------------------------
(***************************************************************************)
(* One order of two items, from two sides that share no state here: the    *)
(* stock of its product (Stock) and its own states and total (Comanda).    *)
(* Each behaviour is one of one of them, lado: the states are the sum of   *)
(* theirs.                                                                 *)
(***************************************************************************)
EXTENDS MCStock, ComandaProps

VARIABLE lado

PedidoInit == lado \in {"stock", "comanda"} /\ Init /\ ComandaInit

PedidoNext ==
  /\ \/ lado = "stock" /\ Next /\ UNCHANGED comandaVars
     \/ lado = "comanda" /\ ComandaNext /\ UNCHANGED vars
  /\ UNCHANGED lado

PedidoSpec == PedidoInit /\ [][PedidoNext]_<<lado, vars, comandaVars>>
=============================================================================
