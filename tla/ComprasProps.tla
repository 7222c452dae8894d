----------------------------- MODULE ComprasProps ----------------------------
(* What purchasing promises of the receptions. *)
EXTENDS Compras

\* Every variable keeps its type.
ComprasTypeOK ==
  /\ orden \in {"NO", "BORRADOR", "ENVIADA", "PARCIAL", "RECIBIDA", "ANULADA", "ELIMINADA"}
  /\ item \in [Insumos -> [pedida : 0..MaxPedida, recibida : 0..2 * MaxPedida]]
  /\ stock \in [Insumos -> 0..MaxStock]
  /\ kardex \in [Insumos -> Int]
  /\ avisado \in [Insumos -> BOOLEAN]
  /\ publicado \in [Insumos -> Nat] /\ recibido \in [Insumos -> Nat]
  /\ llamada \in [Llamadas -> [op : {"", "conteo"} \cup DOMAIN Acepta,
                               diferencia : [Insumos -> -MaxStock..MaxStock]]]
  /\ ediciones \in 0..MaxEdiciones
  /\ rehecha \in BOOLEAN /\ repetida \in BOOLEAN

\* "solo quedaban N pendientes": however an order is sent, received in parts,
\* closed, annulled and received again, no more of an item comes in than was
\* ordered, and servicio-inventario hears of no more than what came in; unless
\* an edit or a deletion that began with the draft hit an order sent since, or a
\* reception named an item twice.
RecepcionRespaldada == \A i \in Insumos :
  /\ ~rehecha => recibido[i] = item[i].recibida
  /\ ~rehecha /\ ~repetida => recibido[i] <= item[i].pedida
  /\ publicado[i] * FactorDen <= recibido[i] * FactorNum[i]
-----------------------------------------------------------------------------
(* The inductive invariant (ServiciosProofs). *)

\* Before it is sent an order has received nothing, and nobody is about to.
BorradorSinRecibir ==
  orden \in {"NO", "BORRADOR"} =>
    /\ recibido = Cero
    /\ \A k \in Llamadas : llamada[k].op \notin {"registrar", "cerrar"}
    /\ orden = "NO" => \A k \in Llamadas : llamada[k].op \in {"", "conteo"}

ComprasIInv == ComprasTypeOK /\ BorradorSinRecibir /\ RecepcionRespaldada
=============================================================================
