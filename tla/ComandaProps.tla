---------------------------- MODULE ComandaProps -----------------------------
(* What an order owes its items, and its bill. *)
EXTENDS Comanda

EstadosItem   == Produccion \cup Cerrados \cup {"ENTREGADO"}
EstadosPedido == Produccion \cup Terminales \cup {"ENTREGADO"}

\* The order as it is at a moment, the rows of the audit, and what a request does.
Comandas == [items : [Items -> EstadosItem], estado : EstadosPedido, total : SUBSET Items]

FilasDeAnulacion == [item : Items, plato : {"PREPARADO", "SIN_PREPARAR"}, por : Peticiones]

Operaciones ==
  [tipo : {"nada", "marcar", "preparado", "anular", "mesa", "sin_stock"}, item : Items,
   marca : EstadosItem, dato : SUBSET Items]
  \cup
  [tipo : {"invalidar"}, item : Items, marca : EstadosItem, dato : SUBSET FilasDeAnulacion]

\* Every variable keeps its type.
ComandaTypeOK ==
  /\ item \in [Items -> EstadosItem]
  /\ comanda \in [estado : EstadosPedido, total : SUBSET Items]
  /\ anulaciones \subseteq FilasDeAnulacion
  /\ rechazados \subseteq Directos
  /\ pc \in [Peticiones -> {"nueva", "elegida", "decidida", "escrita", "leida", "hecha"}]
  /\ op \in [Peticiones -> Operaciones]
  /\ foto \in [Peticiones -> Comandas]
  /\ avisos \in Seq(Comandas)
  /\ enLaCuenta \in Comandas
  /\ huellas \subseteq Comandas
  /\ revividos \subseteq Items
  /\ restaurados \subseteq Items
  /\ solapado \in BOOLEAN

\* "Un item anulado ya no debe cobrarse": the total is that of the live items,
\* however requests that hold the lock of the order interleave.  The exceptions
\* are a request without it (a refusal of stock, an annulment of everything, a
\* payment) that overlaps with another, and a closed item that the staff marks as
\* live, which enters the total with the next recalculation.
TotalCuadra ==
  solapado \/ comanda.total \ revividos = Vivos(item) \ revividos

\* "Nunca pisamos un estado comercial": an order that is paid, cancelled or refused
\* stays so, unless requests overlapped without the lock or an item served was
\* taken off it afterwards and nothing is left.
TerminalSeRespeta ==
  [][comanda.estado \in Terminales =>
       comanda'.estado = comanda.estado \/ solapado' \/ Vivos(item') = {}]_comandaVars

\* The items that the bill charges.
CobradoEnCuenta == IF enLaCuenta.estado \in Cerrados THEN {} ELSE enLaCuenta.total

\* "Anulacion invalidada: el item vuelve a la cuenta actual": when the bill has
\* consumed everything, in order, the item just restored is charged in it.
RestauradoVuelveALaCuenta ==
  avisos = <<>> /\ ~solapado => restaurados \subseteq CobradoEnCuenta
(* The inductive invariant of the safety properties above. *)

\* What a request is doing, by where it is.
PasoDeCadaUna ==
  \A r \in Peticiones :
    /\ pc[r] = "escrita" => op[r].tipo = "marcar"
    /\ pc[r] = "decidida" => op[r].tipo = "invalidar"
    /\ op[r].tipo = "marcar" => op[r].marca \in Marcas
    /\ op[r].tipo = "sin_stock" =>
         op[r].item \in Directos /\ op[r].marca = "RECHAZADO_SIN_STOCK"

\* The lock of the order has one holder.
UnaConLlave ==
  \A q, r \in Peticiones :
    /\ pc[q] = "leida" /\ op[q].tipo \in ConLlave
    /\ pc[r] = "leida" /\ op[r].tipo \in ConLlave
    => q = r

\* What request r wrote and read is the order of now, but for its own item.
FotoVigente(r) ==
  /\ foto[r].estado = comanda.estado
  /\ \A i \in Items : foto[r].items[i] =
       IF op[r].tipo \in Escriben /\ i = op[r].item THEN op[r].marca ELSE item[i]

\* Without overlaps, nothing was committed since a request in course read.
FotosVigentes == ~solapado => \A r \in Peticiones : pc[r] = "leida" => FotoVigente(r)

ComandaIInv ==
  /\ ComandaTypeOK
  /\ PasoDeCadaUna
  /\ UnaConLlave
  /\ FotosVigentes
  /\ TotalCuadra
=============================================================================
