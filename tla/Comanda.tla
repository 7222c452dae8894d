------------------------------- MODULE Comanda -------------------------------
(***************************************************************************)
(* One order of servicio-pedidos while it is prepared, changed, cancelled, *)
(* restored and paid: its items, its own row (state and total), the audit  *)
(* of annulments, and what its bill is told of it.                         *)
(*                                                                         *)
(* A request is one transaction at READ COMMITTED, in steps: it writes     *)
(* rows that the others cannot see, nor write, until it commits, and reads *)
(* what is committed then. The total is the set of items whose price it    *)
(* adds. The events of the order reach its bill in the order of their      *)
(* commit (Salon has them in any other), and the bill stays open.          *)
(***************************************************************************)
EXTENDS Integers, FiniteSets, Sequences

CONSTANTS
  Items,       \* items of the order
  Directos,    \* those of area DIRECTO: served as they are, with stock
  Peticiones,  \* requests and events about the order, one transaction each
  Marcas       \* bound: states that the staff gives an item

Cerrados   == {"CANCELADO", "RECHAZADO_SIN_STOCK"}
Produccion == {"PENDIENTE", "EN_PREPARACION", "LISTO"}
Terminales == {"PAGADO", "CANCELADO", "RECHAZADO_SIN_STOCK"}

ASSUME ComandaAssumption ==
  /\ Directos \subseteq Items
  /\ Items # {}
  /\ Marcas \subseteq Produccion \cup {"ENTREGADO", "CANCELADO"}

VARIABLES
  item,        \* committed state of each item
  comanda,     \* [estado, total] of the order
  anulaciones, \* audit rows of one item, not invalidated: [item, plato, por]
  rechazados,  \* idempotency keys: items refused by inventory
  pc,          \* where each request is
  op,          \* what it does: [tipo, item, marca, dato]
  foto,        \* the order as it read it
  avisos,      \* pedido.actualizado, committed and not consumed yet
  enLaCuenta,  \* servicio-cuentas: the snapshot of the order in its bill
  huellas,     \* servicio-cuentas: idempotency keys of pedido.actualizado
  \* history
  revividos,   \* closed items that the staff gave a live state
  restaurados, \* the item that the last transaction restored, if it did
  solapado     \* a request without the lock of the order overlapped with another

orden       == <<item, comanda, anulaciones, rechazados>>
tramite     == <<pc, op, foto>>
facturado   == <<enLaCuenta, huellas>>
comandaVars == <<orden, tramite, avisos, facturado, revividos, restaurados, solapado>>

\* persistirPedido: an item of area DIRECTO is born ENTREGADO, and so is an order
\* of nothing else.
Creado ==
  [items  |-> [i \in Items |-> IF i \in Directos THEN "ENTREGADO" ELSE "PENDIENTE"],
   estado |-> IF Directos = Items THEN "ENTREGADO" ELSE "PENDIENTE",
   total  |-> Items]

Nada == [tipo |-> "nada", item |-> CHOOSE i \in Items : TRUE, marca |-> "PENDIENTE", dato |-> {}]

ComandaInit ==
  /\ item = Creado.items
  /\ comanda = [estado |-> Creado.estado, total |-> Creado.total]
  /\ anulaciones = {}
  /\ rechazados = {}
  /\ pc = [r \in Peticiones |-> "nueva"]
  /\ op = [r \in Peticiones |-> Nada]
  /\ foto = [r \in Peticiones |-> Creado]
  /\ avisos = <<Creado>>
  /\ enLaCuenta = Creado             \* from pedido.creado
  /\ huellas = {}
  /\ revividos = {}
  /\ restaurados = {}
  /\ solapado = FALSE
-----------------------------------------------------------------------------
Vivos(items) == {i \in Items : items[i] \notin Cerrados}

\* Defect: the state is derived whatever the order is in.
DerivadoSiempre(items, estado) ==
  LET vivos == Vivos(items)
  IN IF vivos = {} THEN "CANCELADO"
     ELSE IF \A i \in vivos : items[i] \in {"LISTO", "ENTREGADO"} THEN "LISTO"
     ELSE IF \E i \in vivos : items[i] # "PENDIENTE" THEN "EN_PREPARACION"
     ELSE "PENDIENTE"

\* derivarEstadoPedido, of an order in production; any other keeps its state.
Derivado(items, estado) ==
  LET vivos == Vivos(items)
  IN IF estado \notin Produccion THEN estado
     ELSE IF vivos = {} THEN "CANCELADO"
     ELSE IF \A i \in vivos : items[i] \in {"LISTO", "ENTREGADO"} THEN "LISTO"
     ELSE IF \E i \in vivos : items[i] # "PENDIENTE" THEN "EN_PREPARACION"
     ELSE "PENDIENTE"

\* The state is written when it differs from the one that was read.
EstadoNuevo(items, leido) ==
  IF Derivado(items, leido) # leido THEN Derivado(items, leido) ELSE comanda.estado

\* Requests that hold the lock of the order from before they read it, and those
\* that write their item before they commit.
ConLlave == {"marcar", "preparado", "invalidar"}
Escriben == {"marcar", "invalidar", "sin_stock"}

Filas(r) ==
  IF pc[r] \in {"escrita", "leida"} /\ op[r].tipo \in Escriben THEN {op[r].item} ELSE {}

FilasLibres(r, items) == \A q \in Peticiones \ {r} : Filas(q) \cap items = {}

LlaveLibre == \A q \in Peticiones : ~(pc[q] = "leida" /\ op[q].tipo \in ConLlave)

\* The order as request r sees it, with its own item already written.
Leida(escrito, marca) ==
  [items  |-> [i \in Items |-> IF i \in escrito THEN marca ELSE item[i]],
   estado |-> comanda.estado,
   total  |-> comanda.total]

Pasar(r, a) == pc' = [pc EXCEPT ![r] = a]
SinEscribir == UNCHANGED <<orden, avisos, facturado, revividos, restaurados, solapado>>

\* A transaction commits: the items, the row of the order and pedido.actualizado.
Confirmar(r, tipo, items, estado, total, aviso) ==
  /\ item' = items
  /\ comanda' = [estado |-> estado, total |-> total]
  /\ avisos' = avisos \o aviso
  /\ Pasar(r, "hecha")
  /\ solapado' = (solapado \/ \E q \in Peticiones \ {r} :
                    pc[q] = "leida" /\ {tipo, op[q].tipo} \ ConLlave # {})
  /\ UNCHANGED <<op, foto, facturado>>

\* What pedido.update returns, with the items as they are by then.
Aviso(items, estado, total) == <<[items |-> items, estado |-> estado, total |-> total]>>
-----------------------------------------------------------------------------
(* actualizarEstadoItem *)

\* It writes the item, whatever its state ...
EscribirItem(r, i, marca) ==
  /\ pc[r] = "nueva"
  /\ FilasLibres(r, {i})
  /\ Pasar(r, "escrita")
  /\ op' = [op EXCEPT ![r] = [Nada EXCEPT !.tipo = "marcar", !.item = i, !.marca = marca]]
  /\ UNCHANGED foto
  /\ SinEscribir

\* Defect: it reads the order without its lock.
LeerPedidoSinLlave(r) ==
  /\ pc[r] = "escrita"
  /\ Pasar(r, "leida")
  /\ foto' = [foto EXCEPT ![r] = Leida({op[r].item}, op[r].marca)]
  /\ UNCHANGED op
  /\ SinEscribir

\* ... takes the lock of the order and reads it ...
LeerPedido(r) ==
  /\ pc[r] = "escrita"
  /\ LlaveLibre
  /\ Pasar(r, "leida")
  /\ foto' = [foto EXCEPT ![r] = Leida({op[r].item}, op[r].marca)]
  /\ UNCHANGED op
  /\ SinEscribir

\* ... and writes the state that follows from the items and, when one is
\* cancelled, the total. With neither, the event says what it had read.
ConfirmarItem(r) ==
  LET i == op[r].item
      cancela == op[r].marca = "CANCELADO"
      items == [item EXCEPT ![i] = op[r].marca]
      estado == EstadoNuevo(foto[r].items, foto[r].estado)
      total == IF cancela THEN Vivos(foto[r].items) ELSE comanda.total
      cambia == cancela \/ Derivado(foto[r].items, foto[r].estado) # foto[r].estado
  IN /\ pc[r] = "leida" /\ op[r].tipo = "marcar"
     /\ Confirmar(r, "marcar", items, estado, total,
                  IF cambia THEN Aviso(items, estado, total) ELSE <<foto[r]>>)
     /\ anulaciones' = IF cancela
                       THEN anulaciones \cup {[item |-> i, plato |-> "SIN_PREPARAR", por |-> r]}
                       ELSE anulaciones
     /\ revividos' = IF item[i] \in Cerrados /\ ~cancela THEN revividos \cup {i} ELSE revividos
     /\ restaurados' = {}
     /\ UNCHANGED rechazados
-----------------------------------------------------------------------------
(* anularItemPreparado *)

ElegirPreparado(r, i) ==
  /\ pc[r] = "nueva"
  /\ item[i] \notin Cerrados \cup {"PENDIENTE"}
  /\ Pasar(r, "elegida")
  /\ op' = [op EXCEPT ![r] = [Nada EXCEPT !.tipo = "preparado", !.item = i]]
  /\ UNCHANGED foto
  /\ SinEscribir

LeerPreparado(r) ==
  /\ pc[r] = "elegida" /\ op[r].tipo = "preparado"
  /\ LlaveLibre
  /\ Pasar(r, "leida")
  /\ foto' = [foto EXCEPT ![r] = Leida({}, "PENDIENTE")]
  /\ UNCHANGED op
  /\ SinEscribir

\* The item stays and is charged, or leaves the order.
ConfirmarPreparado(r, cobrar) ==
  LET i == op[r].item
      vivos == Vivos([foto[r].items EXCEPT ![i] = "CANCELADO"])
      items == [item EXCEPT ![i] = "CANCELADO"]
      estado == IF vivos = {} THEN "CANCELADO" ELSE comanda.estado
  IN /\ pc[r] = "leida" /\ op[r].tipo = "preparado"
     /\ IF cobrar
        THEN Confirmar(r, "preparado", item, comanda.estado, comanda.total, <<>>)
        ELSE /\ FilasLibres(r, {i})
             /\ Confirmar(r, "preparado", items, estado, vivos, Aviso(items, estado, vivos))
     /\ anulaciones' = anulaciones \cup {[item |-> i, plato |-> "PREPARADO", por |-> r]}
     /\ restaurados' = {}
     /\ UNCHANGED <<rechazados, revividos>>
-----------------------------------------------------------------------------
(* anularPedido reads the order before it takes its lock, and anularAtencionMesa
   takes the lock of the table instead. Both cancel the items of what they read
   (cancelarItemsDePedido), but those of area DIRECTO that were consumed. *)

LeerParaAnularTodo(r, tipo, consumidos) ==
  /\ pc[r] = "nueva"
  /\ comanda.estado \notin Terminales
  /\ tipo = "mesa" => \A q \in Peticiones : ~(pc[q] = "leida" /\ op[q].tipo = "mesa")
  /\ Pasar(r, "leida")
  /\ op' = [op EXCEPT ![r] = [Nada EXCEPT !.tipo = tipo, !.dato = consumidos]]
  /\ foto' = [foto EXCEPT ![r] = Leida({}, "PENDIENTE")]
  /\ SinEscribir

\* With nothing to cancel the request is refused, unless the order had stayed in
\* a state of production with all its items closed.
AnularTodo(r) ==
  LET leida == foto[r]
      cancelados == Vivos(leida.items) \ op[r].dato
      finales == [i \in Items |-> IF i \in cancelados THEN "CANCELADO" ELSE leida.items[i]]
      vivos == Vivos(finales)
      items == [i \in Items |-> IF i \in cancelados THEN "CANCELADO" ELSE item[i]]
      estado == IF vivos = {} THEN "CANCELADO" ELSE EstadoNuevo(finales, leida.estado)
      plato(i) == IF leida.items[i] = "ENTREGADO" /\ i \notin Directos
                  THEN "PREPARADO" ELSE "SIN_PREPARAR"
  IN /\ pc[r] = "leida" /\ op[r].tipo \in {"anular", "mesa"}
     /\ op[r].tipo = "anular" => LlaveLibre
     /\ cancelados # {} \/ vivos = {}
     /\ FilasLibres(r, cancelados)
     /\ Confirmar(r, op[r].tipo, items, estado, vivos, Aviso(items, estado, vivos))
     /\ anulaciones' = IF op[r].tipo = "mesa" THEN anulaciones
                       ELSE anulaciones \cup
                            {[item |-> i, plato |-> plato(i), por |-> r] : i \in cancelados}
     /\ restaurados' = {}
     /\ UNCHANGED <<rechazados, revividos>>
-----------------------------------------------------------------------------
(* invalidarAnulacion *)

LeerAnulacion(r, fila) ==
  /\ pc[r] = "nueva"
  /\ fila \in anulaciones
  /\ Pasar(r, "elegida")
  /\ op' = [op EXCEPT ![r] =
              [tipo |-> "invalidar", item |-> fila.item, dato |-> {fila},
               marca |-> IF fila.plato = "PREPARADO" THEN "ENTREGADO" ELSE "PENDIENTE"]]
  /\ UNCHANGED foto
  /\ SinEscribir

\* The audit row is updated and the item read: if it is not CANCELADO any more,
\* that is all.
DecidirRestauracion(r) ==
  /\ pc[r] = "elegida" /\ op[r].tipo = "invalidar"
  /\ \A q \in Peticiones :
       ~(pc[q] \in {"decidida", "leida"} /\ op[q].tipo = "invalidar" /\ op[q].dato = op[r].dato)
  /\ IF item[op[r].item] = "CANCELADO"
     THEN Pasar(r, "decidida") /\ UNCHANGED anulaciones
     ELSE Pasar(r, "hecha") /\ anulaciones' = anulaciones \ op[r].dato
  /\ UNCHANGED <<item, comanda, rechazados, op, foto, avisos, facturado, revividos, restaurados,
                 solapado>>

EscribirRestauracion(r) ==
  /\ pc[r] = "decidida"
  /\ LlaveLibre
  /\ FilasLibres(r, {op[r].item})
  /\ Pasar(r, "leida")
  /\ foto' = [foto EXCEPT ![r] = Leida({op[r].item}, op[r].marca)]
  /\ UNCHANGED op
  /\ SinEscribir

ConfirmarRestauracion(r) ==
  LET items == [item EXCEPT ![op[r].item] = op[r].marca]
      estado == EstadoNuevo(foto[r].items, foto[r].estado)
      total == Vivos(foto[r].items)
  IN /\ pc[r] = "leida" /\ op[r].tipo = "invalidar"
     /\ Confirmar(r, "invalidar", items, estado, total, Aviso(items, estado, total))
     /\ anulaciones' = anulaciones \ op[r].dato
     /\ restaurados' = {op[r].item}
     /\ UNCHANGED <<rechazados, revividos>>
-----------------------------------------------------------------------------
(* procesarStockInsuficiente, without any lock *)

RechazarItem(r, i) ==
  /\ pc[r] = "nueva"
  /\ i \in Directos \ rechazados
  /\ \A q \in Peticiones : ~(pc[q] = "leida" /\ op[q].tipo = "sin_stock" /\ op[q].item = i)
  /\ FilasLibres(r, {i})
  /\ Pasar(r, "leida")
  /\ op' = [op EXCEPT ![r] = [Nada EXCEPT !.tipo = "sin_stock", !.item = i,
                                         !.marca = "RECHAZADO_SIN_STOCK"]]
  /\ foto' = [foto EXCEPT ![r] = Leida({i}, "RECHAZADO_SIN_STOCK")]
  /\ SinEscribir

ConfirmarRechazo(r) ==
  LET items == [item EXCEPT ![op[r].item] = "RECHAZADO_SIN_STOCK"]
      todos == \A i \in Items : foto[r].items[i] = "RECHAZADO_SIN_STOCK"
      estado == IF todos /\ foto[r].estado \notin Terminales THEN "RECHAZADO_SIN_STOCK"
                ELSE comanda.estado
      total == Vivos(foto[r].items)
  IN /\ pc[r] = "leida" /\ op[r].tipo = "sin_stock"
     /\ Confirmar(r, "sin_stock", items, estado, total, Aviso(items, estado, total))
     /\ rechazados' = rechazados \cup {op[r].item}
     /\ restaurados' = {}
     /\ UNCHANGED <<anulaciones, revividos>>
-----------------------------------------------------------------------------
Transiciones(estado) ==
  CASE estado = "PENDIENTE"      -> {"EN_PREPARACION", "LISTO", "CANCELADO"}
    [] estado = "EN_PREPARACION" -> {"PENDIENTE", "LISTO", "CANCELADO"}
    [] estado = "LISTO"          -> {"EN_PREPARACION", "ENTREGADO", "CANCELADO"}
    [] estado = "ENTREGADO"      -> {"PAGADO", "CANCELADO"}
    [] OTHER                     -> {}

\* actualizarEstado: a conditional update, which leaves the items alone. The state
\* it already has is accepted, and announced again.
ActualizarEstado(r, estado) ==
  /\ pc[r] = "nueva"
  /\ estado \in Transiciones(comanda.estado) \cup {comanda.estado}
  /\ Confirmar(r, "estado", item, estado, comanda.total, Aviso(item, estado, comanda.total))
  /\ restaurados' = {}
  /\ UNCHANGED <<anulaciones, rechazados, revividos>>

\* procesarPagoRecibido, which announces nothing.
PagarPedido(r) ==
  /\ pc[r] = "nueva"
  /\ comanda.estado \notin Terminales
  /\ Confirmar(r, "pago", item, "PAGADO", comanda.total, <<>>)
  /\ restaurados' = {}
  /\ UNCHANGED <<anulaciones, rechazados, revividos>>

\* A transaction fails, or is refused, or is the victim of a deadlock.
Abortar(r) ==
  /\ pc[r] \notin {"nueva", "hecha"}
  /\ Pasar(r, "hecha")
  /\ UNCHANGED <<op, foto>>
  /\ SinEscribir

\* servicio-cuentas, procesarPedidoActualizado: the key is what the order says, so
\* an order that says again what it said once is a repeated event. (The items go
\* into the key in the order the database lists them, which updates may change.)
ConsumirAviso(aplica) ==
  /\ avisos # <<>>
  /\ aplica \/ Head(avisos) \in huellas
  /\ Head(avisos) \in huellas /\ aplica => Cardinality(Items) > 1
  /\ avisos' = Tail(avisos)
  /\ huellas' = huellas \cup {Head(avisos)}
  /\ enLaCuenta' = IF aplica THEN Head(avisos) ELSE enLaCuenta
  /\ UNCHANGED <<orden, tramite, revividos, restaurados, solapado>>

ComandaNext ==
  \/ \E r \in Peticiones, i \in Items, marca \in Marcas : EscribirItem(r, i, marca)
  \/ \E r \in Peticiones : LeerPedido(r)
  \/ \E r \in Peticiones : ConfirmarItem(r)
  \/ \E r \in Peticiones, i \in Items : ElegirPreparado(r, i)
  \/ \E r \in Peticiones : LeerPreparado(r)
  \/ \E r \in Peticiones, cobrar \in BOOLEAN : ConfirmarPreparado(r, cobrar)
  \/ \E r \in Peticiones, tipo \in {"anular", "mesa"}, consumidos \in SUBSET Directos :
       LeerParaAnularTodo(r, tipo, consumidos)
  \/ \E r \in Peticiones : AnularTodo(r)
  \/ \E r \in Peticiones, fila \in anulaciones : LeerAnulacion(r, fila)
  \/ \E r \in Peticiones : DecidirRestauracion(r)
  \/ \E r \in Peticiones : EscribirRestauracion(r)
  \/ \E r \in Peticiones : ConfirmarRestauracion(r)
  \/ \E r \in Peticiones, i \in Directos : RechazarItem(r, i)
  \/ \E r \in Peticiones : ConfirmarRechazo(r)
  \/ \E r \in Peticiones, estado \in Produccion \cup {"ENTREGADO", "PAGADO", "CANCELADO"} :
       ActualizarEstado(r, estado)
  \/ \E r \in Peticiones : PagarPedido(r)
  \/ \E r \in Peticiones : Abortar(r)
  \/ \E aplica \in BOOLEAN : ConsumirAviso(aplica)

ComandaSpec == ComandaInit /\ [][ComandaNext]_comandaVars
=============================================================================
