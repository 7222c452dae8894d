-------------------------------- MODULE Stock --------------------------------
(***************************************************************************)
(* The stock of one product of area INVENTARIO, kept twice: the real one   *)
(* (productos, servicio-inventario) and the projection that accepts orders *)
(* (productos_locales, servicio-pedidos).  Orders reserve in the           *)
(* projection; their event discounts the real stock, or is compensated     *)
(* with StockInsuficiente; cancellations, purchases, adjustments and waste *)
(* move the real stock and tell the projection with producto.actualizado.  *)
(*                                                                         *)
(* Products do not share rows, locks or keys, so one stands for all, and   *)
(* each order has a table of its own. A row of either outbox can be        *)
(* delivered from the commit on, in any order and any number of times      *)
(* (module Outbox), and the consumers drop what they have a key for. An    *)
(* item of area DIRECTO is born delivered; its states other than cancelled *)
(* and rejected count as VIVA.                                             *)
(***************************************************************************)
EXTENDS Integers, FiniteSets, Functions

CONSTANTS
  Lineas,       \* order items, all of this product
  Pedidos,
  PedidoDe,     \* the order of each item
  Cantidad,     \* the quantity of each item
  Inicial,      \* stock the product is created with
  Ajustes,      \* deltas of PATCH productos/:id/stock
  Compras,      \* receptions of this product sent by servicio-compras
  Recibido,     \* the quantity of each reception
  Mermas,       \* rows of mermas entered by hand
  Editores,     \* requests that correct or delete a row of mermas
  Perdidas,     \* quantities of a waste
  MaxGestiones, \* bound: changes asked for after an order is created
  MaxManual,    \* bound: adjustments, wastes and corrections
  SinFila       \* no row in the projection

Origenes == {"anulacion-pedido", "anulacion-mesa"}

\* The idempotency keys of orders, receptions and items given back are distinct.
ASSUME StockAssumption ==
  /\ IsFiniteSet(Lineas)
  /\ Pedidos \cap Compras = {}
  /\ (Pedidos \cup Compras) \cap (Lineas \X Origenes) = {}
  /\ PedidoDe \in [Lineas -> Pedidos]
  /\ Cantidad \in [Lineas -> Nat \ {0}]
  /\ Inicial \in Nat
  /\ Ajustes \subseteq Int \ {0}
  /\ Recibido \in [Compras -> Nat \ {0}]
  /\ Perdidas \subseteq Nat \ {0}
  /\ MaxGestiones \in Nat
  /\ MaxManual \in Nat
  /\ SinFila \notin Int

VARIABLES
  \* servicio-pedidos
  local,        \* productos_locales.stockActual, SinFila before the row exists
  vista,        \* per order: the stock a cold start has fetched and not saved
  pedido,       \* state of the order, NUEVO before it is created
  linea,        \* state of the item
  anulable,     \* items with an audit record of type ITEM not invalidated yet
  anulando,     \* cancellations in progress, with the live items each one read
  aplicados,    \* idempotency keys: ids of product events
  compensados,  \* idempotency keys: orders whose StockInsuficiente was applied
  gestiones,
  \* servicio-inventario
  stock,        \* productos.stockActual
  merma,        \* cantidad of each row of mermas, 0 for no row
  lectura,      \* per editor: the row of mermas it read before the lock
  procesados,   \* idempotency keys: orders, receptions and <<item, origin>>
  manuales,
  \* Committed to an outbox:
  eventos,      \* producto.creado and producto.actualizado, by id
  restaurar,    \* stock.restaurado: <<item, origin>>
  insuficiente, \* stock.insuficiente: orders
  \* History, read by properties only:
  descontadas,  \* items whose quantity was discounted
  ajustado,     \* net effect of the adjustments on the real stock
  mermado,      \* net effect of the waste rows on the real stock
  desviado      \* the projection missed a loss, or was built from a snapshot

pedidos    == <<local, vista, pedido, linea, anulable, anulando, aplicados, compensados,
                gestiones>>
inventario == <<stock, merma, lectura, procesados, manuales>>
historia   == <<descontadas, ajustado, mermado, desviado>>
vars == <<pedidos, inventario, eventos, restaurar, insuficiente, historia>>

Nadie == [fila |-> "ninguna", cantidad |-> 0]

De(p) == {i \in Lineas : PedidoDe[i] = p}
Suma(S) == SumFunctionOnSet(Cantidad, S)

\* The update of the product and its event, delta as the projection will use it.
Evento(delta, foto) ==
  eventos' = eventos \cup
    {[id |-> Cardinality(eventos) + 1, delta |-> delta, foto |-> foto]}

Init ==
  /\ local = SinFila
  /\ vista = [p \in Pedidos |-> SinFila]
  /\ pedido = [p \in Pedidos |-> "NUEVO"]
  /\ linea = [i \in Lineas |-> "VIVA"]
  /\ anulable = {}
  /\ anulando = {}
  /\ aplicados = {}
  /\ compensados = {}
  /\ gestiones = 0
  /\ stock = Inicial
  /\ merma = [m \in Mermas |-> 0]
  /\ lectura = [u \in Editores |-> Nadie]
  /\ procesados = {}
  /\ manuales = 0
  /\ eventos = {[id |-> 1, delta |-> 0, foto |-> Inicial]}   \* producto.creado
  /\ restaurar = {}
  /\ insuficiente = {}
  /\ descontadas = {}
  /\ ajustado = 0
  /\ mermado = 0
  /\ desviado = FALSE
-----------------------------------------------------------------------------
(* servicio-pedidos: creation of an order *)

\* asegurarProductosLocales finds no row and asks servicio-inventario ...
LeerRemoto(p) ==
  /\ pedido[p] = "NUEVO"
  /\ local = SinFila
  /\ vista[p] = SinFila
  /\ vista' = [vista EXCEPT ![p] = stock]
  /\ UNCHANGED <<gestiones, local, pedido, linea, anulable, anulando, aplicados,
                 compensados, inventario, eventos, restaurar, insuficiente, historia>>

\* ... and saves the answer over whatever is there by then.
GuardarLocal(p) ==
  /\ vista[p] # SinFila
  /\ local' = vista[p]
  /\ vista' = [vista EXCEPT ![p] = SinFila]
  /\ desviado' = TRUE
  /\ UNCHANGED <<gestiones, pedido, linea, anulable, anulando, aplicados, compensados,
                 inventario, eventos, restaurar, insuficiente, descontadas, ajustado,
                 mermado>>

\* Defect: the projection is checked but not reduced.
PersistirSinReservar(p) ==
  /\ pedido[p] = "NUEVO"
  /\ vista[p] = SinFila
  /\ local # SinFila
  /\ local >= Suma(De(p))
  /\ pedido' = [pedido EXCEPT ![p] = "ENTREGADO"]
  /\ UNCHANGED <<gestiones, local, vista, linea, anulable, anulando, aplicados,
                 compensados, inventario, eventos, restaurar, insuficiente, historia>>

\* Defect: the reservation does not check that there is enough.
PersistirSinSaldo(p) ==
  /\ pedido[p] = "NUEVO"
  /\ vista[p] = SinFila
  /\ local # SinFila
  /\ local' = local - Suma(De(p))
  /\ pedido' = [pedido EXCEPT ![p] = "ENTREGADO"]
  /\ UNCHANGED <<gestiones, vista, linea, anulable, anulando, aplicados, compensados,
                 inventario, eventos, restaurar, insuficiente, historia>>

\* persistirPedido: reserves the sum of its items in one conditional update.
PersistirPedido(p) ==
  /\ pedido[p] = "NUEVO"
  /\ vista[p] = SinFila
  /\ local # SinFila
  /\ local >= Suma(De(p))
  /\ local' = local - Suma(De(p))
  /\ pedido' = [pedido EXCEPT ![p] = "ENTREGADO"]
  /\ UNCHANGED <<gestiones, vista, linea, anulable, anulando, aplicados, compensados,
                 inventario, eventos, restaurar, insuficiente, historia>>
-----------------------------------------------------------------------------
(* servicio-pedidos: life of the order *)

Gestion ==
  /\ gestiones < MaxGestiones
  /\ gestiones' = gestiones + 1

\* PATCH items/:id/estado, from any state to any state.  No event of this
\* handler reaches the stock.
ActualizarEstadoItem(i, e) ==
  /\ Gestion
  /\ pedido[PedidoDe[i]] # "NUEVO"
  /\ linea' = [linea EXCEPT ![i] = e]
  /\ anulable' = IF e = "CANCELADO" THEN anulable \cup {i} ELSE anulable
  /\ UNCHANGED <<local, vista, pedido, anulando, aplicados, compensados, inventario,
                 eventos, restaurar, insuficiente, historia>>

Cerrada(i) == linea[i] # "VIVA"

\* POST items/:id/anular-preparado without charging it: a loss, no stock back.
\* (The waste row that inventory writes for it moves no stock: not modelled.)
AnularItemPreparado(i) ==
  LET p == PedidoDe[i]
  IN /\ Gestion
     /\ pedido[p] # "NUEVO"
     /\ linea[i] = "VIVA"
     /\ linea' = [linea EXCEPT ![i] = "CANCELADO"]
     /\ anulable' = anulable \cup {i}
     /\ pedido' = IF \A j \in De(p) \ {i} : Cerrada(j)
                  THEN [pedido EXCEPT ![p] = "CANCELADO"] ELSE pedido
     /\ UNCHANGED <<local, vista, anulando, aplicados, compensados, inventario,
                    eventos, restaurar, insuficiente, historia>>

\* Payment of the bill, or PATCH :id/estado.
CerrarPedido(p, e) ==
  /\ Gestion
  /\ pedido[p] = "ENTREGADO"
  /\ pedido' = [pedido EXCEPT ![p] = e]
  /\ UNCHANGED <<local, vista, linea, anulable, anulando, aplicados, compensados,
                 inventario, eventos, restaurar, insuficiente, historia>>

\* anularPedido reads the order before its lock, and anularAtencionMesa under
\* the lock of the table: neither keeps the other out ...
LeerParaAnular(p, o) ==
  /\ Gestion
  /\ pedido[p] = "ENTREGADO"
  /\ \A a \in anulando : a.pedido # p \/ a.origen # o
  /\ anulando' = anulando \cup {[pedido |-> p, origen |-> o,
                                 vivas |-> {i \in De(p) : ~Cerrada(i)}]}
  /\ UNCHANGED <<local, vista, pedido, linea, anulable, aplicados, compensados,
                 inventario, eventos, restaurar, insuficiente, historia>>

\* ... and cancels what it read as live and nobody consumed, giving it back.
CancelarItems(a, consumidas) ==
  LET canceladas == a.vivas \ consumidas
  IN /\ a \in anulando
     /\ anulando' = anulando \ {a}
     /\ canceladas # {} \/ a.vivas = {}       \* otherwise 400
     /\ linea' = [i \in Lineas |-> IF i \in canceladas THEN "CANCELADO" ELSE linea[i]]
     /\ pedido' = IF canceladas = a.vivas
                  THEN [pedido EXCEPT ![a.pedido] = "CANCELADO"] ELSE pedido
     /\ anulable' = IF a.origen = "anulacion-pedido" THEN anulable \cup canceladas
                    ELSE anulable
     /\ restaurar' = restaurar \cup {<<i, a.origen>> : i \in canceladas}
     /\ UNCHANGED <<gestiones, local, vista, aplicados, compensados, inventario,
                    eventos, insuficiente, historia>>

\* The request fails or is refused, and its transaction is rolled back.
AbandonarAnulacion(a) ==
  /\ a \in anulando
  /\ anulando' = anulando \ {a}
  /\ UNCHANGED <<gestiones, local, vista, pedido, linea, anulable, aplicados,
                 compensados, inventario, eventos, restaurar, insuficiente, historia>>

\* POST anulaciones/:id/invalidar: the item lives again; the stock given back
\* for it is not taken again, and the order keeps its state.
InvalidarAnulacion(i) ==
  /\ Gestion
  /\ i \in anulable
  /\ anulable' = anulable \ {i}
  /\ linea' = IF linea[i] = "CANCELADO" THEN [linea EXCEPT ![i] = "VIVA"] ELSE linea
  /\ UNCHANGED <<local, vista, pedido, anulando, aplicados, compensados, inventario,
                 eventos, restaurar, insuficiente, historia>>
-----------------------------------------------------------------------------
(* servicio-pedidos: events of servicio-inventario *)

\* Defect: the whole stock of the event is copied, instead of adding its delta.
ProcesarProductoAbsoluto(m) ==
  /\ m.id \notin aplicados
  /\ aplicados' = aplicados \cup {m.id}
  /\ local' = IF m.delta > 0 \/ local = SinFila THEN m.foto ELSE local
  /\ desviado' = (desviado \/ (local = SinFila /\ m.id # 1))
  /\ UNCHANGED <<gestiones, vista, pedido, linea, anulable, anulando, compensados,
                 inventario, eventos, restaurar, insuficiente, descontadas, ajustado,
                 mermado>>

\* procesarEventoProducto: the first event creates the row with the stock it
\* carries; on a row that exists only replenishments count, as deltas.
ProcesarProducto(m) ==
  /\ m.id \notin aplicados
  /\ aplicados' = aplicados \cup {m.id}
  /\ local' = IF local = SinFila THEN m.foto ELSE local + m.delta
  /\ desviado' = (desviado \/ (local = SinFila /\ m.id # 1))
  /\ UNCHANGED <<gestiones, vista, pedido, linea, anulable, anulando, compensados,
                 inventario, eventos, restaurar, insuficiente, descontadas, ajustado,
                 mermado>>

\* Defect: an order that is already paid or cancelled is not compensated.
CompensarSoloActivos(p) ==
  /\ p \in insuficiente \ compensados
  /\ pedido[p] = "ENTREGADO"
  /\ compensados' = compensados \cup {p}
  /\ linea' = [i \in Lineas |-> IF i \in De(p) THEN "RECHAZADO" ELSE linea[i]]
  /\ pedido' = [pedido EXCEPT ![p] = "RECHAZADO"]
  /\ UNCHANGED <<gestiones, local, vista, anulable, anulando, aplicados, inventario,
                 eventos, restaurar, insuficiente, historia>>

\* All the items of the order with this product, whatever their state.
ProcesarStockInsuficiente(p) ==
  /\ p \in insuficiente \ compensados
  /\ compensados' = compensados \cup {p}
  /\ linea' = [i \in Lineas |-> IF i \in De(p) THEN "RECHAZADO" ELSE linea[i]]
  /\ pedido' = IF pedido[p] \in {"PAGADO", "CANCELADO"} THEN pedido
               ELSE [pedido EXCEPT ![p] = "RECHAZADO"]
  /\ UNCHANGED <<gestiones, local, vista, anulable, anulando, aplicados, inventario,
                 eventos, restaurar, insuficiente, historia>>
-----------------------------------------------------------------------------
(* servicio-inventario: events *)

\* Defect: no idempotency key.
ProcesarPedidoSinClave(p, S) ==
  /\ pedido[p] # "NUEVO"
  /\ S \subseteq De(p)
  /\ Suma(S) <= stock
  /\ \A i \in De(p) \ S : Cantidad[i] > stock - Suma(S)
  /\ stock' = stock - Suma(S)
  /\ descontadas' = descontadas \cup S
  /\ insuficiente' = IF S = De(p) THEN insuficiente ELSE insuficiente \cup {p}
  /\ procesados' = procesados \cup {p}
  /\ UNCHANGED <<pedidos, merma, lectura, manuales, eventos, restaurar, ajustado,
                 mermado, desviado>>

\* Defect: the update asks for more stock than the item takes (gt, not gte).
ProcesarPedidoEstricto(p, S) ==
  /\ pedido[p] # "NUEVO"
  /\ p \notin procesados
  /\ S \subseteq De(p)
  /\ S = {} \/ Suma(S) < stock
  /\ \A i \in De(p) \ S : Cantidad[i] >= stock - Suma(S)
  /\ stock' = stock - Suma(S)
  /\ descontadas' = descontadas \cup S
  /\ insuficiente' = IF S = De(p) THEN insuficiente ELSE insuficiente \cup {p}
  /\ procesados' = procesados \cup {p}
  /\ UNCHANGED <<pedidos, merma, lectura, manuales, eventos, restaurar, ajustado,
                 mermado, desviado>>

\* procesarPedidoCreado: each item is discounted if the stock left allows it,
\* in any order; S are those that were.  (The events with the new stock change
\* nothing in a projection that already has the row.)
ProcesarPedidoCreado(p, S) ==
  /\ pedido[p] # "NUEVO"
  /\ p \notin procesados
  /\ S \subseteq De(p)
  /\ Suma(S) <= stock
  /\ \A i \in De(p) \ S : Cantidad[i] > stock - Suma(S)
  /\ stock' = stock - Suma(S)
  /\ descontadas' = descontadas \cup S
  /\ insuficiente' = IF S = De(p) THEN insuficiente ELSE insuficiente \cup {p}
  /\ procesados' = procesados \cup {p}
  /\ UNCHANGED <<pedidos, merma, lectura, manuales, eventos, restaurar, ajustado,
                 mermado, desviado>>

\* Defect: the stock comes back without telling the projection.
RestaurarSinEvento(x) ==
  /\ x \in restaurar \ procesados
  /\ procesados' = procesados \cup {x}
  /\ stock' = stock + Cantidad[x[1]]
  /\ UNCHANGED <<pedidos, merma, lectura, manuales, eventos, restaurar, insuficiente,
                 historia>>

ProcesarStockRestaurado(x) ==
  /\ x \in restaurar \ procesados
  /\ procesados' = procesados \cup {x}
  /\ stock' = stock + Cantidad[x[1]]
  /\ Evento(Cantidad[x[1]], stock')
  /\ UNCHANGED <<pedidos, merma, lectura, manuales, restaurar, insuficiente,
                 historia>>

ProcesarCompraRecibida(c) ==
  /\ c \in Compras \ procesados
  /\ procesados' = procesados \cup {c}
  /\ stock' = stock + Recibido[c]
  /\ Evento(Recibido[c], stock')
  /\ UNCHANGED <<pedidos, merma, lectura, manuales, restaurar, insuficiente,
                 historia>>
-----------------------------------------------------------------------------
(* servicio-inventario: operators *)

Manual ==
  /\ manuales < MaxManual
  /\ manuales' = manuales + 1

\* A change of the stock made by hand; only a replenishment has a delta for
\* the projection.
Mover(nuevo, delta) ==
  /\ stock' = nuevo
  /\ Evento(delta, nuevo)
  /\ desviado' = (desviado \/ delta = 0)

\* PATCH productos/:id/stock; the event of a negative delta is CONSUMO_PEDIDO.
ActualizarStock(d) ==
  LET nuevo == IF stock + d < 0 THEN 0 ELSE stock + d
  IN /\ Manual
     /\ Mover(nuevo, IF d > 0 THEN d ELSE 0)
     /\ ajustado' = ajustado + nuevo - stock
     /\ UNCHANGED <<pedidos, merma, lectura, procesados, restaurar, insuficiente,
                    descontadas, mermado>>

RegistrarMerma(m, n) ==
  /\ Manual
  /\ merma[m] = 0
  /\ \A u \in Editores : lectura[u].fila # m      \* a row of its own
  /\ n <= stock
  /\ Mover(stock - n, 0)
  /\ merma' = [merma EXCEPT ![m] = n]
  /\ mermado' = mermado + n
  /\ UNCHANGED <<pedidos, lectura, procesados, restaurar, insuficiente, descontadas,
                 ajustado>>

\* actualizarMerma and eliminarMerma read the row before they take the lock of
\* the product ...
LeerMerma(u, m) ==
  /\ Manual
  /\ merma[m] # 0
  /\ lectura[u] = Nadie
  /\ lectura' = [lectura EXCEPT ![u] = [fila |-> m, cantidad |-> merma[m]]]
  /\ UNCHANGED <<pedidos, stock, merma, procesados, eventos, restaurar, insuficiente,
                 historia>>

\* ... and the correction moves the stock by the difference with what they read.
ActualizarMerma(u, n) ==
  LET m == lectura[u].fila
      diferencia == n - lectura[u].cantidad
  IN /\ lectura[u] # Nadie
     /\ merma[m] # 0
     /\ stock - diferencia >= 0
     /\ merma' = [merma EXCEPT ![m] = n]
     /\ lectura' = [lectura EXCEPT ![u] = Nadie]
     /\ IF diferencia = 0
        THEN UNCHANGED <<stock, eventos, desviado>>
        ELSE Mover(stock - diferencia, 0)
     /\ mermado' = mermado + diferencia
     /\ UNCHANGED <<pedidos, procesados, manuales, restaurar, insuficiente,
                    descontadas, ajustado>>

EliminarMerma(u) ==
  LET m == lectura[u].fila
      n == lectura[u].cantidad
  IN /\ lectura[u] # Nadie
     /\ merma[m] # 0
     /\ merma' = [merma EXCEPT ![m] = 0]
     /\ lectura' = [lectura EXCEPT ![u] = Nadie]
     /\ Mover(stock + n, n)
     /\ mermado' = mermado - n
     /\ UNCHANGED <<pedidos, procesados, manuales, restaurar, insuficiente,
                    descontadas, ajustado>>

\* The row is gone, there is no stock for the difference, or the process dies.
AbandonarMerma(u) ==
  /\ lectura[u] # Nadie
  /\ lectura' = [lectura EXCEPT ![u] = Nadie]
  /\ UNCHANGED <<pedidos, stock, merma, procesados, manuales, eventos, restaurar,
                 insuficiente, historia>>
-----------------------------------------------------------------------------
\* What the brokers owe: every committed event is delivered.
Entregar ==
  \/ \E m \in eventos : ProcesarProducto(m)
  \/ \E p \in Pedidos : ProcesarStockInsuficiente(p)
  \/ \E p \in Pedidos, S \in SUBSET Lineas : ProcesarPedidoCreado(p, S)
  \/ \E x \in restaurar : ProcesarStockRestaurado(x)
  \/ \E c \in Compras : ProcesarCompraRecibida(c)

Atender ==
  \/ \E p \in Pedidos :
       \/ LeerRemoto(p) \/ GuardarLocal(p) \/ PersistirPedido(p)
       \/ \E e \in {"PAGADO", "CANCELADO"} : CerrarPedido(p, e)
       \/ \E o \in Origenes : LeerParaAnular(p, o)
  \/ \E i \in Lineas :
       \/ AnularItemPreparado(i) \/ InvalidarAnulacion(i)
       \/ \E e \in {"VIVA", "CANCELADO", "RECHAZADO"} : ActualizarEstadoItem(i, e)
  \/ \E a \in anulando :
       \/ AbandonarAnulacion(a)
       \/ \E consumidas \in SUBSET Lineas : CancelarItems(a, consumidas)

Administrar ==
  \/ \E d \in Ajustes : ActualizarStock(d)
  \/ \E m \in Mermas :
       \/ \E n \in Perdidas : RegistrarMerma(m, n)
       \/ \E u \in Editores : LeerMerma(u, m)
  \/ \E u \in Editores :
       \/ EliminarMerma(u) \/ AbandonarMerma(u)
       \/ \E n \in Perdidas : ActualizarMerma(u, n)

Next == Entregar \/ Atender \/ Administrar

Spec == Init /\ [][Next]_vars

\* Dead letters are injected again (ADR-008): delivery is fair.
FairSpec == Spec /\ WF_vars(Entregar)
=============================================================================
