-------------------------------- MODULE Salon --------------------------------
(***************************************************************************)
(* One table of the restaurant through its successive attentions: the row  *)
(* of the table (servicio-mesas), its bills (servicio-cuentas) and its     *)
(* orders (servicio-pedidos), which only know of each other by events and  *)
(* by best-effort HTTP calls.                                              *)
(*                                                                         *)
(* Tables share no rows, locks or keys, so one stands for all; groups of   *)
(* joined tables are left out. Orders have one item. A row of an outbox    *)
(* can be delivered from the commit on, in any order and any number of     *)
(* times (module Outbox), or never; only the handlers of servicio-cuentas  *)
(* for orders and of servicio-pedidos for payments have idempotency keys.  *)
(* The creation times that the handlers compare are the order in which the *)
(* rows were created.                                                      *)
(***************************************************************************)
EXTENDS Integers, FiniteSets

CONSTANTS
  Cuentas,        \* bills of the table, in the order they are opened
  Pedidos,        \* orders of the table, in the order they are created
  Listos,         \* bound: orders that change while they have items to charge
  Ninguna,        \* no bill (null)
  Igual           \* cuentaAsociada not given (undefined): leave the bill alone

ASSUME SalonAssumption ==
  /\ Cuentas \subseteq Nat
  /\ Pedidos \subseteq Nat
  /\ Listos \subseteq Pedidos
  /\ Ninguna \notin Cuentas
  /\ Igual \notin Cuentas \cup {Ninguna}

VARIABLES
  \* servicio-mesas
  mesa,        \* [estado, cuenta]: estado and cuentaAsociada of the row
  \* servicio-cuentas
  cuenta,      \* state of each bill
  snapshot,    \* per bill: the orders in it, as of the last event about each
  previos,     \* per bill: orders older than it, but the one it was opened for
  claves,      \* idempotency keys of order events
  porCancelar, \* the bill the cron has found without its table, if any
  adelantados, \* history: orders whose change arrived before their creation
  \* servicio-pedidos
  pedido,      \* state of each order
  asociada,    \* cuentaId of each order
  saldadas,    \* idempotency keys: bills whose payment marked the orders
  porAnular,   \* cascades that have yet to call POST cuentas/:id/cancelar
  \* outboxes
  fotos,       \* mesa.actualizada: the bills the table has shown, now or before
  consolidado, \* cuenta.asociada: the bill that took each order
  pagadas      \* pago.registrado with nothing pending

ordenes == <<pedido, asociada, saldadas, porAnular>>
libros  == <<cuenta, snapshot, previos, claves, adelantados>>
colas   == <<fotos, consolidado, pagadas>>
vars    == <<mesa, ordenes, libros, porCancelar, colas>>

Init ==
  /\ mesa = [estado |-> "LIBRE", cuenta |-> Ninguna]
  /\ cuenta = [c \in Cuentas |-> "SIN_ABRIR"]
  /\ snapshot = [c \in Cuentas |-> [p \in Pedidos |-> "NO"]]
  /\ previos = [c \in Cuentas |-> {}]
  /\ claves = {}
  /\ porCancelar = Ninguna
  /\ adelantados = {}
  /\ pedido = [p \in Pedidos |-> "NUEVO"]
  /\ asociada = [p \in Pedidos |-> Ninguna]
  /\ saldadas = {}
  /\ porAnular = {}
  /\ fotos = {Ninguna}            \* it was free once
  /\ consolidado = [p \in Pedidos |-> Ninguna]
  /\ pagadas = {}

Creados == {p \in Pedidos : pedido[p] # "NUEVO"}
Abiertas == {c \in Cuentas : cuenta[c] = "ABIERTA"}
-----------------------------------------------------------------------------
(* servicio-mesas *)

\* actualizarEstado. It reads the row outside the transaction that writes it, if
\* the state is still the one read: the outcome is that of doing both at the
\* write, or a 409 that changes nothing and that a consumer takes for final.
ActualizarMesa(estado, c) ==
  LET nueva == IF c = Igual THEN mesa.cuenta ELSE c
  IN IF mesa.estado = estado /\ nueva = mesa.cuenta
     THEN UNCHANGED <<mesa, fotos>>
     ELSE /\ mesa' = [estado |-> estado, cuenta |-> nueva]
          /\ fotos' = fotos \cup {nueva}

HandleCuentaAbierta(c) ==
  /\ cuenta[c] # "SIN_ABRIR"
  /\ ActualizarMesa("OCUPADA", c)
  /\ UNCHANGED <<ordenes, libros, porCancelar, consolidado, pagadas>>

HandleCuentaCerrada(c) ==
  /\ cuenta[c] = "CERRADA"
  /\ ActualizarMesa("LIBRE", Ninguna)
  /\ UNCHANGED <<ordenes, libros, porCancelar, consolidado, pagadas>>

\* PATCH :id/estado, with or without cuentaAsociada: by the staff, at any time,
\* or by servicio-pedidos when a cascade has cancelled its orders (liberarMesa).
CambiarMesa(estado, c) ==
  /\ ActualizarMesa(estado, c)
  /\ UNCHANGED <<ordenes, libros, porCancelar, consolidado, pagadas>>
-----------------------------------------------------------------------------
(* servicio-cuentas: every operation holds the lock of the table *)

\* A new row, younger than every order of the table there is.
NuevaCuenta(c, mayores) ==
  /\ cuenta[c] = "SIN_ABRIR"
  /\ \A d \in Cuentas : d < c => cuenta[d] # "SIN_ABRIR"
  /\ cuenta' = [cuenta EXCEPT ![c] = "ABIERTA"]
  /\ previos' = [previos EXCEPT ![c] = mayores]

AbrirCuenta(c) ==
  /\ Abiertas = {}
  /\ NuevaCuenta(c, Creados)
  /\ UNCHANGED <<mesa, ordenes, snapshot, claves, adelantados,
                 porCancelar, colas>>

EnCuenta(c, p) == snapshot[c][p] # "NO"

Pendiente(evento, p) ==
  /\ p \in Creados
  /\ <<evento, p>> \notin claves
  /\ claves' = claves \cup {<<evento, p>>}
  /\ UNCHANGED <<mesa, ordenes, porCancelar, fotos, pagadas>>

\* Defect: the bill of the order is announced before its age is looked at.
DescartarYAsociar(p, c) ==
  /\ Pendiente("creado", p)
  /\ c \in Abiertas
  /\ p \in previos[c]
  /\ consolidado' = [consolidado EXCEPT ![p] = c]
  /\ UNCHANGED <<cuenta, snapshot, previos, adelantados>>

\* pedido.creado of an order older than the open bill: dropped.
DescartarCreado(p, c) ==
  /\ Pendiente("creado", p)
  /\ c \in Abiertas
  /\ p \in previos[c]
  /\ UNCHANGED <<cuenta, snapshot, previos, adelantados, consolidado>>

\* The order enters bill c, as it was created, unless it is there.
Consolidar(p, c) ==
  /\ snapshot' = IF EnCuenta(c, p) THEN snapshot
                 ELSE [snapshot EXCEPT ![c][p] = "VIVO"]
  /\ consolidado' = [consolidado EXCEPT ![p] = c]
  /\ adelantados' = IF \E foto \in {"VIVO", "ANULADO"} : <<foto, p>> \in claves
                    THEN adelantados \cup {p} ELSE adelantados

\* Defect: an order that comes again is added again, to the bill of the moment.
PedidoCreadoSinClave(p, c) ==
  /\ p \in Creados
  /\ claves' = claves \cup {<<"creado", p>>}
  /\ UNCHANGED <<mesa, ordenes, porCancelar, fotos, pagadas>>
  /\ Consolidar(p, c)
  /\ \/ /\ c \in Abiertas
        /\ p \notin previos[c]
        /\ UNCHANGED <<cuenta, previos>>
     \/ /\ Abiertas = {}
        /\ NuevaCuenta(c, Creados \ {p})

\* procesarPedidoCreado: into the open bill, or into one opened for it.
PedidoCreado(p, c) ==
  /\ Pendiente("creado", p)
  /\ Consolidar(p, c)
  /\ \/ /\ c \in Abiertas
        /\ p \notin previos[c]
        /\ UNCHANGED <<cuenta, previos>>
     \/ /\ Abiertas = {}
        /\ NuevaCuenta(c, Creados \ {p})

\* procesarPedidoActualizado, of an order with items to charge, as when one is
\* ready, or without: it is put in the open bill, if there is one, even when its
\* creation has yet to come. The key is what the event says.
PedidoActualizado(p, foto) ==
  /\ Pendiente(foto, p)
  /\ IF foto = "ANULADO" THEN pedido[p] = "ANULADO" ELSE p \in Listos
  /\ snapshot' = [c \in Cuentas |->
       IF cuenta[c] = "ABIERTA" /\ (EnCuenta(c, p) \/ p \notin previos[c])
       THEN [snapshot[c] EXCEPT ![p] = foto] ELSE snapshot[c]]
  /\ UNCHANGED <<cuenta, previos, adelantados, consolidado>>

\* cerrarCuenta: by HTTP from servicio-caja or the staff, or by pago.registrado;
\* it does not ask whether the bill is paid.
CerrarCuenta(c) ==
  /\ cuenta[c] = "ABIERTA"
  /\ \E p \in Pedidos : EnCuenta(c, p)
  /\ cuenta' = [cuenta EXCEPT ![c] = "CERRADA"]
  /\ UNCHANGED <<mesa, ordenes, snapshot, previos, claves, adelantados,
                 porCancelar, colas>>

\* Defect: a bill is cancelled whatever its state.
CancelarSiempre(c) == cuenta' = [cuenta EXCEPT ![c] = "CANCELADA"]

\* cancelarCuenta: an open bill; cuenta.cancelada has no consumer.
Cancelar(c) == cuenta' = IF cuenta[c] = "ABIERTA" THEN [cuenta EXCEPT ![c] = "CANCELADA"]
                         ELSE cuenta

\* procesarMesaActualizada: the open bill that the table did not show.
MesaActualizada(foto) ==
  /\ foto \in fotos
  /\ cuenta' = [c \in Cuentas |-> IF c \in Abiertas \ {foto} THEN "CANCELADA" ELSE cuenta[c]]
  /\ UNCHANGED <<mesa, ordenes, snapshot, previos, claves, adelantados,
                 porCancelar, colas>>

\* Defect: only the bills whose table is free.
RevisarSoloLibres(c) ==
  /\ porCancelar = Ninguna
  /\ c \in Abiertas
  /\ mesa.cuenta = Ninguna
  /\ porCancelar' = c
  /\ UNCHANGED <<mesa, ordenes, libros, colas>>

\* The cron asks servicio-mesas for the table of an open bill ...
RevisarHuerfana(c) ==
  /\ porCancelar = Ninguna
  /\ c \in Abiertas
  /\ mesa.cuenta # c
  /\ porCancelar' = c
  /\ UNCHANGED <<mesa, ordenes, libros, colas>>

\* ... and cancels the bill.
CancelarHuerfana(c) ==
  /\ porCancelar = c
  /\ porCancelar' = Ninguna
  /\ Cancelar(c)
  /\ UNCHANGED <<mesa, ordenes, snapshot, previos, claves, adelantados,
                 colas>>
-----------------------------------------------------------------------------
(* servicio-pedidos *)

CrearPedido(p) ==
  /\ pedido[p] = "NUEVO"
  /\ \A q \in Pedidos : q < p => q \in Creados
  /\ pedido' = [pedido EXCEPT ![p] = "VIVO"]
  /\ UNCHANGED <<mesa, libros, porCancelar, asociada, saldadas, porAnular,
                 colas>>

\* procesarCuentaAsociada
CuentaAsociada(p) ==
  /\ consolidado[p] # Ninguna
  /\ asociada' = [asociada EXCEPT ![p] = consolidado[p]]
  /\ UNCHANGED <<mesa, libros, porCancelar, pedido, saldadas, porAnular,
                 colas>>

\* anularPedido: the cascade starts if every order that knows it belongs to the
\* same bill is cancelled.
AnularPedido(p) ==
  LET c == asociada[p]
      todo == c # Ninguna /\ \A q \in Pedidos \ {p} : asociada[q] = c => pedido[q] = "ANULADO"
  IN /\ pedido[p] = "VIVO"
     /\ pedido' = [pedido EXCEPT ![p] = "ANULADO"]
     /\ porAnular' = IF todo THEN porAnular \cup {c} ELSE porAnular
     /\ UNCHANGED <<mesa, libros, porCancelar, asociada, saldadas, colas>>

\* anularAtencionMesa: the live orders of the table, whatever their bill, but
\* those with items to charge; the bill is that of the first of them.
AnularAtencionMesa(cobrables, primero) ==
  LET vivos == {p \in Pedidos : pedido[p] = "VIVO"}
  IN /\ primero \in vivos
     /\ cobrables \subseteq vivos
     /\ cobrables # vivos
     /\ pedido' = [p \in Pedidos |-> IF p \in vivos \ cobrables THEN "ANULADO" ELSE pedido[p]]
     /\ porAnular' = IF cobrables = {} THEN porAnular \cup ({asociada[primero]} \ {Ninguna})
                     ELSE porAnular
     /\ UNCHANGED <<mesa, libros, porCancelar, asociada, saldadas, colas>>

\* cuentasHttp.cancelarCuenta
CancelarPorCascada(c, llega) ==
  /\ c \in porAnular
  /\ porAnular' = porAnular \ {c}
  /\ IF llega THEN Cancelar(c) ELSE UNCHANGED cuenta
  /\ UNCHANGED <<mesa, snapshot, previos, claves, adelantados,
                 porCancelar, pedido, asociada, saldadas, colas>>

\* Defect: a partial payment counts as well.
PagoParcialRecibido(c) ==
  /\ c \notin saldadas
  /\ saldadas' = saldadas \cup {c}
  /\ pedido' = [p \in Pedidos |-> IF pedido[p] = "VIVO" THEN "PAGADO" ELSE pedido[p]]
  /\ UNCHANGED <<mesa, libros, porCancelar, asociada, porAnular, colas>>

\* procesarPagoRecibido: all the orders of the table, whatever their bill.
PagoRecibido(c) ==
  /\ c \in pagadas \ saldadas
  /\ saldadas' = saldadas \cup {c}
  /\ pedido' = [p \in Pedidos |-> IF pedido[p] = "VIVO" THEN "PAGADO" ELSE pedido[p]]
  /\ UNCHANGED <<mesa, libros, porCancelar, asociada, porAnular, colas>>
-----------------------------------------------------------------------------
\* servicio-caja charges what it read of the bill when it was open, which may
\* have ended since (module Caja).
PagoRegistrado(c) ==
  /\ cuenta[c] # "SIN_ABRIR"
  /\ c \notin pagadas
  /\ \E p \in Pedidos : snapshot[c][p] = "VIVO"
  /\ pagadas' = pagadas \cup {c}
  /\ UNCHANGED <<mesa, ordenes, libros, porCancelar, fotos, consolidado>>

Next ==
  \/ \E c \in Cuentas : HandleCuentaAbierta(c)
  \/ \E c \in Cuentas : HandleCuentaCerrada(c)
  \/ CambiarMesa("LIBRE", Ninguna)
  \/ CambiarMesa("OCUPADA", Igual)
  \/ \E c \in Cuentas : AbrirCuenta(c)
  \/ \E p \in Pedidos, c \in Cuentas : DescartarCreado(p, c)
  \/ \E p \in Pedidos, c \in Cuentas : PedidoCreado(p, c)
  \/ \E p \in Pedidos, foto \in {"VIVO", "ANULADO"} : PedidoActualizado(p, foto)
  \/ \E c \in Cuentas : CerrarCuenta(c)
  \/ \E foto \in Cuentas \cup {Ninguna} : MesaActualizada(foto)
  \/ \E c \in Cuentas : RevisarHuerfana(c)
  \/ \E c \in Cuentas : CancelarHuerfana(c)
  \/ \E p \in Pedidos : CrearPedido(p)
  \/ \E p \in Pedidos : CuentaAsociada(p)
  \/ \E p \in Pedidos : AnularPedido(p)
  \/ \E cobrables \in SUBSET Pedidos, p \in Pedidos : AnularAtencionMesa(cobrables, p)
  \/ \E c \in Cuentas, llega \in BOOLEAN : CancelarPorCascada(c, llega)
  \/ \E c \in Cuentas : PagoRecibido(c)
  \/ \E c \in Cuentas : PagoRegistrado(c)

Spec == Init /\ [][Next]_vars
=============================================================================
