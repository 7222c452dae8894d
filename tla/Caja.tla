-------------------------------- MODULE Caja ---------------------------------
(***************************************************************************)
(* The payments of one bill in servicio-caja: whole or in parts, of one    *)
(* method or combined, charged in the open shift or queued until the next  *)
(* one opens, and the closing of the bill in servicio-cuentas that follows *)
(* the last of them, by HTTP, by event or by the cron of reconciliation;   *)
(* the staff may close it as well, paid or not.                            *)
(*                                                                         *)
(* Bills share no rows or locks, so one stands for all; the shifts of its  *)
(* branch take part as "some shift is open". Amounts are whole cents and   *)
(* the tolerance of one cent is left out. A combined payment is written in *)
(* one transaction, so it counts as one payment of the sum. The bill is    *)
(* one of the hundred paid last, the only ones the cron looks at.          *)
(***************************************************************************)
EXTENDS Integers, FiniteSets

CONSTANTS
  Cobros,       \* payments asked for
  Monto,        \* the amount of each
  Descuento,    \* the discount that comes with each
  Combinados,   \* those of several methods
  Totales,      \* totals of the bill in servicio-cuentas
  MaxFilas      \* bound: rows in the queue for one payment

ASSUME CajaAssumption ==
  /\ Monto \in [Cobros -> Nat \ {0}]
  /\ Descuento \in [Cobros -> Nat]
  /\ Combinados \subseteq Cobros
  /\ Totales \subseteq Nat
  /\ MaxFilas \in Nat

VARIABLES
  turnoCaja,     \* "ABIERTA" when the branch has an open shift
  etapa,         \* where each payment is
  leido,         \* the bill as servicio-cuentas answered it to each payment in progress
  listadas,      \* payments whose rows some opening has listed, and may be slow to take
  deFila,        \* payments that come from a claimed row of pagos_pendientes
  espera,        \* rows PENDIENTE of pagos_pendientes for each payment
  proyeccion,    \* cuentas_abiertas: [estado, total]; NO before it exists
  cobrado,       \* sum of the transactions of the bill
  descuentos,    \* their discounts
  completo,      \* pago.registrado with nothing pending was written
  porCerrar,     \* payments that have yet to call cerrarCuenta
  reconciliando, \* the cron is about to call cerrarCuenta
  remota,        \* the bill in servicio-cuentas: [estado, total]
  \* history
  mayorTotal,    \* the largest total the bill has had
  crecio,        \* the total grew after a payment had read it
  veces,         \* transactions of each payment
  reencolado     \* payments that were queued again while in the queue

turnos   == <<turnoCaja, listadas>>
peticion == <<etapa, leido, deFila, espera, reencolado>>
dinero   == <<cobrado, descuentos, completo, veces>>
cierre   == <<porCerrar, reconciliando>>
cajaVars == <<turnos, peticion, dinero, cierre, proyeccion, remota, mayorTotal, crecio>>

SinLeer == [estado |-> "NO", total |-> 0]

CajaInit ==
  /\ turnoCaja = "CERRADA"
  /\ listadas = {}
  /\ etapa = [p \in Cobros |-> "NUEVO"]
  /\ \E t \in Totales :
       /\ remota = [estado |-> "ABIERTA", total |-> t]
       /\ mayorTotal = t
  /\ leido = [p \in Cobros |-> SinLeer]
  /\ deFila = {}
  /\ espera = [p \in Cobros |-> 0]
  /\ proyeccion = [estado |-> "NO", total |-> 0]
  /\ cobrado = 0
  /\ descuentos = {}
  /\ completo = FALSE
  /\ porCerrar = {}
  /\ reconciliando = FALSE
  /\ crecio = FALSE
  /\ veces = [p \in Cobros |-> 0]
  /\ reencolado = {}
-----------------------------------------------------------------------------
(* Shifts *)

\* abrirTurno, which goes over the queue in the end.  So does a second opening
\* of the shift there is, or the loser of the unique index.
AbrirTurno ==
  /\ turnoCaja' = "ABIERTA"
  /\ listadas' = listadas \cup {p \in Cobros : espera[p] > 0}
  /\ UNCHANGED <<peticion, dinero, cierre, proyeccion, remota, mayorTotal, crecio>>

\* cerrarTurno.  The bills still open are asked for before the transaction, and
\* they stop nothing if servicio-cuentas does not answer.
CerrarTurno ==
  /\ turnoCaja = "ABIERTA"
  /\ turnoCaja' = "CERRADA"
  /\ UNCHANGED <<listadas, peticion, dinero, cierre, proyeccion, remota, mayorTotal, crecio>>

\* Defect: the row is read, not claimed.
ReclamarSinUpdate(p) ==
  /\ p \in listadas
  /\ espera[p] > 0
  /\ etapa[p] = "FIN"
  /\ etapa' = [etapa EXCEPT ![p] = "NUEVO"]
  /\ deFila' = deFila \cup {p}
  /\ UNCHANGED <<turnos, leido, espera, reencolado, dinero, cierre, proyeccion, remota,
                 mayorTotal, crecio>>

\* procesarPagosPendientes: PENDIENTE to PROCESANDO, for one opening only.
Reclamar(p) ==
  /\ p \in listadas
  /\ espera[p] > 0
  /\ etapa[p] = "FIN"
  /\ espera' = [espera EXCEPT ![p] = @ - 1]
  /\ etapa' = [etapa EXCEPT ![p] = "NUEVO"]
  /\ deFila' = deFila \cup {p}
  /\ UNCHANGED <<turnos, leido, reencolado, dinero, cierre, proyeccion, remota,
                 mayorTotal, crecio>>
-----------------------------------------------------------------------------
(* registrarPago and registrarPagoCombinado *)

Leyendo == {p \in Cobros : etapa[p] \in {"LEIDO", "CON_TURNO"}}

\* What a payment has read lasts until it ends, its call to close included.
Soltar(p) ==
  leido' = [leido EXCEPT ![p] = IF p \in Leyendo' \cup porCerrar' THEN @ ELSE SinLeer]

FetchCuenta(p) ==
  /\ etapa[p] = "NUEVO"
  /\ etapa' = [etapa EXCEPT ![p] = "LEIDO"]
  /\ leido' = [leido EXCEPT ![p] = remota]
  /\ UNCHANGED <<turnos, deFila, espera, reencolado, dinero, cierre, proyeccion, remota,
                 mayorTotal, crecio>>

ConTurno(p) ==
  /\ etapa[p] = "LEIDO"
  /\ turnoCaja = "ABIERTA"
  /\ etapa' = [etapa EXCEPT ![p] = "CON_TURNO"]
  /\ UNCHANGED <<turnos, leido, deFila, espera, reencolado, dinero, cierre, proyeccion,
                 remota, mayorTotal, crecio>>

\* Without a shift a payment is queued. If it came from the queue its row goes
\* back to PENDIENTE, beside the new one, unless that update fails.
SinTurno(p, vuelve) ==
  /\ p \notin Combinados
  /\ etapa[p] = "LEIDO"
  /\ vuelve => p \in deFila
  /\ turnoCaja = "CERRADA"
  /\ etapa' = [etapa EXCEPT ![p] = "FIN"]
  /\ espera' = [espera EXCEPT ![p] = IF vuelve THEN @ + 2 ELSE @ + 1]
  /\ espera'[p] <= MaxFilas
  /\ reencolado' = reencolado \cup ({p} \cap deFila)
  /\ deFila' = deFila \ {p}
  /\ UNCHANGED <<turnos, dinero, cierre, proyeccion, remota, mayorTotal, crecio>>
  /\ Soltar(p)

\* The request fails, is refused or dies: nothing is charged; a combined payment
\* is refused without a shift too, as it has nowhere to wait. The row it came from
\* ends FALLIDO, or PROCESANDO if the process died.
Abandonar(p) ==
  /\ p \in Leyendo
  /\ etapa' = [etapa EXCEPT ![p] = "FIN"]
  /\ deFila' = deFila \ {p}
  /\ UNCHANGED <<turnos, espera, reencolado, dinero, cierre, proyeccion, remota,
                 mayorTotal, crecio>>
  /\ Soltar(p)

MenosDescuento(total, d) == IF d > total THEN 0 ELSE total - d

\* Defect: what is pending counts only what the bill said, not what was paid.
PendienteSinPagos(p) == MenosDescuento(leido[p].total, Descuento[p])

\* What the payment may charge: what was paid is read under the lock of the
\* bill, the total is the one that servicio-cuentas answered before.
PendienteDe(p) ==
  LET total == MenosDescuento(leido[p].total, Descuento[p])
  IN MenosDescuento(total, cobrado)

\* The transaction of a payment, or of all the parts of a combined one.
Cobrar(p) ==
  /\ etapa[p] = "CON_TURNO"
  /\ leido[p].estado = "ABIERTA"
  /\ descuentos \subseteq {Descuento[p]}         \* validarDescuentoConsistente
  /\ Monto[p] <= PendienteDe(p)
  /\ proyeccion' = leido[p]
  /\ cobrado' = cobrado + Monto[p]
  /\ descuentos' = {Descuento[p]}
  /\ veces' = [veces EXCEPT ![p] = @ + 1]
  /\ completo' = (completo \/ Monto[p] = PendienteDe(p))
  /\ porCerrar' = IF Monto[p] = PendienteDe(p) THEN porCerrar \cup {p} ELSE porCerrar
  /\ etapa' = [etapa EXCEPT ![p] = "FIN"]
  /\ deFila' = deFila \ {p}
  /\ UNCHANGED <<turnos, espera, reencolado, reconciliando, remota, mayorTotal, crecio>>
  /\ Soltar(p)

RegistrarPago(p) == p \notin Combinados /\ Cobrar(p)

RegistrarPagoCombinado(p) == p \in Combinados /\ Cobrar(p)
-----------------------------------------------------------------------------
(* Closing of the bill *)

\* cerrarCuenta of servicio-cuentas (module Salon): refused unless it is open.
CerrarRemota(d) ==
  /\ remota.estado = "ABIERTA"
  /\ remota' = [estado |-> "CERRADA", total |-> MenosDescuento(remota.total, d)]

\* After the last payment; if the projection cannot be updated, or the call
\* fails with or without effect, it is only logged.
CerrarTrasPago(p, anota) ==
  /\ p \in porCerrar
  /\ porCerrar' = porCerrar \ {p}
  /\ CerrarRemota(Descuento[p])
  /\ proyeccion' = IF anota
                   THEN [estado |-> "CERRADA",
                         total |-> MenosDescuento(leido[p].total, Descuento[p])]
                   ELSE proyeccion
  /\ UNCHANGED <<turnos, etapa, deFila, espera, reencolado, dinero, reconciliando,
                 mayorTotal, crecio>>
  /\ Soltar(p)

CierreFallido(p) ==
  /\ p \in porCerrar
  /\ porCerrar' = porCerrar \ {p}
  /\ UNCHANGED <<turnos, etapa, deFila, espera, reencolado, dinero, reconciliando,
                 proyeccion, remota, mayorTotal, crecio>>
  /\ Soltar(p)

\* Defect: any payment makes a candidate, whatever is left to pay.
CandidataConParcial ==
  /\ proyeccion.estado = "ABIERTA"
  /\ descuentos # {}

\* Defect: only bills without discount are compared.
CandidataSinDescuento ==
  /\ proyeccion.estado = "ABIERTA"
  /\ descuentos # {}
  /\ cobrado >= proyeccion.total

\* What the cron looks for: open here, and paid up to the total known here.
Candidata ==
  /\ proyeccion.estado = "ABIERTA"
  /\ \E d \in descuentos : cobrado >= MenosDescuento(proyeccion.total, d)

RevisarCierre ==
  /\ ~reconciliando
  /\ Candidata
  /\ reconciliando' = TRUE
  /\ UNCHANGED <<turnos, peticion, dinero, porCerrar, proyeccion, remota, mayorTotal, crecio>>

\* The cron closes the bill there, and then here ...
ReconciliarCierre ==
  /\ reconciliando
  /\ reconciliando' = FALSE
  /\ \E d \in descuentos : CerrarRemota(d)
  /\ proyeccion' = [proyeccion EXCEPT !.estado = "CERRADA"]
  /\ UNCHANGED <<turnos, peticion, dinero, porCerrar, mayorTotal, crecio>>

\* ... or leaves it for the next tick.
ReconciliacionFallida ==
  /\ reconciliando
  /\ reconciliando' = FALSE
  /\ UNCHANGED <<turnos, peticion, dinero, porCerrar, proyeccion, remota, mayorTotal, crecio>>

\* cuenta.abierta, as late and as often as it comes.
ProyectarAbierta ==
  /\ proyeccion' = [proyeccion EXCEPT !.estado = "ABIERTA"]
  /\ UNCHANGED <<turnos, peticion, dinero, cierre, remota, mayorTotal, crecio>>

ProyectarCerrada ==
  /\ remota.estado = "CERRADA"
  /\ proyeccion.estado # "NO"
  /\ proyeccion' = remota
  /\ UNCHANGED <<turnos, peticion, dinero, cierre, remota, mayorTotal, crecio>>
-----------------------------------------------------------------------------
(* servicio-cuentas *)

\* procesarPagoRegistrado closes without the discount.
CerrarPorEvento ==
  /\ completo
  /\ CerrarRemota(0)
  /\ UNCHANGED <<turnos, peticion, dinero, cierre, proyeccion, mayorTotal, crecio>>

\* POST cuentas/:id/cerrar, by the staff: nobody asks what was paid. Of the
\* discounts it may come with, those of the payments stand for all.
CerrarDirecto(d) ==
  /\ CerrarRemota(d)
  /\ UNCHANGED <<turnos, peticion, dinero, cierre, proyeccion, mayorTotal, crecio>>

\* Orders are added to the bill, or cancelled.
CambiarTotal(t) ==
  /\ remota.estado = "ABIERTA"
  /\ remota' = [remota EXCEPT !.total = t]
  /\ mayorTotal' = IF t > mayorTotal THEN t ELSE mayorTotal
  /\ crecio' = (crecio \/ (t > remota.total /\ (cobrado > 0 \/ Leyendo # {})))
  /\ UNCHANGED <<turnos, peticion, dinero, cierre, proyeccion>>

CancelarRemota ==
  /\ remota.estado = "ABIERTA"
  /\ remota' = [remota EXCEPT !.estado = "CANCELADA"]
  /\ UNCHANGED <<turnos, peticion, dinero, cierre, proyeccion, mayorTotal, crecio>>

CajaNext ==
  \/ AbrirTurno
  \/ CerrarTurno
  \/ \E p \in Cobros : Reclamar(p)
  \/ \E p \in Cobros : FetchCuenta(p)
  \/ \E p \in Cobros : ConTurno(p)
  \/ \E p \in Cobros, vuelve \in BOOLEAN : SinTurno(p, vuelve)
  \/ \E p \in Cobros : Abandonar(p)
  \/ \E p \in Cobros : RegistrarPago(p)
  \/ \E p \in Cobros : RegistrarPagoCombinado(p)
  \/ \E p \in Cobros, anota \in BOOLEAN : CerrarTrasPago(p, anota)
  \/ \E p \in Cobros : CierreFallido(p)
  \/ RevisarCierre
  \/ ReconciliarCierre
  \/ ReconciliacionFallida
  \/ ProyectarAbierta
  \/ ProyectarCerrada
  \/ CerrarPorEvento
  \/ \E d \in {0} \cup {Descuento[p] : p \in Cobros} : CerrarDirecto(d)
  \/ \E t \in Totales : CambiarTotal(t)
  \/ CancelarRemota

CajaSpec == CajaInit /\ [][CajaNext]_cajaVars
=============================================================================
