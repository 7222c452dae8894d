------------------------------ MODULE CajaProps ------------------------------
(* What the payments of a bill may never do. *)
EXTENDS Caja

CuentaVista == [estado : {"NO", "ABIERTA", "CERRADA", "CANCELADA"}, total : Nat]

\* Every variable keeps its type.
CajaTypeOK ==
  /\ turnoCaja \in {"ABIERTA", "CERRADA"}
  /\ listadas \subseteq Cobros
  /\ etapa \in [Cobros -> {"NUEVO", "LEIDO", "CON_TURNO", "FIN"}]
  /\ leido \in [Cobros -> CuentaVista]
  /\ deFila \subseteq Cobros
  /\ espera \in [Cobros -> 0..MaxFilas]
  /\ proyeccion \in CuentaVista
  /\ cobrado \in Nat
  /\ descuentos \subseteq Nat
  /\ completo \in BOOLEAN
  /\ porCerrar \subseteq Cobros
  /\ reconciliando \in BOOLEAN
  /\ remota \in CuentaVista
  /\ mayorTotal \in Nat
  /\ crecio \in BOOLEAN
  /\ veces \in [Cobros -> Nat]
  /\ reencolado \subseteq Cobros

\* "El descuento debe venir IGUAL en todas las partes": however the parts of a
\* bill, the retries of the queue and the changes of its total interleave, all
\* its payments carry one discount, and with it they do not exceed the largest
\* total the bill has had.
NuncaSeCobraDeMas ==
  /\ Cardinality(descuentos) <= 1
  /\ \A d \in descuentos : cobrado + d <= mayorTotal

\* "que dos aperturas concurrentes [...] no paguen la misma fila dos veces": a
\* payment that waited in the queue is charged once, unless it was queued again
\* because the shift that took it from the queue had closed.
EsperaUnaVez == \A p \in Cobros \ reencolado : veces[p] + espera[p] <= 1

\* The closings that follow from payments; the staff's own asks for none.
CierrePorPago ==
  \/ \E p \in Cobros, anota \in BOOLEAN : CerrarTrasPago(p, anota)
  \/ ReconciliarCierre
  \/ CerrarPorEvento

\* "jamas debe cerrar una cuenta que todavia tiene deuda": unless the bill grew
\* after a payment had read it, the last payment, the cron and the payment event
\* close it only when all of it is paid, whatever the rest do meanwhile.
CierreSinDeuda ==
  [][CierrePorPago /\ ~crecio => \E d \in descuentos : cobrado + d >= remota.total]_cajaVars

\* A bill paid up to the largest total it has had ends, whatever calls failed.
CobradaSeCierra ==
  (\E d \in descuentos : cobrado + d >= mayorTotal) ~> remota.estado # "ABIERTA"
-----------------------------------------------------------------------------
(* The inductive invariant (CajaProofs). *)

\* The largest total is over all that has been read.
TotalesVistos ==
  /\ remota.total <= mayorTotal
  /\ \A p \in Cobros : leido[p].total <= mayorTotal

\* Who has charged something charged it with the one discount, within the total.
CobradoConDescuento ==
  /\ descuentos # {} => cobrado > 0
  /\ \A d, e \in descuentos : d = e
  /\ \A d \in descuentos : cobrado + d <= mayorTotal

\* A payment is under way, waits in the queue or has been charged.
UnSoloSitio ==
  \A p \in Cobros \ reencolado :
    veces[p] + espera[p] + (IF etapa[p] = "FIN" THEN 0 ELSE 1) <= 1

\* Unless the bill grew, what was read of it and what is known here of it while
\* it is open is no less than its total.
TotalVigente == ~crecio =>
  /\ \A p \in Leyendo : remota.total <= leido[p].total
  /\ remota.estado = "ABIERTA" /\ descuentos # {} => remota.total <= proyeccion.total

\* ... and who is about to close it has seen all of it paid.
SaldadaAlCerrar ==
  /\ ~crecio /\ remota.estado = "ABIERTA"
  /\ porCerrar # {} \/ reconciliando \/ completo
  => \E d \in descuentos : cobrado + d >= remota.total

CajaIInv == /\ CajaTypeOK /\ TotalesVistos /\ CobradoConDescuento /\ UnSoloSitio
            /\ TotalVigente /\ SaldadaAlCerrar
=============================================================================
