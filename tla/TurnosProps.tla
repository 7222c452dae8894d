----------------------------- MODULE TurnosProps -----------------------------
(* What a shift of the till, its close and the waiters owe each other. *)
EXTENDS Turnos

FilasDeMovimiento ==
  [etapa : {"NO", "LEIDO", "HECHO"}, turno : Turnos \cup {Ninguno}, efectivo : BOOLEAN]

\* Every variable keeps its type.
TurnosTypeOK ==
  /\ turno \in [Turnos -> {"NO", "ABIERTA", "CERRADA"}]
  /\ movimiento \in [Movimientos -> FilasDeMovimiento]
  /\ cerrando \in [Cajeros -> [turno : Turnos \cup {Ninguno}, contados : SUBSET Movimientos]]
  /\ cierreCaja \in [Turnos -> [hecho : BOOLEAN, contados : SUBSET Movimientos]]
  /\ publicados \in Seq(BOOLEAN)
  /\ ultimo \in 0..Len(publicados)
  /\ meseros \in BOOLEAN
  /\ aMano \in BOOLEAN
  /\ rezagados \subseteq Movimientos
  /\ corregidos \subseteq Movimientos \ Manuales

\* "el cuadre de caja del turno": the cash that the close of a shift expects is
\* that of its movements, now and for ever, but for those that were in flight when
\* it was counted or closed and the payments whose method was changed afterwards.
CierreCuadra ==
  \A t \in Turnos : cierreCaja[t].hecho =>
    cierreCaja[t].contados \ (rezagados \cup corregidos)
      = EfectivoEsperado(t) \ (rezagados \cup corregidos)

\* "el personal MESERO se activa solo al abrir caja y se desactiva solo al
\* cerrarla": once the last event of the till is the last one handled, the waiters
\* are active if and only if a shift is open, unless an administrator has said
\* otherwise since.  Two closes of a shift at once included.
MeserosSiguenLaCaja ==
  publicados # <<>> /\ ultimo = Len(publicados) /\ ~aMano =>
    (meseros <=> Abiertos # {})
-----------------------------------------------------------------------------
(* The inductive invariant (CajaProofs). *)

\* What a close has added up and what the rows of its shift say, but for the
\* late movements and the corrected payments.
Coinciden(contados, t) ==
  \A m \in Movimientos \ (rezagados \cup corregidos) :
    m \in contados <=> m \in EfectivoEsperado(t)

\* One shift is open at a time, and the closed ones are those with a close.
UnaCaja ==
  /\ \A t, u \in Abiertos : t = u
  /\ \A t \in Turnos : cierreCaja[t].hecho <=> turno[t] = "CERRADA"

\* A movement and a request to close are of a shift that has been open.
TurnoDeCada ==
  /\ \A m \in Movimientos :
       movimiento[m].etapa # "NO" => movimiento[m].turno \in Turnos
  /\ \A k \in Cajeros : cerrando[k] # Quieto =>
       cerrando[k].turno \in Turnos /\ turno[cerrando[k].turno] # "NO"

\* The last event says whether a shift is open.
UltimoEvento == IF publicados = <<>> THEN Abiertos = {}
                ELSE publicados[Len(publicados)] <=> Abiertos # {}

MeserosComoDicho == ultimo > 0 /\ ~aMano => (meseros <=> publicados[ultimo])

\* A movement that is still to be booked to a closed shift is late.
RezagadosAnotados ==
  \A m \in Movimientos :
    movimiento[m].etapa = "LEIDO" /\ turno[movimiento[m].turno] = "CERRADA" => m \in rezagados

CuentasVigentes ==
  /\ \A k \in Cajeros : cerrando[k] # Quieto =>
       Coinciden(cerrando[k].contados, cerrando[k].turno)
  /\ \A t \in Turnos : cierreCaja[t].hecho => Coinciden(cierreCaja[t].contados, t)

TurnosIInv == /\ TurnosTypeOK /\ UnaCaja /\ TurnoDeCada /\ UltimoEvento
              /\ MeserosComoDicho /\ RezagadosAnotados /\ CuentasVigentes
=============================================================================
