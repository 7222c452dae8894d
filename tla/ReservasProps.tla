---------------------------- MODULE ReservasProps ----------------------------
(* What the reservations promise. *)
EXTENDS Reservas

\* Every variable keeps its type.
ReservasTypeOK ==
  /\ reserva \in [Clientes -> [estado : {"NO", "CANCELADA"} \cup Activas,
                               franja : Franjas \cup {0}]]
  /\ tramite \in [Clientes -> {"", "CREAR", "CONFIRMAR"}]
  /\ revividas \subseteq Clientes

\* "no dos reservas activas para la misma mesa en fecha+hora": neither requests
\* that saw the table free together nor a late confirmation, which may bring a
\* cancelled reservation back when the table is reserved again, book it twice.
UnaActivaPorMesa == \A f \in Franjas : Cardinality(EnFranja(f)) <= 1
-----------------------------------------------------------------------------
(* The inductive invariant (ServiciosProofs). *)

\* What the index says, row by row: two active rows of a slot are one row.
IndiceUnico ==
  \A c, d \in Clientes :
    /\ reserva[c].estado \in Activas /\ reserva[d].estado \in Activas
    /\ reserva[c].franja = reserva[d].franja
    => c = d

ReservasIInv == ReservasTypeOK /\ IndiceUnico
=============================================================================
