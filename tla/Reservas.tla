------------------------------ MODULE Reservas -------------------------------
(***************************************************************************)
(* Reservations of servicio-reservas: a table at a date and time is        *)
(* reserved, confirmed and cancelled by requests that read first and write *)
(* later, over the partial unique index of the database.                   *)
(***************************************************************************)
EXTENDS Integers, FiniteSets

CONSTANTS
  Clientes,     \* reservations, one per request to create
  Franjas       \* a table of a branch at a date and time

ASSUME ReservasAssumption == Clientes \subseteq Nat \ {0} /\ Franjas \subseteq Nat \ {0}

VARIABLES
  reserva,      \* [estado, franja]
  tramite,      \* per reservation: what the request about it has checked
  \* history
  revividas     \* reservations confirmed after they were cancelled

reservasVars == <<reserva, tramite, revividas>>

Activas == {"PENDIENTE", "CONFIRMADA"}

EnFranja(f) == {c \in Clientes : reserva[c].franja = f /\ reserva[c].estado \in Activas}

ReservasInit ==
  /\ reserva = [c \in Clientes |-> [estado |-> "NO", franja |-> 0]]
  /\ tramite = [c \in Clientes |-> ""]
  /\ revividas = {}
-----------------------------------------------------------------------------
\* Defect: the index forgets the reservations that were confirmed.
LibreDePendientes(c, f) ==
  \A d \in EnFranja(f) \ {c} : reserva[d].estado # "PENDIENTE"

\* Reserva_sede_fecha_hora_mesa_active_unique lets c be active at f.
LibreParaIndice(c, f) == EnFranja(f) \ {c} = {}

\* crear: assertMesaDisponible ...
ComprobarMesa(c, f) ==
  /\ reserva[c].estado = "NO" /\ tramite[c] = ""
  /\ EnFranja(f) = {}
  /\ reserva' = [reserva EXCEPT ![c].franja = f]
  /\ tramite' = [tramite EXCEPT ![c] = "CREAR"]
  /\ UNCHANGED revividas

\* ... and the insert with its correlative and reserva.creada.
InsertarReserva(c) ==
  /\ tramite[c] = "CREAR"
  /\ LibreParaIndice(c, reserva[c].franja)
  /\ reserva' = [reserva EXCEPT ![c].estado = "PENDIENTE"]
  /\ tramite' = [tramite EXCEPT ![c] = ""]
  /\ UNCHANGED revividas

\* confirmar: only what is pending ...
LeerPendiente(c) ==
  /\ tramite[c] = ""
  /\ reserva[c].estado = "PENDIENTE"
  /\ tramite' = [tramite EXCEPT ![c] = "CONFIRMAR"]
  /\ UNCHANGED <<reserva, revividas>>

\* ... is confirmed, whatever it has become.
ConfirmarReserva(c) ==
  /\ tramite[c] = "CONFIRMAR"
  /\ LibreParaIndice(c, reserva[c].franja)
  /\ reserva' = [reserva EXCEPT ![c].estado = "CONFIRMADA"]
  /\ tramite' = [tramite EXCEPT ![c] = ""]
  /\ revividas' = IF reserva[c].estado = "CANCELADA" THEN revividas \cup {c} ELSE revividas

\* A P2002 of the index, which crear answers with 409, or any failure before the
\* write.
PerderFranja(c) ==
  /\ tramite[c] # ""
  /\ tramite' = [tramite EXCEPT ![c] = ""]
  /\ UNCHANGED <<reserva, revividas>>

\* cancelar, with reserva.cancelada: any reservation, even a cancelled one.
CancelarReserva(c) ==
  /\ reserva[c].estado # "NO"
  /\ reserva' = [reserva EXCEPT ![c].estado = "CANCELADA"]
  /\ UNCHANGED <<tramite, revividas>>

ReservasNext == \E c \in Clientes :
  \/ \E f \in Franjas : ComprobarMesa(c, f)
  \/ InsertarReserva(c)
  \/ LeerPendiente(c)
  \/ ConfirmarReserva(c)
  \/ PerderFranja(c)
  \/ CancelarReserva(c)

ReservasSpec == ReservasInit /\ [][ReservasNext]_reservasVars
=============================================================================
