------------------------------- MODULE Turnos --------------------------------
(***************************************************************************)
(* The shifts of the till of one branch (servicio-caja): how they open and *)
(* close, the movements of money booked to them, and the waiters of the    *)
(* branch, whom servicio-identidad lets in while the till is open.         *)
(*                                                                         *)
(* The cash a close expects is the set of the movements it adds; the fund  *)
(* of the opening is in all of them. Counts in the middle of a shift       *)
(* (registrarArqueo) leave a row nobody reads, and are left out.  Events   *)
(* of shifts are delivered in any order and any number of times: their     *)
(* handlers have no idempotency keys.                                      *)
(***************************************************************************)
EXTENDS Integers, Sequences

CONSTANTS
  Turnos,       \* shifts, in the order they are opened
  Movimientos,  \* movements of money: payments, in cash or not,
  Manuales,     \*   and those of crearMovimiento, in cash
  Cajeros       \* requests to close a shift

ASSUME TurnosAssumption == Turnos \subseteq Nat \ {0} /\ Manuales \subseteq Movimientos

VARIABLES
  turno,        \* estado of each shift
  movimiento,   \* [etapa, turno, efectivo] of each movement
  cerrando,     \* per request: [turno, contados], the cash it has added up
  cierreCaja,   \* cierres_caja: [hecho, contados] of each shift
  publicados,   \* turno_caja.abierto (TRUE) and .cerrado (FALSE), by commit
  ultimo,       \* servicio-identidad: the last of them that was handled
  meseros,      \* servicio-identidad: whether the waiters are active
  \* history
  aMano,        \* an administrator has changed them since
  rezagados,    \* movements in flight when their shift was counted or closed
  corregidos    \* payments whose method changed after the count of their shift

arca       == <<turno, movimiento, cierreCaja>>
identidad  == <<ultimo, meseros, aMano>>
salvedades == <<rezagados, corregidos>>
turnosVars == <<arca, cerrando, publicados, identidad, salvedades>>

Ninguno == 0
Quieto   == [turno |-> Ninguno, contados |-> {}]

TurnosInit ==
  /\ turno = [t \in Turnos |-> "NO"]
  /\ movimiento = [m \in Movimientos |->
       [etapa |-> "NO", turno |-> Ninguno, efectivo |-> m \in Manuales]]
  /\ cerrando = [k \in Cajeros |-> Quieto]
  /\ cierreCaja = [t \in Turnos |-> [hecho |-> FALSE, contados |-> {}]]
  /\ publicados = <<>>
  /\ ultimo = 0
  /\ meseros \in BOOLEAN
  /\ aMano = FALSE
  /\ rezagados = {}
  /\ corregidos = {}

Abiertos == {t \in Turnos : turno[t] = "ABIERTA"}

\* What the rows of a shift add up to: its movements in cash.
EfectivoEsperado(t) ==
  {m \in Movimientos : /\ movimiento[m].etapa = "HECHO"
                       /\ movimiento[m].turno = t
                       /\ movimiento[m].efectivo}

\* A request to close shift t has added it up and not committed.
Contandose(t) == \E k \in Cajeros : cerrando[k].turno = t
-----------------------------------------------------------------------------
(* servicio-caja *)

\* abrirTurno: one open shift per branch, by a unique index; otherwise the one
\* there is.
AbrirCaja(t) ==
  /\ Abiertos = {}
  /\ turno[t] = "NO"
  /\ \A u \in Turnos : u < t => turno[u] # "NO"
  /\ turno' = [turno EXCEPT ![t] = "ABIERTA"]
  /\ publicados' = Append(publicados, TRUE)
  /\ UNCHANGED <<movimiento, cierreCaja, cerrando, identidad, salvedades>>

\* Defect: the shift of a movement is not required to be open.
LeerTurnoCualquiera(m, t) ==
  /\ movimiento[m].etapa = "NO"
  /\ turno[t] # "NO"
  /\ movimiento' = [movimiento EXCEPT ![m].etapa = "LEIDO", ![m].turno = t]
  /\ UNCHANGED <<turno, cierreCaja, cerrando, publicados, identidad, salvedades>>

\* registrarPago and crearMovimiento find the shift open ...
LeerTurno(m, t) ==
  /\ movimiento[m].etapa = "NO"
  /\ turno[t] = "ABIERTA"
  /\ movimiento' = [movimiento EXCEPT ![m].etapa = "LEIDO", ![m].turno = t]
  /\ UNCHANGED <<turno, cierreCaja, cerrando, publicados, identidad, salvedades>>

\* ... and book the movement to it later, whatever it is by then.
Asentar(m, efectivo) ==
  /\ movimiento[m].etapa = "LEIDO"
  /\ m \in Manuales => efectivo
  /\ movimiento' = [movimiento EXCEPT ![m].etapa = "HECHO", ![m].efectivo = efectivo]
  /\ rezagados' = IF Contandose(movimiento[m].turno) THEN rezagados \cup {m} ELSE rezagados
  /\ UNCHANGED <<turno, cierreCaja, cerrando, publicados, identidad, corregidos>>

\* The request is refused, or fails.
Desistir(m) ==
  /\ movimiento[m].etapa = "LEIDO"
  /\ movimiento' = [movimiento EXCEPT ![m].etapa = "NO", ![m].turno = Ninguno]
  /\ UNCHANGED <<turno, cierreCaja, cerrando, publicados, identidad, salvedades>>

\* actualizarTransaccion: the method of a payment, in an open shift or not.
CambiarMetodo(m) ==
  LET t == movimiento[m].turno
  IN /\ m \notin Manuales /\ movimiento[m].etapa = "HECHO"
     /\ movimiento' = [movimiento EXCEPT ![m].efectivo = ~@]
     /\ corregidos' = IF Contandose(t) \/ turno[t] = "CERRADA"
                      THEN corregidos \cup {m} ELSE corregidos
     /\ UNCHANGED <<turno, cierreCaja, cerrando, publicados, identidad, rezagados>>

\* cerrarTurno: its transaction reads the shift and its movements ...
ContarTurno(k, t) ==
  /\ cerrando[k] = Quieto
  /\ turno[t] = "ABIERTA"
  /\ cerrando' = [cerrando EXCEPT ![k] = [turno |-> t, contados |-> EfectivoEsperado(t)]]
  /\ UNCHANGED <<arca, publicados, identidad, salvedades>>

Cerrar(k) ==
  LET t == cerrando[k].turno
  IN /\ cierreCaja' = [cierreCaja EXCEPT ![t] =
          [hecho |-> TRUE, contados |-> cerrando[k].contados]]
     /\ turno' = [turno EXCEPT ![t] = "CERRADA"]
     /\ publicados' = Append(publicados, FALSE)
     /\ cerrando' = [cerrando EXCEPT ![k] = Quieto]
     /\ rezagados' = rezagados \cup {m \in Movimientos :
          movimiento[m].etapa = "LEIDO" /\ movimiento[m].turno = t}
     /\ UNCHANGED <<movimiento, identidad, corregidos>>

\* Defect: a shift may have two closes.
CerrarOtraVez(k) ==
  /\ cerrando[k] # Quieto
  /\ Cerrar(k)

\* ... and writes the close, of which a shift has one (unique index), its state
\* and the event.
CerrarCaja(k) ==
  /\ cerrando[k] # Quieto
  /\ ~cierreCaja[cerrando[k].turno].hecho
  /\ Cerrar(k)

\* It loses to another close, or fails.
CierreRechazado(k) ==
  /\ cerrando[k] # Quieto
  /\ cerrando' = [cerrando EXCEPT ![k] = Quieto]
  /\ UNCHANGED <<arca, publicados, identidad, salvedades>>
-----------------------------------------------------------------------------
(* servicio-identidad *)

\* handleTurnoCajaAbierto, handleTurnoCajaCerrado: activarMeserosPorSede.
ActivarMeseros(i) ==
  /\ i \in DOMAIN publicados
  /\ meseros' = publicados[i]
  /\ ultimo' = i
  /\ aMano' = FALSE
  /\ UNCHANGED <<arca, cerrando, publicados, salvedades>>

\* cambiarEstado, by an administrator.
CambiarEstadoMesero ==
  /\ meseros' = ~meseros
  /\ aMano' = TRUE
  /\ UNCHANGED <<arca, cerrando, publicados, ultimo, salvedades>>

TurnosNext ==
  \/ \E t \in Turnos : AbrirCaja(t)
  \/ \E m \in Movimientos, t \in Turnos : LeerTurno(m, t)
  \/ \E m \in Movimientos, efectivo \in BOOLEAN : Asentar(m, efectivo)
  \/ \E m \in Movimientos : Desistir(m)
  \/ \E m \in Movimientos : CambiarMetodo(m)
  \/ \E k \in Cajeros, t \in Turnos : ContarTurno(k, t)
  \/ \E k \in Cajeros : CerrarCaja(k)
  \/ \E k \in Cajeros : CierreRechazado(k)
  \/ \E i \in DOMAIN publicados : ActivarMeseros(i)
  \/ CambiarEstadoMesero

TurnosSpec == TurnosInit /\ [][TurnosNext]_turnosVars
=============================================================================
