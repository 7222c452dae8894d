------------------------------ MODULE Impresion ------------------------------
(***************************************************************************)
(* The queue of tickets of servicio-notificaciones and the agents that     *)
(* print them in the restaurant: a ticket is claimed under a lease, comes  *)
(* out on paper or not, and is acknowledged, if the answer gets through.   *)
(*                                                                         *)
(* One destination with its agents. Time is left out: a lease may be over  *)
(* as soon as it is given, and a ticket that failed may be due at once.    *)
(***************************************************************************)
EXTENDS Integers

CONSTANTS
  Tickets,        \* source keys: an event and a station
  Agentes,        \* processes that run with the agentId of the destination
  MaxAttempts,    \* 10 in the code
  MaxReintentos   \* bound: retries by the operator of each ticket

ASSUME ImpresionAssumption ==
  /\ Tickets \subseteq Nat \ {0}
  /\ MaxAttempts \in Nat \ {0}
  /\ MaxReintentos \in Nat

VARIABLES
  enabled,     \* the destination
  trabajo,     \* print_jobs: [status, attempts, leaseToken]
  tokens,      \* lease tokens given so far, per ticket
  candidato,   \* per agent: the ticket that its claim read, or none
  imprimiendo, \* per agent: [ticket, leaseToken, ok] of what it has in hand
  \* history
  papeles,     \* times some paper of each ticket came out
  fallidos,    \* of those, the ones acknowledged as not printed
  reintentos   \* retries by the operator

cola      == <<enabled, trabajo, tokens>>
historia  == <<papeles, fallidos, reintentos>>
impresionVars == <<cola, candidato, imprimiendo, historia>>

SinTrabajo == [ticket |-> 0, leaseToken |-> 0, ok |-> "NO"]
SinFila == 0

ImpresionInit ==
  /\ enabled = TRUE
  /\ trabajo = [t \in Tickets |-> [status |-> "NO", attempts |-> 0, leaseToken |-> 0]]
  /\ tokens = [t \in Tickets |-> 0]
  /\ candidato = [a \in Agentes |-> SinFila]
  /\ imprimiendo = [a \in Agentes |-> SinTrabajo]
  /\ papeles = [t \in Tickets |-> 0]
  /\ fallidos = [t \in Tickets |-> 0]
  /\ reintentos = [t \in Tickets |-> 0]
-----------------------------------------------------------------------------
(* The queue *)

\* saveDestination
Habilitar(b) ==
  /\ enabled' = b
  /\ UNCHANGED <<trabajo, tokens, candidato, imprimiendo, historia>>

\* enqueueOrder, enqueueReceipt: what has a row already, or a destination that
\* is off, is skipped, and the event is acknowledged.
Encolar(t) ==
  /\ enabled
  /\ trabajo[t].status = "NO"
  /\ trabajo' = [trabajo EXCEPT ![t].status = "PENDING"]
  /\ UNCHANGED <<enabled, tokens, candidato, imprimiendo, historia>>

Vencidos == {t \in Tickets : trabajo[t].status = "CLAIMED"}

\* Defect: what was not confirmed is offered again.
VencerYReofrecer(vencidos) ==
  /\ vencidos \subseteq Vencidos /\ vencidos # {}
  /\ trabajo' = [t \in Tickets |-> IF t \in vencidos
       THEN [trabajo[t] EXCEPT !.status = "PENDING", !.leaseToken = 0] ELSE trabajo[t]]
  /\ UNCHANGED <<enabled, tokens, candidato, imprimiendo, historia>>

\* claim begins by giving up on the leases that are over: the paper is unknown.
Vencer(vencidos) ==
  /\ vencidos \subseteq Vencidos /\ vencidos # {}
  /\ trabajo' = [t \in Tickets |-> IF t \in vencidos
       THEN [trabajo[t] EXCEPT !.status = "UNCERTAIN"] ELSE trabajo[t]]
  /\ UNCHANGED <<enabled, tokens, candidato, imprimiendo, historia>>

\* It reads a row that is due ...
BuscarTrabajo(a, t) ==
  /\ candidato[a] = SinFila /\ imprimiendo[a] = SinTrabajo
  /\ enabled
  /\ trabajo[t].status = "PENDING" /\ trabajo[t].attempts < MaxAttempts
  /\ candidato' = [candidato EXCEPT ![a] = t]
  /\ UNCHANGED <<cola, imprimiendo, historia>>

\* ... and takes it with a new lease, if its status and token are the same:
\* what is PENDING has no token.
TomarTrabajo(a) ==
  LET t == candidato[a]
  IN /\ candidato[a] # SinFila
     /\ trabajo[t].status = "PENDING"
     /\ tokens' = [tokens EXCEPT ![t] = @ + 1]
     /\ trabajo' = [trabajo EXCEPT ![t] = [status |-> "CLAIMED", attempts |-> @.attempts + 1,
                                           leaseToken |-> tokens'[t]]]
     /\ candidato' = [candidato EXCEPT ![a] = SinFila]
     /\ imprimiendo' = [imprimiendo EXCEPT ![a] =
          [ticket |-> t, leaseToken |-> tokens'[t], ok |-> "NO"]]
     /\ UNCHANGED <<enabled, historia>>

\* It lost the row, after which it looks for another.
PerderTrabajo(a) ==
  /\ candidato[a] # SinFila
  /\ trabajo[candidato[a]].status # "PENDING"
  /\ candidato' = [candidato EXCEPT ![a] = SinFila]
  /\ UNCHANGED <<cola, imprimiendo, historia>>

\* retry: the operator has looked at the paper.
Reintentar(t) ==
  /\ trabajo[t].status \in {"FAILED", "UNCERTAIN"}
  /\ reintentos[t] < MaxReintentos
  /\ trabajo' = [trabajo EXCEPT ![t] = [status |-> "PENDING", attempts |-> 0, leaseToken |-> 0]]
  /\ reintentos' = [reintentos EXCEPT ![t] = @ + 1]
  /\ UNCHANGED <<enabled, tokens, candidato, imprimiendo, papeles, fallidos>>
-----------------------------------------------------------------------------
(* The agent *)

\* printJob, copy after copy: it may fail with some paper out, or with none.
Imprimir(a, ok, papel) ==
  LET t == imprimiendo[a].ticket
  IN /\ imprimiendo[a].ok = "NO" /\ t \in Tickets
     /\ ok => papel
     /\ papeles' = [papeles EXCEPT ![t] = IF papel THEN @ + 1 ELSE @]
     /\ imprimiendo' = [imprimiendo EXCEPT ![a].ok =
          IF ok THEN "IMPRESO" ELSE IF papel THEN "A_MEDIAS" ELSE "FALLO"]
     /\ UNCHANGED <<cola, candidato, fallidos, reintentos>>

Impreso(a) == imprimiendo[a].ok \in {"IMPRESO", "A_MEDIAS", "FALLO"}

\* acknowledge: CLAIMED or UNCERTAIN, and with the token of the lease.
Vigente(a) ==
  LET t == imprimiendo[a].ticket
  IN /\ trabajo[t].status \in {"CLAIMED", "UNCERTAIN"}
     /\ trabajo[t].leaseToken = imprimiendo[a].leaseToken

Confirmar(a) ==
  LET t == imprimiendo[a].ticket
      fin == IF imprimiendo[a].ok = "IMPRESO" THEN "PRINTED"
             ELSE IF trabajo[t].attempts >= MaxAttempts THEN "FAILED" ELSE "PENDING"
  IN /\ Impreso(a)
     /\ Vigente(a)
     /\ trabajo' = [trabajo EXCEPT ![t].status = fin, ![t].leaseToken = 0]
     /\ fallidos' = [fallidos EXCEPT ![t] = IF imprimiendo[a].ok = "A_MEDIAS" THEN @ + 1 ELSE @]
     /\ UNCHANGED <<enabled, tokens, candidato, imprimiendo, papeles, reintentos>>

\* The agent hears that it is done, or a 409: the next call of a confirmation
\* whose answer was lost gets one too.
SoltarTrabajo(a) ==
  /\ Impreso(a)
  /\ ~Vigente(a)
  /\ imprimiendo' = [imprimiendo EXCEPT ![a] = SinTrabajo]
  /\ UNCHANGED <<cola, candidato, historia>>

\* The agent stops with a ticket in hand, or never heard of what it claimed.
CaidaAgente(a) ==
  /\ imprimiendo[a] # SinTrabajo
  /\ imprimiendo' = [imprimiendo EXCEPT ![a] = SinTrabajo]
  /\ UNCHANGED <<cola, candidato, historia>>

ImpresionNext ==
  \/ \E b \in BOOLEAN : Habilitar(b)
  \/ \E t \in Tickets : Encolar(t)
  \/ \E vencidos \in SUBSET Tickets : Vencer(vencidos)
  \/ \E a \in Agentes, t \in Tickets : BuscarTrabajo(a, t)
  \/ \E a \in Agentes : TomarTrabajo(a)
  \/ \E a \in Agentes : PerderTrabajo(a)
  \/ \E t \in Tickets : Reintentar(t)
  \/ \E a \in Agentes, ok \in BOOLEAN, papel \in BOOLEAN : Imprimir(a, ok, papel)
  \/ \E a \in Agentes : Confirmar(a)
  \/ \E a \in Agentes : SoltarTrabajo(a)
  \/ \E a \in Agentes : CaidaAgente(a)

ImpresionSpec == ImpresionInit /\ [][ImpresionNext]_impresionVars
=============================================================================
