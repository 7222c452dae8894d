----------------------------- MODULE OutboxProps ----------------------------
(***************************************************************************)
(* What the outbox must get right, as invariants, action properties,       *)
(* liveness and a refinement of EntregaAlMenosUnaVez.                       *)
(***************************************************************************)
EXTENDS Outbox

\* Every variable keeps its type: the columns of the row (attempts never
\* exceeds maxAttempts), the replicas' local state and the history.
TypeOK ==
  /\ status    \in [Eventos -> Estados]
  /\ attempts  \in [Eventos -> 0..MaxAttempts]
  /\ claimedAt \in [Eventos -> {"NULL", "reciente", "vencido"}]
  /\ conectado \in [Replicas -> BOOLEAN]
  /\ pc        \in [Replicas -> Puntos]
  /\ lote      \in [Replicas -> SUBSET Eventos]
  /\ foto      \in [Replicas -> [Eventos -> 0..(MaxAttempts - 1)]]
  /\ actual    \in [Replicas -> Eventos]
  /\ caidas    \in 0..MaxCaidas
  /\ veces     \in [Eventos -> 0..2]
  /\ fallos    \in [Eventos -> 0..MaxFallos]
  /\ rescatados \subseteq Eventos
  /\ ambiguos   \subseteq Eventos

\* No event is lost (at-least-once, ADR-002): a row marked PROCESSED, or
\* deleted as processed by the hourly purge, was accepted by the broker.
NadaSePierde ==
  \A e \in Eventos : status[e] \in {"PROCESSED", "PURGADO"} => veces[e] >= 1

\* "sin publicar duplicados en el happy path": the broker gets an event twice
\* only if the rescue cron took it from a claimer, or a success went unrecorded.
DuplicadoConCausa ==
  \A e \in Eventos : veces[e] >= 2 => e \in rescatados \cup ambiguos

\* "dos replicas nunca tomen el mismo evento": the claim is exclusive as long
\* as the rescue cron has not given the event back.
ReclamoExclusivo ==
  \A e \in Eventos, r1, r2 \in Replicas :
    e \in lote[r1] \cap lote[r2] /\ r1 # r2 => e \in rescatados

\* H-4: outages, crashes and rescues burn no attempts.  A sound event is in
\* FAILED only after maxAttempts failures of its own, however the stale
\* write-backs of several replicas interleave.
FailedPorSusFallos ==
  \A e \in Eventos \ Corruptos :
    status[e] \in {"FAILED", "PURGADO_FAILED"} => fallos[e] >= MaxAttempts

\* The outcome of an event nobody rescued is final: once PROCESSED, no late
\* write of another replica makes it pending or failed again.
ProcesadoEsFinal ==
  [][\A e \in Eventos \ rescatados :
       status[e] = "PROCESSED" => status'[e] \in {"PROCESSED", "PURGADO"}]_vars

\* "varias replicas son seguras, sin publicar duplicados en el happy path": with
\* no crash, no lost connection and no failure, the broker gets every event once.
SinDuplicadosEnElHappyPath ==
  caidas = 0 /\ (\A e \in Eventos : fallos[e] = 0) => \A e \in Eventos : veces[e] <= 1

\* Every committed event of the catalogue is published, unless it failed
\* maxAttempts times: no crash, outage, rescue or purge leaves it stuck.
TodoSePublica ==
  \A e \in Eventos \ Corruptos :
    status[e] # "AUSENTE" ~> veces[e] >= 1 \/ fallos[e] >= MaxAttempts

\* Nothing stays claimed for ever: a PUBLISHING row always leaves that state.
NadaQuedaReclamado ==
  \A e \in Eventos : status[e] = "PUBLISHING" ~> status[e] # "PUBLISHING"
-----------------------------------------------------------------------------
(* The inductive invariant behind the safety properties. *)

Trabajando(r) == pc[r] \in {"publicando", "confirmado", "fallo"}

\* The control state of a replica agrees with its batch.
ControlInv ==
  \A r \in Replicas :
    /\ Trabajando(r) => actual[r] \in lote[r] \ Corruptos
    /\ pc[r] = "libre" => lote[r] = {}
    /\ \A e \in Eventos : pc[r] = "confirmado" /\ actual[r] = e => veces[e] >= 1

\* A row not inserted yet has left no trace.
AusenteInv ==
  \A e \in Eventos : status[e] = "AUSENTE" =>
    /\ veces[e] = 0
    /\ \A r \in Replicas : e \notin lote[r]

\* An attempt on record, or remembered by a replica, is a failure that happened.
IntentosInv ==
  /\ \A e \in Eventos : status[e] \in {"PENDING", "PUBLISHING"} => attempts[e] < MaxAttempts
  /\ \A e \in Eventos \ Corruptos :
       /\ attempts[e] <= fallos[e]
       /\ \A r \in Replicas : foto[r][e] <= fallos[e]
  /\ \A r \in Replicas, e \in Eventos :
       pc[r] = "fallo" /\ actual[r] = e => foto[r][e] < fallos[e]

\* Until it is rescued, a claimed row belongs to one replica.
PosesionInv ==
  \A e \in Eventos \ rescatados, r \in Replicas : e \in lote[r] =>
    /\ status[e] = "PUBLISHING"
    /\ \A q \in Replicas : e \in lote[q] => q = r

\* Without rescue and with every outcome recorded, the broker has an event at
\* most once, and not at all before its holder confirmed it.
UnicaInv ==
  \A e \in Eventos \ (rescatados \cup ambiguos) :
    /\ veces[e] <= 1
    /\ status[e] \in {"PENDING", "FAILED", "PURGADO_FAILED"} => veces[e] = 0
    /\ \A r \in Replicas :
         e \in lote[r] /\ ~(pc[r] = "confirmado" /\ actual[r] = e) => veces[e] = 0

IInv ==
  /\ TypeOK
  /\ ControlInv
  /\ AusenteInv
  /\ IntentosInv
  /\ PosesionInv
  /\ UnicaInv
  /\ NadaSePierde
  /\ FailedPorSusFallos
-----------------------------------------------------------------------------
\* Refinement mapping: what the table and the broker show of an event.  A row
\* that counts as processed although the broker never got it would be "perdido",
\* which the abstract specification does not have.
Visible(e) ==
  CASE status[e] = "AUSENTE" -> "ausente"
    [] status[e] # "AUSENTE" /\ veces[e] >= 1 -> "publicado"
    [] status[e] \in {"FAILED", "PURGADO_FAILED"} /\ veces[e] = 0 -> "muerto"
    [] status[e] \in {"PENDING", "PUBLISHING"} /\ veces[e] = 0 -> "pendiente"
    [] OTHER -> "perdido"

Entrega == INSTANCE EntregaAlMenosUnaVez
             WITH entrega <- [e \in Eventos |-> Visible(e)]

\* The outbox implements the at-least-once specification.
ImplementaEntrega == Entrega!Spec
=============================================================================
