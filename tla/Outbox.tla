------------------------------- MODULE Outbox -------------------------------
(***************************************************************************)
(* The transactional outbox of libs/resiliencia: the table outbox_events   *)
(* of one producer service and the OutboxProcessor replicas that claim its *)
(* rows, publish them to RabbitMQ and write the outcome back.              *)
(*                                                                         *)
(* One step is one database statement or one answer of the broker.  Every  *)
(* replica runs its tick sequentially (the flag isProcessing), replicas    *)
(* interleave freely, and the crons that rescue and purge rows interleave  *)
(* with a batch in progress.  What is written back is written by id,       *)
(* whatever the row has become since it was claimed.                       *)
(***************************************************************************)
EXTENDS Integers, FiniteSets

CONSTANTS
  Eventos,      \* row ids, numbered in the order of createdAt
  Corruptos,    \* events whose routing key is not in the catalogue
  Replicas,     \* processes running the OutboxProcessor on this table
  MaxAttempts,  \* config.maxAttempts
  BatchSize,    \* OUTBOX_BATCH_SIZE
  MaxFallos,    \* bound: failed publications or write-backs of one event
  MaxCaidas     \* bound: crashes of replicas and losses of connection

ASSUME OutboxAssumption ==
  /\ Eventos \subseteq Nat
  /\ Eventos # {}
  /\ Corruptos \subseteq Eventos
  /\ MaxAttempts \in Nat \ {0}
  /\ BatchSize \in Nat \ {0}
  /\ MaxFallos \in Nat
  /\ MaxCaidas \in Nat

VARIABLES
  status,       \* column status; AUSENTE before the insert, PURGADO* after a delete
  attempts,     \* column attempts
  claimedAt,    \* column claimedAt: NULL, within the last 60 s, or older
  conectado,    \* isConnected() of each replica
  pc,           \* where each replica's tick is
  lote,         \* rows a replica claimed and has not finished with
  foto,         \* attempts as returned by the claim, per replica and row
  actual,       \* the event a replica is working on (meaningful off "libre"/"lote")
  caidas,       \* how many crashes and disconnections happened (bounds them)
  \* History, read by properties only:
  veces,        \* times the broker accepted the event: 0, 1, or 2 for more
  fallos,       \* failures met while publishing it or writing its outcome
  rescatados,   \* events the rescue cron put back to PENDING at least once
  ambiguos      \* events accepted by the broker whose success went unrecorded

fila    == <<status, attempts, claimedAt>>
tick    == <<pc, lote, foto, actual>>
entorno == <<conectado, caidas>>
historia == <<veces, fallos, rescatados, ambiguos>>
vars == <<fila, tick, entorno, historia>>

Estados == {"AUSENTE", "PENDING", "PUBLISHING", "PROCESSED", "FAILED",
            "PURGADO", "PURGADO_FAILED"}
Puntos  == {"libre", "lote", "publicando", "confirmado", "fallo"}

\* The columns written by one UPDATE ... WHERE id = e.
Escribir(e, s, n, c) ==
  /\ status'    = [status EXCEPT ![e] = s]
  /\ attempts'  = [attempts EXCEPT ![e] = n]
  /\ claimedAt' = [claimedAt EXCEPT ![e] = c]

\* Prisma's update throws when the row is gone.
Existe(e) == status[e] \notin {"AUSENTE", "PURGADO", "PURGADO_FAILED"}

\* Defect: the claim's subquery also takes rows already claimed.
PendientesOReclamados == {e \in Eventos : status[e] \in {"PENDING", "PUBLISHING"}}

Pendientes == {e \in Eventos : status[e] = "PENDING"}

\* ORDER BY "createdAt" LIMIT batchSize: the oldest pending rows.
EsLote(S) ==
  /\ S # {}
  /\ S \subseteq Pendientes
  /\ Cardinality(S) <= BatchSize
  /\ S # Pendientes => Cardinality(S) = BatchSize
  /\ \A e \in S, f \in Pendientes \ S : e < f

Soltar(r) ==                          \* the tick ends: isProcessing = false
  /\ pc'   = [pc EXCEPT ![r] = "libre"]
  /\ lote' = [lote EXCEPT ![r] = {}]
  /\ foto' = [foto EXCEPT ![r] = [e \in Eventos |-> 0]]

Terminar(r, e) ==                     \* next iteration of the loop over the batch
  /\ pc'   = [pc EXCEPT ![r] = "lote"]
  /\ lote' = [lote EXCEPT ![r] = @ \ {e}]
  /\ foto' = [foto EXCEPT ![r] = [@ EXCEPT ![e] = 0]]

Init ==
  /\ status    = [e \in Eventos |-> "AUSENTE"]
  /\ attempts  = [e \in Eventos |-> 0]
  /\ claimedAt = [e \in Eventos |-> "NULL"]
  /\ conectado = [r \in Replicas |-> TRUE]
  /\ pc        = [r \in Replicas |-> "libre"]
  /\ lote      = [r \in Replicas |-> {}]
  /\ foto      = [r \in Replicas |-> [e \in Eventos |-> 0]]
  /\ actual    = [r \in Replicas |-> CHOOSE e \in Eventos : TRUE]
  /\ caidas    = 0
  /\ veces     = [e \in Eventos |-> 0]
  /\ fallos    = [e \in Eventos |-> 0]
  /\ rescatados = {}
  /\ ambiguos   = {}
-----------------------------------------------------------------------------
\* A business transaction inserts the event (rows appear in createdAt order).
Crear(e) ==
  /\ status[e] = "AUSENTE"
  /\ \A f \in Eventos : f < e => status[f] # "AUSENTE"
  /\ Escribir(e, "PENDING", 0, "NULL")
  /\ UNCHANGED <<tick, entorno, historia>>

\* Defect: SELECT of the pending rows without marking them.
LeerLote(r, S) ==
  /\ pc[r] = "libre"
  /\ conectado[r]
  /\ EsLote(S)
  /\ lote' = [lote EXCEPT ![r] = S]
  /\ foto' = [foto EXCEPT ![r] = [e \in Eventos |-> IF e \in S THEN attempts[e] ELSE 0]]
  /\ pc'   = [pc EXCEPT ![r] = "lote"]
  /\ UNCHANGED <<fila, actual, entorno, historia>>

\* Defect: the claim does not set claimedAt, so that no row looks orphaned.
ReclamarSinFecha(r, S) ==
  /\ pc[r] = "libre"
  /\ conectado[r]
  /\ EsLote(S)
  /\ status' = [e \in Eventos |-> IF e \in S THEN "PUBLISHING" ELSE status[e]]
  /\ lote'   = [lote EXCEPT ![r] = S]
  /\ foto'   = [foto EXCEPT ![r] = [e \in Eventos |-> IF e \in S THEN attempts[e] ELSE 0]]
  /\ pc'     = [pc EXCEPT ![r] = "lote"]
  /\ UNCHANGED <<attempts, claimedAt, actual, entorno, historia>>

\* The tick claims a batch in one UPDATE ... FOR UPDATE SKIP LOCKED RETURNING *.
\* With the broker disconnected it returns before claiming anything.
ReclamarLote(r, S) ==
  /\ pc[r] = "libre"
  /\ conectado[r]
  /\ EsLote(S)
  /\ status'    = [e \in Eventos |-> IF e \in S THEN "PUBLISHING" ELSE status[e]]
  /\ claimedAt' = [e \in Eventos |-> IF e \in S THEN "reciente" ELSE claimedAt[e]]
  /\ lote'      = [lote EXCEPT ![r] = S]
  /\ foto'      = [foto EXCEPT ![r] =
                      [e \in Eventos |-> IF e \in S THEN attempts[e] ELSE 0]]
  /\ pc'        = [pc EXCEPT ![r] = "lote"]
  /\ UNCHANGED <<attempts, actual, entorno, historia>>

Reclamar(r) == \E S \in SUBSET Eventos : ReclamarLote(r, S)

\* The next event of the batch; RETURNING fixes no order.
Tomar(r, e) ==
  /\ pc[r] = "lote"
  /\ e \in lote[r] \ Corruptos
  /\ pc'     = [pc EXCEPT ![r] = "publicando"]
  /\ actual' = [actual EXCEPT ![r] = e]
  /\ UNCHANGED <<fila, lote, foto, entorno, historia>>

\* Unknown routing key: FAILED at once, without publishing.
DescartarCorrupto(r, e) ==
  /\ pc[r] = "lote"
  /\ e \in lote[r] \cap Corruptos
  /\ Existe(e)
  /\ Escribir(e, "FAILED", foto[r][e] + 1, "NULL")
  /\ Terminar(r, e)
  /\ UNCHANGED <<actual, entorno, historia>>

Aceptar(e) == veces' = [veces EXCEPT ![e] = IF @ < 2 THEN @ + 1 ELSE 2]

ContarFallo(e) ==
  /\ fallos[e] < MaxFallos
  /\ fallos' = [fallos EXCEPT ![e] = @ + 1]

\* The broker confirms.  While disconnected the channel wrapper holds the
\* message and the replica waits.
Confirmar(r) ==
  /\ pc[r] = "publicando"
  /\ conectado[r]
  /\ Aceptar(actual[r])
  /\ pc' = [pc EXCEPT ![r] = "confirmado"]
  /\ UNCHANGED <<fila, lote, foto, actual, entorno, fallos, rescatados, ambiguos>>

\* publish() rejects (or the payload does not parse) and the broker has nothing.
ErrorPublicar(r) ==
  /\ pc[r] = "publicando"
  /\ ContarFallo(actual[r])
  /\ pc' = [pc EXCEPT ![r] = "fallo"]
  /\ UNCHANGED <<fila, lote, foto, actual, entorno, veces, rescatados, ambiguos>>

\* publish() rejects although the broker has the message (its confirm was lost).
ErrorTrasEntregar(r) ==
  /\ pc[r] = "publicando"
  /\ ContarFallo(actual[r])
  /\ Aceptar(actual[r])
  /\ pc'       = [pc EXCEPT ![r] = "fallo"]
  /\ ambiguos' = ambiguos \cup {actual[r]}
  /\ UNCHANGED <<fila, lote, foto, actual, entorno, rescatados>>

\* Defect: publish() is not awaited.
MarcarSinConfirmar(r) ==
  /\ pc[r] = "publicando"
  /\ Existe(actual[r])
  /\ status' = [status EXCEPT ![actual[r]] = "PROCESSED"]
  /\ Terminar(r, actual[r])
  /\ UNCHANGED <<attempts, claimedAt, actual, entorno, historia>>

\* UPDATE ... SET status = 'PROCESSED' by id; claimedAt stays as it is.
MarcarProcesado(r) ==
  /\ pc[r] = "confirmado"
  /\ Existe(actual[r])
  /\ status' = [status EXCEPT ![actual[r]] = "PROCESSED"]
  /\ Terminar(r, actual[r])
  /\ UNCHANGED <<attempts, claimedAt, actual, entorno, historia>>

\* That UPDATE throws, with the event already published: same catch as a
\* failed publication.
ErrorMarcar(r) ==
  /\ pc[r] = "confirmado"
  /\ ContarFallo(actual[r])
  /\ pc'       = [pc EXCEPT ![r] = "fallo"]
  /\ ambiguos' = ambiguos \cup {actual[r]}
  /\ UNCHANGED <<fila, lote, foto, actual, entorno, veces, rescatados>>

\* The catch: attempts come from the claimed copy of the row, not from the row.
RegistrarFallo(r) ==
  LET e == actual[r]
      n == foto[r][e] + 1
  IN /\ pc[r] = "fallo"
     /\ Existe(e)
     /\ Escribir(e, IF n >= MaxAttempts THEN "FAILED" ELSE "PENDING", n, "NULL")
     /\ Terminar(r, e)
     /\ UNCHANGED <<actual, entorno, historia>>

\* A database error outside the inner try leaves the loop: the rest of the
\* batch stays PUBLISHING.
AbortarLote(r) ==
  /\ \/ pc[r] = "fallo"
     \/ pc[r] = "lote" /\ lote[r] \cap Corruptos # {}
  /\ caidas < MaxCaidas
  /\ caidas' = caidas + 1
  /\ Soltar(r)
  /\ UNCHANGED <<fila, actual, conectado, historia>>

\* The row was purged under a slow replica: every update by its id throws.
FilaBorrada(r) ==
  /\ \/ pc[r] \in {"confirmado", "fallo"} /\ ~Existe(actual[r])
     \/ pc[r] = "lote" /\ \E e \in lote[r] \cap Corruptos : ~Existe(e)
  /\ Soltar(r)
  /\ UNCHANGED <<fila, actual, entorno, historia>>

TerminarLote(r) ==
  /\ pc[r] = "lote"
  /\ lote[r] = {}
  /\ Soltar(r)
  /\ UNCHANGED <<fila, actual, entorno, historia>>

\* The process dies and restarts with nothing in memory.
Caer(r) ==
  /\ pc[r] # "libre"
  /\ caidas < MaxCaidas
  /\ caidas' = caidas + 1
  /\ Soltar(r)
  /\ UNCHANGED <<fila, actual, conectado, historia>>
-----------------------------------------------------------------------------
Desconectar(r) ==
  /\ conectado[r]
  /\ caidas < MaxCaidas
  /\ caidas' = caidas + 1
  /\ conectado' = [conectado EXCEPT ![r] = FALSE]
  /\ UNCHANGED <<fila, tick, historia>>

Reconectar(r) ==
  /\ ~conectado[r]
  /\ conectado' = [conectado EXCEPT ![r] = TRUE]
  /\ UNCHANGED <<fila, tick, caidas, historia>>

\* Sixty seconds go by since e was claimed.
Vencer(e) ==
  /\ status[e] = "PUBLISHING"
  /\ claimedAt[e] = "reciente"
  /\ claimedAt' = [claimedAt EXCEPT ![e] = "vencido"]
  /\ UNCHANGED <<status, attempts, tick, entorno, historia>>

\* Defect: the rescue looks for rows without a claim date.
RescatarSinFecha ==
  LET huerfanos == {e \in Eventos : status[e] = "PUBLISHING" /\ claimedAt[e] = "NULL"}
  IN /\ huerfanos # {}
     /\ status' = [e \in Eventos |-> IF e \in huerfanos THEN "PENDING" ELSE status[e]]
     /\ rescatados' = rescatados \cup huerfanos
     /\ UNCHANGED <<attempts, claimedAt, tick, entorno, veces, fallos, ambiguos>>

\* Defect: being rescued costs an attempt.
RescatarPenalizando ==
  LET huerfanos == {e \in Eventos : status[e] = "PUBLISHING" /\ claimedAt[e] = "vencido"}
      agotado(e) == attempts[e] + 1 >= MaxAttempts
  IN /\ huerfanos # {}
     /\ status'    = [e \in Eventos |-> IF e \notin huerfanos THEN status[e]
                                       ELSE IF agotado(e) THEN "FAILED" ELSE "PENDING"]
     /\ attempts'  = [e \in Eventos |-> IF e \in huerfanos THEN attempts[e] + 1 ELSE attempts[e]]
     /\ claimedAt' = [e \in Eventos |-> IF e \in huerfanos THEN "NULL" ELSE claimedAt[e]]
     /\ rescatados' = rescatados \cup huerfanos
     /\ UNCHANGED <<tick, entorno, veces, fallos, ambiguos>>

\* rescatarPublishing, every minute: it cannot tell a dead replica from a slow one.
Rescatar ==
  LET huerfanos == {e \in Eventos : status[e] = "PUBLISHING" /\ claimedAt[e] = "vencido"}
  IN /\ huerfanos # {}
     /\ status'    = [e \in Eventos |-> IF e \in huerfanos THEN "PENDING" ELSE status[e]]
     /\ claimedAt' = [e \in Eventos |-> IF e \in huerfanos THEN "NULL" ELSE claimedAt[e]]
     /\ rescatados' = rescatados \cup huerfanos
     /\ UNCHANGED <<attempts, tick, entorno, veces, fallos, ambiguos>>

\* Defect: the purge forgets the filter by status.
PurgarPorEdad(e) ==
  /\ Existe(e)
  /\ status' = [status EXCEPT ![e] = IF @ = "FAILED" THEN "PURGADO_FAILED" ELSE "PURGADO"]
  /\ UNCHANGED <<attempts, claimedAt, tick, entorno, historia>>

\* purgarOutbox, every hour: a row older than its retention is deleted.
Purgar(e) ==
  /\ status[e] \in {"PROCESSED", "FAILED"}
  /\ status' = [status EXCEPT ![e] =
                  IF @ = "PROCESSED" THEN "PURGADO" ELSE "PURGADO_FAILED"]
  /\ UNCHANGED <<attempts, claimedAt, tick, entorno, historia>>

\* Defect: the endpoint does not check that the row is FAILED.
ReintentarCualquiera(e) ==
  /\ Existe(e)
  /\ status'   = [status EXCEPT ![e] = "PENDING"]
  /\ attempts' = [attempts EXCEPT ![e] = 0]
  /\ UNCHANGED <<claimedAt, tick, entorno, historia>>

\* POST outbox/:id/retry by an administrator.
Reintentar(e) ==
  /\ status[e] = "FAILED"
  /\ status'   = [status EXCEPT ![e] = "PENDING"]
  /\ attempts' = [attempts EXCEPT ![e] = 0]
  /\ UNCHANGED <<claimedAt, tick, entorno, historia>>
-----------------------------------------------------------------------------
PasoReplica(r) ==
  \/ Reclamar(r) \/ Confirmar(r) \/ ErrorPublicar(r) \/ ErrorTrasEntregar(r)
  \/ MarcarProcesado(r) \/ ErrorMarcar(r) \/ RegistrarFallo(r)
  \/ AbortarLote(r) \/ FilaBorrada(r) \/ TerminarLote(r) \/ Caer(r)
  \/ Desconectar(r) \/ Reconectar(r)
  \/ \E e \in Eventos : Tomar(r, e) \/ DescartarCorrupto(r, e)

PasoTabla ==
  \/ Rescatar
  \/ \E e \in Eventos : Crear(e) \/ Vencer(e) \/ Purgar(e) \/ Reintentar(e)

Next == PasoTabla \/ \E r \in Replicas : PasoReplica(r)

Spec == Init /\ [][Next]_vars

\* Crons keep ticking, a started tick goes on, the connection manager
\* reconnects and time passes.  Failures, crashes, purges and operators are
\* under no obligation.
Avanzar(r) ==
  \/ Confirmar(r) \/ MarcarProcesado(r) \/ RegistrarFallo(r) \/ TerminarLote(r)
  \/ FilaBorrada(r)
  \/ \E e \in Eventos : Tomar(r, e) \/ DescartarCorrupto(r, e)

Fairness ==
  /\ WF_vars(Rescatar)
  /\ \A e \in Eventos : WF_vars(Vencer(e))
  /\ \A r \in Replicas :
       WF_vars(Reclamar(r)) /\ WF_vars(Avanzar(r)) /\ WF_vars(Reconectar(r))

FairSpec == Spec /\ Fairness
=============================================================================
