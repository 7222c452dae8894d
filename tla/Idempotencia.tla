---------------------------- MODULE Idempotencia ----------------------------
(***************************************************************************)
(* The IdempotencyInterceptor of libs/resiliencia: POST requests that carry *)
(* the same Idempotency-Key, on any replica of one service, and the row of *)
(* idempotency_keys they claim.  A step is one database statement of the   *)
(* interceptor, or the end of the intercepted handler.                     *)
(*                                                                         *)
(* The interceptor reads and writes no key but its own, so one key stands  *)
(* for all.  A request that is not answered well is sent again: Peticiones *)
(* are the clients' conversations, of which any number may be in flight.   *)
(***************************************************************************)
EXTENDS Naturals

CONSTANTS
  Peticiones,   \* requests with the key
  Cuerpos,      \* their bodies, as told apart by requestHash
  CuerpoDe,     \* the body of each request
  MaxFallos,    \* bound: failures of the handler, the database or the process
  MaxLentas     \* bound: handlers still running CLAIM_TTL_MS after their claim

ASSUME IdempotenciaAssumption ==
  /\ CuerpoDe \in [Peticiones -> Cuerpos]
  /\ Peticiones # {}
  /\ MaxFallos \in Nat
  /\ MaxLentas \in Nat

VARIABLES
  \* The row of the key:
  fila,         \* "ninguna", "curso" (completedAt is null) or "hecha"
  vencida,      \* createdAt is more than CLAIM_TTL_MS ago
  hash,         \* requestHash
  resultado,    \* body (the column): the answer to which request body it holds
  dueno,        \* who created it (the code keeps no such column)
  \* The requests:
  pc,           \* where handle() is
  respuesta,    \* what the client got
  recibido,     \* the answer to which body it got, on success
  fallos, lentas,
  \* History, read by properties only:
  efectos,      \* times the handler committed: 0, 1, or 2 for more
  sinRegistrar, \* a commit of the handler that did not end in a completed row
  ajena,        \* a request deleted a row that was not its own and still valid
  purgada       \* the weekly retention deleted the row

columnas == <<fila, vencida, hash, resultado, dueno>>
cliente  == <<respuesta, recibido>>
cotas    == <<fallos, lentas>>
historia == <<efectos, sinRegistrar, ajena, purgada>>
vars == <<columnas, pc, cliente, cotas, historia>>

Puntos     == {"nueva", "huerfana", "reclamar", "ejecutando", "persistir", "liberar", "fin"}
Exitos     == {"creada", "repetida"}
Respuestas == Exitos \cup {"ninguna", "409", "422", "error"}

\* Between its claim and its answer.
EnVuelo(p) == pc[p] \in {"ejecutando", "persistir", "liberar"}

Ir(p, punto) == pc' = [pc EXCEPT ![p] = punto]

Responder(p, r) ==
  /\ Ir(p, "fin")
  /\ respuesta' = [respuesta EXCEPT ![p] = r]

Fallo ==
  /\ fallos < MaxFallos
  /\ fallos' = fallos + 1

\* DELETE by key, whoever holds it and whether or not there is a row.
Borrar(p) ==
  /\ fila' = "ninguna"
  /\ ajena' = (ajena \/ (/\ fila # "ninguna"
                         /\ dueno # p
                         /\ fila = "hecha" \/ EnVuelo(dueno)))
  /\ UNCHANGED <<vencida, hash, resultado, dueno>>

Init ==
  /\ fila = "ninguna"
  /\ vencida = FALSE
  /\ hash \in Cuerpos
  /\ resultado = hash
  /\ dueno \in Peticiones
  /\ pc = [p \in Peticiones |-> "nueva"]
  /\ respuesta = [p \in Peticiones |-> "ninguna"]
  /\ recibido = CuerpoDe
  /\ fallos = 0
  /\ lentas = 0
  /\ efectos = 0
  /\ sinRegistrar = FALSE
  /\ ajena = FALSE
  /\ purgada = FALSE
-----------------------------------------------------------------------------
\* findUnique finds nothing.
LeerLibre(p) ==
  /\ pc[p] = "nueva"
  /\ fila = "ninguna"
  /\ Ir(p, "reclamar")
  /\ UNCHANGED <<columnas, cliente, cotas, historia>>

\* Defect: the orphan's request is taken over without claiming the key again.
LeerHuerfanaSinReclamar(p) ==
  /\ pc[p] = "nueva"
  /\ fila = "curso"
  /\ vencida
  /\ Ir(p, "ejecutando")
  /\ UNCHANGED <<columnas, cliente, cotas, historia>>

\* It finds a claim that was never completed and has expired: the body is not
\* compared.
LeerHuerfana(p) ==
  /\ pc[p] = "nueva"
  /\ fila = "curso"
  /\ vencida
  /\ Ir(p, "huerfana")
  /\ UNCHANGED <<columnas, cliente, cotas, historia>>

\* It finds a row in use: 422, the stored answer, or 409.
Vigente == fila = "hecha" \/ (fila = "curso" /\ ~vencida)

\* Defect: the stored answer is replayed without comparing the bodies.
LeerSinComparar(p) ==
  /\ pc[p] = "nueva"
  /\ Vigente
  /\ IF fila = "hecha"
     THEN Responder(p, "repetida") /\ recibido' = [recibido EXCEPT ![p] = resultado]
     ELSE Responder(p, "409") /\ UNCHANGED recibido
  /\ UNCHANGED <<columnas, cotas, historia>>

LeerVigente(p) ==
  /\ pc[p] = "nueva"
  /\ Vigente
  /\ IF hash # CuerpoDe[p]
     THEN Responder(p, "422") /\ UNCHANGED recibido
     ELSE IF fila = "hecha"
     THEN Responder(p, "repetida") /\ recibido' = [recibido EXCEPT ![p] = resultado]
     ELSE Responder(p, "409") /\ UNCHANGED recibido
  /\ UNCHANGED <<columnas, cotas, historia>>

\* The orphan is deleted, by key: it may be another row by now, or none.
LiberarHuerfana(p) ==
  /\ pc[p] = "huerfana"
  /\ Borrar(p)
  /\ Ir(p, "reclamar")
  /\ UNCHANGED <<cliente, cotas, efectos, sinRegistrar, purgada>>

\* Defect: no unique index on the key.
ReclamarSinIndice(p) ==
  /\ pc[p] = "reclamar"
  /\ fila' = "curso"
  /\ vencida' = FALSE
  /\ hash' = CuerpoDe[p]
  /\ dueno' = p
  /\ Ir(p, "ejecutando")
  /\ UNCHANGED <<resultado, cliente, cotas, historia>>

\* claimKey: the unique index lets one of the concurrent inserts through.
Reclamar(p) ==
  /\ pc[p] = "reclamar"
  /\ fila = "ninguna"
  /\ fila' = "curso"
  /\ vencida' = FALSE
  /\ hash' = CuerpoDe[p]
  /\ dueno' = p
  /\ Ir(p, "ejecutando")
  /\ UNCHANGED <<resultado, cliente, cotas, historia>>

ReclamoPerdido(p) ==
  /\ pc[p] = "reclamar"
  /\ fila # "ninguna"
  /\ Responder(p, "409")
  /\ UNCHANGED <<columnas, recibido, cotas, historia>>

Efecto == efectos' = IF efectos < 2 THEN efectos + 1 ELSE 2

\* The handler commits its business transaction and returns.
Ejecutar(p) ==
  /\ pc[p] = "ejecutando"
  /\ Efecto
  /\ Ir(p, "persistir")
  /\ UNCHANGED <<columnas, cliente, cotas, sinRegistrar, ajena, purgada>>

\* The handler throws before committing anything ...
FallarEjecucion(p) ==
  /\ pc[p] = "ejecutando"
  /\ Fallo
  /\ Ir(p, "liberar")
  /\ UNCHANGED <<columnas, cliente, lentas, historia>>

\* ... or after its commit (a later call fails, the commit's answer is lost).
FallarTrasEfecto(p) ==
  /\ pc[p] = "ejecutando"
  /\ Fallo
  /\ Efecto
  /\ sinRegistrar' = TRUE
  /\ Ir(p, "liberar")
  /\ UNCHANGED <<columnas, cliente, lentas, ajena, purgada>>

\* Defect: completedAt is not written with the answer.
CompletarSinFecha(p) ==
  /\ pc[p] = "persistir"
  /\ fila # "ninguna"
  /\ resultado' = CuerpoDe[p]
  /\ Responder(p, "creada")
  /\ recibido' = [recibido EXCEPT ![p] = CuerpoDe[p]]
  /\ UNCHANGED <<fila, vencida, hash, dueno, cotas, historia>>

\* The answer is stored in the key's row, whoever claimed it, and returned.
Completar(p) ==
  /\ pc[p] = "persistir"
  /\ fila # "ninguna"
  /\ fila' = "hecha"
  /\ resultado' = CuerpoDe[p]
  /\ Responder(p, "creada")
  /\ recibido' = [recibido EXCEPT ![p] = CuerpoDe[p]]
  /\ UNCHANGED <<vencida, hash, dueno, cotas, historia>>

\* The update throws because the row is gone ...
CompletarSinFila(p) ==
  /\ pc[p] = "persistir"
  /\ fila = "ninguna"
  /\ sinRegistrar' = TRUE
  /\ Ir(p, "liberar")
  /\ UNCHANGED <<columnas, cliente, cotas, efectos, ajena, purgada>>

\* ... or because the database fails.
FallarCompletar(p) ==
  /\ pc[p] = "persistir"
  /\ Fallo
  /\ sinRegistrar' = TRUE
  /\ Ir(p, "liberar")
  /\ UNCHANGED <<columnas, cliente, lentas, efectos, ajena, purgada>>

\* Every error ends in a delete by key, and the error goes to the client.
Liberar(p) ==
  /\ pc[p] = "liberar"
  /\ Borrar(p)
  /\ Responder(p, "error")
  /\ UNCHANGED <<recibido, cotas, efectos, sinRegistrar, purgada>>

\* The error of that delete is swallowed.
FallarLiberar(p) ==
  /\ pc[p] = "liberar"
  /\ Fallo
  /\ Responder(p, "error")
  /\ UNCHANGED <<columnas, recibido, lentas, historia>>

\* The process dies; its clients get no answer.
Caer(p) ==
  /\ pc[p] \notin {"nueva", "fin"}
  /\ Fallo
  /\ sinRegistrar' = (sinRegistrar \/ pc[p] = "persistir")
  /\ Responder(p, "error")
  /\ UNCHANGED <<columnas, recibido, lentas, efectos, ajena, purgada>>

\* The client was not answered, or not with an answer that settles it.
Reenviar(p) ==
  /\ pc[p] = "fin"
  /\ respuesta[p] \in {"409", "error"}
  /\ Ir(p, "nueva")
  /\ respuesta' = [respuesta EXCEPT ![p] = "ninguna"]
  /\ UNCHANGED <<columnas, recibido, cotas, historia>>
-----------------------------------------------------------------------------
\* Defect: without H-1 a claim never expires.
VencerNunca == FALSE /\ UNCHANGED vars

\* CLAIM_TTL_MS after a claim whose request is over ...
Vencer ==
  /\ fila = "curso"
  /\ ~vencida
  /\ ~EnVuelo(dueno)
  /\ vencida' = TRUE
  /\ UNCHANGED <<fila, hash, resultado, dueno, pc, cliente, cotas, historia>>

\* ... or whose handler is still running.
VencerEnVuelo ==
  /\ fila = "curso"
  /\ ~vencida
  /\ EnVuelo(dueno)
  /\ lentas < MaxLentas
  /\ lentas' = lentas + 1
  /\ vencida' = TRUE
  /\ UNCHANGED <<fila, hash, resultado, dueno, pc, cliente, fallos, historia>>

\* purgarIdempotencyKeys: a week later, with no request left in flight.
Purgar ==
  /\ fila # "ninguna"
  /\ \A p \in Peticiones : pc[p] \in {"nueva", "fin"}
  /\ fila' = "ninguna"
  /\ purgada' = TRUE
  /\ UNCHANGED <<vencida, hash, resultado, dueno, pc, cliente, cotas, efectos,
                 sinRegistrar, ajena>>
-----------------------------------------------------------------------------
Avanzar(p) ==
  \/ LeerLibre(p) \/ LeerHuerfana(p) \/ LeerVigente(p)
  \/ LiberarHuerfana(p) \/ Reclamar(p) \/ ReclamoPerdido(p)
  \/ Ejecutar(p) \/ Completar(p) \/ CompletarSinFila(p) \/ Liberar(p) \/ Reenviar(p)

Tropezar(p) ==
  \/ FallarEjecucion(p) \/ FallarTrasEfecto(p) \/ FallarCompletar(p)
  \/ FallarLiberar(p) \/ Caer(p)

Next ==
  \/ \E p \in Peticiones : Avanzar(p) \/ Tropezar(p)
  \/ Vencer \/ VencerEnVuelo \/ Purgar

Spec == Init /\ [][Next]_vars

\* Handlers end, clients insist and time passes.
FairSpec == Spec /\ WF_vars(Vencer) /\ \A p \in Peticiones : WF_vars(Avanzar(p))
=============================================================================
