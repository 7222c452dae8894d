-------------------------- MODULE IdempotenciaProps -------------------------
(* What an Idempotency-Key is for. *)
EXTENDS Idempotencia

\* Every variable keeps its type.
TypeOK ==
  /\ fila \in {"ninguna", "curso", "hecha"}
  /\ vencida \in BOOLEAN
  /\ hash \in Cuerpos
  /\ resultado \in Cuerpos
  /\ dueno \in Peticiones
  /\ pc \in [Peticiones -> Puntos]
  /\ respuesta \in [Peticiones -> Respuestas]
  /\ recibido \in [Peticiones -> Cuerpos]
  /\ fallos \in 0..MaxFallos
  /\ lentas \in 0..MaxLentas
  /\ efectos \in 0..2
  /\ sinRegistrar \in BOOLEAN
  /\ ajena \in BOOLEAN
  /\ purgada \in BOOLEAN

\* The handler of a key commits twice only if a commit went unrecorded, a valid
\* claim was deleted by another request, or the retention ran out.
DobleEjecucionConCausa ==
  efectos >= 2 => sinRegistrar \/ ajena \/ purgada

\* "el indice unico resuelve la carrera": as long as no valid claim is deleted
\* by another request, one request at a time is past its claim, and the row it
\* will complete or delete is its own.
UnSoloDueno ==
  ajena \/ \A p \in Peticiones : EnVuelo(p) => fila = "curso" /\ dueno = p

\* T-14: nobody gets the answer to another body, as long as no valid claim was
\* deleted by another request.
RespuestaPropia ==
  ajena \/ \A p \in Peticiones : respuesta[p] \in Exitos => recibido[p] = CuerpoDe[p]

\* A stored answer is never lost or replaced before the retention ends, as long
\* as no valid claim is deleted by another request.
HechaEsFinal ==
  [][fila = "hecha" => \/ fila' = "hecha" /\ hash' = hash /\ resultado' = resultado
                       \/ purgada' \/ ajena']_vars

\* H-1: no client is answered 409 or an error for ever, whoever died with the
\* key claimed.  (Once a valid claim is deleted the requests may go on deleting
\* each other's.)
TodaPeticionSeResuelve ==
  \A p \in Peticiones : <>(ajena \/ respuesta[p] \in Exitos \cup {"422"})

\* "se libera (tolerando carrera con .catch) y se re-reclama": with handlers
\* faster than CLAIM_TTL_MS, and every commit recorded, a key has one effect.
UnaSolaEjecucion ==
  lentas = 0 /\ ~sinRegistrar /\ ~purgada => efectos <= 1
-----------------------------------------------------------------------------
(* The inductive invariant behind the safety properties. *)

\* The row says whose answer it is waiting for, or holds it.
FilaInv ==
  /\ fila = "curso" => hash = CuerpoDe[dueno]
  /\ fila = "hecha" /\ ~ajena => /\ resultado = hash
                                  /\ pc[dueno] = "fin"
                                  /\ respuesta[dueno] = "creada"

\* The one commit of the key is in its row, or about to be.
EfectoInv ==
  ~(sinRegistrar \/ ajena \/ purgada) /\ efectos # 0 =>
    /\ efectos = 1
    /\ fila = "hecha" \/ (fila = "curso" /\ pc[dueno] = "persistir")

IInv == TypeOK /\ UnSoloDueno /\ FilaInv /\ EfectoInv /\ RespuestaPropia
=============================================================================
