------------------------ MODULE EntregaAlMenosUnaVez ------------------------
(***************************************************************************)
(* What a producer service promises about its events (ADR-002): an event   *)
(* committed together with the change of state it announces is either      *)
(* published to the exchange at least once or ends as a dead letter that   *)
(* an operator can see and bring back.  It never disappears in between.    *)
(* The transactional outbox (module Outbox) implements this specification. *)
(***************************************************************************)

CONSTANT Eventos

VARIABLE entrega      \* entrega[e]: what the world can tell about event e

Init == entrega = [e \in Eventos |-> "ausente"]

Paso(e, desde, a) ==
  /\ entrega[e] \in desde
  /\ entrega' = [entrega EXCEPT ![e] = a]

\* The business transaction commits the event.
Registrar(e) == Paso(e, {"ausente"}, "pendiente")

\* The broker accepts it for the first time.  A slow replica may still get a
\* dead letter accepted.
Publicar(e)  == Paso(e, {"pendiente", "muerto"}, "publicado")

\* Given up: dead letter in the database.
Descartar(e) == Paso(e, {"pendiente"}, "muerto")

\* Brought back, by an operator or by the late write of another replica.
Revivir(e)   == Paso(e, {"muerto"}, "pendiente")

Next == \E e \in Eventos :
          Registrar(e) \/ Publicar(e) \/ Descartar(e) \/ Revivir(e)

Spec == Init /\ [][Next]_entrega
=============================================================================
