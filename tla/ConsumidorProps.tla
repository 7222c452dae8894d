--------------------------- MODULE ConsumidorProps ---------------------------
(* What the retries of a consumer promise. *)
EXTENDS Consumidor

\* Every variable keeps its type.
ConsumidorTypeOK ==
  /\ mensaje \in [Mensajes -> {"EN_COLA", "ENTREGADO", "CONFIRMADO", "DLQ"}]
  /\ entregas \in [Mensajes -> 0..MaxEntregas]
  /\ ejecucion \in [Mensajes -> [Entregas ->
       [fase : {"NO", "CORRE", "HECHO", "ESPERA", "FIN"}, fallos : 0..MaxRetries]]]
  /\ exitos \in [Mensajes -> [Entregas -> Nat]]
  /\ permanentes \subseteq Mensajes \X Entregas
  /\ agotados \subseteq Mensajes \X Entregas

\* A message leaves the broker for what became of the delivery the broker waits
\* on, and not of an older one whose retries go on after its channel dropped:
\* acknowledged after the handler ran to its end for that delivery,
\* dead-lettered after it was refused for good or failed 1 + MaxRetries times in
\* it. And the handler runs to its end once per delivery at most.
EntregaConCausa == \A m \in Mensajes :
  /\ mensaje[m] = "CONFIRMADO" => exitos[m][entregas[m]] > 0
  /\ mensaje[m] = "DLQ" => <<m, entregas[m]>> \in permanentes \cup agotados
  /\ \A e \in Entregas : exitos[m][e] <= 1
-----------------------------------------------------------------------------
(* The inductive invariant (ServiciosProofs). *)

\* Only what was delivered is executed, and what left the queue was delivered.
EnOrden == \A m \in Mensajes :
  /\ \A e \in Entregas : e > entregas[m] => ejecucion[m][e].fase = "NO"
  /\ mensaje[m] # "EN_COLA" => entregas[m] \in Entregas

\* An execution has completed once it has run, and not before.
ExitoAlFinal == \A m \in Mensajes, e \in Entregas :
  /\ ejecucion[m][e].fase \in {"NO", "CORRE", "ESPERA"} => exitos[m][e] = 0
  /\ ejecucion[m][e].fase = "HECHO" => exitos[m][e] > 0

ConsumidorIInv == ConsumidorTypeOK /\ EnOrden /\ ExitoAlFinal /\ EntregaConCausa
=============================================================================
