----------------------------- MODULE Consumidor ------------------------------
(***************************************************************************)
(* RabbitMQRetryInterceptor: the deliveries of a queue to a service, the   *)
(* retries of the handler in the same process, and what the broker is told *)
(* in the end. A channel that drops gives the message back to the queue    *)
(* while the execution it had begun goes on retrying.                      *)
(***************************************************************************)
EXTENDS Integers

CONSTANTS
  Mensajes,
  MaxRetries,     \* maxRetries: 3 in the code
  MaxEntregas     \* bound: deliveries of a message

ASSUME ConsumidorAssumption == MaxRetries \in Nat /\ MaxEntregas \in Nat \ {0}

Entregas == 1..MaxEntregas

VARIABLES
  mensaje,      \* per message: where the broker has it
  entregas,     \* times it was delivered: the last one is the one that counts
  ejecucion,    \* per message and delivery: [fase, fallos]
  \* history
  exitos,       \* per message and delivery: times the handler ran to its end
  permanentes,  \* <<message, delivery>> refused by the handler for good
  agotados      \* <<message, delivery>> that failed 1 + MaxRetries times

broker         == <<mensaje, entregas>>
consumidorVars == <<broker, ejecucion, exitos, permanentes, agotados>>

ConsumidorInit ==
  /\ mensaje = [m \in Mensajes |-> "EN_COLA"]
  /\ entregas = [m \in Mensajes |-> 0]
  /\ ejecucion = [m \in Mensajes |-> [e \in Entregas |-> [fase |-> "NO", fallos |-> 0]]]
  /\ exitos = [m \in Mensajes |-> [e \in Entregas |-> 0]]
  /\ permanentes = {}
  /\ agotados = {}

\* The channel of delivery e is still the one the broker waits on.
CanalVivo(m, e) == mensaje[m] = "ENTREGADO" /\ e = entregas[m]

\* Defect: whichever execution ends settles the message.
ResponderSinCanal(m, e, fin) == mensaje' = [mensaje EXCEPT ![m] = fin]

\* ack and nack on a channel that is gone throw, and the error is ignored.
Responder(m, e, fin) ==
  mensaje' = [mensaje EXCEPT ![m] = IF CanalVivo(m, e) THEN fin ELSE @]
-----------------------------------------------------------------------------
\* intercept
Entregar(m) ==
  /\ mensaje[m] = "EN_COLA" /\ entregas[m] < MaxEntregas
  /\ mensaje' = [mensaje EXCEPT ![m] = "ENTREGADO"]
  /\ entregas' = [entregas EXCEPT ![m] = @ + 1]
  /\ ejecucion' = [ejecucion EXCEPT ![m][entregas'[m]].fase = "CORRE"]
  /\ UNCHANGED <<exitos, permanentes, agotados>>

\* The handler commits ...
Manejar(m, e) ==
  /\ ejecucion[m][e].fase = "CORRE"
  /\ ejecucion' = [ejecucion EXCEPT ![m][e].fase = "HECHO"]
  /\ exitos' = [exitos EXCEPT ![m][e] = @ + 1]
  /\ UNCHANGED <<broker, permanentes, agotados>>

\* ... and tap acknowledges.
Acusar(m, e) ==
  /\ ejecucion[m][e].fase = "HECHO"
  /\ ejecucion' = [ejecucion EXCEPT ![m][e].fase = "FIN"]
  /\ Responder(m, e, "CONFIRMADO")
  /\ UNCHANGED <<entregas, exitos, permanentes, agotados>>

\* esErrorPermanenteConsumidor: to the dead-letter queue at once.
FallarPermanente(m, e) ==
  /\ ejecucion[m][e].fase = "CORRE"
  /\ ejecucion' = [ejecucion EXCEPT ![m][e].fase = "FIN"]
  /\ permanentes' = permanentes \cup {<<m, e>>}
  /\ Responder(m, e, "DLQ")
  /\ UNCHANGED <<entregas, exitos, agotados>>

\* Any other error: the timer of the next attempt.
FallarTransitorio(m, e) ==
  /\ ejecucion[m][e].fase = "CORRE"
  /\ ejecucion[m][e].fallos < MaxRetries
  /\ ejecucion' = [ejecucion EXCEPT ![m][e] = [fase |-> "ESPERA", fallos |-> @.fallos + 1]]
  /\ UNCHANGED <<broker, exitos, permanentes, agotados>>

\* ... or retryCount > maxRetries.
Agotar(m, e) ==
  /\ ejecucion[m][e].fase = "CORRE"
  /\ ejecucion[m][e].fallos + 1 > MaxRetries
  /\ ejecucion' = [ejecucion EXCEPT ![m][e].fase = "FIN"]
  /\ agotados' = agotados \cup {<<m, e>>}
  /\ Responder(m, e, "DLQ")
  /\ UNCHANGED <<entregas, exitos, permanentes>>

\* The timer fires: retry subscribes to the handler again, even when the message
\* is in other hands by now.
ReintentarEntrega(m, e) ==
  /\ ejecucion[m][e].fase = "ESPERA"
  /\ ejecucion' = [ejecucion EXCEPT ![m][e].fase = "CORRE"]
  /\ UNCHANGED <<broker, exitos, permanentes, agotados>>

Devueltos == [m \in Mensajes |-> IF mensaje[m] = "ENTREGADO" THEN "EN_COLA" ELSE mensaje[m]]

\* The channel drops.
CaerCanal ==
  /\ \E m \in Mensajes : mensaje[m] = "ENTREGADO"
  /\ mensaje' = Devueltos
  /\ UNCHANGED <<entregas, ejecucion, exitos, permanentes, agotados>>

\* The process dies, with all its executions.
CaerConsumidor ==
  /\ mensaje' = Devueltos
  /\ ejecucion' = [m \in Mensajes |-> [e \in Entregas |->
       IF e <= entregas[m] THEN [ejecucion[m][e] EXCEPT !.fase = "FIN"] ELSE ejecucion[m][e]]]
  /\ UNCHANGED <<entregas, exitos, permanentes, agotados>>

ConsumidorNext ==
  \/ \E m \in Mensajes : Entregar(m)
  \/ \E m \in Mensajes, e \in Entregas :
       \/ Manejar(m, e)
       \/ Acusar(m, e)
       \/ FallarPermanente(m, e)
       \/ FallarTransitorio(m, e)
       \/ Agotar(m, e)
       \/ ReintentarEntrega(m, e)
  \/ CaerCanal
  \/ CaerConsumidor

ConsumidorSpec == ConsumidorInit /\ [][ConsumidorNext]_consumidorVars
=============================================================================
