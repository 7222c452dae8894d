----------------------------- MODULE Facturacion -----------------------------
(***************************************************************************)
(* Electronic documents of one company in servicio-facturacion: a receipt  *)
(* or invoice for each closed bill, credit and debit notes against those   *)
(* that SUNAT accepted, and the cron that sends what is signed.            *)
(*                                                                         *)
(* A document is named by the request that issues it. The four series of   *)
(* notes are one series apart from that of the bills. Validations of the   *)
(* data, the company and the branch come before anything is written, so a  *)
(* refusal by them is the end of the request.                              *)
(***************************************************************************)
EXTENDS Integers, FiniteSets

CONSTANTS
  Ventas,         \* closed bills
  Emisiones,      \* requests to issue the document of a bill
  Notas,          \* requests to issue a note
  VentaDe,        \* the bill of each emision
  AfectadoDe,     \* the emision whose document each note corrects
  Procesadores,   \* running copies of the service: the deployment has one
  MaxIntentos     \* 5: attempts to send a document

ASSUME FacturacionAssumption ==
  /\ Emisiones \cap Notas = {}
  /\ VentaDe \in [Emisiones -> Ventas]
  /\ AfectadoDe \in [Notas -> Emisiones]
  /\ MaxIntentos \in Nat

Documentos == Emisiones \cup Notas
Serie(d) == IF d \in Emisiones THEN "VENTA" ELSE "NOTA"

VARIABLES
  comprobantePago,  \* the projection of each bill: NO, DISPONIBLE, EMITIDO
  solicitud,        \* stage of each request
  correlativo,      \* last number of each series
  numero,           \* number given to each request
  comprobante,      \* state of each document: NO, FIRMADO, ENVIADO, ACEPTADO
  intentos,         \* attempts to send each document
  pendientes,       \* per copy: what its run of the cron has yet to send
  respuesta,        \* per copy: the document it has sent and what SUNAT said
  emitidos          \* comprobante.emitido: documents announced as accepted

emision == <<solicitud, correlativo, numero>>
envio   == <<intentos, pendientes, respuesta, emitidos>>
facturacionVars == <<comprobantePago, comprobante, emision, envio>>

Nada == [documento |-> 0, cdr |-> FALSE]

FacturacionInit ==
  /\ comprobantePago = [v \in Ventas |-> "NO"]
  /\ solicitud = [d \in Documentos |-> "NUEVA"]
  /\ correlativo = [s \in {"VENTA", "NOTA"} |-> 0]
  /\ numero = [d \in Documentos |-> 0]
  /\ comprobante = [d \in Documentos |-> "NO"]
  /\ intentos = [d \in Documentos |-> 0]
  /\ pendientes = [r \in Procesadores |-> {}]
  /\ respuesta = [r \in Procesadores |-> Nada]
  /\ emitidos = {}
-----------------------------------------------------------------------------
\* cuenta.cerrada; delivered again it rewrites the items, not the state.
RegistrarComprobantePago(v) ==
  /\ comprobantePago[v] = "NO"
  /\ comprobantePago' = [comprobantePago EXCEPT ![v] = "DISPONIBLE"]
  /\ UNCHANGED <<comprobante, emision, envio>>

\* emitir: what it issues must not have been issued, or what a note corrects
\* must have been accepted.  Both are read outside of any transaction.
Validar(d) ==
  /\ solicitud[d] = "NUEVA"
  /\ IF d \in Emisiones THEN comprobantePago[VentaDe[d]] = "DISPONIBLE"
                        ELSE comprobante[AfectadoDe[d]] = "ACEPTADO"
  /\ solicitud' = [solicitud EXCEPT ![d] = "VALIDA"]
  /\ UNCHANGED <<comprobantePago, comprobante, correlativo, numero, envio>>

\* siguiente: an UPDATE ... RETURNING that commits by itself.
Siguiente(d) ==
  /\ solicitud[d] = "VALIDA"
  /\ correlativo' = [correlativo EXCEPT ![Serie(d)] = @ + 1]
  /\ numero' = [numero EXCEPT ![d] = correlativo'[Serie(d)]]
  /\ solicitud' = [solicitud EXCEPT ![d] = "NUMERADA"]
  /\ UNCHANGED <<comprobantePago, comprobante, envio>>

\* The certificate, the signature or the process fails: the number is lost.
EmisionFallida(d) ==
  /\ solicitud[d] = "NUMERADA"
  /\ solicitud' = [solicitud EXCEPT ![d] = "FIN"]
  /\ UNCHANGED <<comprobantePago, comprobante, correlativo, numero, envio>>

\* Indexes of comprobantes: one per bill, one per number of a series.  The
\* loser of a race fails here and its number is lost too.
Unico(d) == \A e \in Documentos \ {d} :
  comprobante[e] # "NO" =>
    /\ d \in Emisiones /\ e \in Emisiones => VentaDe[d] # VentaDe[e]
    /\ Serie(d) = Serie(e) => numero[d] # numero[e]

\* Defect: only the index of the numbers.
GuardarSinIndice(d) ==
  /\ solicitud[d] = "NUMERADA"
  /\ solicitud' = [solicitud EXCEPT ![d] = "FIN"]
  /\ comprobante' = [comprobante EXCEPT ![d] = "FIRMADO"]
  /\ comprobantePago' = IF d \in Emisiones
                        THEN [comprobantePago EXCEPT ![VentaDe[d]] = "EMITIDO"]
                        ELSE comprobantePago
  /\ UNCHANGED <<correlativo, numero, envio>>

Guardar(d) ==
  /\ solicitud[d] = "NUMERADA"
  /\ Unico(d)
  /\ solicitud' = [solicitud EXCEPT ![d] = "FIN"]
  /\ comprobante' = [comprobante EXCEPT ![d] = "FIRMADO"]
  /\ comprobantePago' = IF d \in Emisiones
                        THEN [comprobantePago EXCEPT ![VentaDe[d]] = "EMITIDO"]
                        ELSE comprobantePago
  /\ UNCHANGED <<correlativo, numero, envio>>
-----------------------------------------------------------------------------
(* EnvioProcessor *)

\* A run of the cron, unless the one before goes on.
EnviarPendientes(r) ==
  /\ pendientes[r] = {} /\ respuesta[r] = Nada
  /\ pendientes' = [pendientes EXCEPT ![r] =
       {d \in Documentos : comprobante[d] = "FIRMADO" /\ intentos[d] < MaxIntentos}]
  /\ UNCHANGED <<comprobantePago, comprobante, emision, intentos, respuesta, emitidos>>

\* SUNAT answers, with the CDR or without.  A company without credentials is
\* skipped, and its documents stay signed.
EnviarUno(r, d, cdr) ==
  /\ d \in pendientes[r] /\ respuesta[r] = Nada
  /\ pendientes' = [pendientes EXCEPT ![r] = @ \ {d}]
  /\ respuesta' = [respuesta EXCEPT ![r] = [documento |-> d, cdr |-> cdr]]
  /\ UNCHANGED <<comprobantePago, comprobante, emision, intentos, emitidos>>

Saltar(r, d) ==
  /\ d \in pendientes[r] /\ respuesta[r] = Nada
  /\ pendientes' = [pendientes EXCEPT ![r] = @ \ {d}]
  /\ UNCHANGED <<comprobantePago, comprobante, emision, intentos, respuesta, emitidos>>

\* Defect: announced whether SUNAT sent its acceptance or not.
RegistrarSinCdr(r) ==
  LET d == respuesta[r].documento
  IN /\ respuesta[r] # Nada
     /\ comprobante' = [comprobante EXCEPT
          ![d] = IF respuesta[r].cdr THEN "ACEPTADO" ELSE "ENVIADO"]
     /\ intentos' = [intentos EXCEPT ![d] = @ + 1]
     /\ emitidos' = emitidos \cup {d}
     /\ respuesta' = [respuesta EXCEPT ![r] = Nada]
     /\ UNCHANGED <<comprobantePago, emision, pendientes>>

\* The state and the event, in one transaction, whatever the state by then.
RegistrarRespuesta(r) ==
  LET d == respuesta[r].documento
  IN /\ respuesta[r] # Nada
     /\ comprobante' = [comprobante EXCEPT
          ![d] = IF respuesta[r].cdr THEN "ACEPTADO" ELSE "ENVIADO"]
     /\ intentos' = [intentos EXCEPT ![d] = @ + 1]
     /\ emitidos' = IF respuesta[r].cdr THEN emitidos \cup {d} ELSE emitidos
     /\ respuesta' = [respuesta EXCEPT ![r] = Nada]
     /\ UNCHANGED <<comprobantePago, emision, pendientes>>

\* The call failed, or what it answered could not be saved: one more attempt.
EnvioFallido(r) ==
  LET d == respuesta[r].documento
  IN /\ respuesta[r] # Nada
     /\ intentos' = [intentos EXCEPT ![d] = @ + 1]
     /\ respuesta' = [respuesta EXCEPT ![r] = Nada]
     /\ UNCHANGED <<comprobantePago, comprobante, emision, pendientes, emitidos>>

\* The process dies, or the failure itself cannot be saved, which ends the run.
CaidaEnvio(r) ==
  /\ respuesta[r] # Nada
  /\ pendientes' = [pendientes EXCEPT ![r] = {}]
  /\ respuesta' = [respuesta EXCEPT ![r] = Nada]
  /\ UNCHANGED <<comprobantePago, comprobante, emision, intentos, emitidos>>

FacturacionNext ==
  \/ \E v \in Ventas : RegistrarComprobantePago(v)
  \/ \E d \in Documentos : Validar(d)
  \/ \E d \in Documentos : Siguiente(d)
  \/ \E d \in Documentos : EmisionFallida(d)
  \/ \E d \in Documentos : Guardar(d)
  \/ \E r \in Procesadores : EnviarPendientes(r)
  \/ \E r \in Procesadores, d \in Documentos, cdr \in BOOLEAN : EnviarUno(r, d, cdr)
  \/ \E r \in Procesadores, d \in Documentos : Saltar(r, d)
  \/ \E r \in Procesadores : RegistrarRespuesta(r)
  \/ \E r \in Procesadores : EnvioFallido(r)
  \/ \E r \in Procesadores : CaidaEnvio(r)

FacturacionSpec == FacturacionInit /\ [][FacturacionNext]_facturacionVars
=============================================================================
