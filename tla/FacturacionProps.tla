--------------------------- MODULE FacturacionProps --------------------------
(* What the electronic documents may never be. *)
EXTENDS Facturacion

\* Every variable keeps its type.
FacturacionTypeOK ==
  /\ comprobantePago \in [Ventas -> {"NO", "DISPONIBLE", "EMITIDO"}]
  /\ solicitud \in [Documentos -> {"NUEVA", "VALIDA", "NUMERADA", "FIN"}]
  /\ correlativo \in [{"VENTA", "NOTA"} -> Nat]
  /\ numero \in [Documentos -> Nat]
  /\ comprobante \in [Documentos -> {"NO", "FIRMADO", "ENVIADO", "ACEPTADO"}]
  /\ intentos \in [Documentos -> Nat]
  /\ pendientes \in [Procesadores -> SUBSET Documentos]
  /\ \A r \in Procesadores :
       respuesta[r] = Nada \/ respuesta[r] \in [documento : Documentos, cdr : BOOLEAN]
  /\ emitidos \subseteq Documentos

\* However many requests for one bill race, fail half way or try again, a bill
\* is issued when it has one document and only then, and no two documents of a
\* series share a number ("SUNAT exige numeracion estrictamente secuencial").
DocumentoUnico ==
  /\ \A v \in Ventas :
       Cardinality({d \in Emisiones : VentaDe[d] = v /\ comprobante[d] # "NO"})
         = IF comprobantePago[v] = "EMITIDO" THEN 1 ELSE 0
  /\ \A d, e \in Documentos :
       /\ d # e /\ Serie(d) = Serie(e)
       /\ solicitud[d] \in {"NUMERADA", "FIN"} /\ solicitud[e] \in {"NUMERADA", "FIN"}
       => numero[d] # numero[e]

\* "The accepted state and its outbox event must commit together": what was
\* announced, printed and maybe corrected by a note is, and stays, accepted,
\* whatever sendings are repeated after a crash or a failure.
AnunciadoEsAceptado ==
  /\ \A d \in Documentos : d \in emitidos <=> comprobante[d] = "ACEPTADO"
  /\ \A n \in Notas : comprobante[n] # "NO" => AfectadoDe[n] \in emitidos
-----------------------------------------------------------------------------
(* The inductive invariants (FacturacionProofs). *)

\* A number is given once in its series, and none is over the last one.
NumerosDados ==
  /\ \A d \in Documentos : solicitud[d] \in {"NUMERADA", "FIN"} => numero[d] <= correlativo[Serie(d)]
  /\ \A d, e \in Documentos :
       /\ d # e /\ Serie(d) = Serie(e)
       /\ solicitud[d] \in {"NUMERADA", "FIN"} /\ solicitud[e] \in {"NUMERADA", "FIN"}
       => numero[d] # numero[e]

\* A document is of a request that ended, one for each bill issued.
GuardadosUnaVez ==
  /\ \A d \in Documentos : comprobante[d] # "NO" => solicitud[d] = "FIN"
  /\ \A d, e \in Emisiones :
       comprobante[d] # "NO" /\ comprobante[e] # "NO" /\ VentaDe[d] = VentaDe[e] => d = e
  /\ \A v \in Ventas : comprobantePago[v] = "EMITIDO" <=>
       \E d \in Emisiones : VentaDe[d] = v /\ comprobante[d] # "NO"

\* What is sent, or has been, is stored.
SeEnviaLoGuardado ==
  \A r \in Procesadores :
    /\ \A d \in pendientes[r] : comprobante[d] # "NO"
    /\ respuesta[r] # Nada => comprobante[respuesta[r].documento] # "NO"

RespuestasTipadas == respuesta \in [Procesadores -> [documento : Documentos \cup {0}, cdr : BOOLEAN]]

FacturacionIInv == /\ FacturacionTypeOK /\ RespuestasTipadas /\ NumerosDados
                   /\ GuardadosUnaVez /\ SeEnviaLoGuardado

\* While one copy of the service runs: what it has yet to send, or has sent and
\* not recorded, is still only signed, and it sends nothing twice at once.
SeEnviaLoFirmado ==
  \A r \in Procesadores :
    /\ \A d \in pendientes[r] : comprobante[d] = "FIRMADO"
    /\ respuesta[r] # Nada => /\ comprobante[respuesta[r].documento] = "FIRMADO"
                              /\ respuesta[r].documento \notin pendientes[r]

\* A note is of a document that was accepted before the note was valid.
NotasDeAceptados ==
  \A n \in Notas : solicitud[n] # "NUEVA" => comprobante[AfectadoDe[n]] = "ACEPTADO"

EnvioIInv == FacturacionIInv /\ SeEnviaLoFirmado /\ NotasDeAceptados /\ AnunciadoEsAceptado
=============================================================================
