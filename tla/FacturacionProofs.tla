-------------------------- MODULE FacturacionProofs --------------------------
(***************************************************************************)
(* Proofs about what is sent out of the system and may not be sent twice:  *)
(* the electronic documents of servicio-facturacion, for any bills,        *)
(* requests, notes and attempts, and the tickets of the printers, for any  *)
(* tickets, agents, attempts and retries.                                  *)
(***************************************************************************)
EXTENDS FacturacionProps, ImpresionProps, FiniteSetTheorems, TLAPS

(* servicio-facturacion *)

\* A request is of one of two series.
LEMMA Series == \A d \in Documentos : Serie(d) \in {"VENTA", "NOTA"}
  BY DEF Serie

\* At the start there is no bill and nothing is issued.
LEMMA InicioFacturacion == FacturacionInit => EnvioIInv
<1> SUFFICES ASSUME FacturacionInit PROVE EnvioIInv
  OBVIOUS
<1>1. respuesta \in [Procesadores -> [documento : Documentos \cup {0}, cdr : BOOLEAN]]
  BY DEF FacturacionInit, Nada
<1>2. FacturacionTypeOK
  BY DEF FacturacionInit, FacturacionTypeOK
<1>3. NumerosDados /\ GuardadosUnaVez /\ SeEnviaLoGuardado
  BY FacturacionAssumption
  DEF FacturacionInit, FacturacionAssumption, NumerosDados, GuardadosUnaVez, SeEnviaLoGuardado,
      Documentos
<1>4. SeEnviaLoFirmado /\ NotasDeAceptados /\ AnunciadoEsAceptado
  BY FacturacionAssumption
  DEF FacturacionInit, FacturacionAssumption, SeEnviaLoFirmado, NotasDeAceptados,
      AnunciadoEsAceptado, Documentos
<1> QED
  BY <1>1, <1>2, <1>3, <1>4 DEF EnvioIInv, FacturacionIInv, RespuestasTipadas

\* Whoever has a response has sent a document.
LEMMA RespuestaDe ==
  ASSUME FacturacionTypeOK, NEW r \in Procesadores, respuesta[r] # Nada
  PROVE  respuesta[r].documento \in Documentos
  BY DEF FacturacionTypeOK

\* A new state of a stored document keeps who issued what.
LEMMA CambioDeEstado ==
  ASSUME GuardadosUnaVez, FacturacionTypeOK,
         UNCHANGED <<comprobantePago, solicitud>>,
         NEW d \in Documentos, NEW e \in {"FIRMADO", "ENVIADO", "ACEPTADO"},
         comprobante[d] # "NO", comprobante' = [comprobante EXCEPT ![d] = e]
  PROVE  /\ GuardadosUnaVez'
         /\ comprobante' \in [Documentos -> {"NO", "FIRMADO", "ENVIADO", "ACEPTADO"}]
         /\ \A c \in Documentos : comprobante'[c] = "NO" <=> comprobante[c] = "NO"
<1>1. \A c \in Documentos : comprobante'[c] = "NO" <=> comprobante[c] = "NO"
  BY DEF FacturacionTypeOK
<1>2. \A c \in Emisiones : c \in Documentos
  BY DEF Documentos
<1> QED
  BY <1>1, <1>2 DEF GuardadosUnaVez, FacturacionTypeOK

\* What a request or a copy of the cron does, action by action: the numbers and
\* the rows stay one for each.
LEMMA PasoFacturacion == FacturacionIInv /\ [FacturacionNext]_facturacionVars => FacturacionIInv'
<1> SUFFICES ASSUME FacturacionIInv, [FacturacionNext]_facturacionVars PROVE FacturacionIInv'
  OBVIOUS
<1>i. /\ FacturacionTypeOK /\ RespuestasTipadas /\ NumerosDados
      /\ GuardadosUnaVez /\ SeEnviaLoGuardado
  BY DEF FacturacionIInv
<1> USE DEF emision, envio
<1>0. CASE UNCHANGED facturacionVars
  BY <1>i, <1>0 DEF facturacionVars, FacturacionIInv, FacturacionTypeOK, RespuestasTipadas,
     NumerosDados, GuardadosUnaVez, SeEnviaLoGuardado
<1>1. ASSUME NEW v \in Ventas, RegistrarComprobantePago(v) PROVE FacturacionIInv'
  <2>1. /\ comprobantePago[v] = "NO"
        /\ comprobantePago' = [comprobantePago EXCEPT ![v] = "DISPONIBLE"]
        /\ UNCHANGED <<comprobante, emision, envio>>
    BY <1>1 DEF RegistrarComprobantePago
  <2>2. FacturacionTypeOK'
    BY <1>i, <2>1 DEF FacturacionTypeOK
  <2>3. \A w \in Ventas : comprobantePago'[w] = "EMITIDO" <=> comprobantePago[w] = "EMITIDO"
    BY <1>i, <2>1 DEF FacturacionTypeOK
  <2>4. GuardadosUnaVez'
    BY <1>i, <2>1, <2>3 DEF GuardadosUnaVez
  <2>5. RespuestasTipadas' /\ NumerosDados' /\ SeEnviaLoGuardado'
    BY <1>i, <2>1 DEF RespuestasTipadas, NumerosDados, SeEnviaLoGuardado
  <2> QED
    BY <2>2, <2>4, <2>5 DEF FacturacionIInv
<1>2. ASSUME NEW d \in Documentos, Validar(d) PROVE FacturacionIInv'
  <2>1. /\ solicitud[d] = "NUEVA" /\ solicitud' = [solicitud EXCEPT ![d] = "VALIDA"]
        /\ UNCHANGED <<comprobantePago, comprobante, correlativo, numero, envio>>
    BY <1>2 DEF Validar
  <2>2. FacturacionTypeOK'
    BY <1>i, <2>1 DEF FacturacionTypeOK
  <2>3. \A c \in Documentos : solicitud'[c] = solicitud[c] \/ (c = d /\ solicitud'[c] = "VALIDA")
    BY <1>i, <2>1 DEF FacturacionTypeOK
  <2>4. NumerosDados'
    BY <1>i, <2>1, <2>3 DEF NumerosDados
  <2>5. GuardadosUnaVez'
    BY <1>i, <2>1, <2>3 DEF GuardadosUnaVez
  <2>6. RespuestasTipadas' /\ SeEnviaLoGuardado'
    BY <1>i, <2>1 DEF RespuestasTipadas, SeEnviaLoGuardado
  <2> QED
    BY <2>2, <2>4, <2>5, <2>6 DEF FacturacionIInv
<1>3. ASSUME NEW d \in Documentos, Siguiente(d) PROVE FacturacionIInv'
  <2>0. PICK s \in {"VENTA", "NOTA"} : s = Serie(d)
    BY Series
  <2>1. /\ solicitud[d] = "VALIDA" /\ solicitud' = [solicitud EXCEPT ![d] = "NUMERADA"]
        /\ correlativo' = [correlativo EXCEPT ![s] = @ + 1]
        /\ numero' = [numero EXCEPT ![d] = correlativo'[s]]
        /\ UNCHANGED <<comprobantePago, comprobante, envio>>
    BY <1>3, <2>0 DEF Siguiente
  <2>2. /\ correlativo \in [{"VENTA", "NOTA"} -> Nat] /\ numero \in [Documentos -> Nat]
    BY <1>i DEF FacturacionTypeOK
  <2>3. /\ correlativo'[s] = correlativo[s] + 1 /\ correlativo[s] \in Nat
        /\ \A x \in {"VENTA", "NOTA"} \ {s} : correlativo'[x] = correlativo[x]
        /\ numero'[d] = correlativo[s] + 1
        /\ \A c \in Documentos \ {d} : numero'[c] = numero[c] /\ solicitud'[c] = solicitud[c]
        /\ solicitud'[d] = "NUMERADA"
    BY <1>i, <2>1, <2>2 DEF FacturacionTypeOK
  <2>4. FacturacionTypeOK'
    BY <1>i, <2>1, <2>2, <2>3 DEF FacturacionTypeOK
  <2>5. \A x \in {"VENTA", "NOTA"} : correlativo[x] <= correlativo'[x]
    BY <2>2, <2>3
  <2>6. \A c \in Documentos \ {d} :
          solicitud[c] \in {"NUMERADA", "FIN"} /\ Serie(c) = s => numero[c] # numero'[d]
    <3> SUFFICES ASSUME NEW c \in Documentos \ {d}, solicitud[c] \in {"NUMERADA", "FIN"},
                        Serie(c) = s
                 PROVE  numero[c] # correlativo[s] + 1
      BY <2>3
    <3>1. numero[c] <= correlativo[s] /\ numero[c] \in Nat
      BY <1>i, <2>2 DEF NumerosDados
    <3> QED
      BY <2>3, <3>1
  <2>7. \A c \in Documentos : solicitud'[c] \in {"NUMERADA", "FIN"} =>
          numero'[c] <= correlativo'[Serie(c)]
    <3> SUFFICES ASSUME NEW c \in Documentos, solicitud'[c] \in {"NUMERADA", "FIN"}
                 PROVE  numero'[c] <= correlativo'[Serie(c)]
      OBVIOUS
    <3>1. CASE c = d
      BY <2>0, <2>3, <3>1
    <3>2. CASE c # d
      <4>1. numero[c] <= correlativo[Serie(c)] /\ numero[c] \in Nat /\ numero'[c] = numero[c]
        BY <1>i, <2>2, <2>3, <3>2 DEF NumerosDados
      <4>2. PICK x \in {"VENTA", "NOTA"} : x = Serie(c)
        BY Series
      <4>3. correlativo[x] \in Nat /\ correlativo'[x] \in Nat /\ correlativo[x] <= correlativo'[x]
        BY <2>2, <2>3, <2>5
      <4> QED
        BY <4>1, <4>2, <4>3
    <3> QED
      BY <3>1, <3>2
  <2>8. ASSUME NEW c \in Documentos, NEW e \in Documentos, c # e, Serie(c) = Serie(e),
               solicitud'[c] \in {"NUMERADA", "FIN"}, solicitud'[e] \in {"NUMERADA", "FIN"}
        PROVE  numero'[c] # numero'[e]
    <3>1. CASE c = d
      BY <2>0, <2>3, <2>6, <2>8, <3>1
    <3>2. CASE e = d
      BY <2>0, <2>3, <2>6, <2>8, <3>2
    <3>3. CASE c # d /\ e # d
      BY <1>i, <2>3, <2>8, <3>3 DEF NumerosDados
    <3> QED
      BY <3>1, <3>2, <3>3
  <2>9. NumerosDados'
    BY <2>7, <2>8 DEF NumerosDados
  <2>10. GuardadosUnaVez'
    BY <1>i, <2>1, <2>3 DEF GuardadosUnaVez
  <2>11. RespuestasTipadas' /\ SeEnviaLoGuardado'
    BY <1>i, <2>1 DEF RespuestasTipadas, SeEnviaLoGuardado
  <2> QED
    BY <2>4, <2>9, <2>10, <2>11 DEF FacturacionIInv
<1>4. ASSUME NEW d \in Documentos, EmisionFallida(d) PROVE FacturacionIInv'
  <2>1. /\ solicitud[d] = "NUMERADA" /\ solicitud' = [solicitud EXCEPT ![d] = "FIN"]
        /\ UNCHANGED <<comprobantePago, comprobante, correlativo, numero, envio>>
    BY <1>4 DEF EmisionFallida
  <2>2. FacturacionTypeOK'
    BY <1>i, <2>1 DEF FacturacionTypeOK
  <2>3. \A c \in Documentos : solicitud'[c] = solicitud[c]
          \/ (solicitud[c] = "NUMERADA" /\ solicitud'[c] = "FIN")
    BY <1>i, <2>1 DEF FacturacionTypeOK
  <2>4. NumerosDados'
    BY <1>i, <2>1, <2>3 DEF NumerosDados
  <2>5. GuardadosUnaVez'
    BY <1>i, <2>1, <2>3 DEF GuardadosUnaVez
  <2>6. RespuestasTipadas' /\ SeEnviaLoGuardado'
    BY <1>i, <2>1 DEF RespuestasTipadas, SeEnviaLoGuardado
  <2> QED
    BY <2>2, <2>4, <2>5, <2>6 DEF FacturacionIInv
<1>5. ASSUME NEW d \in Documentos, Guardar(d) PROVE FacturacionIInv'
  <2>1. /\ solicitud[d] = "NUMERADA" /\ Unico(d)
        /\ solicitud' = [solicitud EXCEPT ![d] = "FIN"]
        /\ comprobante' = [comprobante EXCEPT ![d] = "FIRMADO"]
        /\ comprobantePago' = IF d \in Emisiones
                              THEN [comprobantePago EXCEPT ![VentaDe[d]] = "EMITIDO"]
                              ELSE comprobantePago
        /\ UNCHANGED <<correlativo, numero, envio>>
    BY <1>5 DEF Guardar
  <2>2. d \in Emisiones => VentaDe[d] \in Ventas
    BY FacturacionAssumption DEF FacturacionAssumption
  <2>3. /\ comprobante'[d] = "FIRMADO" /\ solicitud'[d] = "FIN"
        /\ \A c \in Documentos \ {d} : /\ comprobante'[c] = comprobante[c]
                                       /\ solicitud'[c] = solicitud[c]
    BY <1>i, <2>1 DEF FacturacionTypeOK
  <2>4. FacturacionTypeOK'
    BY <1>i, <2>1, <2>2 DEF FacturacionTypeOK
  <2>5. \A c \in Documentos : solicitud'[c] = solicitud[c]
          \/ (solicitud[c] = "NUMERADA" /\ solicitud'[c] = "FIN")
    BY <2>1, <2>3
  <2>6. NumerosDados'
    BY <1>i, <2>1, <2>5 DEF NumerosDados
  <2>7. \A c \in Documentos : comprobante'[c] # "NO" => solicitud'[c] = "FIN"
    BY <1>i, <2>3 DEF GuardadosUnaVez
  <2>8. ASSUME NEW c \in Emisiones, NEW e \in Emisiones, comprobante'[c] # "NO",
               comprobante'[e] # "NO", VentaDe[c] = VentaDe[e]
        PROVE  c = e
    <3>1. c \in Documentos /\ e \in Documentos
      BY DEF Documentos
    <3>2. CASE c = d
      BY <2>1, <2>3, <2>8, <3>1, <3>2 DEF Unico
    <3>3. CASE e = d
      BY <2>1, <2>3, <2>8, <3>1, <3>3 DEF Unico
    <3>4. CASE c # d /\ e # d
      BY <1>i, <2>3, <2>8, <3>1, <3>4 DEF GuardadosUnaVez
    <3> QED
      BY <3>2, <3>3, <3>4
  <2>9. ASSUME NEW v \in Ventas
        PROVE  comprobantePago'[v] = "EMITIDO" <=>
                 \E c \in Emisiones : VentaDe[c] = v /\ comprobante'[c] # "NO"
    <3>1. comprobantePago[v] = "EMITIDO" <=>
            \E c \in Emisiones : VentaDe[c] = v /\ comprobante[c] # "NO"
      BY <1>i DEF GuardadosUnaVez
    <3>2. \A c \in Emisiones : c \in Documentos
      BY DEF Documentos
    <3>3. CASE d \in Emisiones /\ VentaDe[d] = v
      <4>1. comprobantePago'[v] = "EMITIDO"
        BY <1>i, <2>1, <3>3 DEF FacturacionTypeOK
      <4> QED
        BY <2>3, <3>3, <4>1
    <3>4. CASE ~(d \in Emisiones /\ VentaDe[d] = v)
      <4>1. comprobantePago'[v] = comprobantePago[v]
        BY <1>i, <2>1, <2>2, <3>4 DEF FacturacionTypeOK
      <4>2. \A c \in Emisiones : VentaDe[c] = v => comprobante'[c] = comprobante[c]
        BY <2>3, <3>2, <3>4
      <4> QED
        BY <3>1, <4>1, <4>2
    <3> QED
      BY <3>3, <3>4
  <2>10. GuardadosUnaVez'
    BY <2>7, <2>8, <2>9 DEF GuardadosUnaVez
  <2>11. SeEnviaLoGuardado'
    <3>1. \A c \in Documentos : comprobante[c] # "NO" => comprobante'[c] # "NO"
      BY <2>3
    <3>2. \A r \in Procesadores : /\ pendientes[r] \subseteq Documentos
                                  /\ respuesta[r] # Nada => respuesta[r].documento \in Documentos
      BY <1>i DEF FacturacionTypeOK
    <3> QED
      BY <1>i, <2>1, <3>1, <3>2 DEF SeEnviaLoGuardado
  <2>12. RespuestasTipadas'
    BY <1>i, <2>1 DEF RespuestasTipadas
  <2> QED
    BY <2>4, <2>6, <2>10, <2>11, <2>12 DEF FacturacionIInv
<1>6. ASSUME NEW r \in Procesadores, EnviarPendientes(r) PROVE FacturacionIInv'
  <2>0. PICK p : p = {d \in Documentos : comprobante[d] = "FIRMADO" /\ intentos[d] < MaxIntentos}
    OBVIOUS
  <2>1. /\ pendientes' = [pendientes EXCEPT ![r] = p]
        /\ UNCHANGED <<comprobantePago, comprobante, emision, intentos, respuesta, emitidos>>
    BY <1>6, <2>0 DEF EnviarPendientes
  <2>2. FacturacionTypeOK'
    BY <1>i, <2>0, <2>1 DEF FacturacionTypeOK
  <2>3. SeEnviaLoGuardado'
    <3>1. \A q \in Procesadores : pendientes'[q] = pendientes[q] \/ pendientes'[q] = p
      BY <1>i, <2>1 DEF FacturacionTypeOK
    <3>2. \A d \in p : comprobante[d] # "NO"
      BY <2>0
    <3> QED
      BY <1>i, <2>1, <3>1, <3>2 DEF SeEnviaLoGuardado
  <2>4. RespuestasTipadas' /\ NumerosDados' /\ GuardadosUnaVez'
    BY <1>i, <2>1 DEF RespuestasTipadas, NumerosDados, GuardadosUnaVez
  <2> QED
    BY <2>2, <2>3, <2>4 DEF FacturacionIInv
<1>7. ASSUME NEW r \in Procesadores, NEW d \in Documentos, NEW cdr \in BOOLEAN,
             EnviarUno(r, d, cdr)
      PROVE  FacturacionIInv'
  <2>0. PICK x \in [documento : Documentos, cdr : BOOLEAN] : x = [documento |-> d, cdr |-> cdr]
    OBVIOUS
  <2>1. /\ d \in pendientes[r]
        /\ pendientes' = [pendientes EXCEPT ![r] = @ \ {d}]
        /\ respuesta' = [respuesta EXCEPT ![r] = x]
        /\ UNCHANGED <<comprobantePago, comprobante, emision, intentos, emitidos>>
    BY <1>7, <2>0 DEF EnviarUno
  <2>2. x.documento = d /\ x \in [documento : Documentos \cup {0}, cdr : BOOLEAN]
    BY <2>0
  <2>3. /\ respuesta'[r] = x
        /\ \A q \in Procesadores \ {r} : respuesta'[q] = respuesta[q]
        /\ respuesta' \in [Procesadores -> [documento : Documentos \cup {0}, cdr : BOOLEAN]]
    BY <1>i, <2>1, <2>2 DEF RespuestasTipadas
  <2>4. FacturacionTypeOK'
    <3>1. \A q \in Procesadores :
            respuesta'[q] = Nada \/ respuesta'[q] \in [documento : Documentos, cdr : BOOLEAN]
      BY <1>i, <2>0, <2>3 DEF FacturacionTypeOK
    <3>2. pendientes' \in [Procesadores -> SUBSET Documentos]
      BY <1>i, <2>1 DEF FacturacionTypeOK
    <3> QED
      BY <1>i, <2>1, <3>1, <3>2 DEF FacturacionTypeOK
  <2>5. SeEnviaLoGuardado'
    <3>1. \A q \in Procesadores : pendientes'[q] \subseteq pendientes[q]
      BY <1>i, <2>1 DEF FacturacionTypeOK
    <3>2. comprobante[d] # "NO"
      BY <1>i, <2>1 DEF SeEnviaLoGuardado
    <3> QED
      BY <1>i, <2>1, <2>2, <2>3, <3>1, <3>2 DEF SeEnviaLoGuardado
  <2>6. RespuestasTipadas' /\ NumerosDados' /\ GuardadosUnaVez'
    BY <1>i, <2>1, <2>3 DEF RespuestasTipadas, NumerosDados, GuardadosUnaVez
  <2> QED
    BY <2>4, <2>5, <2>6 DEF FacturacionIInv
<1>8. ASSUME NEW r \in Procesadores, NEW d \in Documentos, Saltar(r, d) PROVE FacturacionIInv'
  <2>1. /\ pendientes' = [pendientes EXCEPT ![r] = @ \ {d}]
        /\ UNCHANGED <<comprobantePago, comprobante, emision, intentos, respuesta, emitidos>>
    BY <1>8 DEF Saltar
  <2>2. FacturacionTypeOK'
    BY <1>i, <2>1 DEF FacturacionTypeOK
  <2>3. \A q \in Procesadores : pendientes'[q] \subseteq pendientes[q]
    BY <1>i, <2>1 DEF FacturacionTypeOK
  <2>4. SeEnviaLoGuardado'
    BY <1>i, <2>1, <2>3 DEF SeEnviaLoGuardado
  <2>5. RespuestasTipadas' /\ NumerosDados' /\ GuardadosUnaVez'
    BY <1>i, <2>1 DEF RespuestasTipadas, NumerosDados, GuardadosUnaVez
  <2> QED
    BY <2>2, <2>4, <2>5 DEF FacturacionIInv
<1>9. ASSUME NEW r \in Procesadores,
             RegistrarRespuesta(r) \/ EnvioFallido(r) \/ CaidaEnvio(r)
      PROVE  FacturacionIInv'
  <2>0. PICK d \in Documentos : d = respuesta[r].documento /\ respuesta[r] # Nada
    BY <1>i, <1>9, RespuestaDe DEF RegistrarRespuesta, EnvioFallido, CaidaEnvio
  <2>1. /\ respuesta' = [respuesta EXCEPT ![r] = Nada]
        /\ intentos' = [intentos EXCEPT ![d] = @ + 1] \/ intentos' = intentos
        /\ pendientes' = [pendientes EXCEPT ![r] = {}] \/ pendientes' = pendientes
        /\ emitidos' = emitidos \cup {d} \/ emitidos' = emitidos
        /\ \/ \E e \in {"FIRMADO", "ENVIADO", "ACEPTADO"} :
                comprobante' = [comprobante EXCEPT ![d] = e]
           \/ comprobante' = comprobante
        /\ UNCHANGED <<comprobantePago, emision>>
    BY <1>9, <2>0 DEF RegistrarRespuesta, EnvioFallido, CaidaEnvio
  <2>2. comprobante[d] # "NO"
    BY <1>i, <2>0 DEF SeEnviaLoGuardado
  <2>3. /\ GuardadosUnaVez'
        /\ comprobante' \in [Documentos -> {"NO", "FIRMADO", "ENVIADO", "ACEPTADO"}]
        /\ \A c \in Documentos : comprobante'[c] = "NO" <=> comprobante[c] = "NO"
    <3>1. CASE comprobante' = comprobante
      BY <1>i, <2>1, <3>1 DEF GuardadosUnaVez, FacturacionTypeOK
    <3>2. CASE comprobante' # comprobante
      BY <1>i, <2>1, <2>2, <3>2, CambioDeEstado
    <3> QED
      BY <3>1, <3>2
  <2>4. Nada \in [documento : Documentos \cup {0}, cdr : BOOLEAN]
    BY DEF Nada
  <2>5. /\ respuesta' \in [Procesadores -> [documento : Documentos \cup {0}, cdr : BOOLEAN]]
        /\ \A q \in Procesadores : respuesta'[q] = respuesta[q] \/ respuesta'[q] = Nada
    BY <1>i, <2>1, <2>4 DEF RespuestasTipadas
  <2>6. /\ intentos' \in [Documentos -> Nat]
        /\ pendientes' \in [Procesadores -> SUBSET Documentos]
        /\ \A q \in Procesadores : pendientes'[q] \subseteq pendientes[q]
        /\ emitidos' \subseteq Documentos
    BY <1>i, <2>1 DEF FacturacionTypeOK
  <2>7. FacturacionTypeOK'
    <3>1. \A q \in Procesadores :
            respuesta'[q] = Nada \/ respuesta'[q] \in [documento : Documentos, cdr : BOOLEAN]
      BY <1>i, <2>5 DEF FacturacionTypeOK
    <3> QED
      BY <1>i, <2>1, <2>3, <2>6, <3>1 DEF FacturacionTypeOK
  <2>8. SeEnviaLoGuardado'
    <3> SUFFICES ASSUME NEW q \in Procesadores
                 PROVE  /\ \A c \in pendientes'[q] : comprobante'[c] # "NO"
                        /\ respuesta'[q] # Nada => comprobante'[respuesta'[q].documento] # "NO"
      BY DEF SeEnviaLoGuardado
    <3>1. pendientes[q] \subseteq Documentos
      BY <1>i DEF FacturacionTypeOK
    <3>2. respuesta[q] # Nada => respuesta[q].documento \in Documentos
      BY <1>i, RespuestaDe
    <3> QED
      BY <1>i, <2>3, <2>5, <2>6, <3>1, <3>2 DEF SeEnviaLoGuardado
  <2>9. NumerosDados' /\ RespuestasTipadas'
    BY <1>i, <2>1, <2>5 DEF NumerosDados, RespuestasTipadas
  <2> QED
    BY <2>3, <2>7, <2>8, <2>9 DEF FacturacionIInv
<1> QED
  BY <1>0, <1>1, <1>2, <1>3, <1>4, <1>5, <1>6, <1>7, <1>8, <1>9 DEF FacturacionNext

\* While one copy runs, only what is signed is sent, so what was accepted stays so.
LEMMA PasoEnvio ==
  ASSUME \A q, r \in Procesadores : q = r
  PROVE  EnvioIInv /\ [FacturacionNext]_facturacionVars => EnvioIInv'
<1> SUFFICES ASSUME EnvioIInv, [FacturacionNext]_facturacionVars PROVE EnvioIInv'
  OBVIOUS
<1>i. FacturacionIInv /\ SeEnviaLoFirmado /\ NotasDeAceptados /\ AnunciadoEsAceptado
  BY DEF EnvioIInv
<1>t. FacturacionTypeOK /\ RespuestasTipadas /\ GuardadosUnaVez
  BY <1>i DEF FacturacionIInv
<1>f. FacturacionIInv'
  BY <1>i, PasoFacturacion
<1>n. \A n \in Notas : n \in Documentos /\ AfectadoDe[n] \in Documentos /\ n \notin Emisiones
  BY FacturacionAssumption DEF FacturacionAssumption, Documentos
<1> SUFFICES SeEnviaLoFirmado' /\ NotasDeAceptados' /\ AnunciadoEsAceptado'
  BY <1>f DEF EnvioIInv
<1> USE DEF emision, envio
<1>0. CASE UNCHANGED facturacionVars
  BY <1>i, <1>0 DEF facturacionVars, SeEnviaLoFirmado, NotasDeAceptados, AnunciadoEsAceptado
<1>1. ASSUME NEW v \in Ventas, RegistrarComprobantePago(v)
      PROVE  SeEnviaLoFirmado' /\ NotasDeAceptados' /\ AnunciadoEsAceptado'
  BY <1>i, <1>1 DEF RegistrarComprobantePago, SeEnviaLoFirmado, NotasDeAceptados,
     AnunciadoEsAceptado
<1>2. ASSUME NEW d \in Documentos, Validar(d) \/ Siguiente(d) \/ EmisionFallida(d)
      PROVE  SeEnviaLoFirmado' /\ NotasDeAceptados' /\ AnunciadoEsAceptado'
  <2>1. UNCHANGED <<comprobante, envio>>
    BY <1>2 DEF Validar, Siguiente, EmisionFallida
  <2>2. SeEnviaLoFirmado' /\ AnunciadoEsAceptado'
    BY <1>i, <2>1 DEF SeEnviaLoFirmado, AnunciadoEsAceptado
  <2>3. \A n \in Notas : solicitud'[n] = solicitud[n] \/ solicitud[n] # "NUEVA"
          \/ comprobante[AfectadoDe[n]] = "ACEPTADO"
    BY <1>t, <1>n, <1>2 DEF Validar, Siguiente, EmisionFallida, FacturacionTypeOK
  <2>4. NotasDeAceptados'
    BY <1>i, <2>1, <2>3 DEF NotasDeAceptados
  <2> QED
    BY <2>2, <2>4
<1>3. ASSUME NEW d \in Documentos, Guardar(d)
      PROVE  SeEnviaLoFirmado' /\ NotasDeAceptados' /\ AnunciadoEsAceptado'
  <2>1. /\ solicitud[d] = "NUMERADA" /\ UNCHANGED envio
        /\ solicitud' = [solicitud EXCEPT ![d] = "FIN"]
        /\ comprobante' = [comprobante EXCEPT ![d] = "FIRMADO"]
    BY <1>3 DEF Guardar
  <2>2. comprobante[d] = "NO"
    BY <1>t, <2>1 DEF GuardadosUnaVez
  <2>3. /\ comprobante'[d] = "FIRMADO"
        /\ \A c \in Documentos \ {d} : comprobante'[c] = comprobante[c]
        /\ \A c \in Documentos : solicitud'[c] = "NUEVA" <=> solicitud[c] = "NUEVA"
    BY <1>t, <2>1 DEF FacturacionTypeOK
  <2>4. SeEnviaLoFirmado'
    <3> SUFFICES ASSUME NEW q \in Procesadores
                 PROVE  /\ \A c \in pendientes[q] : comprobante'[c] = "FIRMADO"
                        /\ respuesta[q] # Nada =>
                             /\ comprobante'[respuesta[q].documento] = "FIRMADO"
                             /\ respuesta[q].documento \notin pendientes[q]
      BY <2>1 DEF SeEnviaLoFirmado
    <3>1. pendientes[q] \subseteq Documentos
      BY <1>t DEF FacturacionTypeOK
    <3>2. respuesta[q] # Nada => respuesta[q].documento \in Documentos
      BY <1>t, RespuestaDe
    <3> QED
      BY <1>i, <2>3, <3>1, <3>2 DEF SeEnviaLoFirmado
  <2>5. \A n \in Notas : solicitud[n] # "NUEVA" => AfectadoDe[n] # d
    BY <1>i, <2>2 DEF NotasDeAceptados
  <2>6. NotasDeAceptados'
    BY <1>i, <1>n, <2>3, <2>5 DEF NotasDeAceptados
  <2>7. AnunciadoEsAceptado'
    <3>1. \A c \in Documentos : c \in emitidos <=> comprobante'[c] = "ACEPTADO"
      BY <1>i, <2>2, <2>3 DEF AnunciadoEsAceptado
    <3>2. ASSUME NEW n \in Notas, comprobante'[n] # "NO" PROVE AfectadoDe[n] \in emitidos
      <4>1. n \in Documentos
        BY <1>n
      <4>2. CASE n = d
        <5>1. comprobante[AfectadoDe[n]] = "ACEPTADO"
          BY <1>i, <2>1, <4>2 DEF NotasDeAceptados
        <5> QED
          BY <1>i, <1>n, <5>1 DEF AnunciadoEsAceptado
      <4>3. CASE n # d
        BY <1>i, <2>3, <3>2, <4>1, <4>3 DEF AnunciadoEsAceptado
      <4> QED
        BY <4>2, <4>3
    <3>3. emitidos' = emitidos
      BY <2>1
    <3> QED
      BY <3>1, <3>2, <3>3 DEF AnunciadoEsAceptado
  <2> QED
    BY <2>4, <2>6, <2>7
<1>4. ASSUME NEW r \in Procesadores, EnviarPendientes(r)
      PROVE  SeEnviaLoFirmado' /\ NotasDeAceptados' /\ AnunciadoEsAceptado'
  <2>0. PICK p : p = {d \in Documentos : comprobante[d] = "FIRMADO" /\ intentos[d] < MaxIntentos}
    OBVIOUS
  <2>1. /\ respuesta[r] = Nada /\ pendientes' = [pendientes EXCEPT ![r] = p]
        /\ UNCHANGED <<comprobantePago, comprobante, emision, intentos, respuesta, emitidos>>
    BY <1>4, <2>0 DEF EnviarPendientes
  <2>2. pendientes'[r] = p /\ \A d \in p : comprobante[d] = "FIRMADO"
    BY <1>t, <2>0, <2>1 DEF FacturacionTypeOK
  <2>3. \A q \in Procesadores : q = r
    OBVIOUS
  <2>4. SeEnviaLoFirmado'
    BY <2>1, <2>2, <2>3 DEF SeEnviaLoFirmado
  <2>5. NotasDeAceptados' /\ AnunciadoEsAceptado'
    BY <1>i, <2>1 DEF NotasDeAceptados, AnunciadoEsAceptado
  <2> QED
    BY <2>4, <2>5
<1>5. ASSUME NEW r \in Procesadores, NEW d \in Documentos, NEW cdr \in BOOLEAN,
             EnviarUno(r, d, cdr)
      PROVE  SeEnviaLoFirmado' /\ NotasDeAceptados' /\ AnunciadoEsAceptado'
  <2>1. /\ d \in pendientes[r]
        /\ pendientes' = [pendientes EXCEPT ![r] = @ \ {d}]
        /\ respuesta' = [respuesta EXCEPT ![r] = [documento |-> d, cdr |-> cdr]]
        /\ UNCHANGED <<comprobantePago, comprobante, emision, intentos, emitidos>>
    BY <1>5 DEF EnviarUno
  <2>2. /\ respuesta'[r].documento = d /\ pendientes'[r] = pendientes[r] \ {d}
        /\ comprobante[d] = "FIRMADO"
    BY <1>i, <1>t, <2>1 DEF FacturacionTypeOK, RespuestasTipadas, SeEnviaLoFirmado
  <2>3. \A q \in Procesadores : q = r
    OBVIOUS
  <2>4. SeEnviaLoFirmado'
    BY <1>i, <2>1, <2>2, <2>3 DEF SeEnviaLoFirmado
  <2>5. NotasDeAceptados' /\ AnunciadoEsAceptado'
    BY <1>i, <2>1 DEF NotasDeAceptados, AnunciadoEsAceptado
  <2> QED
    BY <2>4, <2>5
<1>6. ASSUME NEW r \in Procesadores, NEW d \in Documentos, Saltar(r, d)
      PROVE  SeEnviaLoFirmado' /\ NotasDeAceptados' /\ AnunciadoEsAceptado'
  <2>1. /\ pendientes' = [pendientes EXCEPT ![r] = @ \ {d}]
        /\ UNCHANGED <<comprobantePago, comprobante, emision, intentos, respuesta, emitidos>>
    BY <1>6 DEF Saltar
  <2>2. \A q \in Procesadores : pendientes'[q] \subseteq pendientes[q]
    BY <1>t, <2>1 DEF FacturacionTypeOK
  <2> QED
    BY <1>i, <2>1, <2>2 DEF SeEnviaLoFirmado, NotasDeAceptados, AnunciadoEsAceptado
<1>7. ASSUME NEW r \in Procesadores, RegistrarRespuesta(r)
      PROVE  SeEnviaLoFirmado' /\ NotasDeAceptados' /\ AnunciadoEsAceptado'
  <2>0. PICK d \in Documentos : d = respuesta[r].documento /\ respuesta[r] # Nada
    BY <1>t, <1>7, RespuestaDe DEF RegistrarRespuesta
  <2>1. /\ comprobante' = [comprobante EXCEPT
             ![d] = IF respuesta[r].cdr THEN "ACEPTADO" ELSE "ENVIADO"]
        /\ emitidos' = IF respuesta[r].cdr THEN emitidos \cup {d} ELSE emitidos
        /\ respuesta' = [respuesta EXCEPT ![r] = Nada]
        /\ UNCHANGED <<comprobantePago, emision, pendientes>>
    BY <1>7, <2>0 DEF RegistrarRespuesta
  <2>2. comprobante[d] = "FIRMADO" /\ d \notin pendientes[r]
    BY <1>i, <2>0 DEF SeEnviaLoFirmado
  <2>3. /\ respuesta'[r] = Nada /\ pendientes[r] \subseteq Documentos
        /\ comprobante'[d] = IF respuesta[r].cdr THEN "ACEPTADO" ELSE "ENVIADO"
        /\ \A c \in Documentos \ {d} : comprobante'[c] = comprobante[c]
    BY <1>t, <2>1 DEF FacturacionTypeOK, RespuestasTipadas
  <2>4. \A q \in Procesadores : q = r
    OBVIOUS
  <2>5. SeEnviaLoFirmado'
    <3>1. \A c \in pendientes[r] : comprobante'[c] = "FIRMADO"
      BY <1>i, <2>2, <2>3 DEF SeEnviaLoFirmado
    <3> QED
      BY <2>1, <2>3, <2>4, <3>1 DEF SeEnviaLoFirmado
  <2>6. \A c \in Documentos : comprobante[c] = "ACEPTADO" => comprobante'[c] = "ACEPTADO"
    BY <2>2, <2>3
  <2>7. NotasDeAceptados'
    BY <1>i, <1>n, <2>1, <2>6 DEF NotasDeAceptados
  <2>8. AnunciadoEsAceptado'
    <3>1. \A c \in Documentos : c \in emitidos' <=> comprobante'[c] = "ACEPTADO"
      BY <1>i, <2>1, <2>2, <2>3 DEF AnunciadoEsAceptado
    <3>2. \A n \in Notas : comprobante'[n] # "NO" => comprobante[n] # "NO"
      BY <1>n, <2>2, <2>3
    <3> QED
      BY <1>i, <2>1, <3>1, <3>2 DEF AnunciadoEsAceptado
  <2> QED
    BY <2>5, <2>7, <2>8
<1>8. ASSUME NEW r \in Procesadores, EnvioFallido(r) \/ CaidaEnvio(r)
      PROVE  SeEnviaLoFirmado' /\ NotasDeAceptados' /\ AnunciadoEsAceptado'
  <2>1. /\ respuesta' = [respuesta EXCEPT ![r] = Nada]
        /\ pendientes' = [pendientes EXCEPT ![r] = {}] \/ pendientes' = pendientes
        /\ UNCHANGED <<comprobantePago, comprobante, emision, emitidos>>
    BY <1>8 DEF EnvioFallido, CaidaEnvio
  <2>2. \A q \in Procesadores : /\ pendientes'[q] \subseteq pendientes[q]
                                /\ respuesta'[q] = respuesta[q] \/ respuesta'[q] = Nada
    BY <1>t, <2>1 DEF FacturacionTypeOK, RespuestasTipadas
  <2> QED
    BY <1>i, <2>1, <2>2 DEF SeEnviaLoFirmado, NotasDeAceptados, AnunciadoEsAceptado
<1> QED
  BY <1>0, <1>1, <1>2, <1>3, <1>4, <1>5, <1>6, <1>7, <1>8 DEF FacturacionNext

\* The variables of the documents keep their types.
THEOREM FacturacionTipos == FacturacionSpec => []FacturacionTypeOK
<1>1. FacturacionIInv => FacturacionTypeOK
  BY DEF FacturacionIInv
<1>2. FacturacionInit => FacturacionIInv
  BY InicioFacturacion DEF EnvioIInv
<1> QED
  BY <1>1, <1>2, PasoFacturacion, PTL DEF FacturacionSpec

\* A bill has one document and a number is used once in its series, for any
\* requests that race or fail and any number of copies of the service.
THEOREM DocumentoSiempreUnico == FacturacionSpec => []DocumentoUnico
<1>1. ASSUME FacturacionIInv PROVE DocumentoUnico
  <2>1. ASSUME NEW v \in Ventas
        PROVE  Cardinality({d \in Emisiones : VentaDe[d] = v /\ comprobante[d] # "NO"})
                 = IF comprobantePago[v] = "EMITIDO" THEN 1 ELSE 0
    <3> DEFINE D == {d \in Emisiones : VentaDe[d] = v /\ comprobante[d] # "NO"}
    <3>1. comprobantePago[v] = "EMITIDO" <=> D # {}
      BY <1>1 DEF FacturacionIInv, GuardadosUnaVez
    <3>2. \A d, e \in D : d = e
      BY <1>1 DEF FacturacionIInv, GuardadosUnaVez
    <3> HIDE DEF D
    <3>3. CASE D = {}
      BY <3>1, <3>3, FS_EmptySet DEF D
    <3>4. CASE D # {}
      <4>1. PICK d \in D : D = {d}
        BY <3>2, <3>4
      <4>2. Cardinality(D) = 1
        BY <4>1, FS_Singleton
      <4> QED
        BY <3>1, <3>4, <4>2 DEF D
    <3> QED
      BY <3>3, <3>4
  <2> QED
    BY <1>1, <2>1 DEF DocumentoUnico, FacturacionIInv, NumerosDados
<1>2. FacturacionInit => FacturacionIInv
  BY InicioFacturacion DEF EnvioIInv
<1> QED
  BY <1>1, <1>2, PasoFacturacion, PTL DEF FacturacionSpec

\* What was announced is and stays accepted, and notes correct nothing else, for
\* any documents, failures and crashes, while one copy of the service runs as in
\* its deployment.
THEOREM AnunciadoSiempreAceptado ==
  ASSUME \A q, r \in Procesadores : q = r
  PROVE  FacturacionSpec => []AnunciadoEsAceptado
<1>1. EnvioIInv => AnunciadoEsAceptado
  BY DEF EnvioIInv
<1> QED
  BY <1>1, InicioFacturacion, PasoEnvio, PTL DEF FacturacionSpec
-----------------------------------------------------------------------------
(* servicio-notificaciones: the tickets *)

\* How the size of a set moves when an element may come in or goes out.
LEMMA Tamanos ==
  ASSUME NEW S, IsFiniteSet(S), NEW T, NEW a
  PROVE  /\ Cardinality(S) \in Nat
         /\ T \subseteq S => IsFiniteSet(T) /\ Cardinality(T) \in Nat /\ Cardinality(T) <= Cardinality(S)
         /\ T \subseteq S \cup {a} =>
              IsFiniteSet(T) /\ Cardinality(T) \in Nat /\ Cardinality(T) <= Cardinality(S) + 1
         /\ a \in S /\ T \subseteq S \ {a} =>
              IsFiniteSet(T) /\ Cardinality(T) \in Nat /\ Cardinality(T) + 1 <= Cardinality(S)
<1>1. Cardinality(S) \in Nat
  BY FS_CardinalityType
<1>2. ASSUME T \subseteq S
      PROVE  IsFiniteSet(T) /\ Cardinality(T) \in Nat /\ Cardinality(T) <= Cardinality(S)
  BY <1>2, FS_Subset, FS_CardinalityType
<1>3. ASSUME T \subseteq S \cup {a}
      PROVE  IsFiniteSet(T) /\ Cardinality(T) \in Nat /\ Cardinality(T) <= Cardinality(S) + 1
  <2>1. /\ IsFiniteSet(S \cup {a}) /\ Cardinality(S \cup {a}) \in Nat
        /\ Cardinality(S \cup {a}) <= Cardinality(S) + 1
    BY <1>1, FS_AddElement, FS_CardinalityType
  <2>2. /\ IsFiniteSet(T) /\ Cardinality(T) \in Nat
        /\ Cardinality(T) <= Cardinality(S \cup {a})
    BY <1>3, <2>1, FS_Subset, FS_CardinalityType
  <2> QED
    BY <1>1, <2>1, <2>2
<1>4. ASSUME a \in S, T \subseteq S \ {a}
      PROVE  IsFiniteSet(T) /\ Cardinality(T) \in Nat /\ Cardinality(T) + 1 <= Cardinality(S)
  <2>1. /\ IsFiniteSet(S \ {a}) /\ Cardinality(S \ {a}) \in Nat
        /\ Cardinality(S \ {a}) = Cardinality(S) - 1
    BY <1>4, FS_RemoveElement, FS_CardinalityType
  <2>2. /\ IsFiniteSet(T) /\ Cardinality(T) \in Nat
        /\ Cardinality(T) <= Cardinality(S \ {a})
    BY <1>4, <2>1, FS_Subset, FS_CardinalityType
  <2> QED
    BY <1>1, <2>1, <2>2
<1> QED
  BY <1>1, <1>2, <1>3, <1>4

\* Those who may print a ticket are some of those who have one in hand.
LEMMA PorImprimirFinito ==
  ASSUME ArriendosPropios, NEW t \in Tickets
  PROVE  IsFiniteSet(PorImprimir(t)) /\ Cardinality(PorImprimir(t)) \in Nat
<1>1. PorImprimir(t) \subseteq ConTicket
  BY DEF PorImprimir, ConTicket
<1> QED
  BY <1>1, Tamanos DEF ArriendosPropios

\* At the start there is no ticket and the agents have nothing to do.
LEMMA InicioImpresion == ImpresionInit => ImpresionIInv
<1> SUFFICES ASSUME ImpresionInit PROVE ImpresionIInv
  OBVIOUS
<1>0. 0 \notin Tickets /\ MaxAttempts \in Nat \ {0}
  BY ImpresionAssumption DEF ImpresionAssumption
<1>1. trabajo \in [Tickets -> FilasDeTrabajo]
  BY <1>0 DEF ImpresionInit, FilasDeTrabajo, EstadoTrabajo
<1>2. ImpresionTypeOK
  BY <1>1 DEF ImpresionInit, ImpresionTypeOK
<1>3. AgentesTipados
  BY DEF ImpresionInit, AgentesTipados, EnMano, SinTrabajo, SinFila
<1>4. EnEspera
  BY <1>0 DEF ImpresionInit, EnEspera
<1>5. ConTicket = {} /\ \A t \in Tickets : PorImprimir(t) = {}
  BY <1>0 DEF ImpresionInit, ConTicket, PorImprimir, SinTrabajo
<1>6. ArriendosPropios
  BY <1>5, FS_EmptySet DEF ImpresionInit, ArriendosPropios
<1>7. PapelesContados
  BY <1>5, FS_EmptySet DEF ImpresionInit, PapelesContados
<1>8. FallidosContados
  BY <1>5 DEF ImpresionInit, FallidosContados
<1> QED
  BY <1>2, <1>3, <1>4, <1>6, <1>7, <1>8 DEF ImpresionIInv

\* One ticket t changes, and the tickets in the hands of the agents do not: the
\* sum of ticket t is what is left to look at.
LEMMA CambiaUnTicket ==
  ASSUME PapelesContados, ArriendosPropios, NEW t \in Tickets,
         \A u \in Tickets \ {t} :
           /\ trabajo'[u] = trabajo[u] /\ papeles'[u] = papeles[u]
           /\ reintentos'[u] = reintentos[u] /\ fallidos'[u] = fallidos[u],
         \A u \in Tickets \ {t} : PorImprimir(u)' = PorImprimir(u),
         papeles'[t] + Cardinality(PorImprimir(t)')
           + (IF trabajo'[t].status \in {"NO", "PENDING"} THEN 1 ELSE 0)
           <= 1 + reintentos'[t] + fallidos'[t]
  PROVE  PapelesContados'
<1> SUFFICES ASSUME NEW u \in Tickets
             PROVE  papeles'[u] + Cardinality(PorImprimir(u)')
                      + (IF trabajo'[u].status \in {"NO", "PENDING"} THEN 1 ELSE 0)
                      <= 1 + reintentos'[u] + fallidos'[u]
  BY DEF PapelesContados
<1>1. CASE u = t
  BY <1>1
<1>2. CASE u # t
  <2>1. papeles[u] + Cardinality(PorImprimir(u))
          + (IF trabajo[u].status \in {"NO", "PENDING"} THEN 1 ELSE 0)
          <= 1 + reintentos[u] + fallidos[u]
    BY DEF PapelesContados
  <2> QED
    BY <1>2, <2>1
<1> QED
  BY <1>1, <1>2
\* What the queue, an agent or the operator does, action by action: a paper more
\* has one who may print less, or a cause more.
LEMMA PasoImpresion == ImpresionIInv /\ [ImpresionNext]_impresionVars => ImpresionIInv'
<1> SUFFICES ASSUME ImpresionIInv, [ImpresionNext]_impresionVars PROVE ImpresionIInv'
  OBVIOUS
<1>i. /\ ImpresionTypeOK /\ AgentesTipados /\ EnEspera /\ ArriendosPropios
      /\ PapelesContados /\ FallidosContados
  BY DEF ImpresionIInv
<1>c. 0 \notin Tickets /\ MaxAttempts \in Nat \ {0}
  BY ImpresionAssumption DEF ImpresionAssumption
<1>t. /\ trabajo \in [Tickets -> FilasDeTrabajo] /\ tokens \in [Tickets -> Nat]
      /\ papeles \in [Tickets -> Nat] /\ fallidos \in [Tickets -> Nat]
      /\ reintentos \in [Tickets -> Nat]
      /\ candidato \in [Agentes -> Tickets \cup {SinFila}]
      /\ imprimiendo \in [Agentes -> EnMano]
  BY <1>i DEF ImpresionTypeOK, AgentesTipados
<1>p. \A t \in Tickets :
        /\ IsFiniteSet(PorImprimir(t)) /\ Cardinality(PorImprimir(t)) \in Nat
        /\ papeles[t] + Cardinality(PorImprimir(t))
             + (IF trabajo[t].status \in {"NO", "PENDING"} THEN 1 ELSE 0)
             <= 1 + reintentos[t] + fallidos[t]
        /\ papeles[t] \in Nat /\ fallidos[t] \in Nat /\ reintentos[t] \in Nat
  BY <1>i, <1>t, PorImprimirFinito DEF PapelesContados
<1> USE DEF cola, historia
<1>0. CASE UNCHANGED impresionVars
  BY <1>i, <1>0 DEF impresionVars, ImpresionIInv, ImpresionTypeOK, AgentesTipados, EnEspera,
     ArriendosPropios, ConTicket, PapelesContados, PorImprimir, FallidosContados, Vigente
<1>1. ASSUME NEW b \in BOOLEAN, Habilitar(b) PROVE ImpresionIInv'
  <2>1. enabled' = b /\ UNCHANGED <<trabajo, tokens, candidato, imprimiendo, historia>>
    BY <1>1 DEF Habilitar
  <2>2. ImpresionTypeOK'
    BY <1>i, <2>1 DEF ImpresionTypeOK
  <2>3. /\ AgentesTipados' /\ EnEspera' /\ ArriendosPropios' /\ PapelesContados'
        /\ FallidosContados'
    BY <1>i, <2>1 DEF AgentesTipados, EnEspera, ArriendosPropios, ConTicket, PapelesContados,
       PorImprimir, FallidosContados, Vigente
  <2> QED
    BY <2>2, <2>3 DEF ImpresionIInv
<1>2. ASSUME NEW t \in Tickets, Encolar(t) PROVE ImpresionIInv'
  <2>1. /\ trabajo[t].status = "NO"
        /\ trabajo' = [trabajo EXCEPT ![t].status = "PENDING"]
        /\ UNCHANGED <<enabled, tokens, candidato, imprimiendo, historia>>
    BY <1>2 DEF Encolar
  <2>2. /\ trabajo'[t] = [trabajo[t] EXCEPT !.status = "PENDING"]
        /\ \A u \in Tickets \ {t} : trabajo'[u] = trabajo[u]
    BY <1>t, <2>1
  <2>3. trabajo[t] \in FilasDeTrabajo
    BY <1>t
  <2>4. /\ trabajo'[t] \in FilasDeTrabajo /\ trabajo'[t].status = "PENDING"
        /\ trabajo'[t].attempts = trabajo[t].attempts
    BY ONLY <2>2, <2>3 DEF FilasDeTrabajo, EstadoTrabajo
  <2>5. trabajo' \in [Tickets -> FilasDeTrabajo]
    BY <1>t, <2>1, <2>4
  <2>6. ImpresionTypeOK' /\ AgentesTipados'
    BY <1>i, <2>1, <2>5 DEF ImpresionTypeOK, AgentesTipados
  <2>7. EnEspera'
    BY <1>i, <1>c, <2>1, <2>2, <2>4 DEF EnEspera
  <2>8. ArriendosPropios' /\ ConTicket' = ConTicket
    BY <1>i, <2>1 DEF ArriendosPropios, ConTicket
  <2>9. \A a \in ConTicket : Vigente(a)' <=> Vigente(a)
    BY <2>1, <2>2, <2>4 DEF Vigente, ConTicket
  <2>10. \A u \in Tickets : PorImprimir(u)' = PorImprimir(u)
    BY <2>1, <2>9 DEF PorImprimir, ConTicket
  <2>11. PapelesContados'
    BY <1>i, <2>1, <2>2, <2>4, <2>10, CambiaUnTicket DEF PapelesContados
  <2>12. FallidosContados'
    BY <1>i, <2>1, <2>2, <2>4, <2>8, <2>9 DEF FallidosContados
  <2> QED
    BY <2>6, <2>7, <2>8, <2>11, <2>12 DEF ImpresionIInv
<1>3. ASSUME NEW vencidos \in SUBSET Tickets, Vencer(vencidos) PROVE ImpresionIInv'
  <2>1. /\ \A t \in vencidos : trabajo[t].status = "CLAIMED"
        /\ trabajo' = [t \in Tickets |-> IF t \in vencidos
             THEN [trabajo[t] EXCEPT !.status = "UNCERTAIN"] ELSE trabajo[t]]
        /\ UNCHANGED <<enabled, tokens, candidato, imprimiendo, historia>>
    BY <1>3 DEF Vencer, Vencidos
  <2>2. \A t \in Tickets :
          /\ trabajo'[t] \in FilasDeTrabajo
          /\ trabajo'[t].attempts = trabajo[t].attempts
          /\ trabajo'[t].leaseToken = trabajo[t].leaseToken
          /\ \/ trabajo'[t].status = trabajo[t].status
             \/ trabajo[t].status = "CLAIMED" /\ trabajo'[t].status = "UNCERTAIN"
    <3> SUFFICES ASSUME NEW t \in Tickets
                 PROVE  /\ trabajo'[t] \in FilasDeTrabajo
                        /\ trabajo'[t].attempts = trabajo[t].attempts
                        /\ trabajo'[t].leaseToken = trabajo[t].leaseToken
                        /\ \/ trabajo'[t].status = trabajo[t].status
                           \/ trabajo[t].status = "CLAIMED" /\ trabajo'[t].status = "UNCERTAIN"
      OBVIOUS
    <3>1. trabajo[t] \in FilasDeTrabajo
      BY <1>t
    <3>2. CASE t \in vencidos
      <4>1. trabajo'[t] = [trabajo[t] EXCEPT !.status = "UNCERTAIN"] /\ trabajo[t].status = "CLAIMED"
        BY <2>1, <3>2
      <4> QED
        BY ONLY <3>1, <4>1 DEF FilasDeTrabajo, EstadoTrabajo
    <3>3. CASE t \notin vencidos
      BY <2>1, <3>1, <3>3
    <3> QED
      BY <3>2, <3>3
  <2>3. trabajo' \in [Tickets -> FilasDeTrabajo]
    BY <2>1, <2>2
  <2>4. ImpresionTypeOK' /\ AgentesTipados'
    BY <1>i, <2>1, <2>3 DEF ImpresionTypeOK, AgentesTipados
  <2>5. EnEspera'
    BY <1>i, <2>2 DEF EnEspera
  <2>6. ArriendosPropios' /\ ConTicket' = ConTicket
    BY <1>i, <2>1 DEF ArriendosPropios, ConTicket
  <2>7. \A a \in ConTicket : Vigente(a)' <=> Vigente(a)
    BY <2>1, <2>2 DEF Vigente, ConTicket
  <2>8. \A u \in Tickets : PorImprimir(u)' = PorImprimir(u)
    BY <2>1, <2>7 DEF PorImprimir, ConTicket
  <2>9. \A t \in Tickets : trabajo'[t].status \in {"NO", "PENDING"} <=>
                           trabajo[t].status \in {"NO", "PENDING"}
    BY <2>2
  <2>10. PapelesContados'
    BY <1>i, <2>1, <2>8, <2>9 DEF PapelesContados
  <2>11. FallidosContados'
    BY <1>i, <2>1, <2>2, <2>6, <2>7 DEF FallidosContados
  <2> QED
    BY <2>4, <2>5, <2>6, <2>10, <2>11 DEF ImpresionIInv
<1>4. ASSUME NEW a \in Agentes, NEW t \in Tickets, BuscarTrabajo(a, t) PROVE ImpresionIInv'
  <2>1. /\ imprimiendo[a] = SinTrabajo /\ candidato' = [candidato EXCEPT ![a] = t]
        /\ UNCHANGED <<cola, imprimiendo, historia>>
    BY <1>4 DEF BuscarTrabajo
  <2>2. ImpresionTypeOK' /\ AgentesTipados'
    BY <1>i, <1>t, <2>1 DEF ImpresionTypeOK, AgentesTipados
  <2>3. ArriendosPropios'
    BY <1>i, <1>t, <2>1 DEF ArriendosPropios, ConTicket
  <2>4. EnEspera' /\ PapelesContados' /\ FallidosContados'
    BY <1>i, <2>1 DEF EnEspera, ConTicket, PapelesContados, PorImprimir, FallidosContados, Vigente
  <2> QED
    BY <2>2, <2>3, <2>4 DEF ImpresionIInv
<1>5. ASSUME NEW a \in Agentes, PerderTrabajo(a) PROVE ImpresionIInv'
  <2>1. /\ candidato' = [candidato EXCEPT ![a] = SinFila]
        /\ UNCHANGED <<cola, imprimiendo, historia>>
    BY <1>5 DEF PerderTrabajo
  <2>2. ImpresionTypeOK' /\ AgentesTipados'
    BY <1>i, <1>t, <2>1 DEF ImpresionTypeOK, AgentesTipados
  <2>3. ArriendosPropios'
    BY <1>i, <1>t, <2>1 DEF ArriendosPropios, ConTicket
  <2>4. EnEspera' /\ PapelesContados' /\ FallidosContados'
    BY <1>i, <2>1 DEF EnEspera, ConTicket, PapelesContados, PorImprimir, FallidosContados, Vigente
  <2> QED
    BY <2>2, <2>3, <2>4 DEF ImpresionIInv
<1>6. ASSUME NEW a \in Agentes, TomarTrabajo(a) PROVE ImpresionIInv'
  <2>0. PICK t, n : t = candidato[a] /\ n = tokens[t] + 1
    OBVIOUS
  <2>1. t \in Tickets /\ imprimiendo[a] = SinTrabajo /\ tokens[t] \in Nat /\ n = tokens[t] + 1
    BY <1>i, <1>t, <1>6, <2>0 DEF TomarTrabajo, ArriendosPropios
  <2>2. /\ trabajo[t].status = "PENDING"
        /\ tokens' = [tokens EXCEPT ![t] = n]
        /\ trabajo' = [trabajo EXCEPT ![t] = [status |-> "CLAIMED",
                         attempts |-> trabajo[t].attempts + 1, leaseToken |-> n]]
        /\ candidato' = [candidato EXCEPT ![a] = SinFila]
        /\ imprimiendo' = [imprimiendo EXCEPT ![a] =
             [ticket |-> t, leaseToken |-> n, ok |-> "NO"]]
        /\ UNCHANGED <<enabled, historia>>
    <3>1. tokens' = [tokens EXCEPT ![t] = @ + 1]
      BY <1>6, <2>0 DEF TomarTrabajo
    <3>2. tokens'[t] = n
      BY <1>t, <2>1, <3>1
    <3> QED
      BY <1>6, <2>0, <3>1, <3>2 DEF TomarTrabajo
  <2>3. /\ imprimiendo'[a].ticket = t /\ imprimiendo'[a].leaseToken = n
        /\ imprimiendo'[a].ok = "NO" /\ imprimiendo'[a] \in EnMano
        /\ \A b \in Agentes \ {a} : imprimiendo'[b] = imprimiendo[b]
    BY <1>t, <2>1, <2>2 DEF EnMano
  <2>4. /\ trabajo'[t].status = "CLAIMED" /\ trabajo'[t].leaseToken = n
        /\ trabajo'[t] \in FilasDeTrabajo
        /\ \A u \in Tickets \ {t} : trabajo'[u] = trabajo[u] /\ tokens'[u] = tokens[u]
        /\ tokens'[t] = n
    <3>1. trabajo[t].attempts < MaxAttempts /\ trabajo[t].attempts \in 0..MaxAttempts
      BY <1>i, <1>t, <2>1, <2>2 DEF EnEspera, FilasDeTrabajo
    <3>2. trabajo[t].attempts + 1 \in 0..MaxAttempts
      BY <1>c, <3>1
    <3> QED
      BY <1>t, <2>1, <2>2, <3>2 DEF FilasDeTrabajo, EstadoTrabajo
  <2>5. ImpresionTypeOK' /\ AgentesTipados'
    <3>1. /\ trabajo' \in [Tickets -> FilasDeTrabajo] /\ tokens' \in [Tickets -> Nat]
      BY <1>t, <2>1, <2>2, <2>4
    <3>2. imprimiendo' \in [Agentes -> EnMano] /\ candidato' \in [Agentes -> Tickets \cup {SinFila}]
      BY <1>t, <2>2, <2>3
    <3>3. \A b \in Agentes : imprimiendo'[b] = SinTrabajo \/ imprimiendo'[b].ticket \in Tickets
      BY <1>i, <2>1, <2>3 DEF ImpresionTypeOK
    <3> QED
      BY <1>i, <2>2, <3>1, <3>2, <3>3 DEF ImpresionTypeOK, AgentesTipados
  <2>6. EnEspera'
    BY <1>i, <2>4 DEF EnEspera
  <2>7. ConTicket' = ConTicket \cup {a} /\ a \notin ConTicket
    BY <1>c, <2>1, <2>3 DEF ConTicket, SinTrabajo
  <2>8. \A b \in ConTicket :
          /\ imprimiendo'[b] = imprimiendo[b] /\ imprimiendo[b].ticket \in Tickets
          /\ imprimiendo[b].leaseToken \in 1..tokens[imprimiendo[b].ticket]
          /\ imprimiendo[b].ticket = t => imprimiendo[b].leaseToken # n
          /\ imprimiendo[b].leaseToken \in 1..tokens'[imprimiendo[b].ticket]
    <3> SUFFICES ASSUME NEW b \in ConTicket
                 PROVE  /\ imprimiendo'[b] = imprimiendo[b] /\ imprimiendo[b].ticket \in Tickets
                        /\ imprimiendo[b].leaseToken \in 1..tokens[imprimiendo[b].ticket]
                        /\ imprimiendo[b].ticket = t => imprimiendo[b].leaseToken # n
                        /\ imprimiendo[b].leaseToken \in 1..tokens'[imprimiendo[b].ticket]
      OBVIOUS
    <3>1. /\ imprimiendo'[b] = imprimiendo[b] /\ imprimiendo[b].ticket \in Tickets
          /\ imprimiendo[b].leaseToken \in 1..tokens[imprimiendo[b].ticket]
      BY <1>i, <2>3, <2>7 DEF ArriendosPropios, ConTicket
    <3>2. CASE imprimiendo[b].ticket = t
      BY <2>1, <2>4, <3>1, <3>2
    <3>3. CASE imprimiendo[b].ticket # t
      BY <2>4, <3>1, <3>3
    <3> QED
      BY <3>1, <3>2, <3>3
  <2>9. ArriendosPropios'
    <3>1. IsFiniteSet(ConTicket')
      BY <1>i, <2>7, Tamanos DEF ArriendosPropios
    <3>2. \A b \in Agentes : candidato'[b] # SinFila => imprimiendo'[b] = SinTrabajo
      BY <1>i, <1>t, <2>2, <2>3 DEF ArriendosPropios
    <3>3. n \in 1..tokens'[t]
      BY <2>1, <2>4
    <3>4. \A b \in ConTicket' : imprimiendo'[b].leaseToken \in 1..tokens'[imprimiendo'[b].ticket]
      BY <2>3, <2>7, <2>8, <3>3
    <3>5. ASSUME NEW b \in ConTicket', NEW c \in ConTicket',
                 imprimiendo'[b].ticket = imprimiendo'[c].ticket,
                 imprimiendo'[b].leaseToken = imprimiendo'[c].leaseToken
          PROVE  b = c
      <4>1. CASE b = a \/ c = a
        BY <2>3, <2>7, <2>8, <3>5, <4>1
      <4>2. CASE b # a /\ c # a
        BY <1>i, <2>7, <2>8, <3>5, <4>2 DEF ArriendosPropios
      <4> QED
        BY <4>1, <4>2
    <3> QED
      BY <3>1, <3>2, <3>4, <3>5 DEF ArriendosPropios
  <2>10. \A b \in ConTicket : /\ imprimiendo[b].ticket = t => ~Vigente(b)'
                              /\ imprimiendo[b].ticket # t => (Vigente(b)' <=> Vigente(b))
    BY <2>4, <2>8 DEF Vigente
  <2>11. \A u \in Tickets \ {t} : PorImprimir(u)' = PorImprimir(u)
    <3> SUFFICES ASSUME NEW u \in Tickets \ {t}, NEW b \in Agentes
                 PROVE  b \in PorImprimir(u)' <=> b \in PorImprimir(u)
      BY DEF PorImprimir
    <3>1. CASE b = a
      BY <1>c, <2>1, <2>3, <3>1 DEF PorImprimir, SinTrabajo
    <3>2. CASE b # a
      <4>1. imprimiendo'[b] = imprimiendo[b]
        BY <2>3, <3>2
      <4>2. imprimiendo[b].ticket = u => (Vigente(b)' <=> Vigente(b))
        BY <2>10 DEF ConTicket
      <4> QED
        BY <4>1, <4>2 DEF PorImprimir
    <3> QED
      BY <3>1, <3>2
  <2>12. PorImprimir(t)' \subseteq PorImprimir(t) \cup {a}
    <3> SUFFICES ASSUME NEW b \in Agentes \ {a}, b \in PorImprimir(t)'
                 PROVE  b \in PorImprimir(t)
      BY DEF PorImprimir
    <3>1. imprimiendo'[b] = imprimiendo[b] /\ imprimiendo[b].ticket = t
      BY <2>3 DEF PorImprimir
    <3>2. ~Vigente(b)'
      BY <2>1, <2>10, <3>1 DEF ConTicket
    <3> QED
      BY <3>1, <3>2 DEF PorImprimir
  <2>13. PapelesContados'
    <3>1. PICK c \in Nat : c = Cardinality(PorImprimir(t)') /\ c <= Cardinality(PorImprimir(t)) + 1
      BY <1>p, <2>1, <2>12, Tamanos
    <3>2. papeles[t] + c + 0 <= 1 + reintentos[t] + fallidos[t]
      BY <1>p, <2>1, <2>2, <3>1
    <3> QED
      BY <1>i, <2>1, <2>2, <2>4, <2>11, <3>1, <3>2, CambiaUnTicket
  <2>14. FallidosContados'
    <3>1. \A b \in ConTicket' : imprimiendo'[b].ok \in {"IMPRESO", "A_MEDIAS"} /\ Vigente(b)' =>
            b \in ConTicket /\ Vigente(b) /\ imprimiendo'[b] = imprimiendo[b]
      BY <2>3, <2>7, <2>8, <2>10
    <3>2. \A u \in Tickets : trabajo'[u].status = "PRINTED" => trabajo[u].status = "PRINTED"
      BY <2>4
    <3> QED
      BY <1>i, <2>2, <3>1, <3>2 DEF FallidosContados
  <2> QED
    BY <2>5, <2>6, <2>9, <2>13, <2>14 DEF ImpresionIInv
<1>7. ASSUME NEW t \in Tickets, Reintentar(t) PROVE ImpresionIInv'
  <2>1. /\ trabajo[t].status \in {"FAILED", "UNCERTAIN"}
        /\ trabajo' = [trabajo EXCEPT ![t] = [status |-> "PENDING", attempts |-> 0,
                                              leaseToken |-> 0]]
        /\ reintentos' = [reintentos EXCEPT ![t] = @ + 1]
        /\ UNCHANGED <<enabled, tokens, candidato, imprimiendo, papeles, fallidos>>
    BY <1>7 DEF Reintentar
  <2>2. /\ trabajo'[t] = [status |-> "PENDING", attempts |-> 0, leaseToken |-> 0]
        /\ reintentos'[t] = reintentos[t] + 1
        /\ \A u \in Tickets \ {t} : trabajo'[u] = trabajo[u] /\ reintentos'[u] = reintentos[u]
    BY <1>t, <2>1
  <2>3. ImpresionTypeOK' /\ AgentesTipados'
    <3>1. trabajo'[t] \in FilasDeTrabajo
      BY <1>c, <2>2 DEF FilasDeTrabajo, EstadoTrabajo
    <3>2. trabajo' \in [Tickets -> FilasDeTrabajo] /\ reintentos' \in [Tickets -> Nat]
      BY <1>t, <2>1, <2>2, <3>1
    <3> QED
      BY <1>i, <2>1, <3>2 DEF ImpresionTypeOK, AgentesTipados
  <2>4. EnEspera'
    BY <1>i, <1>c, <2>2 DEF EnEspera
  <2>5. ArriendosPropios' /\ ConTicket' = ConTicket
    BY <1>i, <2>1 DEF ArriendosPropios, ConTicket
  <2>6. \A b \in ConTicket : /\ imprimiendo[b].ticket = t => ~Vigente(b)'
                             /\ imprimiendo[b].ticket # t => (Vigente(b)' <=> Vigente(b))
    BY <2>1, <2>2 DEF Vigente, ConTicket
  <2>7. /\ \A u \in Tickets \ {t} : PorImprimir(u)' = PorImprimir(u)
        /\ PorImprimir(t)' \subseteq PorImprimir(t)
    BY <2>1, <2>6 DEF PorImprimir, ConTicket
  <2>8. PapelesContados'
    <3>1. PICK c \in Nat : c = Cardinality(PorImprimir(t)') /\ c <= Cardinality(PorImprimir(t))
      BY <1>p, <2>7, Tamanos
    <3>2. papeles[t] + c + 1 <= 1 + (reintentos[t] + 1) + fallidos[t]
      BY <1>p, <2>1, <3>1
    <3> QED
      BY <1>i, <2>1, <2>2, <2>7, <3>1, <3>2, CambiaUnTicket
  <2>9. FallidosContados'
    <3>1. \A b \in ConTicket : Vigente(b)' => Vigente(b)
      BY <2>6
    <3>2. \A u \in Tickets : trabajo'[u].status = "PRINTED" => trabajo[u].status = "PRINTED"
      BY <2>2
    <3> QED
      BY <1>i, <2>1, <2>5, <3>1, <3>2 DEF FallidosContados
  <2> QED
    BY <2>3, <2>4, <2>5, <2>8, <2>9 DEF ImpresionIInv
<1>8. ASSUME NEW a \in Agentes, NEW ok \in BOOLEAN, NEW papel \in BOOLEAN,
             Imprimir(a, ok, papel)
      PROVE  ImpresionIInv'
  <2>0. PICK t, fin : /\ t = imprimiendo[a].ticket
                      /\ fin = IF ok THEN "IMPRESO" ELSE IF papel THEN "A_MEDIAS" ELSE "FALLO"
    OBVIOUS
  <2>1. /\ imprimiendo[a].ok = "NO" /\ t \in Tickets /\ (ok => papel)
        /\ papeles' = [papeles EXCEPT ![t] = IF papel THEN @ + 1 ELSE @]
        /\ imprimiendo' = [imprimiendo EXCEPT ![a].ok = fin]
        /\ UNCHANGED <<cola, candidato, fallidos, reintentos>>
    BY <1>8, <2>0 DEF Imprimir
  <2>2. /\ fin \in {"IMPRESO", "A_MEDIAS", "FALLO"} /\ (fin = "FALLO" <=> ~papel)
    BY <2>0, <2>1
  <2>3. /\ imprimiendo'[a].ticket = t /\ imprimiendo'[a].ok = fin
        /\ imprimiendo'[a].leaseToken = imprimiendo[a].leaseToken
        /\ imprimiendo'[a] \in EnMano
        /\ \A b \in Agentes \ {a} : imprimiendo'[b] = imprimiendo[b]
    <3>1. imprimiendo'[a] = [imprimiendo[a] EXCEPT !.ok = fin] /\ imprimiendo[a] \in EnMano
      BY <1>t, <2>1
    <3>2. /\ imprimiendo'[a] \in EnMano /\ imprimiendo'[a].ok = fin
          /\ imprimiendo'[a].ticket = imprimiendo[a].ticket
          /\ imprimiendo'[a].leaseToken = imprimiendo[a].leaseToken
      BY ONLY <2>2, <3>1 DEF EnMano
    <3> QED
      BY <1>t, <2>0, <2>1, <3>2
  <2>4. /\ papeles'[t] = papeles[t] + (IF papel THEN 1 ELSE 0)
        /\ \A u \in Tickets \ {t} : papeles'[u] = papeles[u]
        /\ papeles' \in [Tickets -> Nat]
    BY <1>t, <2>1
  <2>5. ImpresionTypeOK' /\ AgentesTipados'
    <3>1. imprimiendo' \in [Agentes -> EnMano]
      BY <1>t, <2>1, <2>3
    <3>2. \A b \in Agentes : imprimiendo'[b] = SinTrabajo \/ imprimiendo'[b].ticket \in Tickets
      BY <1>i, <2>1, <2>3 DEF ImpresionTypeOK
    <3> QED
      BY <1>i, <2>1, <2>4, <3>1, <3>2 DEF ImpresionTypeOK, AgentesTipados
  <2>6. EnEspera'
    BY <1>i, <2>1 DEF EnEspera
  <2>7. ConTicket' = ConTicket /\ a \in ConTicket
    BY <2>0, <2>1, <2>3 DEF ConTicket
  <2>8. \A b \in ConTicket : /\ imprimiendo'[b].ticket = imprimiendo[b].ticket
                             /\ imprimiendo'[b].leaseToken = imprimiendo[b].leaseToken
                             /\ Vigente(b)' <=> Vigente(b)
    BY <2>0, <2>1, <2>3 DEF Vigente, ConTicket
  <2>9. ArriendosPropios'
    <3>1. candidato[a] = SinFila
      BY <1>i, <1>c, <2>0, <2>1 DEF ArriendosPropios, SinTrabajo
    <3>2. \A b \in Agentes : candidato'[b] # SinFila => imprimiendo'[b] = SinTrabajo
      BY <1>i, <2>1, <2>3, <3>1 DEF ArriendosPropios
    <3> QED
      BY <1>i, <2>1, <2>7, <2>8, <3>2 DEF ArriendosPropios
  <2>10. \A u \in Tickets \ {t} : PorImprimir(u)' = PorImprimir(u)
    <3> SUFFICES ASSUME NEW u \in Tickets \ {t}, NEW b \in Agentes
                 PROVE  b \in PorImprimir(u)' <=> b \in PorImprimir(u)
      BY DEF PorImprimir
    <3>1. CASE b = a
      BY <2>0, <2>3, <3>1 DEF PorImprimir
    <3>2. CASE b # a
      BY <2>3, <2>8, <3>2 DEF PorImprimir, ConTicket
    <3> QED
      BY <3>1, <3>2
  <2>11. /\ PorImprimir(t)' \subseteq PorImprimir(t) /\ a \in PorImprimir(t)
         /\ papel => PorImprimir(t)' \subseteq PorImprimir(t) \ {a}
    <3>1. a \in PorImprimir(t)
      BY <2>0, <2>1 DEF PorImprimir
    <3>2. \A b \in Agentes \ {a} : b \in PorImprimir(t)' => b \in PorImprimir(t)
      BY <2>1, <2>3, <2>8 DEF PorImprimir, ConTicket
    <3>3. papel => a \notin PorImprimir(t)'
      BY <2>2, <2>3 DEF PorImprimir
    <3>4. PorImprimir(t)' \subseteq Agentes
      BY DEF PorImprimir
    <3> QED
      BY <3>1, <3>2, <3>3, <3>4
  <2>12. PapelesContados'
    <3>1. PICK c \in Nat :
            /\ c = Cardinality(PorImprimir(t)')
            /\ c + (IF papel THEN 1 ELSE 0) <= Cardinality(PorImprimir(t))
      <4>1. CASE papel
        BY <1>p, <2>1, <2>11, <4>1, Tamanos
      <4>2. CASE ~papel
        <5>1. PICK c \in Nat : /\ c = Cardinality(PorImprimir(t)')
                              /\ c <= Cardinality(PorImprimir(t))
          BY <1>p, <2>1, <2>11, Tamanos
        <5> QED
          BY <4>2, <5>1
      <4> QED
        BY <4>1, <4>2
    <3>2. papeles'[t] + c + (IF trabajo[t].status \in {"NO", "PENDING"} THEN 1 ELSE 0)
            <= 1 + reintentos[t] + fallidos[t]
      BY <1>p, <2>1, <2>4, <3>1
    <3> QED
      BY <1>i, <2>1, <2>4, <2>10, <3>1, <3>2, CambiaUnTicket
  <2>13. FallidosContados'
    <3>1. \A u \in Tickets : papeles[u] <= papeles'[u] /\ papeles'[u] \in Nat
      BY <1>t, <2>4
    <3>2. \A u \in Tickets : fallidos[u] <= papeles[u]
      BY <1>i DEF FallidosContados
    <3>3. papel => fallidos[t] < papeles'[t]
      BY <1>p, <2>1, <2>4, <3>2
    <3>4. ASSUME NEW b \in ConTicket, imprimiendo'[b].ok \in {"IMPRESO", "A_MEDIAS"}, Vigente(b)'
          PROVE  fallidos[imprimiendo[b].ticket] < papeles'[imprimiendo[b].ticket]
      <4>1. CASE b = a
        BY <2>0, <2>2, <2>3, <3>3, <3>4, <4>1
      <4>2. CASE b # a
        <5>1. imprimiendo'[b] = imprimiendo[b] /\ Vigente(b)
          BY <2>3, <2>8, <3>4, <4>2 DEF ConTicket
        <5>2. fallidos[imprimiendo[b].ticket] < papeles[imprimiendo[b].ticket]
          BY <1>i, <3>4, <5>1 DEF FallidosContados
        <5>3. imprimiendo[b].ticket \in Tickets
          BY DEF ConTicket
        <5> QED
          BY <1>t, <3>1, <5>2, <5>3
      <4> QED
        BY <4>1, <4>2
    <3>5. \A u \in Tickets : trabajo[u].status = "PRINTED" => fallidos[u] < papeles'[u]
      BY <1>i, <1>t, <3>1 DEF FallidosContados
    <3>6. \A u \in Tickets : fallidos[u] <= papeles'[u]
      BY <1>t, <3>1, <3>2
    <3> QED
      BY <2>1, <2>7, <2>8, <3>4, <3>5, <3>6 DEF FallidosContados
  <2> QED
    BY <2>5, <2>6, <2>9, <2>12, <2>13 DEF ImpresionIInv
<1>9. ASSUME NEW a \in Agentes, Confirmar(a) PROVE ImpresionIInv'
  <2>0. PICK t, fin : /\ t = imprimiendo[a].ticket
                      /\ fin = IF imprimiendo[a].ok = "IMPRESO" THEN "PRINTED"
                               ELSE IF trabajo[t].attempts >= MaxAttempts THEN "FAILED"
                               ELSE "PENDING"
    OBVIOUS
  <2>1. /\ imprimiendo[a].ok \in {"IMPRESO", "A_MEDIAS", "FALLO"} /\ Vigente(a)
        /\ trabajo' = [trabajo EXCEPT ![t].status = fin, ![t].leaseToken = 0]
        /\ fallidos' = [fallidos EXCEPT ![t] =
             IF imprimiendo[a].ok = "A_MEDIAS" THEN @ + 1 ELSE @]
        /\ UNCHANGED <<enabled, tokens, candidato, imprimiendo, papeles, reintentos>>
    BY <1>9, <2>0 DEF Confirmar, Impreso
  <2>2. t \in Tickets
    BY <1>i, <2>0, <2>1 DEF ImpresionTypeOK, SinTrabajo
  <2>3. /\ trabajo'[t].status = fin /\ trabajo'[t].attempts = trabajo[t].attempts
        /\ trabajo'[t] \in FilasDeTrabajo
        /\ \A u \in Tickets \ {t} : trabajo'[u] = trabajo[u]
    <3>1. fin \in {"PRINTED", "FAILED", "PENDING"}
      BY <2>0
    <3>2. /\ trabajo'[t] = [trabajo[t] EXCEPT !.status = fin, !.leaseToken = 0]
          /\ trabajo[t] \in FilasDeTrabajo
      BY <1>t, <2>1, <2>2
    <3>3. /\ trabajo'[t].status = fin /\ trabajo'[t].attempts = trabajo[t].attempts
          /\ trabajo'[t] \in FilasDeTrabajo
      <4>1. PICK x : x = trabajo[t]
        OBVIOUS
      <4>2. PICK y \in FilasDeTrabajo : y = [status |-> fin, attempts |-> x.attempts,
                                            leaseToken |-> 0]
        BY <3>1, <3>2, <4>1 DEF FilasDeTrabajo, EstadoTrabajo
      <4>3. [x EXCEPT !.status = fin, !.leaseToken = 0] = y
        BY <3>2, <4>1, <4>2 DEF FilasDeTrabajo
      <4> QED
        BY <3>2, <4>1, <4>2, <4>3
    <3> QED
      BY <1>t, <2>1, <3>3
  <2>4. /\ fallidos'[t] = fallidos[t] + (IF imprimiendo[a].ok = "A_MEDIAS" THEN 1 ELSE 0)
        /\ \A u \in Tickets \ {t} : fallidos'[u] = fallidos[u]
        /\ fallidos' \in [Tickets -> Nat]
    BY <1>t, <2>1, <2>2
  <2>5. ImpresionTypeOK' /\ AgentesTipados'
    <3>1. trabajo' \in [Tickets -> FilasDeTrabajo]
      BY <1>t, <2>1, <2>2, <2>3
    <3> QED
      BY <1>i, <2>1, <2>4, <3>1 DEF ImpresionTypeOK, AgentesTipados
  <2>6. EnEspera'
    <3>1. trabajo[t].attempts \in Nat
      BY <1>t, <2>2 DEF FilasDeTrabajo
    <3>2. fin = "PENDING" => trabajo[t].attempts < MaxAttempts
      BY <1>c, <2>0, <3>1
    <3>3. fin # "NO"
      BY <2>0
    <3> QED
      BY <1>i, <2>3, <3>2, <3>3 DEF EnEspera
  <2>7. ArriendosPropios' /\ ConTicket' = ConTicket /\ a \in ConTicket
    BY <1>i, <2>0, <2>1, <2>2 DEF ArriendosPropios, ConTicket
  <2>8. \A b \in ConTicket : /\ imprimiendo[b].ticket = t => ~Vigente(b)'
                             /\ imprimiendo[b].ticket # t => (Vigente(b)' <=> Vigente(b))
    <3>1. trabajo'[t].status \notin {"CLAIMED", "UNCERTAIN"}
      BY <2>0, <2>3
    <3> QED
      BY <2>1, <2>3, <3>1 DEF Vigente, ConTicket
  <2>9. /\ \A u \in Tickets \ {t} : PorImprimir(u)' = PorImprimir(u)
        /\ PorImprimir(t)' \subseteq PorImprimir(t)
    BY <2>1, <2>2, <2>8 DEF PorImprimir, ConTicket
  <2>10. imprimiendo[a].ok = "FALLO" => /\ a \in PorImprimir(t)
                                        /\ PorImprimir(t)' \subseteq PorImprimir(t) \ {a}
    BY <2>0, <2>1, <2>7, <2>8, <2>9 DEF PorImprimir
  <2>11. PapelesContados'
    <3>1. PICK c \in Nat :
            /\ c = Cardinality(PorImprimir(t)') /\ c <= Cardinality(PorImprimir(t))
            /\ imprimiendo[a].ok = "FALLO" => c + 1 <= Cardinality(PorImprimir(t))
      BY <1>p, <2>2, <2>9, <2>10, Tamanos
    <3>2. trabajo[t].status \notin {"NO", "PENDING"}
      BY <2>0, <2>1 DEF Vigente
    <3>3. papeles[t] + Cardinality(PorImprimir(t)) <= 1 + reintentos[t] + fallidos[t]
      BY <1>p, <2>2, <3>2
    <3>4. imprimiendo[a].ok = "IMPRESO" => fin \notin {"NO", "PENDING"}
      BY <2>0
    <3>5. papeles[t] + c + (IF fin \in {"NO", "PENDING"} THEN 1 ELSE 0)
            <= 1 + reintentos[t] + fallidos'[t]
      BY <1>p, <2>1, <2>2, <2>4, <3>1, <3>3, <3>4
    <3> QED
      BY <1>i, <2>1, <2>2, <2>3, <2>4, <2>9, <3>1, <3>5, CambiaUnTicket
  <2>12. FallidosContados'
    <3>1. imprimiendo[a].ok \in {"IMPRESO", "A_MEDIAS"} => fallidos[t] < papeles[t]
      BY <1>i, <2>0, <2>1, <2>7 DEF FallidosContados
    <3>2. fallidos'[t] <= papeles[t] /\ (fin = "PRINTED" => fallidos'[t] < papeles[t])
      <4>1. fallidos[t] <= papeles[t]
        BY <1>i, <2>2 DEF FallidosContados
      <4>2. fin = "PRINTED" => imprimiendo[a].ok = "IMPRESO"
        BY <2>0
      <4> QED
        BY <1>p, <2>2, <2>4, <3>1, <4>1, <4>2
    <3>3. \A b \in ConTicket : Vigente(b)' => /\ Vigente(b)
                                              /\ imprimiendo[b].ticket \in Tickets \ {t}
      BY <2>8 DEF ConTicket
    <3> QED
      BY <1>i, <2>1, <2>3, <2>4, <2>7, <3>2, <3>3 DEF FallidosContados
  <2> QED
    BY <2>5, <2>6, <2>7, <2>11, <2>12 DEF ImpresionIInv
<1>10. ASSUME NEW a \in Agentes, SoltarTrabajo(a) \/ CaidaAgente(a) PROVE ImpresionIInv'
  <2>1. /\ imprimiendo' = [imprimiendo EXCEPT ![a] = SinTrabajo]
        /\ UNCHANGED <<cola, candidato, historia>>
    BY <1>10 DEF SoltarTrabajo, CaidaAgente
  <2>2. SinTrabajo \in EnMano /\ SinTrabajo.ticket = 0
    BY DEF SinTrabajo, EnMano
  <2>3. \A b \in Agentes : imprimiendo'[b] = imprimiendo[b] \/ imprimiendo'[b] = SinTrabajo
    BY <1>t, <2>1
  <2>4. ImpresionTypeOK' /\ AgentesTipados'
    <3>1. imprimiendo' \in [Agentes -> EnMano]
      BY <1>t, <2>1, <2>2
    <3> QED
      BY <1>i, <2>1, <2>3, <3>1 DEF ImpresionTypeOK, AgentesTipados
  <2>5. ConTicket' \subseteq ConTicket /\ \A b \in ConTicket' : imprimiendo'[b] = imprimiendo[b]
    BY <1>c, <2>2, <2>3 DEF ConTicket
  <2>6. ArriendosPropios'
    <3>1. IsFiniteSet(ConTicket')
      BY <1>i, <2>5, FS_Subset DEF ArriendosPropios
    <3> QED
      BY <1>i, <2>1, <2>3, <2>5, <3>1 DEF ArriendosPropios
  <2>7. \A b \in ConTicket' : Vigente(b)' <=> Vigente(b)
    BY <2>1, <2>5 DEF Vigente
  <2>8. \A u \in Tickets : PorImprimir(u)' \subseteq PorImprimir(u)
    BY <2>1, <2>5, <2>7 DEF PorImprimir, ConTicket
  <2>9. PapelesContados'
    <3> SUFFICES ASSUME NEW u \in Tickets
                 PROVE  papeles[u] + Cardinality(PorImprimir(u)')
                          + (IF trabajo[u].status \in {"NO", "PENDING"} THEN 1 ELSE 0)
                          <= 1 + reintentos[u] + fallidos[u]
      BY <2>1 DEF PapelesContados
    <3>1. PICK c \in Nat : c = Cardinality(PorImprimir(u)') /\ c <= Cardinality(PorImprimir(u))
      BY <1>p, <2>8, Tamanos
    <3> QED
      BY <1>p, <3>1
  <2>10. EnEspera' /\ FallidosContados'
    BY <1>i, <2>1, <2>5, <2>7 DEF EnEspera, FallidosContados
  <2> QED
    BY <2>4, <2>6, <2>9, <2>10 DEF ImpresionIInv
<1> QED
  BY <1>0, <1>1, <1>2, <1>3, <1>4, <1>5, <1>6, <1>7, <1>8, <1>9, <1>10 DEF ImpresionNext

\* The variables of the printing keep their types.
THEOREM ImpresionTipos == ImpresionSpec => []ImpresionTypeOK
<1>1. ImpresionIInv => ImpresionTypeOK
  BY DEF ImpresionIInv
<1> QED
  BY <1>1, InicioImpresion, PasoImpresion, PTL DEF ImpresionSpec

\* Every paper of a ticket has a cause, and what is marked as printed came out,
\* for any number of agents, leases, crashes and retries.
THEOREM TodoPapelConCausa == ImpresionSpec => []PapelConCausa
<1>1. ASSUME ImpresionIInv PROVE PapelConCausa
  <2> SUFFICES ASSUME NEW t \in Tickets
               PROVE  /\ papeles[t] <= 1 + reintentos[t] + fallidos[t]
                      /\ trabajo[t].status = "PRINTED" => papeles[t] > fallidos[t]
    BY DEF PapelConCausa
  <2>1. Cardinality(PorImprimir(t)) \in Nat
    BY <1>1, PorImprimirFinito DEF ImpresionIInv
  <2>2. papeles[t] \in Nat /\ fallidos[t] \in Nat /\ reintentos[t] \in Nat
    BY <1>1 DEF ImpresionIInv, ImpresionTypeOK
  <2>3. papeles[t] + Cardinality(PorImprimir(t))
          + (IF trabajo[t].status \in {"NO", "PENDING"} THEN 1 ELSE 0)
          <= 1 + reintentos[t] + fallidos[t]
    BY <1>1 DEF ImpresionIInv, PapelesContados
  <2>4. trabajo[t].status = "PRINTED" => fallidos[t] < papeles[t]
    BY <1>1 DEF ImpresionIInv, FallidosContados
  <2> QED
    BY <2>1, <2>2, <2>3, <2>4
<1> QED
  BY <1>1, InicioImpresion, PasoImpresion, PTL DEF ImpresionSpec
=============================================================================
