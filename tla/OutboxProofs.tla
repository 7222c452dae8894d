--------------------------- MODULE OutboxProofs ---------------------------
(***************************************************************************)
(* Proofs about the outbox, for every number of events, replicas, attempts *)
(* and every batch size.                                                   *)
(*                                                                         *)
(* IInv is inductive: one lemma per conjunct shows that each action keeps  *)
(* it, given the whole of IInv before the step.  The properties are its    *)
(* conjuncts or follow from them, and the refinement is a fact about each  *)
(* step from a state where IInv holds.                                     *)
(***************************************************************************)
EXTENDS OutboxProps, TLAPS

\* A failure more: within the bound, and only for that event.
LEMMA ContarFalloTipo ==
  ASSUME NEW e \in Eventos, fallos \in [Eventos -> 0..MaxFallos], ContarFallo(e)
  PROVE  /\ fallos' \in [Eventos -> 0..MaxFallos]
         /\ \A x \in Eventos : fallos'[x] >= fallos[x]
         /\ fallos'[e] > fallos[e]
BY OutboxAssumption DEF OutboxAssumption, ContarFallo

\* An acceptance more: the count saturates at 2 and never goes back.
LEMMA AceptarTipo ==
  ASSUME NEW e \in Eventos, veces \in [Eventos -> 0..2], Aceptar(e)
  PROVE  /\ veces' \in [Eventos -> 0..2]
         /\ \A x \in Eventos : veces'[x] >= veces[x]
         /\ veces'[e] >= 1
BY DEF Aceptar


\* Types are preserved by every step.
LEMMA PasoTypeOK == IInv /\ [Next]_vars => TypeOK'
<1> SUFFICES ASSUME IInv, [Next]_vars PROVE TypeOK'
  OBVIOUS
<1> USE OutboxAssumption DEF OutboxAssumption, vars, fila, tick, entorno, historia
<1>t. TypeOK
  BY DEF IInv
<1>1. CASE UNCHANGED vars
  BY <1>t, <1>1 DEF TypeOK, Estados, Puntos
<1>2. CASE Rescatar
  BY <1>t, <1>2 DEF Rescatar, TypeOK, Estados, Puntos
<1>3. ASSUME NEW e \in Eventos, Crear(e) PROVE TypeOK'
  BY <1>t, <1>3 DEF Crear, TypeOK, Estados, Puntos, Escribir
<1>4. ASSUME NEW e \in Eventos, Vencer(e) PROVE TypeOK'
  BY <1>t, <1>4 DEF Vencer, TypeOK, Estados, Puntos
<1>5. ASSUME NEW e \in Eventos, Purgar(e) PROVE TypeOK'
  BY <1>t, <1>5 DEF Purgar, TypeOK, Estados, Puntos
<1>6. ASSUME NEW e \in Eventos, Reintentar(e) PROVE TypeOK'
  BY <1>t, <1>6 DEF Reintentar, TypeOK, Estados, Puntos
<1>7. ASSUME NEW r \in Replicas, Reclamar(r) PROVE TypeOK'
  <2>1. PICK S \in SUBSET Eventos : ReclamarLote(r, S)
    BY <1>7 DEF Reclamar
  <2>2. \A e \in S : attempts[e] \in 0..(MaxAttempts - 1)
    BY <1>t, <2>1 DEF ReclamarLote, EsLote, Pendientes, IInv, IntentosInv, TypeOK
  <2>3. [e \in Eventos |-> IF e \in S THEN attempts[e] ELSE 0]
          \in [Eventos -> 0..(MaxAttempts - 1)]
    BY <2>2
  <2>4. foto' \in [Replicas -> [Eventos -> 0..(MaxAttempts - 1)]]
    BY <1>t, <2>1, <2>3 DEF ReclamarLote, TypeOK
  <2> QED
    BY <1>t, <2>1, <2>4 DEF ReclamarLote, TypeOK, Estados, Puntos
<1>8. ASSUME NEW r \in Replicas, Confirmar(r) PROVE TypeOK'
  <2>1. actual[r] \in Eventos /\ veces \in [Eventos -> 0..2]
    BY <1>t DEF TypeOK
  <2>2. veces' \in [Eventos -> 0..2]
    BY <2>1, <1>8, AceptarTipo DEF Confirmar
  <2> QED
    BY <1>t, <2>2, <1>8 DEF Confirmar, TypeOK, Puntos
<1>9. ASSUME NEW r \in Replicas, ErrorPublicar(r) PROVE TypeOK'
  <2>1. actual[r] \in Eventos /\ fallos \in [Eventos -> 0..MaxFallos] /\ veces \in [Eventos -> 0..2]
    BY <1>t DEF TypeOK
  <2>2. fallos' \in [Eventos -> 0..MaxFallos]
    BY <2>1, <1>9, ContarFalloTipo DEF ErrorPublicar
  <2> QED
    BY <1>t, <2>2, <1>9 DEF ErrorPublicar, TypeOK, Puntos
<1>10. ASSUME NEW r \in Replicas, ErrorTrasEntregar(r) PROVE TypeOK'
  <2>1. actual[r] \in Eventos /\ fallos \in [Eventos -> 0..MaxFallos] /\ veces \in [Eventos -> 0..2]
    BY <1>t DEF TypeOK
  <2>2. fallos' \in [Eventos -> 0..MaxFallos]
    BY <2>1, <1>10, ContarFalloTipo DEF ErrorTrasEntregar
  <2>3. veces' \in [Eventos -> 0..2]
    BY <2>1, <1>10, AceptarTipo DEF ErrorTrasEntregar
  <2> QED
    BY <1>t, <2>2, <2>3, <1>10 DEF ErrorTrasEntregar, TypeOK, Puntos
<1>11. ASSUME NEW r \in Replicas, MarcarProcesado(r) PROVE TypeOK'
  BY <1>t, <1>11 DEF MarcarProcesado, TypeOK, Estados, Puntos, Terminar
<1>12. ASSUME NEW r \in Replicas, ErrorMarcar(r) PROVE TypeOK'
  <2>1. actual[r] \in Eventos /\ fallos \in [Eventos -> 0..MaxFallos] /\ veces \in [Eventos -> 0..2]
    BY <1>t DEF TypeOK
  <2>2. fallos' \in [Eventos -> 0..MaxFallos]
    BY <2>1, <1>12, ContarFalloTipo DEF ErrorMarcar
  <2> QED
    BY <1>t, <2>2, <1>12 DEF ErrorMarcar, TypeOK, Puntos
<1>13. ASSUME NEW r \in Replicas, RegistrarFallo(r) PROVE TypeOK'
  <2> DEFINE e == actual[r]
             n == foto[r][e] + 1
  <2>0. e \in Eventos /\ foto[r] \in [Eventos -> 0..(MaxAttempts - 1)]
    BY <1>t DEF TypeOK
  <2>a. foto[r][e] \in 0..(MaxAttempts - 1)
    BY <2>0
  <2>1. e \in Eventos /\ n \in 0..MaxAttempts
    BY <2>0, <2>a
  <2>2. attempts' \in [Eventos -> 0..MaxAttempts]
    BY <1>t, <2>1, <1>13 DEF RegistrarFallo, Escribir, TypeOK
  <2>3. foto' \in [Replicas -> [Eventos -> 0..(MaxAttempts - 1)]]
    BY <1>t, <2>1, <1>13 DEF RegistrarFallo, Terminar, TypeOK
  <2> QED
    BY <1>t, <2>1, <2>2, <2>3, <1>13
    DEF RegistrarFallo, Escribir, Terminar, TypeOK, Estados, Puntos
<1>14. ASSUME NEW r \in Replicas, AbortarLote(r) PROVE TypeOK'
  BY <1>t, <1>14 DEF AbortarLote, TypeOK, Estados, Puntos, Soltar
<1>15. ASSUME NEW r \in Replicas, FilaBorrada(r) PROVE TypeOK'
  BY <1>t, <1>15 DEF FilaBorrada, TypeOK, Estados, Puntos, Soltar
<1>16. ASSUME NEW r \in Replicas, TerminarLote(r) PROVE TypeOK'
  BY <1>t, <1>16 DEF TerminarLote, TypeOK, Estados, Puntos, Soltar
<1>17. ASSUME NEW r \in Replicas, Caer(r) PROVE TypeOK'
  BY <1>t, <1>17 DEF Caer, TypeOK, Estados, Puntos, Soltar
<1>18. ASSUME NEW r \in Replicas, Desconectar(r) PROVE TypeOK'
  BY <1>t, <1>18 DEF Desconectar, TypeOK, Estados, Puntos
<1>19. ASSUME NEW r \in Replicas, Reconectar(r) PROVE TypeOK'
  BY <1>t, <1>19 DEF Reconectar, TypeOK, Estados, Puntos
<1>20. ASSUME NEW r \in Replicas, NEW e \in Eventos, Tomar(r, e) PROVE TypeOK'
  BY <1>t, <1>20 DEF Tomar, TypeOK, Estados, Puntos
<1>21. ASSUME NEW r \in Replicas, NEW e \in Eventos, DescartarCorrupto(r, e) PROVE TypeOK'
  BY <1>t, <1>21 DEF DescartarCorrupto, TypeOK, Estados, Puntos, Escribir, Terminar
<1> QED
  BY <1>1, <1>2, <1>3, <1>4, <1>5, <1>6, <1>7, <1>8, <1>9, <1>10, <1>11, <1>12, <1>13, <1>14, <1>15, <1>16, <1>17, <1>18, <1>19, <1>20, <1>21
  DEF Next, PasoTabla, PasoReplica

\* The control state of the replicas stays consistent.
LEMMA PasoControl == IInv /\ [Next]_vars => ControlInv'
<1> SUFFICES ASSUME IInv, [Next]_vars PROVE ControlInv'
  OBVIOUS
<1> USE OutboxAssumption DEF OutboxAssumption, vars, fila, tick, entorno, historia
<1>t. TypeOK
  BY DEF IInv
<1>c. ControlInv
  BY DEF IInv
<1>1. CASE UNCHANGED vars
  BY <1>t, <1>c, <1>1 DEF TypeOK, Puntos, ControlInv, Trabajando
<1>2. CASE Rescatar
  BY <1>t, <1>c, <1>2 DEF Rescatar, TypeOK, Puntos, ControlInv, Trabajando
<1>3. ASSUME NEW e \in Eventos, Crear(e) PROVE ControlInv'
  BY <1>t, <1>c, <1>3 DEF Crear, TypeOK, Puntos, ControlInv, Trabajando, Escribir
<1>4. ASSUME NEW e \in Eventos, Vencer(e) PROVE ControlInv'
  BY <1>t, <1>c, <1>4 DEF Vencer, TypeOK, Puntos, ControlInv, Trabajando
<1>5. ASSUME NEW e \in Eventos, Purgar(e) PROVE ControlInv'
  BY <1>t, <1>c, <1>5 DEF Purgar, TypeOK, Puntos, ControlInv, Trabajando
<1>6. ASSUME NEW e \in Eventos, Reintentar(e) PROVE ControlInv'
  BY <1>t, <1>c, <1>6 DEF Reintentar, TypeOK, Puntos, ControlInv, Trabajando
<1>7. ASSUME NEW r \in Replicas, Reclamar(r) PROVE ControlInv'
  BY <1>t, <1>c, <1>7 DEF Reclamar, TypeOK, Puntos, ControlInv, Trabajando, ReclamarLote, EsLote, Pendientes
<1>8. ASSUME NEW r \in Replicas, Confirmar(r) PROVE ControlInv'
  <2>1. actual[r] \in Eventos /\ fallos \in [Eventos -> 0..MaxFallos] /\ veces \in [Eventos -> 0..2]
    BY <1>t DEF TypeOK
  <2>2. /\ veces' \in [Eventos -> 0..2]
        /\ \A x \in Eventos : veces'[x] >= veces[x]
        /\ veces'[actual[r]] >= 1
    BY <2>1, <1>8, AceptarTipo DEF Confirmar
  <2>3. ASSUME NEW q \in Replicas, NEW e \in Eventos, pc'[q] = "confirmado", actual'[q] = e
        PROVE  veces'[e] >= 1
    <3>1. (pc[q] = "confirmado" /\ actual[q] = e) \/ e = actual[r]
      BY <1>t, <2>3, <1>8 DEF Confirmar, TypeOK
    <3>2. veces[e] \in Nat /\ veces'[e] \in Nat
      BY <2>2, <1>t DEF TypeOK
    <3> QED
      BY <1>c, <2>2, <3>1, <3>2 DEF ControlInv
  <2>4. ASSUME NEW q \in Replicas
        PROVE  /\ Trabajando(q)' => actual'[q] \in lote'[q] \ Corruptos
               /\ pc'[q] = "libre" => lote'[q] = {}
    BY <1>t, <1>c, <1>8 DEF Confirmar, ControlInv, TypeOK, Trabajando
  <2> QED
    BY <2>3, <2>4 DEF ControlInv, Trabajando
<1>9. ASSUME NEW r \in Replicas, ErrorPublicar(r) PROVE ControlInv'
  BY <1>t, <1>c, <1>9 DEF ErrorPublicar, TypeOK, Puntos, ControlInv, Trabajando, ContarFallo
<1>10. ASSUME NEW r \in Replicas, ErrorTrasEntregar(r) PROVE ControlInv'
  <2>1. actual[r] \in Eventos /\ fallos \in [Eventos -> 0..MaxFallos] /\ veces \in [Eventos -> 0..2]
    BY <1>t DEF TypeOK
  <2>2. /\ veces' \in [Eventos -> 0..2]
        /\ \A x \in Eventos : veces'[x] >= veces[x]
        /\ veces'[actual[r]] >= 1
    BY <2>1, <1>10, AceptarTipo DEF ErrorTrasEntregar
  <2>3. ASSUME NEW q \in Replicas, NEW e \in Eventos, pc'[q] = "confirmado", actual'[q] = e
        PROVE  veces'[e] >= 1
    <3>1. (pc[q] = "confirmado" /\ actual[q] = e) \/ e = actual[r]
      BY <1>t, <2>3, <1>10 DEF ErrorTrasEntregar, TypeOK
    <3>2. veces[e] \in Nat /\ veces'[e] \in Nat
      BY <2>2, <1>t DEF TypeOK
    <3> QED
      BY <1>c, <2>2, <3>1, <3>2 DEF ControlInv
  <2>4. ASSUME NEW q \in Replicas
        PROVE  /\ Trabajando(q)' => actual'[q] \in lote'[q] \ Corruptos
               /\ pc'[q] = "libre" => lote'[q] = {}
    BY <1>t, <1>c, <1>10 DEF ErrorTrasEntregar, ControlInv, TypeOK, Trabajando
  <2> QED
    BY <2>3, <2>4 DEF ControlInv, Trabajando
<1>11. ASSUME NEW r \in Replicas, MarcarProcesado(r) PROVE ControlInv'
  BY <1>t, <1>c, <1>11 DEF MarcarProcesado, TypeOK, Puntos, ControlInv, Trabajando, Terminar, Existe
<1>12. ASSUME NEW r \in Replicas, ErrorMarcar(r) PROVE ControlInv'
  BY <1>t, <1>c, <1>12 DEF ErrorMarcar, TypeOK, Puntos, ControlInv, Trabajando, ContarFallo
<1>13. ASSUME NEW r \in Replicas, RegistrarFallo(r) PROVE ControlInv'
  BY <1>t, <1>c, <1>13 DEF RegistrarFallo, TypeOK, Puntos, ControlInv, Trabajando, Escribir, Terminar, Existe
<1>14. ASSUME NEW r \in Replicas, AbortarLote(r) PROVE ControlInv'
  BY <1>t, <1>c, <1>14 DEF AbortarLote, TypeOK, Puntos, ControlInv, Trabajando, Soltar
<1>15. ASSUME NEW r \in Replicas, FilaBorrada(r) PROVE ControlInv'
  BY <1>t, <1>c, <1>15 DEF FilaBorrada, TypeOK, Puntos, ControlInv, Trabajando, Soltar, Existe
<1>16. ASSUME NEW r \in Replicas, TerminarLote(r) PROVE ControlInv'
  BY <1>t, <1>c, <1>16 DEF TerminarLote, TypeOK, Puntos, ControlInv, Trabajando, Soltar
<1>17. ASSUME NEW r \in Replicas, Caer(r) PROVE ControlInv'
  BY <1>t, <1>c, <1>17 DEF Caer, TypeOK, Puntos, ControlInv, Trabajando, Soltar
<1>18. ASSUME NEW r \in Replicas, Desconectar(r) PROVE ControlInv'
  BY <1>t, <1>c, <1>18 DEF Desconectar, TypeOK, Puntos, ControlInv, Trabajando
<1>19. ASSUME NEW r \in Replicas, Reconectar(r) PROVE ControlInv'
  BY <1>t, <1>c, <1>19 DEF Reconectar, TypeOK, Puntos, ControlInv, Trabajando
<1>20. ASSUME NEW r \in Replicas, NEW e \in Eventos, Tomar(r, e) PROVE ControlInv'
  BY <1>t, <1>c, <1>20 DEF Tomar, TypeOK, Puntos, ControlInv, Trabajando
<1>21. ASSUME NEW r \in Replicas, NEW e \in Eventos, DescartarCorrupto(r, e) PROVE ControlInv'
  BY <1>t, <1>c, <1>21 DEF DescartarCorrupto, TypeOK, Puntos, ControlInv, Trabajando, Escribir, Terminar, Existe
<1> QED
  BY <1>1, <1>2, <1>3, <1>4, <1>5, <1>6, <1>7, <1>8, <1>9, <1>10, <1>11, <1>12, <1>13, <1>14, <1>15, <1>16, <1>17, <1>18, <1>19, <1>20, <1>21
  DEF Next, PasoTabla, PasoReplica

\* Rows not inserted yet stay untouched.
LEMMA PasoAusente == IInv /\ [Next]_vars => AusenteInv'
<1> SUFFICES ASSUME IInv, [Next]_vars PROVE AusenteInv'
  OBVIOUS
<1> USE OutboxAssumption DEF OutboxAssumption, vars, fila, tick, entorno, historia
<1>t. TypeOK
  BY DEF IInv
<1>c. AusenteInv /\ ControlInv
  BY DEF IInv
<1>1. CASE UNCHANGED vars
  BY <1>t, <1>c, <1>1 DEF TypeOK, Estados, Puntos, AusenteInv, ControlInv, Trabajando
<1>2. CASE Rescatar
  BY <1>t, <1>c, <1>2 DEF Rescatar, TypeOK, Estados, Puntos, AusenteInv, ControlInv, Trabajando
<1>3. ASSUME NEW e \in Eventos, Crear(e) PROVE AusenteInv'
  BY <1>t, <1>c, <1>3 DEF Crear, TypeOK, Estados, Puntos, AusenteInv, ControlInv, Trabajando, Escribir
<1>4. ASSUME NEW e \in Eventos, Vencer(e) PROVE AusenteInv'
  BY <1>t, <1>c, <1>4 DEF Vencer, TypeOK, Estados, Puntos, AusenteInv, ControlInv, Trabajando
<1>5. ASSUME NEW e \in Eventos, Purgar(e) PROVE AusenteInv'
  BY <1>t, <1>c, <1>5 DEF Purgar, TypeOK, Estados, Puntos, AusenteInv, ControlInv, Trabajando
<1>6. ASSUME NEW e \in Eventos, Reintentar(e) PROVE AusenteInv'
  BY <1>t, <1>c, <1>6 DEF Reintentar, TypeOK, Estados, Puntos, AusenteInv, ControlInv, Trabajando
<1>7. ASSUME NEW r \in Replicas, Reclamar(r) PROVE AusenteInv'
  BY <1>t, <1>c, <1>7 DEF Reclamar, TypeOK, Estados, Puntos, AusenteInv, ControlInv, Trabajando, ReclamarLote, EsLote, Pendientes
<1>8. ASSUME NEW r \in Replicas, Confirmar(r) PROVE AusenteInv'
  BY <1>t, <1>c, <1>8 DEF Confirmar, TypeOK, Estados, Puntos, AusenteInv, ControlInv, Trabajando, Aceptar
<1>9. ASSUME NEW r \in Replicas, ErrorPublicar(r) PROVE AusenteInv'
  BY <1>t, <1>c, <1>9 DEF ErrorPublicar, TypeOK, Estados, Puntos, AusenteInv, ControlInv, Trabajando, ContarFallo
<1>10. ASSUME NEW r \in Replicas, ErrorTrasEntregar(r) PROVE AusenteInv'
  BY <1>t, <1>c, <1>10 DEF ErrorTrasEntregar, TypeOK, Estados, Puntos, AusenteInv, ControlInv, Trabajando, Aceptar, ContarFallo
<1>11. ASSUME NEW r \in Replicas, MarcarProcesado(r) PROVE AusenteInv'
  BY <1>t, <1>c, <1>11 DEF MarcarProcesado, TypeOK, Estados, Puntos, AusenteInv, ControlInv, Trabajando, Terminar, Existe
<1>12. ASSUME NEW r \in Replicas, ErrorMarcar(r) PROVE AusenteInv'
  BY <1>t, <1>c, <1>12 DEF ErrorMarcar, TypeOK, Estados, Puntos, AusenteInv, ControlInv, Trabajando, ContarFallo
<1>13. ASSUME NEW r \in Replicas, RegistrarFallo(r) PROVE AusenteInv'
  BY <1>t, <1>c, <1>13 DEF RegistrarFallo, TypeOK, Estados, Puntos, AusenteInv, ControlInv, Trabajando, Escribir, Terminar, Existe
<1>14. ASSUME NEW r \in Replicas, AbortarLote(r) PROVE AusenteInv'
  BY <1>t, <1>c, <1>14 DEF AbortarLote, TypeOK, Estados, Puntos, AusenteInv, ControlInv, Trabajando, Soltar
<1>15. ASSUME NEW r \in Replicas, FilaBorrada(r) PROVE AusenteInv'
  BY <1>t, <1>c, <1>15 DEF FilaBorrada, TypeOK, Estados, Puntos, AusenteInv, ControlInv, Trabajando, Soltar, Existe
<1>16. ASSUME NEW r \in Replicas, TerminarLote(r) PROVE AusenteInv'
  BY <1>t, <1>c, <1>16 DEF TerminarLote, TypeOK, Estados, Puntos, AusenteInv, ControlInv, Trabajando, Soltar
<1>17. ASSUME NEW r \in Replicas, Caer(r) PROVE AusenteInv'
  BY <1>t, <1>c, <1>17 DEF Caer, TypeOK, Estados, Puntos, AusenteInv, ControlInv, Trabajando, Soltar
<1>18. ASSUME NEW r \in Replicas, Desconectar(r) PROVE AusenteInv'
  BY <1>t, <1>c, <1>18 DEF Desconectar, TypeOK, Estados, Puntos, AusenteInv, ControlInv, Trabajando
<1>19. ASSUME NEW r \in Replicas, Reconectar(r) PROVE AusenteInv'
  BY <1>t, <1>c, <1>19 DEF Reconectar, TypeOK, Estados, Puntos, AusenteInv, ControlInv, Trabajando
<1>20. ASSUME NEW r \in Replicas, NEW e \in Eventos, Tomar(r, e) PROVE AusenteInv'
  BY <1>t, <1>c, <1>20 DEF Tomar, TypeOK, Estados, Puntos, AusenteInv, ControlInv, Trabajando
<1>21. ASSUME NEW r \in Replicas, NEW e \in Eventos, DescartarCorrupto(r, e) PROVE AusenteInv'
  BY <1>t, <1>c, <1>21 DEF DescartarCorrupto, TypeOK, Estados, Puntos, AusenteInv, ControlInv, Trabajando, Escribir, Terminar, Existe
<1> QED
  BY <1>1, <1>2, <1>3, <1>4, <1>5, <1>6, <1>7, <1>8, <1>9, <1>10, <1>11, <1>12, <1>13, <1>14, <1>15, <1>16, <1>17, <1>18, <1>19, <1>20, <1>21
  DEF Next, PasoTabla, PasoReplica

\* Attempts are justified by failures.
LEMMA PasoIntentos == IInv /\ [Next]_vars => IntentosInv'
<1> SUFFICES ASSUME IInv, [Next]_vars PROVE IntentosInv'
  OBVIOUS
<1> USE OutboxAssumption DEF OutboxAssumption, vars, fila, tick, entorno, historia
<1>t. TypeOK
  BY DEF IInv
<1>c. IntentosInv /\ ControlInv
  BY DEF IInv
<1>1. CASE UNCHANGED vars
  BY <1>t, <1>c, <1>1 DEF TypeOK, Estados, Puntos, IntentosInv, ControlInv, Trabajando
<1>2. CASE Rescatar
  BY <1>t, <1>c, <1>2 DEF Rescatar, TypeOK, Estados, Puntos, IntentosInv, ControlInv, Trabajando
<1>3. ASSUME NEW e \in Eventos, Crear(e) PROVE IntentosInv'
  BY <1>t, <1>c, <1>3 DEF Crear, TypeOK, Estados, Puntos, IntentosInv, ControlInv, Trabajando, Escribir
<1>4. ASSUME NEW e \in Eventos, Vencer(e) PROVE IntentosInv'
  BY <1>t, <1>c, <1>4 DEF Vencer, TypeOK, Estados, Puntos, IntentosInv, ControlInv, Trabajando
<1>5. ASSUME NEW e \in Eventos, Purgar(e) PROVE IntentosInv'
  BY <1>t, <1>c, <1>5 DEF Purgar, TypeOK, Estados, Puntos, IntentosInv, ControlInv, Trabajando
<1>6. ASSUME NEW e \in Eventos, Reintentar(e) PROVE IntentosInv'
  BY <1>t, <1>c, <1>6 DEF Reintentar, TypeOK, Estados, Puntos, IntentosInv, ControlInv, Trabajando
<1>7. ASSUME NEW r \in Replicas, Reclamar(r) PROVE IntentosInv'
  BY <1>t, <1>c, <1>7 DEF Reclamar, TypeOK, Estados, Puntos, IntentosInv, ControlInv, Trabajando, ReclamarLote, EsLote, Pendientes
<1>8. ASSUME NEW r \in Replicas, Confirmar(r) PROVE IntentosInv'
  BY <1>t, <1>c, <1>8 DEF Confirmar, TypeOK, Estados, Puntos, IntentosInv, ControlInv, Trabajando, Aceptar
<1>9. ASSUME NEW r \in Replicas, ErrorPublicar(r) PROVE IntentosInv'
  <2>1. actual[r] \in Eventos /\ fallos \in [Eventos -> 0..MaxFallos] /\ veces \in [Eventos -> 0..2]
    BY <1>t DEF TypeOK
  <2>3. /\ fallos' \in [Eventos -> 0..MaxFallos]
        /\ \A x \in Eventos : fallos'[x] >= fallos[x]
        /\ fallos'[actual[r]] > fallos[actual[r]]
    BY <2>1, <1>9, ContarFalloTipo DEF ErrorPublicar
  <2>4. ASSUME NEW e \in Eventos \ Corruptos, NEW q \in Replicas
        PROVE  attempts'[e] <= fallos'[e] /\ foto'[q][e] <= fallos'[e]
    <3>1. /\ attempts[e] \in Nat /\ foto[q] \in [Eventos -> Nat]
          /\ fallos[e] \in Nat /\ fallos'[e] \in Nat
      BY <1>t, <2>3 DEF TypeOK
    <3>2. attempts' = attempts /\ foto' = foto
      BY <1>9 DEF ErrorPublicar
    <3>3. foto[q][e] \in Nat /\ fallos'[e] >= fallos[e]
      BY <2>3, <3>1
    <3>4. attempts[e] <= fallos[e] /\ foto[q][e] <= fallos[e]
      BY <1>c DEF IntentosInv
    <3> QED
      BY <3>1, <3>2, <3>3, <3>4
  <2>5. ASSUME NEW e \in Eventos, NEW q \in Replicas, pc'[q] = "fallo", actual'[q] = e
        PROVE  foto'[q][e] < fallos'[e]
    <3>1. /\ foto[q] \in [Eventos -> Nat]
          /\ fallos[e] \in Nat /\ fallos'[e] \in Nat
      BY <1>t, <2>3 DEF TypeOK
    <3>2. foto[q][e] < fallos[e] \/ (q = r /\ e \notin Corruptos)
      BY <1>t, <1>c, <2>5, <1>9 DEF ErrorPublicar, IntentosInv, ControlInv, Trabajando, TypeOK
    <3>3. foto[q][e] \in Nat /\ (e \notin Corruptos => foto[q][e] <= fallos[e])
      BY <1>c, <3>1 DEF IntentosInv
    <3>4. fallos'[e] >= fallos[e] /\ (q = r => fallos'[e] > fallos[e])
      BY <2>3, <2>5, <1>9 DEF ErrorPublicar
    <3> QED
      BY <3>1, <3>2, <3>3, <3>4, <1>9 DEF ErrorPublicar
  <2> QED
    BY <1>t, <1>c, <2>4, <2>5, <1>9 DEF ErrorPublicar, IntentosInv
<1>10. ASSUME NEW r \in Replicas, ErrorTrasEntregar(r) PROVE IntentosInv'
  <2>1. actual[r] \in Eventos /\ fallos \in [Eventos -> 0..MaxFallos] /\ veces \in [Eventos -> 0..2]
    BY <1>t DEF TypeOK
  <2>3. /\ fallos' \in [Eventos -> 0..MaxFallos]
        /\ \A x \in Eventos : fallos'[x] >= fallos[x]
        /\ fallos'[actual[r]] > fallos[actual[r]]
    BY <2>1, <1>10, ContarFalloTipo DEF ErrorTrasEntregar
  <2>4. ASSUME NEW e \in Eventos \ Corruptos, NEW q \in Replicas
        PROVE  attempts'[e] <= fallos'[e] /\ foto'[q][e] <= fallos'[e]
    <3>1. /\ attempts[e] \in Nat /\ foto[q] \in [Eventos -> Nat]
          /\ fallos[e] \in Nat /\ fallos'[e] \in Nat
      BY <1>t, <2>3 DEF TypeOK
    <3>2. attempts' = attempts /\ foto' = foto
      BY <1>10 DEF ErrorTrasEntregar
    <3>3. foto[q][e] \in Nat /\ fallos'[e] >= fallos[e]
      BY <2>3, <3>1
    <3>4. attempts[e] <= fallos[e] /\ foto[q][e] <= fallos[e]
      BY <1>c DEF IntentosInv
    <3> QED
      BY <3>1, <3>2, <3>3, <3>4
  <2>5. ASSUME NEW e \in Eventos, NEW q \in Replicas, pc'[q] = "fallo", actual'[q] = e
        PROVE  foto'[q][e] < fallos'[e]
    <3>1. /\ foto[q] \in [Eventos -> Nat]
          /\ fallos[e] \in Nat /\ fallos'[e] \in Nat
      BY <1>t, <2>3 DEF TypeOK
    <3>2. foto[q][e] < fallos[e] \/ (q = r /\ e \notin Corruptos)
      BY <1>t, <1>c, <2>5, <1>10 DEF ErrorTrasEntregar, IntentosInv, ControlInv, Trabajando, TypeOK
    <3>3. foto[q][e] \in Nat /\ (e \notin Corruptos => foto[q][e] <= fallos[e])
      BY <1>c, <3>1 DEF IntentosInv
    <3>4. fallos'[e] >= fallos[e] /\ (q = r => fallos'[e] > fallos[e])
      BY <2>3, <2>5, <1>10 DEF ErrorTrasEntregar
    <3> QED
      BY <3>1, <3>2, <3>3, <3>4, <1>10 DEF ErrorTrasEntregar
  <2> QED
    BY <1>t, <1>c, <2>4, <2>5, <1>10 DEF ErrorTrasEntregar, IntentosInv
<1>11. ASSUME NEW r \in Replicas, MarcarProcesado(r) PROVE IntentosInv'
  BY <1>t, <1>c, <1>11 DEF MarcarProcesado, TypeOK, Estados, Puntos, IntentosInv, ControlInv, Trabajando, Terminar, Existe
<1>12. ASSUME NEW r \in Replicas, ErrorMarcar(r) PROVE IntentosInv'
  <2>1. actual[r] \in Eventos /\ fallos \in [Eventos -> 0..MaxFallos] /\ veces \in [Eventos -> 0..2]
    BY <1>t DEF TypeOK
  <2>3. /\ fallos' \in [Eventos -> 0..MaxFallos]
        /\ \A x \in Eventos : fallos'[x] >= fallos[x]
        /\ fallos'[actual[r]] > fallos[actual[r]]
    BY <2>1, <1>12, ContarFalloTipo DEF ErrorMarcar
  <2>4. ASSUME NEW e \in Eventos \ Corruptos, NEW q \in Replicas
        PROVE  attempts'[e] <= fallos'[e] /\ foto'[q][e] <= fallos'[e]
    <3>1. /\ attempts[e] \in Nat /\ foto[q] \in [Eventos -> Nat]
          /\ fallos[e] \in Nat /\ fallos'[e] \in Nat
      BY <1>t, <2>3 DEF TypeOK
    <3>2. attempts' = attempts /\ foto' = foto
      BY <1>12 DEF ErrorMarcar
    <3>3. foto[q][e] \in Nat /\ fallos'[e] >= fallos[e]
      BY <2>3, <3>1
    <3>4. attempts[e] <= fallos[e] /\ foto[q][e] <= fallos[e]
      BY <1>c DEF IntentosInv
    <3> QED
      BY <3>1, <3>2, <3>3, <3>4
  <2>5. ASSUME NEW e \in Eventos, NEW q \in Replicas, pc'[q] = "fallo", actual'[q] = e
        PROVE  foto'[q][e] < fallos'[e]
    <3>1. /\ foto[q] \in [Eventos -> Nat]
          /\ fallos[e] \in Nat /\ fallos'[e] \in Nat
      BY <1>t, <2>3 DEF TypeOK
    <3>2. foto[q][e] < fallos[e] \/ (q = r /\ e \notin Corruptos)
      BY <1>t, <1>c, <2>5, <1>12 DEF ErrorMarcar, IntentosInv, ControlInv, Trabajando, TypeOK
    <3>3. foto[q][e] \in Nat /\ (e \notin Corruptos => foto[q][e] <= fallos[e])
      BY <1>c, <3>1 DEF IntentosInv
    <3>4. fallos'[e] >= fallos[e] /\ (q = r => fallos'[e] > fallos[e])
      BY <2>3, <2>5, <1>12 DEF ErrorMarcar
    <3> QED
      BY <3>1, <3>2, <3>3, <3>4, <1>12 DEF ErrorMarcar
  <2> QED
    BY <1>t, <1>c, <2>4, <2>5, <1>12 DEF ErrorMarcar, IntentosInv
<1>13. ASSUME NEW r \in Replicas, RegistrarFallo(r) PROVE IntentosInv'
  BY <1>t, <1>c, <1>13 DEF RegistrarFallo, TypeOK, Estados, Puntos, IntentosInv, ControlInv, Trabajando, Escribir, Terminar, Existe
<1>14. ASSUME NEW r \in Replicas, AbortarLote(r) PROVE IntentosInv'
  BY <1>t, <1>c, <1>14 DEF AbortarLote, TypeOK, Estados, Puntos, IntentosInv, ControlInv, Trabajando, Soltar
<1>15. ASSUME NEW r \in Replicas, FilaBorrada(r) PROVE IntentosInv'
  BY <1>t, <1>c, <1>15 DEF FilaBorrada, TypeOK, Estados, Puntos, IntentosInv, ControlInv, Trabajando, Soltar, Existe
<1>16. ASSUME NEW r \in Replicas, TerminarLote(r) PROVE IntentosInv'
  BY <1>t, <1>c, <1>16 DEF TerminarLote, TypeOK, Estados, Puntos, IntentosInv, ControlInv, Trabajando, Soltar
<1>17. ASSUME NEW r \in Replicas, Caer(r) PROVE IntentosInv'
  BY <1>t, <1>c, <1>17 DEF Caer, TypeOK, Estados, Puntos, IntentosInv, ControlInv, Trabajando, Soltar
<1>18. ASSUME NEW r \in Replicas, Desconectar(r) PROVE IntentosInv'
  BY <1>t, <1>c, <1>18 DEF Desconectar, TypeOK, Estados, Puntos, IntentosInv, ControlInv, Trabajando
<1>19. ASSUME NEW r \in Replicas, Reconectar(r) PROVE IntentosInv'
  BY <1>t, <1>c, <1>19 DEF Reconectar, TypeOK, Estados, Puntos, IntentosInv, ControlInv, Trabajando
<1>20. ASSUME NEW r \in Replicas, NEW e \in Eventos, Tomar(r, e) PROVE IntentosInv'
  BY <1>t, <1>c, <1>20 DEF Tomar, TypeOK, Estados, Puntos, IntentosInv, ControlInv, Trabajando
<1>21. ASSUME NEW r \in Replicas, NEW e \in Eventos, DescartarCorrupto(r, e) PROVE IntentosInv'
  BY <1>t, <1>c, <1>21 DEF DescartarCorrupto, TypeOK, Estados, Puntos, IntentosInv, ControlInv, Trabajando, Escribir, Terminar, Existe
<1> QED
  BY <1>1, <1>2, <1>3, <1>4, <1>5, <1>6, <1>7, <1>8, <1>9, <1>10, <1>11, <1>12, <1>13, <1>14, <1>15, <1>16, <1>17, <1>18, <1>19, <1>20, <1>21
  DEF Next, PasoTabla, PasoReplica

\* A claim is exclusive until rescued.
LEMMA PasoPosesion == IInv /\ [Next]_vars => PosesionInv'
<1> SUFFICES ASSUME IInv, [Next]_vars PROVE PosesionInv'
  OBVIOUS
<1> USE OutboxAssumption DEF OutboxAssumption, vars, fila, tick, entorno, historia
<1>t. TypeOK
  BY DEF IInv
<1>c. PosesionInv /\ ControlInv
  BY DEF IInv
<1>1. CASE UNCHANGED vars
  BY <1>t, <1>c, <1>1 DEF TypeOK, Estados, Puntos, PosesionInv, ControlInv, Trabajando
<1>2. CASE Rescatar
  BY <1>t, <1>c, <1>2 DEF Rescatar, TypeOK, Estados, Puntos, PosesionInv, ControlInv, Trabajando
<1>3. ASSUME NEW e \in Eventos, Crear(e) PROVE PosesionInv'
  BY <1>t, <1>c, <1>3 DEF Crear, TypeOK, Estados, Puntos, PosesionInv, ControlInv, Trabajando, Escribir
<1>4. ASSUME NEW e \in Eventos, Vencer(e) PROVE PosesionInv'
  BY <1>t, <1>c, <1>4 DEF Vencer, TypeOK, Estados, Puntos, PosesionInv, ControlInv, Trabajando
<1>5. ASSUME NEW e \in Eventos, Purgar(e) PROVE PosesionInv'
  BY <1>t, <1>c, <1>5 DEF Purgar, TypeOK, Estados, Puntos, PosesionInv, ControlInv, Trabajando
<1>6. ASSUME NEW e \in Eventos, Reintentar(e) PROVE PosesionInv'
  BY <1>t, <1>c, <1>6 DEF Reintentar, TypeOK, Estados, Puntos, PosesionInv, ControlInv, Trabajando
<1>7. ASSUME NEW r \in Replicas, Reclamar(r) PROVE PosesionInv'
  BY <1>t, <1>c, <1>7 DEF Reclamar, TypeOK, Estados, Puntos, PosesionInv, ControlInv, Trabajando, ReclamarLote, EsLote, Pendientes
<1>8. ASSUME NEW r \in Replicas, Confirmar(r) PROVE PosesionInv'
  BY <1>t, <1>c, <1>8 DEF Confirmar, TypeOK, Estados, Puntos, PosesionInv, ControlInv, Trabajando, Aceptar
<1>9. ASSUME NEW r \in Replicas, ErrorPublicar(r) PROVE PosesionInv'
  BY <1>t, <1>c, <1>9 DEF ErrorPublicar, TypeOK, Estados, Puntos, PosesionInv, ControlInv, Trabajando, ContarFallo
<1>10. ASSUME NEW r \in Replicas, ErrorTrasEntregar(r) PROVE PosesionInv'
  BY <1>t, <1>c, <1>10 DEF ErrorTrasEntregar, TypeOK, Estados, Puntos, PosesionInv, ControlInv, Trabajando, Aceptar, ContarFallo
<1>11. ASSUME NEW r \in Replicas, MarcarProcesado(r) PROVE PosesionInv'
  BY <1>t, <1>c, <1>11 DEF MarcarProcesado, TypeOK, Estados, Puntos, PosesionInv, ControlInv, Trabajando, Terminar, Existe
<1>12. ASSUME NEW r \in Replicas, ErrorMarcar(r) PROVE PosesionInv'
  BY <1>t, <1>c, <1>12 DEF ErrorMarcar, TypeOK, Estados, Puntos, PosesionInv, ControlInv, Trabajando, ContarFallo
<1>13. ASSUME NEW r \in Replicas, RegistrarFallo(r) PROVE PosesionInv'
  BY <1>t, <1>c, <1>13 DEF RegistrarFallo, TypeOK, Estados, Puntos, PosesionInv, ControlInv, Trabajando, Escribir, Terminar, Existe
<1>14. ASSUME NEW r \in Replicas, AbortarLote(r) PROVE PosesionInv'
  BY <1>t, <1>c, <1>14 DEF AbortarLote, TypeOK, Estados, Puntos, PosesionInv, ControlInv, Trabajando, Soltar
<1>15. ASSUME NEW r \in Replicas, FilaBorrada(r) PROVE PosesionInv'
  BY <1>t, <1>c, <1>15 DEF FilaBorrada, TypeOK, Estados, Puntos, PosesionInv, ControlInv, Trabajando, Soltar, Existe
<1>16. ASSUME NEW r \in Replicas, TerminarLote(r) PROVE PosesionInv'
  BY <1>t, <1>c, <1>16 DEF TerminarLote, TypeOK, Estados, Puntos, PosesionInv, ControlInv, Trabajando, Soltar
<1>17. ASSUME NEW r \in Replicas, Caer(r) PROVE PosesionInv'
  BY <1>t, <1>c, <1>17 DEF Caer, TypeOK, Estados, Puntos, PosesionInv, ControlInv, Trabajando, Soltar
<1>18. ASSUME NEW r \in Replicas, Desconectar(r) PROVE PosesionInv'
  BY <1>t, <1>c, <1>18 DEF Desconectar, TypeOK, Estados, Puntos, PosesionInv, ControlInv, Trabajando
<1>19. ASSUME NEW r \in Replicas, Reconectar(r) PROVE PosesionInv'
  BY <1>t, <1>c, <1>19 DEF Reconectar, TypeOK, Estados, Puntos, PosesionInv, ControlInv, Trabajando
<1>20. ASSUME NEW r \in Replicas, NEW e \in Eventos, Tomar(r, e) PROVE PosesionInv'
  BY <1>t, <1>c, <1>20 DEF Tomar, TypeOK, Estados, Puntos, PosesionInv, ControlInv, Trabajando
<1>21. ASSUME NEW r \in Replicas, NEW e \in Eventos, DescartarCorrupto(r, e) PROVE PosesionInv'
  BY <1>t, <1>c, <1>21 DEF DescartarCorrupto, TypeOK, Estados, Puntos, PosesionInv, ControlInv, Trabajando, Escribir, Terminar, Existe
<1> QED
  BY <1>1, <1>2, <1>3, <1>4, <1>5, <1>6, <1>7, <1>8, <1>9, <1>10, <1>11, <1>12, <1>13, <1>14, <1>15, <1>16, <1>17, <1>18, <1>19, <1>20, <1>21
  DEF Next, PasoTabla, PasoReplica

\* One acceptance without incident.
LEMMA PasoUnica == IInv /\ [Next]_vars => UnicaInv'
<1> SUFFICES ASSUME IInv, [Next]_vars PROVE UnicaInv'
  OBVIOUS
<1> USE OutboxAssumption DEF OutboxAssumption, vars, fila, tick, entorno, historia
<1>t. TypeOK
  BY DEF IInv
<1>c. UnicaInv /\ PosesionInv /\ ControlInv /\ AusenteInv
  BY DEF IInv
<1>1. CASE UNCHANGED vars
  BY <1>t, <1>c, <1>1 DEF TypeOK, Estados, Puntos, UnicaInv, PosesionInv, AusenteInv, ControlInv, Trabajando
<1>2. CASE Rescatar
  BY <1>t, <1>c, <1>2 DEF Rescatar, TypeOK, Estados, Puntos, UnicaInv, PosesionInv, AusenteInv, ControlInv, Trabajando
<1>3. ASSUME NEW e \in Eventos, Crear(e) PROVE UnicaInv'
  BY <1>t, <1>c, <1>3 DEF Crear, TypeOK, Estados, Puntos, UnicaInv, PosesionInv, AusenteInv, ControlInv, Trabajando, Escribir
<1>4. ASSUME NEW e \in Eventos, Vencer(e) PROVE UnicaInv'
  BY <1>t, <1>c, <1>4 DEF Vencer, TypeOK, Estados, Puntos, UnicaInv, PosesionInv, AusenteInv, ControlInv, Trabajando
<1>5. ASSUME NEW e \in Eventos, Purgar(e) PROVE UnicaInv'
  BY <1>t, <1>c, <1>5 DEF Purgar, TypeOK, Estados, Puntos, UnicaInv, PosesionInv, AusenteInv, ControlInv, Trabajando
<1>6. ASSUME NEW e \in Eventos, Reintentar(e) PROVE UnicaInv'
  BY <1>t, <1>c, <1>6 DEF Reintentar, TypeOK, Estados, Puntos, UnicaInv, PosesionInv, AusenteInv, ControlInv, Trabajando
<1>7. ASSUME NEW r \in Replicas, Reclamar(r) PROVE UnicaInv'
  BY <1>t, <1>c, <1>7 DEF Reclamar, TypeOK, Estados, Puntos, UnicaInv, PosesionInv, AusenteInv, ControlInv, Trabajando, ReclamarLote, EsLote, Pendientes
<1>8. ASSUME NEW r \in Replicas, Confirmar(r) PROVE UnicaInv'
  BY <1>t, <1>c, <1>8 DEF Confirmar, TypeOK, Estados, Puntos, UnicaInv, PosesionInv, AusenteInv, ControlInv, Trabajando, Aceptar
<1>9. ASSUME NEW r \in Replicas, ErrorPublicar(r) PROVE UnicaInv'
  BY <1>t, <1>c, <1>9 DEF ErrorPublicar, TypeOK, Estados, Puntos, UnicaInv, PosesionInv, AusenteInv, ControlInv, Trabajando, ContarFallo
<1>10. ASSUME NEW r \in Replicas, ErrorTrasEntregar(r) PROVE UnicaInv'
  BY <1>t, <1>c, <1>10 DEF ErrorTrasEntregar, TypeOK, Estados, Puntos, UnicaInv, PosesionInv, AusenteInv, ControlInv, Trabajando, Aceptar, ContarFallo
<1>11. ASSUME NEW r \in Replicas, MarcarProcesado(r) PROVE UnicaInv'
  BY <1>t, <1>c, <1>11 DEF MarcarProcesado, TypeOK, Estados, Puntos, UnicaInv, PosesionInv, AusenteInv, ControlInv, Trabajando, Terminar, Existe
<1>12. ASSUME NEW r \in Replicas, ErrorMarcar(r) PROVE UnicaInv'
  BY <1>t, <1>c, <1>12 DEF ErrorMarcar, TypeOK, Estados, Puntos, UnicaInv, PosesionInv, AusenteInv, ControlInv, Trabajando, ContarFallo
<1>13. ASSUME NEW r \in Replicas, RegistrarFallo(r) PROVE UnicaInv'
  BY <1>t, <1>c, <1>13 DEF RegistrarFallo, TypeOK, Estados, Puntos, UnicaInv, PosesionInv, AusenteInv, ControlInv, Trabajando, Escribir, Terminar, Existe
<1>14. ASSUME NEW r \in Replicas, AbortarLote(r) PROVE UnicaInv'
  BY <1>t, <1>c, <1>14 DEF AbortarLote, TypeOK, Estados, Puntos, UnicaInv, PosesionInv, AusenteInv, ControlInv, Trabajando, Soltar
<1>15. ASSUME NEW r \in Replicas, FilaBorrada(r) PROVE UnicaInv'
  BY <1>t, <1>c, <1>15 DEF FilaBorrada, TypeOK, Estados, Puntos, UnicaInv, PosesionInv, AusenteInv, ControlInv, Trabajando, Soltar, Existe
<1>16. ASSUME NEW r \in Replicas, TerminarLote(r) PROVE UnicaInv'
  BY <1>t, <1>c, <1>16 DEF TerminarLote, TypeOK, Estados, Puntos, UnicaInv, PosesionInv, AusenteInv, ControlInv, Trabajando, Soltar
<1>17. ASSUME NEW r \in Replicas, Caer(r) PROVE UnicaInv'
  BY <1>t, <1>c, <1>17 DEF Caer, TypeOK, Estados, Puntos, UnicaInv, PosesionInv, AusenteInv, ControlInv, Trabajando, Soltar
<1>18. ASSUME NEW r \in Replicas, Desconectar(r) PROVE UnicaInv'
  BY <1>t, <1>c, <1>18 DEF Desconectar, TypeOK, Estados, Puntos, UnicaInv, PosesionInv, AusenteInv, ControlInv, Trabajando
<1>19. ASSUME NEW r \in Replicas, Reconectar(r) PROVE UnicaInv'
  BY <1>t, <1>c, <1>19 DEF Reconectar, TypeOK, Estados, Puntos, UnicaInv, PosesionInv, AusenteInv, ControlInv, Trabajando
<1>20. ASSUME NEW r \in Replicas, NEW e \in Eventos, Tomar(r, e) PROVE UnicaInv'
  BY <1>t, <1>c, <1>20 DEF Tomar, TypeOK, Estados, Puntos, UnicaInv, PosesionInv, AusenteInv, ControlInv, Trabajando
<1>21. ASSUME NEW r \in Replicas, NEW e \in Eventos, DescartarCorrupto(r, e) PROVE UnicaInv'
  BY <1>t, <1>c, <1>21 DEF DescartarCorrupto, TypeOK, Estados, Puntos, UnicaInv, PosesionInv, AusenteInv, ControlInv, Trabajando, Escribir, Terminar, Existe
<1> QED
  BY <1>1, <1>2, <1>3, <1>4, <1>5, <1>6, <1>7, <1>8, <1>9, <1>10, <1>11, <1>12, <1>13, <1>14, <1>15, <1>16, <1>17, <1>18, <1>19, <1>20, <1>21
  DEF Next, PasoTabla, PasoReplica

\* PROCESSED rows were accepted.
LEMMA PasoNadaSePierde == IInv /\ [Next]_vars => NadaSePierde'
<1> SUFFICES ASSUME IInv, [Next]_vars PROVE NadaSePierde'
  OBVIOUS
<1> USE OutboxAssumption DEF OutboxAssumption, vars, fila, tick, entorno, historia
<1>t. TypeOK
  BY DEF IInv
<1>c. NadaSePierde /\ ControlInv
  BY DEF IInv
<1>1. CASE UNCHANGED vars
  BY <1>t, <1>c, <1>1 DEF TypeOK, Estados, Puntos, NadaSePierde, ControlInv, Trabajando
<1>2. CASE Rescatar
  BY <1>t, <1>c, <1>2 DEF Rescatar, TypeOK, Estados, Puntos, NadaSePierde, ControlInv, Trabajando
<1>3. ASSUME NEW e \in Eventos, Crear(e) PROVE NadaSePierde'
  BY <1>t, <1>c, <1>3 DEF Crear, TypeOK, Estados, Puntos, NadaSePierde, ControlInv, Trabajando, Escribir
<1>4. ASSUME NEW e \in Eventos, Vencer(e) PROVE NadaSePierde'
  BY <1>t, <1>c, <1>4 DEF Vencer, TypeOK, Estados, Puntos, NadaSePierde, ControlInv, Trabajando
<1>5. ASSUME NEW e \in Eventos, Purgar(e) PROVE NadaSePierde'
  BY <1>t, <1>c, <1>5 DEF Purgar, TypeOK, Estados, Puntos, NadaSePierde, ControlInv, Trabajando
<1>6. ASSUME NEW e \in Eventos, Reintentar(e) PROVE NadaSePierde'
  BY <1>t, <1>c, <1>6 DEF Reintentar, TypeOK, Estados, Puntos, NadaSePierde, ControlInv, Trabajando
<1>7. ASSUME NEW r \in Replicas, Reclamar(r) PROVE NadaSePierde'
  BY <1>t, <1>c, <1>7 DEF Reclamar, TypeOK, Estados, Puntos, NadaSePierde, ControlInv, Trabajando, ReclamarLote, EsLote, Pendientes
<1>8. ASSUME NEW r \in Replicas, Confirmar(r) PROVE NadaSePierde'
  BY <1>t, <1>c, <1>8 DEF Confirmar, TypeOK, Estados, Puntos, NadaSePierde, ControlInv, Trabajando, Aceptar
<1>9. ASSUME NEW r \in Replicas, ErrorPublicar(r) PROVE NadaSePierde'
  BY <1>t, <1>c, <1>9 DEF ErrorPublicar, TypeOK, Estados, Puntos, NadaSePierde, ControlInv, Trabajando, ContarFallo
<1>10. ASSUME NEW r \in Replicas, ErrorTrasEntregar(r) PROVE NadaSePierde'
  BY <1>t, <1>c, <1>10 DEF ErrorTrasEntregar, TypeOK, Estados, Puntos, NadaSePierde, ControlInv, Trabajando, Aceptar, ContarFallo
<1>11. ASSUME NEW r \in Replicas, MarcarProcesado(r) PROVE NadaSePierde'
  BY <1>t, <1>c, <1>11 DEF MarcarProcesado, TypeOK, Estados, Puntos, NadaSePierde, ControlInv, Trabajando, Terminar, Existe
<1>12. ASSUME NEW r \in Replicas, ErrorMarcar(r) PROVE NadaSePierde'
  BY <1>t, <1>c, <1>12 DEF ErrorMarcar, TypeOK, Estados, Puntos, NadaSePierde, ControlInv, Trabajando, ContarFallo
<1>13. ASSUME NEW r \in Replicas, RegistrarFallo(r) PROVE NadaSePierde'
  BY <1>t, <1>c, <1>13 DEF RegistrarFallo, TypeOK, Estados, Puntos, NadaSePierde, ControlInv, Trabajando, Escribir, Terminar, Existe
<1>14. ASSUME NEW r \in Replicas, AbortarLote(r) PROVE NadaSePierde'
  BY <1>t, <1>c, <1>14 DEF AbortarLote, TypeOK, Estados, Puntos, NadaSePierde, ControlInv, Trabajando, Soltar
<1>15. ASSUME NEW r \in Replicas, FilaBorrada(r) PROVE NadaSePierde'
  BY <1>t, <1>c, <1>15 DEF FilaBorrada, TypeOK, Estados, Puntos, NadaSePierde, ControlInv, Trabajando, Soltar, Existe
<1>16. ASSUME NEW r \in Replicas, TerminarLote(r) PROVE NadaSePierde'
  BY <1>t, <1>c, <1>16 DEF TerminarLote, TypeOK, Estados, Puntos, NadaSePierde, ControlInv, Trabajando, Soltar
<1>17. ASSUME NEW r \in Replicas, Caer(r) PROVE NadaSePierde'
  BY <1>t, <1>c, <1>17 DEF Caer, TypeOK, Estados, Puntos, NadaSePierde, ControlInv, Trabajando, Soltar
<1>18. ASSUME NEW r \in Replicas, Desconectar(r) PROVE NadaSePierde'
  BY <1>t, <1>c, <1>18 DEF Desconectar, TypeOK, Estados, Puntos, NadaSePierde, ControlInv, Trabajando
<1>19. ASSUME NEW r \in Replicas, Reconectar(r) PROVE NadaSePierde'
  BY <1>t, <1>c, <1>19 DEF Reconectar, TypeOK, Estados, Puntos, NadaSePierde, ControlInv, Trabajando
<1>20. ASSUME NEW r \in Replicas, NEW e \in Eventos, Tomar(r, e) PROVE NadaSePierde'
  BY <1>t, <1>c, <1>20 DEF Tomar, TypeOK, Estados, Puntos, NadaSePierde, ControlInv, Trabajando
<1>21. ASSUME NEW r \in Replicas, NEW e \in Eventos, DescartarCorrupto(r, e) PROVE NadaSePierde'
  BY <1>t, <1>c, <1>21 DEF DescartarCorrupto, TypeOK, Estados, Puntos, NadaSePierde, ControlInv, Trabajando, Escribir, Terminar, Existe
<1> QED
  BY <1>1, <1>2, <1>3, <1>4, <1>5, <1>6, <1>7, <1>8, <1>9, <1>10, <1>11, <1>12, <1>13, <1>14, <1>15, <1>16, <1>17, <1>18, <1>19, <1>20, <1>21
  DEF Next, PasoTabla, PasoReplica

\* FAILED rows had their failures.
LEMMA PasoFailed == IInv /\ [Next]_vars => FailedPorSusFallos'
<1> SUFFICES ASSUME IInv, [Next]_vars PROVE FailedPorSusFallos'
  OBVIOUS
<1> USE OutboxAssumption DEF OutboxAssumption, vars, fila, tick, entorno, historia
<1>t. TypeOK
  BY DEF IInv
<1>c. FailedPorSusFallos /\ IntentosInv /\ ControlInv
  BY DEF IInv
<1>1. CASE UNCHANGED vars
  BY <1>t, <1>c, <1>1 DEF TypeOK, Estados, Puntos, FailedPorSusFallos, IntentosInv, ControlInv, Trabajando
<1>2. CASE Rescatar
  BY <1>t, <1>c, <1>2 DEF Rescatar, TypeOK, Estados, Puntos, FailedPorSusFallos, IntentosInv, ControlInv, Trabajando
<1>3. ASSUME NEW e \in Eventos, Crear(e) PROVE FailedPorSusFallos'
  BY <1>t, <1>c, <1>3 DEF Crear, TypeOK, Estados, Puntos, FailedPorSusFallos, IntentosInv, ControlInv, Trabajando, Escribir
<1>4. ASSUME NEW e \in Eventos, Vencer(e) PROVE FailedPorSusFallos'
  BY <1>t, <1>c, <1>4 DEF Vencer, TypeOK, Estados, Puntos, FailedPorSusFallos, IntentosInv, ControlInv, Trabajando
<1>5. ASSUME NEW e \in Eventos, Purgar(e) PROVE FailedPorSusFallos'
  BY <1>t, <1>c, <1>5 DEF Purgar, TypeOK, Estados, Puntos, FailedPorSusFallos, IntentosInv, ControlInv, Trabajando
<1>6. ASSUME NEW e \in Eventos, Reintentar(e) PROVE FailedPorSusFallos'
  BY <1>t, <1>c, <1>6 DEF Reintentar, TypeOK, Estados, Puntos, FailedPorSusFallos, IntentosInv, ControlInv, Trabajando
<1>7. ASSUME NEW r \in Replicas, Reclamar(r) PROVE FailedPorSusFallos'
  BY <1>t, <1>c, <1>7 DEF Reclamar, TypeOK, Estados, Puntos, FailedPorSusFallos, IntentosInv, ControlInv, Trabajando, ReclamarLote, EsLote, Pendientes
<1>8. ASSUME NEW r \in Replicas, Confirmar(r) PROVE FailedPorSusFallos'
  BY <1>t, <1>c, <1>8 DEF Confirmar, TypeOK, Estados, Puntos, FailedPorSusFallos, IntentosInv, ControlInv, Trabajando, Aceptar
<1>9. ASSUME NEW r \in Replicas, ErrorPublicar(r) PROVE FailedPorSusFallos'
  BY <1>t, <1>c, <1>9 DEF ErrorPublicar, TypeOK, Estados, Puntos, FailedPorSusFallos, IntentosInv, ControlInv, Trabajando, ContarFallo
<1>10. ASSUME NEW r \in Replicas, ErrorTrasEntregar(r) PROVE FailedPorSusFallos'
  BY <1>t, <1>c, <1>10 DEF ErrorTrasEntregar, TypeOK, Estados, Puntos, FailedPorSusFallos, IntentosInv, ControlInv, Trabajando, Aceptar, ContarFallo
<1>11. ASSUME NEW r \in Replicas, MarcarProcesado(r) PROVE FailedPorSusFallos'
  BY <1>t, <1>c, <1>11 DEF MarcarProcesado, TypeOK, Estados, Puntos, FailedPorSusFallos, IntentosInv, ControlInv, Trabajando, Terminar, Existe
<1>12. ASSUME NEW r \in Replicas, ErrorMarcar(r) PROVE FailedPorSusFallos'
  BY <1>t, <1>c, <1>12 DEF ErrorMarcar, TypeOK, Estados, Puntos, FailedPorSusFallos, IntentosInv, ControlInv, Trabajando, ContarFallo
<1>13. ASSUME NEW r \in Replicas, RegistrarFallo(r) PROVE FailedPorSusFallos'
  BY <1>t, <1>c, <1>13 DEF RegistrarFallo, TypeOK, Estados, Puntos, FailedPorSusFallos, IntentosInv, ControlInv, Trabajando, Escribir, Terminar, Existe
<1>14. ASSUME NEW r \in Replicas, AbortarLote(r) PROVE FailedPorSusFallos'
  BY <1>t, <1>c, <1>14 DEF AbortarLote, TypeOK, Estados, Puntos, FailedPorSusFallos, IntentosInv, ControlInv, Trabajando, Soltar
<1>15. ASSUME NEW r \in Replicas, FilaBorrada(r) PROVE FailedPorSusFallos'
  BY <1>t, <1>c, <1>15 DEF FilaBorrada, TypeOK, Estados, Puntos, FailedPorSusFallos, IntentosInv, ControlInv, Trabajando, Soltar, Existe
<1>16. ASSUME NEW r \in Replicas, TerminarLote(r) PROVE FailedPorSusFallos'
  BY <1>t, <1>c, <1>16 DEF TerminarLote, TypeOK, Estados, Puntos, FailedPorSusFallos, IntentosInv, ControlInv, Trabajando, Soltar
<1>17. ASSUME NEW r \in Replicas, Caer(r) PROVE FailedPorSusFallos'
  BY <1>t, <1>c, <1>17 DEF Caer, TypeOK, Estados, Puntos, FailedPorSusFallos, IntentosInv, ControlInv, Trabajando, Soltar
<1>18. ASSUME NEW r \in Replicas, Desconectar(r) PROVE FailedPorSusFallos'
  BY <1>t, <1>c, <1>18 DEF Desconectar, TypeOK, Estados, Puntos, FailedPorSusFallos, IntentosInv, ControlInv, Trabajando
<1>19. ASSUME NEW r \in Replicas, Reconectar(r) PROVE FailedPorSusFallos'
  BY <1>t, <1>c, <1>19 DEF Reconectar, TypeOK, Estados, Puntos, FailedPorSusFallos, IntentosInv, ControlInv, Trabajando
<1>20. ASSUME NEW r \in Replicas, NEW e \in Eventos, Tomar(r, e) PROVE FailedPorSusFallos'
  BY <1>t, <1>c, <1>20 DEF Tomar, TypeOK, Estados, Puntos, FailedPorSusFallos, IntentosInv, ControlInv, Trabajando
<1>21. ASSUME NEW r \in Replicas, NEW e \in Eventos, DescartarCorrupto(r, e) PROVE FailedPorSusFallos'
  BY <1>t, <1>c, <1>21 DEF DescartarCorrupto, TypeOK, Estados, Puntos, FailedPorSusFallos, IntentosInv, ControlInv, Trabajando, Escribir, Terminar, Existe
<1> QED
  BY <1>1, <1>2, <1>3, <1>4, <1>5, <1>6, <1>7, <1>8, <1>9, <1>10, <1>11, <1>12, <1>13, <1>14, <1>15, <1>16, <1>17, <1>18, <1>19, <1>20, <1>21
  DEF Next, PasoTabla, PasoReplica


-----------------------------------------------------------------------------
LEMMA InicioIInv == Init => IInv
<1> SUFFICES ASSUME Init PROVE IInv
  OBVIOUS
<1> USE OutboxAssumption DEF OutboxAssumption, Init
<1>1. (CHOOSE e \in Eventos : TRUE) \in Eventos
  OBVIOUS
<1>2. TypeOK
  BY <1>1 DEF TypeOK, Estados, Puntos
<1>3. ControlInv /\ AusenteInv /\ IntentosInv /\ PosesionInv
  BY DEF ControlInv, AusenteInv, IntentosInv, PosesionInv, Trabajando
<1>4. UnicaInv /\ NadaSePierde /\ FailedPorSusFallos
  BY DEF UnicaInv, NadaSePierde, FailedPorSusFallos
<1> QED
  BY <1>2, <1>3, <1>4 DEF IInv

\* The inductive invariant holds whatever the number of events and replicas,
\* the batch size, maxAttempts and the bounds: it is what the statements of the
\* processor, interleaved in any order, preserve.
THEOREM Invariante == Spec => []IInv
<1>1. IInv /\ [Next]_vars => IInv'
  BY PasoTypeOK, PasoControl, PasoAusente, PasoIntentos, PasoPosesion,
     PasoUnica, PasoNadaSePierde, PasoFailed DEF IInv
<1> QED
  BY <1>1, InicioIInv, PTL DEF Spec

\* Type correctness of the outbox, for every instance.
THEOREM Tipos == Spec => []TypeOK
<1>1. IInv => TypeOK
  BY DEF IInv
<1> QED
  BY <1>1, Invariante, PTL

\* At-least-once: no row is marked PROCESSED, or purged as such, without the
\* broker having accepted the event.
THEOREM SinPerdida == Spec => []NadaSePierde
<1>1. IInv => NadaSePierde
  BY DEF IInv
<1> QED
  BY <1>1, Invariante, PTL

\* A dead letter is the result of maxAttempts real failures of that event,
\* never of crashes, outages or rescues.
THEOREM FailedJustificado == Spec => []FailedPorSusFallos
<1>1. IInv => FailedPorSusFallos
  BY DEF IInv
<1> QED
  BY <1>1, Invariante, PTL

\* Without a rescue, the SKIP LOCKED claim gives each event to one replica.
THEOREM Exclusividad == Spec => []ReclamoExclusivo
<1>1. IInv => ReclamoExclusivo
  BY DEF IInv, PosesionInv, ReclamoExclusivo
<1> QED
  BY <1>1, Invariante, PTL

\* Duplicates in the broker have one of two causes: a rescue, or a success
\* that could not be recorded.
THEOREM Duplicados == Spec => []DuplicadoConCausa
<1>1. IInv => DuplicadoConCausa
  BY DEF IInv, TypeOK, UnicaInv, DuplicadoConCausa
<1> QED
  BY <1>1, Invariante, PTL


\* A processed event that was never rescued stays processed: its only holder
\* has let go of it, so no write-back can reach it.
THEOREM Finalidad == Spec => ProcesadoEsFinal
<1>1. IInv /\ [Next]_vars => [\A e \in Eventos \ rescatados :
         status[e] = "PROCESSED" => status'[e] \in {"PROCESSED", "PURGADO"}]_vars
  <2> SUFFICES ASSUME IInv, [Next]_vars, NEW e \in Eventos \ rescatados, status[e] = "PROCESSED"
               PROVE  status'[e] \in {"PROCESSED", "PURGADO"}
    OBVIOUS
  <2>1. TypeOK /\ ControlInv /\ \A r \in Replicas : e \notin lote[r]
    BY DEF IInv, PosesionInv
  <2> USE DEF fila, vars
  <2>2. CASE UNCHANGED vars
    BY <2>2
  <2>3. CASE PasoTabla
    BY <2>1, <2>3 DEF PasoTabla, Rescatar, Crear, Vencer, Purgar, Reintentar, Escribir, TypeOK
  <2>4. ASSUME NEW r \in Replicas, PasoReplica(r) PROVE status'[e] \in {"PROCESSED", "PURGADO"}
    <3>1. CASE Reclamar(r)
      BY <2>1, <3>1 DEF Reclamar, ReclamarLote, EsLote, Pendientes, TypeOK
    <3>2. CASE MarcarProcesado(r)
      BY <2>1, <3>2 DEF MarcarProcesado, TypeOK
    <3>3. CASE RegistrarFallo(r)
      BY <2>1, <3>3 DEF RegistrarFallo, Escribir, ControlInv, Trabajando, TypeOK
    <3>4. CASE \E f \in Eventos : DescartarCorrupto(r, f)
      BY <2>1, <3>4 DEF DescartarCorrupto, Escribir, TypeOK
    <3>5. CASE status' = status
      BY <3>5
    <3> QED
      BY <2>4, <3>1, <3>2, <3>3, <3>4, <3>5 DEF PasoReplica, Confirmar, ErrorPublicar,
         ErrorTrasEntregar, ErrorMarcar, AbortarLote, FilaBorrada, TerminarLote, Caer,
         Desconectar, Reconectar, Tomar
  <2> QED
    BY <2>2, <2>3, <2>4 DEF Next
<1> QED
  BY <1>1, Invariante, PTL DEF Spec, ProcesadoEsFinal

-----------------------------------------------------------------------------
(* The outbox implements EntregaAlMenosUnaVez. *)

\* The moves the abstract specification allows one event.
PasoVisible(e) ==
  \/ Visible(e)' = Visible(e)
  \/ Visible(e) = "ausente" /\ Visible(e)' = "pendiente"
  \/ Visible(e) \in {"pendiente", "muerto"} /\ Visible(e)' = "publicado"
  \/ Visible(e) = "pendiente" /\ Visible(e)' = "muerto"
  \/ Visible(e) = "muerto" /\ Visible(e)' = "pendiente"

SoloCambia(e) ==
  /\ PasoVisible(e)
  /\ \A x \in Eventos \ {e} : Visible(x)' = Visible(x)

\* An accepted event that was in the table becomes visibly published, and
\* nothing else changes.
LEMMA AceptarVisible ==
  ASSUME TypeOK, NEW e \in Eventos, status[e] # "AUSENTE", status' = status, Aceptar(e)
  PROVE  SoloCambia(e)
<1>1. veces'[e] >= 1 /\ \A x \in Eventos \ {e} : veces'[x] = veces[x]
  BY DEF TypeOK, Aceptar
<1>2. \A x \in Eventos \ {e} : Visible(x)' = Visible(x)
  BY <1>1 DEF Visible
<1>3. Visible(e)' = "publicado"
  BY <1>1 DEF Visible
<1>4. veces[e] \in 0..2
  BY DEF TypeOK
<1>5. CASE veces[e] >= 1
  BY <1>2, <1>3, <1>5 DEF Visible, SoloCambia, PasoVisible
<1>6. CASE veces[e] = 0
  BY <1>2, <1>3, <1>6 DEF Visible, SoloCambia, PasoVisible
<1> QED
  BY <1>2, <1>4, <1>5, <1>6

\* Every step changes what is visible of at most one event, the allowed way.
LEMMA PasoVisiblePaso == IInv /\ [Next]_vars => (\E ev \in Eventos : SoloCambia(ev))
<1> SUFFICES ASSUME IInv, [Next]_vars PROVE (\E ev \in Eventos : SoloCambia(ev))
  OBVIOUS
<1> USE OutboxAssumption DEF OutboxAssumption, vars, fila, tick, entorno, historia
<1>t. TypeOK
  BY DEF IInv
<1>c. ControlInv /\ AusenteInv /\ NadaSePierde
  BY DEF IInv
<1>1. CASE UNCHANGED vars
  <2>1. \A x \in Eventos : Visible(x)' = Visible(x)
    BY <1>1 DEF Visible
  <2> QED
    BY <2>1 DEF SoloCambia, PasoVisible
<1>2. CASE Rescatar
  <2>1. \A x \in Eventos : Visible(x)' = Visible(x)
    BY <1>t, <1>c, <1>2 DEF Rescatar, Visible, TypeOK, Estados
  <2> QED
    BY <2>1 DEF SoloCambia, PasoVisible
<1>3. ASSUME NEW e \in Eventos, Crear(e) PROVE (\E ev \in Eventos : SoloCambia(ev))
  <2>1. e \in Eventos
    BY <1>t, <1>3 DEF TypeOK
  <2>2. SoloCambia(e)
    BY <1>t, <1>c, <2>1, <1>3 DEF Crear, SoloCambia, PasoVisible, Visible, TypeOK, Estados, Escribir, AusenteInv
  <2> QED
    BY <2>1, <2>2
<1>4. ASSUME NEW e \in Eventos, Vencer(e) PROVE (\E ev \in Eventos : SoloCambia(ev))
  <2>1. \A x \in Eventos : Visible(x)' = Visible(x)
    BY <1>t, <1>c, <1>4 DEF Vencer, Visible, TypeOK, Estados
  <2> QED
    BY <2>1 DEF SoloCambia, PasoVisible
<1>5. ASSUME NEW e \in Eventos, Purgar(e) PROVE (\E ev \in Eventos : SoloCambia(ev))
  <2>1. e \in Eventos
    BY <1>t, <1>5 DEF TypeOK
  <2>2. SoloCambia(e)
    BY <1>t, <1>c, <2>1, <1>5 DEF Purgar, SoloCambia, PasoVisible, Visible, TypeOK, Estados, NadaSePierde
  <2> QED
    BY <2>1, <2>2
<1>6. ASSUME NEW e \in Eventos, Reintentar(e) PROVE (\E ev \in Eventos : SoloCambia(ev))
  <2>1. e \in Eventos
    BY <1>t, <1>6 DEF TypeOK
  <2>2. SoloCambia(e)
    BY <1>t, <1>c, <2>1, <1>6 DEF Reintentar, SoloCambia, PasoVisible, Visible, TypeOK, Estados, NadaSePierde
  <2> QED
    BY <2>1, <2>2
<1>7. ASSUME NEW r \in Replicas, Reclamar(r) PROVE (\E ev \in Eventos : SoloCambia(ev))
  <2>1. \A x \in Eventos : Visible(x)' = Visible(x)
    BY <1>t, <1>c, <1>7 DEF Reclamar, Visible, TypeOK, Estados, ReclamarLote, EsLote, Pendientes
  <2> QED
    BY <2>1 DEF SoloCambia, PasoVisible
<1>8. ASSUME NEW r \in Replicas, Confirmar(r) PROVE (\E ev \in Eventos : SoloCambia(ev))
  <2>1. actual[r] \in Eventos /\ status' = status /\ status[actual[r]] # "AUSENTE"
    BY <1>t, <1>c, <1>8 DEF Confirmar, ControlInv, Trabajando, AusenteInv, TypeOK, fila
  <2>2. SoloCambia(actual[r])
    BY <1>t, <2>1, <1>8, AceptarVisible DEF Confirmar
  <2> QED
    BY <2>1, <2>2
<1>9. ASSUME NEW r \in Replicas, ErrorPublicar(r) PROVE (\E ev \in Eventos : SoloCambia(ev))
  <2>1. \A x \in Eventos : Visible(x)' = Visible(x)
    BY <1>t, <1>c, <1>9 DEF ErrorPublicar, Visible, TypeOK, Estados
  <2> QED
    BY <2>1 DEF SoloCambia, PasoVisible
<1>10. ASSUME NEW r \in Replicas, ErrorTrasEntregar(r) PROVE (\E ev \in Eventos : SoloCambia(ev))
  <2>1. actual[r] \in Eventos /\ status' = status /\ status[actual[r]] # "AUSENTE"
    BY <1>t, <1>c, <1>10 DEF ErrorTrasEntregar, ControlInv, Trabajando, AusenteInv, TypeOK, fila
  <2>2. SoloCambia(actual[r])
    BY <1>t, <2>1, <1>10, AceptarVisible DEF ErrorTrasEntregar
  <2> QED
    BY <2>1, <2>2
<1>11. ASSUME NEW r \in Replicas, MarcarProcesado(r) PROVE (\E ev \in Eventos : SoloCambia(ev))
  <2>1. actual[r] \in Eventos
    BY <1>t, <1>11 DEF TypeOK
  <2>2. SoloCambia(actual[r])
    BY <1>t, <1>c, <2>1, <1>11 DEF MarcarProcesado, SoloCambia, PasoVisible, Visible, TypeOK, Estados, Existe, ControlInv, NadaSePierde
  <2> QED
    BY <2>1, <2>2
<1>12. ASSUME NEW r \in Replicas, ErrorMarcar(r) PROVE (\E ev \in Eventos : SoloCambia(ev))
  <2>1. \A x \in Eventos : Visible(x)' = Visible(x)
    BY <1>t, <1>c, <1>12 DEF ErrorMarcar, Visible, TypeOK, Estados
  <2> QED
    BY <2>1 DEF SoloCambia, PasoVisible
<1>13. ASSUME NEW r \in Replicas, RegistrarFallo(r) PROVE (\E ev \in Eventos : SoloCambia(ev))
  <2>1. actual[r] \in Eventos
    BY <1>t, <1>13 DEF TypeOK
  <2>2. SoloCambia(actual[r])
    BY <1>t, <1>c, <2>1, <1>13 DEF RegistrarFallo, SoloCambia, PasoVisible, Visible, TypeOK, Estados, Escribir, Existe, NadaSePierde
  <2> QED
    BY <2>1, <2>2
<1>14. ASSUME NEW r \in Replicas, AbortarLote(r) PROVE (\E ev \in Eventos : SoloCambia(ev))
  <2>1. \A x \in Eventos : Visible(x)' = Visible(x)
    BY <1>t, <1>c, <1>14 DEF AbortarLote, Visible, TypeOK, Estados
  <2> QED
    BY <2>1 DEF SoloCambia, PasoVisible
<1>15. ASSUME NEW r \in Replicas, FilaBorrada(r) PROVE (\E ev \in Eventos : SoloCambia(ev))
  <2>1. \A x \in Eventos : Visible(x)' = Visible(x)
    BY <1>t, <1>c, <1>15 DEF FilaBorrada, Visible, TypeOK, Estados
  <2> QED
    BY <2>1 DEF SoloCambia, PasoVisible
<1>16. ASSUME NEW r \in Replicas, TerminarLote(r) PROVE (\E ev \in Eventos : SoloCambia(ev))
  <2>1. \A x \in Eventos : Visible(x)' = Visible(x)
    BY <1>t, <1>c, <1>16 DEF TerminarLote, Visible, TypeOK, Estados
  <2> QED
    BY <2>1 DEF SoloCambia, PasoVisible
<1>17. ASSUME NEW r \in Replicas, Caer(r) PROVE (\E ev \in Eventos : SoloCambia(ev))
  <2>1. \A x \in Eventos : Visible(x)' = Visible(x)
    BY <1>t, <1>c, <1>17 DEF Caer, Visible, TypeOK, Estados
  <2> QED
    BY <2>1 DEF SoloCambia, PasoVisible
<1>18. ASSUME NEW r \in Replicas, Desconectar(r) PROVE (\E ev \in Eventos : SoloCambia(ev))
  <2>1. \A x \in Eventos : Visible(x)' = Visible(x)
    BY <1>t, <1>c, <1>18 DEF Desconectar, Visible, TypeOK, Estados
  <2> QED
    BY <2>1 DEF SoloCambia, PasoVisible
<1>19. ASSUME NEW r \in Replicas, Reconectar(r) PROVE (\E ev \in Eventos : SoloCambia(ev))
  <2>1. \A x \in Eventos : Visible(x)' = Visible(x)
    BY <1>t, <1>c, <1>19 DEF Reconectar, Visible, TypeOK, Estados
  <2> QED
    BY <2>1 DEF SoloCambia, PasoVisible
<1>20. ASSUME NEW r \in Replicas, NEW e \in Eventos, Tomar(r, e) PROVE (\E ev \in Eventos : SoloCambia(ev))
  <2>1. \A x \in Eventos : Visible(x)' = Visible(x)
    BY <1>t, <1>c, <1>20 DEF Tomar, Visible, TypeOK, Estados
  <2> QED
    BY <2>1 DEF SoloCambia, PasoVisible
<1>21. ASSUME NEW r \in Replicas, NEW e \in Eventos, DescartarCorrupto(r, e) PROVE (\E ev \in Eventos : SoloCambia(ev))
  <2>1. e \in Eventos
    BY <1>t, <1>21 DEF TypeOK
  <2>2. SoloCambia(e)
    BY <1>t, <1>c, <2>1, <1>21 DEF DescartarCorrupto, SoloCambia, PasoVisible, Visible, TypeOK, Estados, Escribir, Existe, NadaSePierde
  <2> QED
    BY <2>1, <2>2
<1> QED
  BY <1>1, <1>2, <1>3, <1>4, <1>5, <1>6, <1>7, <1>8, <1>9, <1>10, <1>11, <1>12, <1>13, <1>14, <1>15, <1>16, <1>17, <1>18, <1>19, <1>20, <1>21
  DEF Next, PasoTabla, PasoReplica

\* At-least-once delivery: the outbox, with all its crashes, rescues and stale
\* write-backs, refines the abstract promise.
THEOREM Implementa == Spec => ImplementaEntrega
<1>1. Init => Entrega!Init
  BY DEF Init, Entrega!Init, Visible
<1>2. IInv /\ [Next]_vars => [Entrega!Next]_([e \in Eventos |-> Visible(e)])
  <2> SUFFICES ASSUME IInv, [Next]_vars
               PROVE  [Entrega!Next]_([e \in Eventos |-> Visible(e)])
    OBVIOUS
  <2>1. PICK ev \in Eventos : SoloCambia(ev)
    BY PasoVisiblePaso
  <2> DEFINE m == [e \in Eventos |-> Visible(e)]
  <2>2. m' = [m EXCEPT ![ev] = Visible(ev)']
    BY <2>1 DEF SoloCambia
  <2>3. CASE Visible(ev)' = Visible(ev)
    BY <2>2, <2>3
  <2>4. CASE Visible(ev)' # Visible(ev)
    BY <2>1, <2>2, <2>4 DEF SoloCambia, PasoVisible, Entrega!Next, Entrega!Registrar,
       Entrega!Publicar, Entrega!Descartar, Entrega!Revivir, Entrega!Paso
  <2> QED
    BY <2>3, <2>4
<1> QED
  BY <1>1, <1>2, Invariante, PTL DEF Spec, ImplementaEntrega, Entrega!Spec
=============================================================================
