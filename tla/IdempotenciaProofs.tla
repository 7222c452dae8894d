-------------------------- MODULE IdempotenciaProofs ------------------------
(***************************************************************************)
(* Proofs about the IdempotencyInterceptor, for any number of requests and *)
(* bodies and any number of failures and slow handlers.                    *)
(***************************************************************************)
EXTENDS IdempotenciaProps, TLAPS

\* Before the first request nothing is claimed, answered or executed.
LEMMA InicioIInv == Init => IInv
<1> SUFFICES ASSUME Init PROVE IInv
  OBVIOUS
<1>1. TypeOK
  <2>1. fallos \in 0..MaxFallos /\ lentas \in 0..MaxLentas /\ efectos \in 0..2
    BY IdempotenciaAssumption DEF IdempotenciaAssumption, Init
  <2>2. recibido \in [Peticiones -> Cuerpos]
    BY IdempotenciaAssumption DEF IdempotenciaAssumption, Init
  <2>3. vencida \in BOOLEAN /\ sinRegistrar \in BOOLEAN /\ ajena \in BOOLEAN /\ purgada \in BOOLEAN
    BY Zenon DEF Init
  <2>4. /\ fila \in {"ninguna", "curso", "hecha"}
        /\ hash \in Cuerpos /\ resultado \in Cuerpos /\ dueno \in Peticiones
        /\ pc \in [Peticiones -> Puntos]
        /\ respuesta \in [Peticiones -> Respuestas]
    BY DEF Init, Puntos, Respuestas, Exitos
  <2> QED
    BY <2>1, <2>2, <2>3, <2>4 DEF TypeOK
<1>2. UnSoloDueno /\ FilaInv /\ EfectoInv
  BY DEF Init, UnSoloDueno, FilaInv, EfectoInv, EnVuelo
<1>3. RespuestaPropia
  BY DEF Init, RespuestaPropia, Exitos
<1> QED
  BY <1>1, <1>2, <1>3 DEF IInv

\* Every statement of the interceptor keeps the types.
LEMMA PasoTypeOK == IInv /\ [Next]_vars => TypeOK'
<1> SUFFICES ASSUME IInv, [Next]_vars PROVE TypeOK'
  OBVIOUS
<1> USE IdempotenciaAssumption DEF IdempotenciaAssumption, vars, columnas, cliente, cotas, historia, Ir, EnVuelo
<1>i. TypeOK
  BY DEF IInv
<1>0. CASE UNCHANGED vars
  BY <1>i, <1>0 DEF TypeOK, Puntos, Respuestas, Exitos
<1>1. ASSUME NEW p \in Peticiones, LeerLibre(p) PROVE TypeOK'
  BY <1>i, <1>1 DEF LeerLibre, TypeOK, Puntos, Respuestas, Exitos
<1>2. ASSUME NEW p \in Peticiones, LeerHuerfana(p) PROVE TypeOK'
  BY <1>i, <1>2 DEF LeerHuerfana, TypeOK, Puntos, Respuestas, Exitos
<1>3. ASSUME NEW p \in Peticiones, LeerVigente(p) PROVE TypeOK'
  BY <1>i, <1>3 DEF LeerVigente, Responder, TypeOK, Puntos, Respuestas, Exitos
<1>4. ASSUME NEW p \in Peticiones, LiberarHuerfana(p) PROVE TypeOK'
  BY <1>i, <1>4 DEF LiberarHuerfana, Borrar, TypeOK, Puntos, Respuestas, Exitos
<1>5. ASSUME NEW p \in Peticiones, Reclamar(p) PROVE TypeOK'
  BY <1>i, <1>5 DEF Reclamar, TypeOK, Puntos, Respuestas, Exitos
<1>6. ASSUME NEW p \in Peticiones, ReclamoPerdido(p) PROVE TypeOK'
  BY <1>i, <1>6 DEF ReclamoPerdido, Responder, TypeOK, Puntos, Respuestas, Exitos
<1>7. ASSUME NEW p \in Peticiones, Ejecutar(p) PROVE TypeOK'
  BY <1>i, <1>7 DEF Ejecutar, Efecto, TypeOK, Puntos, Respuestas, Exitos
<1>8. ASSUME NEW p \in Peticiones, FallarEjecucion(p) PROVE TypeOK'
  BY <1>i, <1>8 DEF FallarEjecucion, Fallo, TypeOK, Puntos, Respuestas, Exitos
<1>9. ASSUME NEW p \in Peticiones, FallarTrasEfecto(p) PROVE TypeOK'
  BY <1>i, <1>9 DEF FallarTrasEfecto, Fallo, Efecto, TypeOK, Puntos, Respuestas, Exitos
<1>10. ASSUME NEW p \in Peticiones, Completar(p) PROVE TypeOK'
  BY <1>i, <1>10 DEF Completar, Responder, TypeOK, Puntos, Respuestas, Exitos
<1>11. ASSUME NEW p \in Peticiones, CompletarSinFila(p) PROVE TypeOK'
  BY <1>i, <1>11 DEF CompletarSinFila, TypeOK, Puntos, Respuestas, Exitos
<1>12. ASSUME NEW p \in Peticiones, FallarCompletar(p) PROVE TypeOK'
  BY <1>i, <1>12 DEF FallarCompletar, Fallo, TypeOK, Puntos, Respuestas, Exitos
<1>13. ASSUME NEW p \in Peticiones, Liberar(p) PROVE TypeOK'
  BY <1>i, <1>13 DEF Liberar, Borrar, Responder, TypeOK, Puntos, Respuestas, Exitos
<1>14. ASSUME NEW p \in Peticiones, FallarLiberar(p) PROVE TypeOK'
  BY <1>i, <1>14 DEF FallarLiberar, Fallo, Responder, TypeOK, Puntos, Respuestas, Exitos
<1>15. ASSUME NEW p \in Peticiones, Caer(p) PROVE TypeOK'
  BY <1>i, <1>15 DEF Caer, Fallo, Responder, TypeOK, Puntos, Respuestas, Exitos
<1>16. ASSUME NEW p \in Peticiones, Reenviar(p) PROVE TypeOK'
  BY <1>i, <1>16 DEF Reenviar, TypeOK, Puntos, Respuestas, Exitos
<1>17. CASE Vencer
  BY <1>i, <1>17 DEF Vencer, TypeOK, Puntos, Respuestas, Exitos
<1>18. CASE VencerEnVuelo
  BY <1>i, <1>18 DEF VencerEnVuelo, TypeOK, Puntos, Respuestas, Exitos
<1>19. CASE Purgar
  BY <1>i, <1>19 DEF Purgar, TypeOK, Puntos, Respuestas, Exitos
<1> QED
  BY <1>0, <1>1, <1>2, <1>3, <1>4, <1>5, <1>6, <1>7, <1>8, <1>9,
     <1>10, <1>11, <1>12, <1>13, <1>14, <1>15, <1>16, <1>17, <1>18, <1>19
  DEF Next, Avanzar, Tropezar

\* The unique index and the deletes by key, taken together: a second request
\* gets past its claim only after a valid claim was deleted.
LEMMA PasoUnSoloDueno == IInv /\ [Next]_vars => UnSoloDueno'
<1> SUFFICES ASSUME IInv, [Next]_vars PROVE UnSoloDueno'
  OBVIOUS
<1> USE IdempotenciaAssumption DEF IdempotenciaAssumption, vars, columnas, cliente, cotas, historia, Ir, EnVuelo
<1>i. TypeOK /\ UnSoloDueno
  BY DEF IInv
<1>0. CASE UNCHANGED vars
  BY <1>i, <1>0 DEF TypeOK, Puntos, Respuestas, Exitos, UnSoloDueno
<1>1. ASSUME NEW p \in Peticiones, LeerLibre(p) PROVE UnSoloDueno'
  BY <1>i, <1>1 DEF LeerLibre, TypeOK, Puntos, Respuestas, Exitos, UnSoloDueno
<1>2. ASSUME NEW p \in Peticiones, LeerHuerfana(p) PROVE UnSoloDueno'
  BY <1>i, <1>2 DEF LeerHuerfana, TypeOK, Puntos, Respuestas, Exitos, UnSoloDueno
<1>3. ASSUME NEW p \in Peticiones, LeerVigente(p) PROVE UnSoloDueno'
  BY <1>i, <1>3 DEF LeerVigente, Responder, TypeOK, Puntos, Respuestas, Exitos, UnSoloDueno
<1>4. ASSUME NEW p \in Peticiones, LiberarHuerfana(p) PROVE UnSoloDueno'
  BY <1>i, <1>4 DEF LiberarHuerfana, Borrar, TypeOK, Puntos, Respuestas, Exitos, UnSoloDueno
<1>5. ASSUME NEW p \in Peticiones, Reclamar(p) PROVE UnSoloDueno'
  BY <1>i, <1>5 DEF Reclamar, TypeOK, Puntos, Respuestas, Exitos, UnSoloDueno
<1>6. ASSUME NEW p \in Peticiones, ReclamoPerdido(p) PROVE UnSoloDueno'
  BY <1>i, <1>6 DEF ReclamoPerdido, Responder, TypeOK, Puntos, Respuestas, Exitos, UnSoloDueno
<1>7. ASSUME NEW p \in Peticiones, Ejecutar(p) PROVE UnSoloDueno'
  BY <1>i, <1>7 DEF Ejecutar, Efecto, TypeOK, Puntos, Respuestas, Exitos, UnSoloDueno
<1>8. ASSUME NEW p \in Peticiones, FallarEjecucion(p) PROVE UnSoloDueno'
  BY <1>i, <1>8 DEF FallarEjecucion, Fallo, TypeOK, Puntos, Respuestas, Exitos, UnSoloDueno
<1>9. ASSUME NEW p \in Peticiones, FallarTrasEfecto(p) PROVE UnSoloDueno'
  BY <1>i, <1>9 DEF FallarTrasEfecto, Fallo, Efecto, TypeOK, Puntos, Respuestas, Exitos, UnSoloDueno
<1>10. ASSUME NEW p \in Peticiones, Completar(p) PROVE UnSoloDueno'
  BY <1>i, <1>10 DEF Completar, Responder, TypeOK, Puntos, Respuestas, Exitos, UnSoloDueno
<1>11. ASSUME NEW p \in Peticiones, CompletarSinFila(p) PROVE UnSoloDueno'
  BY <1>i, <1>11 DEF CompletarSinFila, TypeOK, Puntos, Respuestas, Exitos, UnSoloDueno
<1>12. ASSUME NEW p \in Peticiones, FallarCompletar(p) PROVE UnSoloDueno'
  BY <1>i, <1>12 DEF FallarCompletar, Fallo, TypeOK, Puntos, Respuestas, Exitos, UnSoloDueno
<1>13. ASSUME NEW p \in Peticiones, Liberar(p) PROVE UnSoloDueno'
  BY <1>i, <1>13 DEF Liberar, Borrar, Responder, TypeOK, Puntos, Respuestas, Exitos, UnSoloDueno
<1>14. ASSUME NEW p \in Peticiones, FallarLiberar(p) PROVE UnSoloDueno'
  BY <1>i, <1>14 DEF FallarLiberar, Fallo, Responder, TypeOK, Puntos, Respuestas, Exitos, UnSoloDueno
<1>15. ASSUME NEW p \in Peticiones, Caer(p) PROVE UnSoloDueno'
  BY <1>i, <1>15 DEF Caer, Fallo, Responder, TypeOK, Puntos, Respuestas, Exitos, UnSoloDueno
<1>16. ASSUME NEW p \in Peticiones, Reenviar(p) PROVE UnSoloDueno'
  BY <1>i, <1>16 DEF Reenviar, TypeOK, Puntos, Respuestas, Exitos, UnSoloDueno
<1>17. CASE Vencer
  BY <1>i, <1>17 DEF Vencer, TypeOK, Puntos, Respuestas, Exitos, UnSoloDueno
<1>18. CASE VencerEnVuelo
  BY <1>i, <1>18 DEF VencerEnVuelo, TypeOK, Puntos, Respuestas, Exitos, UnSoloDueno
<1>19. CASE Purgar
  BY <1>i, <1>19 DEF Purgar, TypeOK, Puntos, Respuestas, Exitos, UnSoloDueno
<1> QED
  BY <1>0, <1>1, <1>2, <1>3, <1>4, <1>5, <1>6, <1>7, <1>8, <1>9,
     <1>10, <1>11, <1>12, <1>13, <1>14, <1>15, <1>16, <1>17, <1>18, <1>19
  DEF Next, Avanzar, Tropezar

\* What the row says stays true while its owner runs and after it.
LEMMA PasoFila == IInv /\ [Next]_vars => FilaInv'
<1> SUFFICES ASSUME IInv, [Next]_vars PROVE FilaInv'
  OBVIOUS
<1> USE IdempotenciaAssumption DEF IdempotenciaAssumption, vars, columnas, cliente, cotas, historia, Ir, EnVuelo
<1>i. TypeOK /\ UnSoloDueno /\ FilaInv
  BY DEF IInv
<1>0. CASE UNCHANGED vars
  BY <1>i, <1>0 DEF TypeOK, Puntos, Respuestas, Exitos, UnSoloDueno, FilaInv
<1>1. ASSUME NEW p \in Peticiones, LeerLibre(p) PROVE FilaInv'
  BY <1>i, <1>1 DEF LeerLibre, TypeOK, Puntos, Respuestas, Exitos, UnSoloDueno, FilaInv
<1>2. ASSUME NEW p \in Peticiones, LeerHuerfana(p) PROVE FilaInv'
  BY <1>i, <1>2 DEF LeerHuerfana, TypeOK, Puntos, Respuestas, Exitos, UnSoloDueno, FilaInv
<1>3. ASSUME NEW p \in Peticiones, LeerVigente(p) PROVE FilaInv'
  BY <1>i, <1>3 DEF LeerVigente, Responder, TypeOK, Puntos, Respuestas, Exitos, UnSoloDueno, FilaInv
<1>4. ASSUME NEW p \in Peticiones, LiberarHuerfana(p) PROVE FilaInv'
  BY <1>i, <1>4 DEF LiberarHuerfana, Borrar, TypeOK, Puntos, Respuestas, Exitos, UnSoloDueno, FilaInv
<1>5. ASSUME NEW p \in Peticiones, Reclamar(p) PROVE FilaInv'
  BY <1>i, <1>5 DEF Reclamar, TypeOK, Puntos, Respuestas, Exitos, UnSoloDueno, FilaInv
<1>6. ASSUME NEW p \in Peticiones, ReclamoPerdido(p) PROVE FilaInv'
  BY <1>i, <1>6 DEF ReclamoPerdido, Responder, TypeOK, Puntos, Respuestas, Exitos, UnSoloDueno, FilaInv
<1>7. ASSUME NEW p \in Peticiones, Ejecutar(p) PROVE FilaInv'
  BY <1>i, <1>7 DEF Ejecutar, Efecto, TypeOK, Puntos, Respuestas, Exitos, UnSoloDueno, FilaInv
<1>8. ASSUME NEW p \in Peticiones, FallarEjecucion(p) PROVE FilaInv'
  BY <1>i, <1>8 DEF FallarEjecucion, Fallo, TypeOK, Puntos, Respuestas, Exitos, UnSoloDueno, FilaInv
<1>9. ASSUME NEW p \in Peticiones, FallarTrasEfecto(p) PROVE FilaInv'
  BY <1>i, <1>9 DEF FallarTrasEfecto, Fallo, Efecto, TypeOK, Puntos, Respuestas, Exitos, UnSoloDueno, FilaInv
<1>10. ASSUME NEW p \in Peticiones, Completar(p) PROVE FilaInv'
  BY <1>i, <1>10 DEF Completar, Responder, TypeOK, Puntos, Respuestas, Exitos, UnSoloDueno, FilaInv
<1>11. ASSUME NEW p \in Peticiones, CompletarSinFila(p) PROVE FilaInv'
  BY <1>i, <1>11 DEF CompletarSinFila, TypeOK, Puntos, Respuestas, Exitos, UnSoloDueno, FilaInv
<1>12. ASSUME NEW p \in Peticiones, FallarCompletar(p) PROVE FilaInv'
  BY <1>i, <1>12 DEF FallarCompletar, Fallo, TypeOK, Puntos, Respuestas, Exitos, UnSoloDueno, FilaInv
<1>13. ASSUME NEW p \in Peticiones, Liberar(p) PROVE FilaInv'
  BY <1>i, <1>13 DEF Liberar, Borrar, Responder, TypeOK, Puntos, Respuestas, Exitos, UnSoloDueno, FilaInv
<1>14. ASSUME NEW p \in Peticiones, FallarLiberar(p) PROVE FilaInv'
  BY <1>i, <1>14 DEF FallarLiberar, Fallo, Responder, TypeOK, Puntos, Respuestas, Exitos, UnSoloDueno, FilaInv
<1>15. ASSUME NEW p \in Peticiones, Caer(p) PROVE FilaInv'
  BY <1>i, <1>15 DEF Caer, Fallo, Responder, TypeOK, Puntos, Respuestas, Exitos, UnSoloDueno, FilaInv
<1>16. ASSUME NEW p \in Peticiones, Reenviar(p) PROVE FilaInv'
  BY <1>i, <1>16 DEF Reenviar, TypeOK, Puntos, Respuestas, Exitos, UnSoloDueno, FilaInv
<1>17. CASE Vencer
  BY <1>i, <1>17 DEF Vencer, TypeOK, Puntos, Respuestas, Exitos, UnSoloDueno, FilaInv
<1>18. CASE VencerEnVuelo
  BY <1>i, <1>18 DEF VencerEnVuelo, TypeOK, Puntos, Respuestas, Exitos, UnSoloDueno, FilaInv
<1>19. CASE Purgar
  BY <1>i, <1>19 DEF Purgar, TypeOK, Puntos, Respuestas, Exitos, UnSoloDueno, FilaInv
<1> QED
  BY <1>0, <1>1, <1>2, <1>3, <1>4, <1>5, <1>6, <1>7, <1>8, <1>9,
     <1>10, <1>11, <1>12, <1>13, <1>14, <1>15, <1>16, <1>17, <1>18, <1>19
  DEF Next, Avanzar, Tropezar

\* A commit of the handler stays on record.
LEMMA PasoEfecto == IInv /\ [Next]_vars => EfectoInv'
<1> SUFFICES ASSUME IInv, [Next]_vars PROVE EfectoInv'
  OBVIOUS
<1> USE IdempotenciaAssumption DEF IdempotenciaAssumption, vars, columnas, cliente, cotas, historia, Ir, EnVuelo
<1>i. TypeOK /\ UnSoloDueno /\ FilaInv /\ EfectoInv
  BY DEF IInv
<1>0. CASE UNCHANGED vars
  BY <1>i, <1>0 DEF TypeOK, Puntos, Respuestas, Exitos, UnSoloDueno, FilaInv, EfectoInv
<1>1. ASSUME NEW p \in Peticiones, LeerLibre(p) PROVE EfectoInv'
  BY <1>i, <1>1 DEF LeerLibre, TypeOK, Puntos, Respuestas, Exitos, UnSoloDueno, FilaInv, EfectoInv
<1>2. ASSUME NEW p \in Peticiones, LeerHuerfana(p) PROVE EfectoInv'
  BY <1>i, <1>2 DEF LeerHuerfana, TypeOK, Puntos, Respuestas, Exitos, UnSoloDueno, FilaInv, EfectoInv
<1>3. ASSUME NEW p \in Peticiones, LeerVigente(p) PROVE EfectoInv'
  BY <1>i, <1>3 DEF LeerVigente, Responder, TypeOK, Puntos, Respuestas, Exitos, UnSoloDueno, FilaInv, EfectoInv
<1>4. ASSUME NEW p \in Peticiones, LiberarHuerfana(p) PROVE EfectoInv'
  BY <1>i, <1>4 DEF LiberarHuerfana, Borrar, TypeOK, Puntos, Respuestas, Exitos, UnSoloDueno, FilaInv, EfectoInv
<1>5. ASSUME NEW p \in Peticiones, Reclamar(p) PROVE EfectoInv'
  BY <1>i, <1>5 DEF Reclamar, TypeOK, Puntos, Respuestas, Exitos, UnSoloDueno, FilaInv, EfectoInv
<1>6. ASSUME NEW p \in Peticiones, ReclamoPerdido(p) PROVE EfectoInv'
  BY <1>i, <1>6 DEF ReclamoPerdido, Responder, TypeOK, Puntos, Respuestas, Exitos, UnSoloDueno, FilaInv, EfectoInv
<1>7. ASSUME NEW p \in Peticiones, Ejecutar(p) PROVE EfectoInv'
  BY <1>i, <1>7 DEF Ejecutar, Efecto, TypeOK, Puntos, Respuestas, Exitos, UnSoloDueno, FilaInv, EfectoInv
<1>8. ASSUME NEW p \in Peticiones, FallarEjecucion(p) PROVE EfectoInv'
  BY <1>i, <1>8 DEF FallarEjecucion, Fallo, TypeOK, Puntos, Respuestas, Exitos, UnSoloDueno, FilaInv, EfectoInv
<1>9. ASSUME NEW p \in Peticiones, FallarTrasEfecto(p) PROVE EfectoInv'
  BY <1>i, <1>9 DEF FallarTrasEfecto, Fallo, Efecto, TypeOK, Puntos, Respuestas, Exitos, UnSoloDueno, FilaInv, EfectoInv
<1>10. ASSUME NEW p \in Peticiones, Completar(p) PROVE EfectoInv'
  BY <1>i, <1>10 DEF Completar, Responder, TypeOK, Puntos, Respuestas, Exitos, UnSoloDueno, FilaInv, EfectoInv
<1>11. ASSUME NEW p \in Peticiones, CompletarSinFila(p) PROVE EfectoInv'
  BY <1>i, <1>11 DEF CompletarSinFila, TypeOK, Puntos, Respuestas, Exitos, UnSoloDueno, FilaInv, EfectoInv
<1>12. ASSUME NEW p \in Peticiones, FallarCompletar(p) PROVE EfectoInv'
  BY <1>i, <1>12 DEF FallarCompletar, Fallo, TypeOK, Puntos, Respuestas, Exitos, UnSoloDueno, FilaInv, EfectoInv
<1>13. ASSUME NEW p \in Peticiones, Liberar(p) PROVE EfectoInv'
  BY <1>i, <1>13 DEF Liberar, Borrar, Responder, TypeOK, Puntos, Respuestas, Exitos, UnSoloDueno, FilaInv, EfectoInv
<1>14. ASSUME NEW p \in Peticiones, FallarLiberar(p) PROVE EfectoInv'
  BY <1>i, <1>14 DEF FallarLiberar, Fallo, Responder, TypeOK, Puntos, Respuestas, Exitos, UnSoloDueno, FilaInv, EfectoInv
<1>15. ASSUME NEW p \in Peticiones, Caer(p) PROVE EfectoInv'
  BY <1>i, <1>15 DEF Caer, Fallo, Responder, TypeOK, Puntos, Respuestas, Exitos, UnSoloDueno, FilaInv, EfectoInv
<1>16. ASSUME NEW p \in Peticiones, Reenviar(p) PROVE EfectoInv'
  BY <1>i, <1>16 DEF Reenviar, TypeOK, Puntos, Respuestas, Exitos, UnSoloDueno, FilaInv, EfectoInv
<1>17. CASE Vencer
  BY <1>i, <1>17 DEF Vencer, TypeOK, Puntos, Respuestas, Exitos, UnSoloDueno, FilaInv, EfectoInv
<1>18. CASE VencerEnVuelo
  BY <1>i, <1>18 DEF VencerEnVuelo, TypeOK, Puntos, Respuestas, Exitos, UnSoloDueno, FilaInv, EfectoInv
<1>19. CASE Purgar
  BY <1>i, <1>19 DEF Purgar, TypeOK, Puntos, Respuestas, Exitos, UnSoloDueno, FilaInv, EfectoInv
<1> QED
  BY <1>0, <1>1, <1>2, <1>3, <1>4, <1>5, <1>6, <1>7, <1>8, <1>9,
     <1>10, <1>11, <1>12, <1>13, <1>14, <1>15, <1>16, <1>17, <1>18, <1>19
  DEF Next, Avanzar, Tropezar

\* Every success a client gets is the answer to its own body.
LEMMA PasoRespuesta == IInv /\ [Next]_vars => RespuestaPropia'
<1> SUFFICES ASSUME IInv, [Next]_vars PROVE RespuestaPropia'
  OBVIOUS
<1> USE IdempotenciaAssumption DEF IdempotenciaAssumption, vars, columnas, cliente, cotas, historia, Ir, EnVuelo
<1>i. TypeOK /\ UnSoloDueno /\ FilaInv /\ RespuestaPropia
  BY DEF IInv
<1>0. CASE UNCHANGED vars
  BY <1>i, <1>0 DEF TypeOK, Puntos, Respuestas, Exitos, UnSoloDueno, FilaInv, RespuestaPropia, Vigente
<1>1. ASSUME NEW p \in Peticiones, LeerLibre(p) PROVE RespuestaPropia'
  BY <1>i, <1>1 DEF LeerLibre, TypeOK, Puntos, Respuestas, Exitos, UnSoloDueno, FilaInv, RespuestaPropia, Vigente
<1>2. ASSUME NEW p \in Peticiones, LeerHuerfana(p) PROVE RespuestaPropia'
  BY <1>i, <1>2 DEF LeerHuerfana, TypeOK, Puntos, Respuestas, Exitos, UnSoloDueno, FilaInv, RespuestaPropia, Vigente
<1>3. ASSUME NEW p \in Peticiones, LeerVigente(p) PROVE RespuestaPropia'
  BY <1>i, <1>3 DEF LeerVigente, Responder, TypeOK, Puntos, Respuestas, Exitos, UnSoloDueno, FilaInv, RespuestaPropia, Vigente
<1>4. ASSUME NEW p \in Peticiones, LiberarHuerfana(p) PROVE RespuestaPropia'
  BY <1>i, <1>4 DEF LiberarHuerfana, Borrar, TypeOK, Puntos, Respuestas, Exitos, UnSoloDueno, FilaInv, RespuestaPropia, Vigente
<1>5. ASSUME NEW p \in Peticiones, Reclamar(p) PROVE RespuestaPropia'
  BY <1>i, <1>5 DEF Reclamar, TypeOK, Puntos, Respuestas, Exitos, UnSoloDueno, FilaInv, RespuestaPropia, Vigente
<1>6. ASSUME NEW p \in Peticiones, ReclamoPerdido(p) PROVE RespuestaPropia'
  BY <1>i, <1>6 DEF ReclamoPerdido, Responder, TypeOK, Puntos, Respuestas, Exitos, UnSoloDueno, FilaInv, RespuestaPropia, Vigente
<1>7. ASSUME NEW p \in Peticiones, Ejecutar(p) PROVE RespuestaPropia'
  BY <1>i, <1>7 DEF Ejecutar, Efecto, TypeOK, Puntos, Respuestas, Exitos, UnSoloDueno, FilaInv, RespuestaPropia, Vigente
<1>8. ASSUME NEW p \in Peticiones, FallarEjecucion(p) PROVE RespuestaPropia'
  BY <1>i, <1>8 DEF FallarEjecucion, Fallo, TypeOK, Puntos, Respuestas, Exitos, UnSoloDueno, FilaInv, RespuestaPropia, Vigente
<1>9. ASSUME NEW p \in Peticiones, FallarTrasEfecto(p) PROVE RespuestaPropia'
  BY <1>i, <1>9 DEF FallarTrasEfecto, Fallo, Efecto, TypeOK, Puntos, Respuestas, Exitos, UnSoloDueno, FilaInv, RespuestaPropia, Vigente
<1>10. ASSUME NEW p \in Peticiones, Completar(p) PROVE RespuestaPropia'
  BY <1>i, <1>10 DEF Completar, Responder, TypeOK, Puntos, Respuestas, Exitos, UnSoloDueno, FilaInv, RespuestaPropia, Vigente
<1>11. ASSUME NEW p \in Peticiones, CompletarSinFila(p) PROVE RespuestaPropia'
  BY <1>i, <1>11 DEF CompletarSinFila, TypeOK, Puntos, Respuestas, Exitos, UnSoloDueno, FilaInv, RespuestaPropia, Vigente
<1>12. ASSUME NEW p \in Peticiones, FallarCompletar(p) PROVE RespuestaPropia'
  BY <1>i, <1>12 DEF FallarCompletar, Fallo, TypeOK, Puntos, Respuestas, Exitos, UnSoloDueno, FilaInv, RespuestaPropia, Vigente
<1>13. ASSUME NEW p \in Peticiones, Liberar(p) PROVE RespuestaPropia'
  BY <1>i, <1>13 DEF Liberar, Borrar, Responder, TypeOK, Puntos, Respuestas, Exitos, UnSoloDueno, FilaInv, RespuestaPropia, Vigente
<1>14. ASSUME NEW p \in Peticiones, FallarLiberar(p) PROVE RespuestaPropia'
  BY <1>i, <1>14 DEF FallarLiberar, Fallo, Responder, TypeOK, Puntos, Respuestas, Exitos, UnSoloDueno, FilaInv, RespuestaPropia, Vigente
<1>15. ASSUME NEW p \in Peticiones, Caer(p) PROVE RespuestaPropia'
  BY <1>i, <1>15 DEF Caer, Fallo, Responder, TypeOK, Puntos, Respuestas, Exitos, UnSoloDueno, FilaInv, RespuestaPropia, Vigente
<1>16. ASSUME NEW p \in Peticiones, Reenviar(p) PROVE RespuestaPropia'
  BY <1>i, <1>16 DEF Reenviar, TypeOK, Puntos, Respuestas, Exitos, UnSoloDueno, FilaInv, RespuestaPropia, Vigente
<1>17. CASE Vencer
  BY <1>i, <1>17 DEF Vencer, TypeOK, Puntos, Respuestas, Exitos, UnSoloDueno, FilaInv, RespuestaPropia, Vigente
<1>18. CASE VencerEnVuelo
  BY <1>i, <1>18 DEF VencerEnVuelo, TypeOK, Puntos, Respuestas, Exitos, UnSoloDueno, FilaInv, RespuestaPropia, Vigente
<1>19. CASE Purgar
  BY <1>i, <1>19 DEF Purgar, TypeOK, Puntos, Respuestas, Exitos, UnSoloDueno, FilaInv, RespuestaPropia, Vigente
<1> QED
  BY <1>0, <1>1, <1>2, <1>3, <1>4, <1>5, <1>6, <1>7, <1>8, <1>9,
     <1>10, <1>11, <1>12, <1>13, <1>14, <1>15, <1>16, <1>17, <1>18, <1>19
  DEF Next, Avanzar, Tropezar

\* The inductive invariant, for every instance.
THEOREM Invariante == Spec => []IInv
<1>1. IInv /\ [Next]_vars => IInv'
  BY PasoTypeOK, PasoUnSoloDueno, PasoFila, PasoEfecto, PasoRespuesta DEF IInv
<1> QED
  BY <1>1, InicioIInv, PTL DEF Spec

\* Type correctness of the interceptor's model.
THEOREM Tipos == Spec => []TypeOK
<1>1. IInv => TypeOK
  BY DEF IInv
<1> QED
  BY <1>1, Invariante, PTL

\* Unless a valid claim is deleted by another request, one request at a time
\* executes its handler, and the row is its own.
THEOREM Exclusion == Spec => []UnSoloDueno
<1>1. IInv => UnSoloDueno
  BY DEF IInv
<1> QED
  BY <1>1, Invariante, PTL

\* A second execution of a key has one of three causes: an unrecorded commit, a
\* valid claim deleted by another request, or the end of the retention.
THEOREM EjecucionUnica == Spec => []DobleEjecucionConCausa
<1>1. IInv => DobleEjecucionConCausa
  BY DEF IInv, TypeOK, EfectoInv, DobleEjecucionConCausa
<1> QED
  BY <1>1, Invariante, PTL

\* No request gets the stored answer to another body.
THEOREM Respuestas_Propias == Spec => []RespuestaPropia
<1>1. IInv => RespuestaPropia
  BY DEF IInv
<1> QED
  BY <1>1, Invariante, PTL

\* What the action property HechaEsFinal says of a step.
Conserva ==
  fila = "hecha" => \/ fila' = "hecha" /\ hash' = hash /\ resultado' = resultado
                    \/ purgada' \/ ajena'

\* A stored answer stays until the retention ends or another request deletes it.
THEOREM Final == Spec => HechaEsFinal
<1>1. IInv /\ [Next]_vars => Conserva
  <2> SUFFICES ASSUME IInv, [Next]_vars PROVE Conserva
    OBVIOUS
  <2> USE IdempotenciaAssumption DEF IdempotenciaAssumption, vars, columnas, cliente, cotas, historia, Ir, EnVuelo
  <2>i. TypeOK /\ UnSoloDueno /\ FilaInv
    BY DEF IInv
  <2>0. CASE UNCHANGED vars
    BY <2>i, <2>0 DEF TypeOK, Puntos, Respuestas, Exitos, Conserva, UnSoloDueno, FilaInv
  <2>1. ASSUME NEW p \in Peticiones, LeerLibre(p) PROVE Conserva
    BY <2>i, <2>1 DEF LeerLibre, TypeOK, Puntos, Respuestas, Exitos, Conserva, UnSoloDueno, FilaInv
  <2>2. ASSUME NEW p \in Peticiones, LeerHuerfana(p) PROVE Conserva
    BY <2>i, <2>2 DEF LeerHuerfana, TypeOK, Puntos, Respuestas, Exitos, Conserva, UnSoloDueno, FilaInv
  <2>3. ASSUME NEW p \in Peticiones, LeerVigente(p) PROVE Conserva
    BY <2>i, <2>3 DEF LeerVigente, Responder, TypeOK, Puntos, Respuestas, Exitos, Conserva, UnSoloDueno, FilaInv
  <2>4. ASSUME NEW p \in Peticiones, LiberarHuerfana(p) PROVE Conserva
    BY <2>i, <2>4 DEF LiberarHuerfana, Borrar, TypeOK, Puntos, Respuestas, Exitos, Conserva, UnSoloDueno, FilaInv
  <2>5. ASSUME NEW p \in Peticiones, Reclamar(p) PROVE Conserva
    BY <2>i, <2>5 DEF Reclamar, TypeOK, Puntos, Respuestas, Exitos, Conserva, UnSoloDueno, FilaInv
  <2>6. ASSUME NEW p \in Peticiones, ReclamoPerdido(p) PROVE Conserva
    BY <2>i, <2>6 DEF ReclamoPerdido, Responder, TypeOK, Puntos, Respuestas, Exitos, Conserva, UnSoloDueno, FilaInv
  <2>7. ASSUME NEW p \in Peticiones, Ejecutar(p) PROVE Conserva
    BY <2>i, <2>7 DEF Ejecutar, Efecto, TypeOK, Puntos, Respuestas, Exitos, Conserva, UnSoloDueno, FilaInv
  <2>8. ASSUME NEW p \in Peticiones, FallarEjecucion(p) PROVE Conserva
    BY <2>i, <2>8 DEF FallarEjecucion, Fallo, TypeOK, Puntos, Respuestas, Exitos, Conserva, UnSoloDueno, FilaInv
  <2>9. ASSUME NEW p \in Peticiones, FallarTrasEfecto(p) PROVE Conserva
    BY <2>i, <2>9 DEF FallarTrasEfecto, Fallo, Efecto, TypeOK, Puntos, Respuestas, Exitos, Conserva, UnSoloDueno, FilaInv
  <2>10. ASSUME NEW p \in Peticiones, Completar(p) PROVE Conserva
    BY <2>i, <2>10 DEF Completar, Responder, TypeOK, Puntos, Respuestas, Exitos, Conserva, UnSoloDueno, FilaInv
  <2>11. ASSUME NEW p \in Peticiones, CompletarSinFila(p) PROVE Conserva
    BY <2>i, <2>11 DEF CompletarSinFila, TypeOK, Puntos, Respuestas, Exitos, Conserva, UnSoloDueno, FilaInv
  <2>12. ASSUME NEW p \in Peticiones, FallarCompletar(p) PROVE Conserva
    BY <2>i, <2>12 DEF FallarCompletar, Fallo, TypeOK, Puntos, Respuestas, Exitos, Conserva, UnSoloDueno, FilaInv
  <2>13. ASSUME NEW p \in Peticiones, Liberar(p) PROVE Conserva
    BY <2>i, <2>13 DEF Liberar, Borrar, Responder, TypeOK, Puntos, Respuestas, Exitos, Conserva, UnSoloDueno, FilaInv
  <2>14. ASSUME NEW p \in Peticiones, FallarLiberar(p) PROVE Conserva
    BY <2>i, <2>14 DEF FallarLiberar, Fallo, Responder, TypeOK, Puntos, Respuestas, Exitos, Conserva, UnSoloDueno, FilaInv
  <2>15. ASSUME NEW p \in Peticiones, Caer(p) PROVE Conserva
    BY <2>i, <2>15 DEF Caer, Fallo, Responder, TypeOK, Puntos, Respuestas, Exitos, Conserva, UnSoloDueno, FilaInv
  <2>16. ASSUME NEW p \in Peticiones, Reenviar(p) PROVE Conserva
    BY <2>i, <2>16 DEF Reenviar, TypeOK, Puntos, Respuestas, Exitos, Conserva, UnSoloDueno, FilaInv
  <2>17. CASE Vencer
    BY <2>i, <2>17 DEF Vencer, TypeOK, Puntos, Respuestas, Exitos, Conserva, UnSoloDueno, FilaInv
  <2>18. CASE VencerEnVuelo
    BY <2>i, <2>18 DEF VencerEnVuelo, TypeOK, Puntos, Respuestas, Exitos, Conserva, UnSoloDueno, FilaInv
  <2>19. CASE Purgar
    BY <2>i, <2>19 DEF Purgar, TypeOK, Puntos, Respuestas, Exitos, Conserva, UnSoloDueno, FilaInv
  <2> QED
    BY <2>0, <2>1, <2>2, <2>3, <2>4, <2>5, <2>6, <2>7, <2>8, <2>9,
       <2>10, <2>11, <2>12, <2>13, <2>14, <2>15, <2>16, <2>17, <2>18, <2>19
    DEF Next, Avanzar, Tropezar
<1>2. IInv /\ [Next]_vars => [Conserva]_vars
  BY <1>1
<1> QED
  BY <1>2, Invariante, PTL DEF Spec, HechaEsFinal, Conserva
=============================================================================
