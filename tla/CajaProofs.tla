------------------------------ MODULE CajaProofs -----------------------------
(***************************************************************************)
(* Proofs about the till of servicio-caja: its shifts and their closes,    *)
(* for any number of shifts, movements and people who close them, and the  *)
(* payments of a bill, for any payments, amounts and discounts.            *)
(***************************************************************************)
EXTENDS TurnosProps, CajaProps, FiniteSetTheorems, TLAPS

(* The shifts *)

\* The parts of the inductive invariant, by name.
LEMMA PartesDeTurnos ==
  TurnosIInv <=> /\ TurnosTypeOK /\ UnaCaja /\ TurnoDeCada /\ UltimoEvento
                 /\ MeserosComoDicho /\ RezagadosAnotados /\ CuentasVigentes
  BY DEF TurnosIInv

\* At the start no shift is open and nothing has been added up.
LEMMA InicioTurnos == TurnosInit => TurnosIInv
<1> SUFFICES ASSUME TurnosInit PROVE TurnosIInv
  OBVIOUS
<1>1. TurnosTypeOK
  <2>1. \A m \in Movimientos : (m \in Manuales) \in BOOLEAN
    OBVIOUS
  <2>2. movimiento \in [Movimientos -> FilasDeMovimiento]
    BY <2>1, Zenon DEF TurnosInit, FilasDeMovimiento
  <2>3. /\ cerrando \in [Cajeros -> [turno : Turnos \cup {Ninguno},
                                    contados : SUBSET Movimientos]]
        /\ cierreCaja \in [Turnos -> [hecho : BOOLEAN, contados : SUBSET Movimientos]]
    BY DEF TurnosInit, Quieto
  <2>4. publicados \in Seq(BOOLEAN) /\ ultimo \in 0..Len(publicados)
    BY DEF TurnosInit
  <2> QED
    BY <2>2, <2>3, <2>4 DEF TurnosInit, TurnosTypeOK
<1>2. UnaCaja /\ TurnoDeCada /\ UltimoEvento /\ MeserosComoDicho /\ RezagadosAnotados
  BY DEF TurnosInit, UnaCaja, TurnoDeCada, UltimoEvento, MeserosComoDicho,
         RezagadosAnotados, Abiertos, Quieto
<1>3. CuentasVigentes
  BY DEF TurnosInit, CuentasVigentes, Quieto
<1> QED
  BY <1>1, <1>2, <1>3, PartesDeTurnos

\* What was added up stays right when no count changes and the only movements
\* whose part in a counted shift changes are noted as late or corrected.
LEMMA CuentasSiguen ==
  ASSUME CuentasVigentes, TurnoDeCada,
         rezagados \subseteq rezagados', corregidos \subseteq corregidos',
         \A k \in Cajeros : cerrando'[k] # Quieto => cerrando'[k] = cerrando[k],
         cierreCaja' = cierreCaja,
         \A m \in Movimientos \ (rezagados' \cup corregidos'), t \in Turnos :
           Contandose(t) \/ cierreCaja[t].hecho =>
             (m \in EfectivoEsperado(t)' <=> m \in EfectivoEsperado(t))
  PROVE  CuentasVigentes'
<1>1. ASSUME NEW k \in Cajeros, cerrando'[k] # Quieto
      PROVE  Coinciden(cerrando[k].contados, cerrando[k].turno)'
  <2>1. PICK c, t : c = cerrando[k].contados /\ t = cerrando[k].turno
    OBVIOUS
  <2>2. cerrando'[k] = cerrando[k] /\ cerrando[k] # Quieto
    BY <1>1
  <2>3. t \in Turnos /\ Contandose(t) /\ Coinciden(c, t)
    BY <2>1, <2>2 DEF TurnoDeCada, Contandose, CuentasVigentes
  <2>4. \A m \in Movimientos \ (rezagados' \cup corregidos') :
          m \in c <=> m \in EfectivoEsperado(t)'
    BY <2>3 DEF Coinciden
  <2>5. c = cerrando'[k].contados /\ t = cerrando'[k].turno
    BY <2>1, <2>2
  <2> QED
    BY <2>4, <2>5 DEF Coinciden, EfectivoEsperado
<1>2. ASSUME NEW t \in Turnos, cierreCaja'[t].hecho
      PROVE  Coinciden(cierreCaja[t].contados, t)'
  <2>1. PICK c : c = cierreCaja[t].contados
    OBVIOUS
  <2>2. cierreCaja[t].hecho /\ Coinciden(c, t)
    BY <1>2, <2>1 DEF CuentasVigentes
  <2>3. \A m \in Movimientos \ (rezagados' \cup corregidos') :
          m \in c <=> m \in EfectivoEsperado(t)'
    BY <2>2 DEF Coinciden
  <2> QED
    BY <2>1, <2>3 DEF Coinciden
<1> QED
  BY <1>1, <1>2 DEF CuentasVigentes

\* A new event keeps what the last one that was handled says.
LEMMA NuevoEvento ==
  ASSUME TurnosTypeOK, MeserosComoDicho, UNCHANGED identidad,
         NEW abre \in BOOLEAN, publicados' = Append(publicados, abre)
  PROVE  /\ publicados' \in Seq(BOOLEAN) /\ ultimo' \in 0..Len(publicados')
         /\ MeserosComoDicho'
         /\ publicados' # <<>> /\ publicados'[Len(publicados')] = abre
<1>1. publicados \in Seq(BOOLEAN) /\ ultimo \in 0..Len(publicados)
  BY DEF TurnosTypeOK
<1>2. /\ Len(publicados') = Len(publicados) + 1 /\ publicados' \in Seq(BOOLEAN)
      /\ publicados'[Len(publicados) + 1] = abre
      /\ \A i \in 1..Len(publicados) : publicados'[i] = publicados[i]
  BY <1>1
<1>3. ultimo' = ultimo /\ meseros' = meseros /\ aMano' = aMano
  BY DEF identidad
<1>4. ultimo > 0 => publicados'[ultimo] = publicados[ultimo]
  BY <1>1, <1>2
<1>5. MeserosComoDicho'
  BY <1>3, <1>4 DEF MeserosComoDicho
<1>6. ultimo' \in 0..Len(publicados')
  BY <1>1, <1>2, <1>3
<1> QED
  BY <1>1, <1>2, <1>5, <1>6
\* What the steps of the till and of the waiters do to the shifts, action by
\* action: a count and a close take down what they leave behind.
LEMMA PasoTurnos == TurnosIInv /\ [TurnosNext]_turnosVars => TurnosIInv'
<1> SUFFICES ASSUME TurnosIInv, [TurnosNext]_turnosVars PROVE TurnosIInv'
  OBVIOUS
<1>i. /\ TurnosTypeOK /\ UnaCaja /\ TurnoDeCada /\ UltimoEvento
      /\ MeserosComoDicho /\ RezagadosAnotados /\ CuentasVigentes
  BY PartesDeTurnos
<1>s. 0 \notin Turnos
  BY TurnosAssumption DEF TurnosAssumption
<1> USE DEF arca, identidad, salvedades
<1>0. CASE UNCHANGED turnosVars
  BY <1>i, <1>0 DEF turnosVars, TurnosIInv, TurnosTypeOK, UnaCaja, TurnoDeCada, UltimoEvento,
     MeserosComoDicho, RezagadosAnotados, CuentasVigentes, Coinciden, EfectivoEsperado, Abiertos
<1>1. ASSUME NEW t \in Turnos, AbrirCaja(t) PROVE TurnosIInv'
  <2>1. /\ Abiertos = {} /\ turno[t] = "NO"
        /\ turno' = [turno EXCEPT ![t] = "ABIERTA"]
        /\ publicados' = Append(publicados, TRUE)
        /\ UNCHANGED <<movimiento, cierreCaja, cerrando, identidad, salvedades>>
    BY <1>1 DEF AbrirCaja
  <2>2. /\ turno'[t] = "ABIERTA" /\ \A u \in Turnos \ {t} : turno'[u] = turno[u]
        /\ turno' \in [Turnos -> {"NO", "ABIERTA", "CERRADA"}]
    BY <1>i, <2>1 DEF TurnosTypeOK
  <2>3. /\ publicados' \in Seq(BOOLEAN) /\ ultimo' \in 0..Len(publicados')
        /\ MeserosComoDicho' /\ publicados' # <<>> /\ publicados'[Len(publicados')] = TRUE
    BY <1>i, <2>1, NuevoEvento
  <2>4. TurnosTypeOK'
    BY <1>i, <2>1, <2>2, <2>3 DEF TurnosTypeOK
  <2>5. Abiertos' = {t}
    BY <2>1, <2>2 DEF Abiertos
  <2>6. UnaCaja'
    BY <1>i, <2>1, <2>2, <2>5 DEF UnaCaja
  <2>7. TurnoDeCada'
    BY <1>i, <2>1, <2>2 DEF TurnoDeCada
  <2>8. UltimoEvento'
    BY <2>3, <2>5 DEF UltimoEvento
  <2>9. RezagadosAnotados'
    BY <1>i, <2>1, <2>2 DEF RezagadosAnotados, TurnoDeCada
  <2>10. CuentasVigentes'
    BY <1>i, <2>1, CuentasSiguen DEF EfectivoEsperado
  <2> QED
    BY <2>3, <2>4, <2>6, <2>7, <2>8, <2>9, <2>10 DEF TurnosIInv
<1>2. ASSUME NEW m \in Movimientos, NEW t \in Turnos, LeerTurno(m, t) PROVE TurnosIInv'
  <2>1. /\ movimiento[m].etapa = "NO" /\ turno[t] = "ABIERTA"
        /\ movimiento' = [movimiento EXCEPT ![m].etapa = "LEIDO", ![m].turno = t]
        /\ UNCHANGED <<turno, cierreCaja, cerrando, publicados, identidad, salvedades>>
    BY <1>2 DEF LeerTurno
  <2>2. /\ movimiento'[m].etapa = "LEIDO" /\ movimiento'[m].turno = t
        /\ \A n \in Movimientos \ {m} : movimiento'[n] = movimiento[n]
    BY <1>i, <2>1 DEF TurnosTypeOK
  <2>fila. movimiento' \in [Movimientos -> FilasDeMovimiento]
    <3>1. movimiento \in [Movimientos -> FilasDeMovimiento]
      BY <1>i DEF TurnosTypeOK
    <3>2. movimiento'[m] = [movimiento[m] EXCEPT !.etapa = "LEIDO", !.turno = t]
      BY <2>1, <3>1
    <3>3. movimiento[m] \in FilasDeMovimiento
      BY <3>1
    <3>4. movimiento'[m] \in FilasDeMovimiento
      BY ONLY <3>2, <3>3, t \in Turnos DEF FilasDeMovimiento
    <3> QED
      BY <2>1, <3>1, <3>4
  <2>3. \A u \in Turnos : EfectivoEsperado(u)' = EfectivoEsperado(u)
    BY <2>1, <2>2 DEF EfectivoEsperado
  <2>4. CuentasVigentes'
    BY <1>i, <2>1, <2>3, CuentasSiguen
  <2>5. TurnosTypeOK'
    BY <1>i, <2>1, <2>2, <2>fila DEF TurnosTypeOK
  <2>6. TurnoDeCada' /\ RezagadosAnotados'
    BY <1>i, <2>1, <2>2 DEF TurnoDeCada, RezagadosAnotados
  <2>7. UnaCaja' /\ UltimoEvento' /\ MeserosComoDicho'
    BY <1>i, <2>1 DEF UnaCaja, UltimoEvento, MeserosComoDicho, Abiertos
  <2> QED
    BY <2>4, <2>5, <2>6, <2>7 DEF TurnosIInv
<1>3. ASSUME NEW m \in Movimientos, NEW efectivo \in BOOLEAN, Asentar(m, efectivo)
      PROVE  TurnosIInv'
  <2>1. /\ movimiento[m].etapa = "LEIDO"
        /\ movimiento' = [movimiento EXCEPT ![m].etapa = "HECHO", ![m].efectivo = efectivo]
        /\ rezagados' = IF Contandose(movimiento[m].turno) THEN rezagados \cup {m}
                        ELSE rezagados
        /\ UNCHANGED <<turno, cierreCaja, cerrando, publicados, identidad, corregidos>>
    BY <1>3 DEF Asentar
  <2>2. /\ movimiento'[m].etapa = "HECHO" /\ movimiento'[m].turno = movimiento[m].turno
        /\ \A n \in Movimientos \ {m} : movimiento'[n] = movimiento[n]
    BY <1>i, <2>1 DEF TurnosTypeOK
  <2>fila. movimiento' \in [Movimientos -> FilasDeMovimiento]
    <3>1. movimiento \in [Movimientos -> FilasDeMovimiento]
      BY <1>i DEF TurnosTypeOK
    <3>2. movimiento'[m] = [movimiento[m] EXCEPT !.etapa = "HECHO", !.efectivo = efectivo]
      BY <2>1, <3>1
    <3>3. movimiento[m] \in FilasDeMovimiento
      BY <3>1
    <3>4. movimiento'[m] \in FilasDeMovimiento
      BY ONLY <3>2, <3>3, efectivo \in BOOLEAN DEF FilasDeMovimiento
    <3> QED
      BY <2>1, <3>1, <3>4
  <2>3. rezagados \subseteq rezagados' /\ rezagados' \subseteq Movimientos
    BY <1>i, <2>1 DEF TurnosTypeOK
  <2>4. ASSUME NEW u \in Turnos, Contandose(u) \/ cierreCaja[u].hecho,
               NEW n \in Movimientos \ (rezagados' \cup corregidos')
        PROVE  n \in EfectivoEsperado(u)' <=> n \in EfectivoEsperado(u)
    <3>1. CASE n = m /\ movimiento[m].turno = u
      <4>1. ~Contandose(u)
        BY <2>1, <2>4, <3>1
      <4>2. turno[u] = "CERRADA"
        BY <1>i, <2>4, <4>1 DEF UnaCaja
      <4>3. m \in rezagados
        BY <1>i, <2>1, <3>1, <4>2 DEF RezagadosAnotados
      <4> QED
        BY <2>3, <2>4, <3>1, <4>3
    <3>2. CASE n = m /\ movimiento[m].turno # u
      BY <2>2, <3>2 DEF EfectivoEsperado
    <3>3. CASE n # m
      BY <2>2, <3>3 DEF EfectivoEsperado
    <3> QED
      BY <3>1, <3>2, <3>3
  <2>5. CuentasVigentes'
    BY <1>i, <2>1, <2>3, <2>4, CuentasSiguen
  <2>6. TurnosTypeOK'
    BY <1>i, <2>1, <2>2, <2>fila, <2>3 DEF TurnosTypeOK
  <2>7. TurnoDeCada' /\ RezagadosAnotados'
    BY <1>i, <2>1, <2>2, <2>3 DEF TurnoDeCada, RezagadosAnotados
  <2>8. UnaCaja' /\ UltimoEvento' /\ MeserosComoDicho'
    BY <1>i, <2>1 DEF UnaCaja, UltimoEvento, MeserosComoDicho, Abiertos
  <2> QED
    BY <2>5, <2>6, <2>7, <2>8 DEF TurnosIInv
<1>4. ASSUME NEW m \in Movimientos, Desistir(m) PROVE TurnosIInv'
  <2>1. /\ movimiento[m].etapa = "LEIDO"
        /\ movimiento' = [movimiento EXCEPT ![m].etapa = "NO", ![m].turno = Ninguno]
        /\ UNCHANGED <<turno, cierreCaja, cerrando, publicados, identidad, salvedades>>
    BY <1>4 DEF Desistir
  <2>2. /\ movimiento'[m].etapa = "NO"
        /\ \A n \in Movimientos \ {m} : movimiento'[n] = movimiento[n]
    BY <1>i, <2>1 DEF TurnosTypeOK
  <2>fila. movimiento' \in [Movimientos -> FilasDeMovimiento]
    <3>1. movimiento \in [Movimientos -> FilasDeMovimiento]
      BY <1>i DEF TurnosTypeOK
    <3>2. movimiento'[m] = [movimiento[m] EXCEPT !.etapa = "NO", !.turno = Ninguno]
      BY <2>1, <3>1
    <3>3. movimiento[m] \in FilasDeMovimiento
      BY <3>1
    <3>4. movimiento'[m] \in FilasDeMovimiento
      BY ONLY <3>2, <3>3 DEF FilasDeMovimiento, Ninguno
    <3> QED
      BY <2>1, <3>1, <3>4
  <2>3. \A u \in Turnos : EfectivoEsperado(u)' = EfectivoEsperado(u)
    BY <2>1, <2>2 DEF EfectivoEsperado
  <2>4. CuentasVigentes'
    BY <1>i, <2>1, <2>3, CuentasSiguen
  <2>5. TurnosTypeOK'
    BY <1>i, <2>1, <2>2, <2>fila DEF TurnosTypeOK
  <2>6. TurnoDeCada' /\ RezagadosAnotados'
    BY <1>i, <2>1, <2>2 DEF TurnoDeCada, RezagadosAnotados
  <2>7. UnaCaja' /\ UltimoEvento' /\ MeserosComoDicho'
    BY <1>i, <2>1 DEF UnaCaja, UltimoEvento, MeserosComoDicho, Abiertos
  <2> QED
    BY <2>4, <2>5, <2>6, <2>7 DEF TurnosIInv
<1>5. ASSUME NEW m \in Movimientos, CambiarMetodo(m) PROVE TurnosIInv'
  <2> DEFINE t == movimiento[m].turno
  <2>1. /\ m \notin Manuales /\ movimiento[m].etapa = "HECHO"
        /\ movimiento' = [movimiento EXCEPT ![m].efectivo = ~@]
        /\ corregidos' = IF Contandose(t) \/ turno[t] = "CERRADA"
                         THEN corregidos \cup {m} ELSE corregidos
        /\ UNCHANGED <<turno, cierreCaja, cerrando, publicados, identidad, rezagados>>
    BY <1>5 DEF CambiarMetodo
  <2>2. /\ movimiento'[m].etapa = "HECHO" /\ movimiento'[m].turno = movimiento[m].turno
        /\ \A n \in Movimientos \ {m} : movimiento'[n] = movimiento[n]
    BY <1>i, <2>1 DEF TurnosTypeOK
  <2>fila. movimiento' \in [Movimientos -> FilasDeMovimiento]
    <3>1. movimiento \in [Movimientos -> FilasDeMovimiento]
      BY <1>i DEF TurnosTypeOK
    <3>2. movimiento'[m] = [movimiento[m] EXCEPT !.efectivo = ~@]
      BY <2>1, <3>1
    <3>3. movimiento[m] \in FilasDeMovimiento
      BY <3>1
    <3>4. movimiento'[m] \in FilasDeMovimiento
      BY ONLY <3>2, <3>3 DEF FilasDeMovimiento
    <3> QED
      BY <2>1, <3>1, <3>4
  <2>3. corregidos \subseteq corregidos' /\ corregidos' \subseteq Movimientos \ Manuales
    BY <1>i, <2>1 DEF TurnosTypeOK
  <2>4. ASSUME NEW u \in Turnos, Contandose(u) \/ cierreCaja[u].hecho,
               NEW n \in Movimientos \ (rezagados' \cup corregidos')
        PROVE  n \in EfectivoEsperado(u)' <=> n \in EfectivoEsperado(u)
    <3>1. CASE n = m /\ movimiento[m].turno = u
      <4>1. Contandose(u) \/ turno[u] = "CERRADA"
        BY <1>i, <2>4 DEF UnaCaja
      <4> QED
        BY <2>1, <2>4, <3>1, <4>1
    <3>2. CASE n = m /\ movimiento[m].turno # u
      BY <2>2, <3>2 DEF EfectivoEsperado
    <3>3. CASE n # m
      BY <2>2, <3>3 DEF EfectivoEsperado
    <3> QED
      BY <3>1, <3>2, <3>3
  <2>5. CuentasVigentes'
    BY <1>i, <2>1, <2>3, <2>4, CuentasSiguen
  <2>6. TurnosTypeOK'
    BY <1>i, <2>1, <2>2, <2>fila, <2>3 DEF TurnosTypeOK
  <2>7. TurnoDeCada' /\ RezagadosAnotados'
    BY <1>i, <2>1, <2>2 DEF TurnoDeCada, RezagadosAnotados
  <2>8. UnaCaja' /\ UltimoEvento' /\ MeserosComoDicho'
    BY <1>i, <2>1 DEF UnaCaja, UltimoEvento, MeserosComoDicho, Abiertos
  <2> QED
    BY <2>5, <2>6, <2>7, <2>8 DEF TurnosIInv
<1>6. ASSUME NEW k \in Cajeros, NEW t \in Turnos, ContarTurno(k, t) PROVE TurnosIInv'
  <2>0. PICK c : c = EfectivoEsperado(t)
    OBVIOUS
  <2>1. /\ cerrando[k] = Quieto /\ turno[t] = "ABIERTA"
        /\ cerrando' = [cerrando EXCEPT ![k] = [turno |-> t, contados |-> c]]
        /\ UNCHANGED <<arca, publicados, identidad, salvedades>>
    BY <1>6, <2>0 DEF ContarTurno
  <2>2. /\ cerrando'[k] = [turno |-> t, contados |-> c]
        /\ \A j \in Cajeros \ {k} : cerrando'[j] = cerrando[j]
    BY <1>i, <2>1 DEF TurnosTypeOK
  <2>3. TurnosTypeOK'
    BY <1>i, <2>0, <2>1 DEF TurnosTypeOK, EfectivoEsperado
  <2>4. TurnoDeCada'
    BY <1>i, <2>1, <2>2 DEF TurnoDeCada
  <2>5. CuentasVigentes'
    <3>1. \A u \in Turnos : EfectivoEsperado(u)' = EfectivoEsperado(u)
      BY <2>1 DEF EfectivoEsperado
    <3>2. ASSUME NEW j \in Cajeros, cerrando'[j] # Quieto
          PROVE  Coinciden(cerrando[j].contados, cerrando[j].turno)'
      <4>1. CASE j = k
        <5>1. cerrando'[j].contados = c /\ cerrando'[j].turno = t
          BY <2>2, <4>1
        <5>2. c = EfectivoEsperado(t)'
          BY <2>0, <3>1
        <5> QED
          BY <5>1, <5>2 DEF Coinciden, EfectivoEsperado
      <4>2. CASE j # k
        <5>1. cerrando'[j] = cerrando[j]
          BY <2>2, <4>2
        <5>2. Coinciden(cerrando[j].contados, cerrando[j].turno)
          BY <1>i, <3>2, <5>1 DEF CuentasVigentes
        <5> QED
          BY <2>1, <5>1, <5>2 DEF Coinciden, EfectivoEsperado
      <4> QED
        BY <4>1, <4>2
    <3>3. \A u \in Turnos : cierreCaja'[u].hecho => Coinciden(cierreCaja[u].contados, u)'
      BY <1>i, <2>1 DEF CuentasVigentes, Coinciden, EfectivoEsperado
    <3> QED
      BY <3>2, <3>3 DEF CuentasVigentes
  <2>6. UnaCaja' /\ UltimoEvento' /\ MeserosComoDicho' /\ RezagadosAnotados'
    BY <1>i, <2>1 DEF UnaCaja, UltimoEvento, MeserosComoDicho, RezagadosAnotados, Abiertos
  <2> QED
    BY <2>3, <2>4, <2>5, <2>6 DEF TurnosIInv
<1>7. ASSUME NEW k \in Cajeros, CerrarCaja(k) PROVE TurnosIInv'
  <2>0. PICK c, t : cerrando[k].contados = c /\ cerrando[k].turno = t
    OBVIOUS
  <2>1. /\ cerrando[k] # Quieto /\ ~cierreCaja[t].hecho
        /\ cierreCaja' = [cierreCaja EXCEPT ![t] = [hecho |-> TRUE, contados |-> c]]
        /\ turno' = [turno EXCEPT ![t] = "CERRADA"]
        /\ publicados' = Append(publicados, FALSE)
        /\ cerrando' = [cerrando EXCEPT ![k] = Quieto]
        /\ rezagados' = rezagados \cup {m \in Movimientos :
             movimiento[m].etapa = "LEIDO" /\ movimiento[m].turno = t}
        /\ UNCHANGED <<movimiento, identidad, corregidos>>
    BY <1>7, <2>0 DEF CerrarCaja, Cerrar
  <2>2. t \in Turnos /\ turno[t] = "ABIERTA"
    BY <1>i, <2>0, <2>1 DEF TurnosTypeOK, TurnoDeCada, UnaCaja
  <2>3. /\ turno'[t] = "CERRADA" /\ \A u \in Turnos \ {t} : turno'[u] = turno[u]
        /\ turno' \in [Turnos -> {"NO", "ABIERTA", "CERRADA"}]
    BY <1>i, <2>1, <2>2 DEF TurnosTypeOK
  <2>4. /\ cierreCaja'[t] = [hecho |-> TRUE, contados |-> c]
        /\ \A u \in Turnos \ {t} : cierreCaja'[u] = cierreCaja[u]
    BY <1>i, <2>1, <2>2 DEF TurnosTypeOK
  <2>5. /\ publicados' \in Seq(BOOLEAN) /\ ultimo' \in 0..Len(publicados')
        /\ MeserosComoDicho' /\ publicados' # <<>> /\ publicados'[Len(publicados')] = FALSE
    BY <1>i, <2>1, NuevoEvento
  <2>6. Abiertos' = {}
    BY <1>i, <2>2, <2>3 DEF UnaCaja, Abiertos
  <2>7. TurnosTypeOK'
    <3>1. c \in SUBSET Movimientos
      BY <1>i, <2>0 DEF TurnosTypeOK
    <3>2. cierreCaja' \in [Turnos -> [hecho : BOOLEAN, contados : SUBSET Movimientos]]
      BY <1>i, <2>1, <2>2, <3>1 DEF TurnosTypeOK
    <3>3. cerrando' \in [Cajeros -> [turno : Turnos \cup {Ninguno},
                                     contados : SUBSET Movimientos]]
      BY <1>i, <2>1 DEF TurnosTypeOK, Quieto
    <3> QED
      BY <1>i, <2>1, <2>3, <2>5, <3>2, <3>3 DEF TurnosTypeOK
  <2>8. UnaCaja' /\ UltimoEvento'
    BY <1>i, <2>3, <2>4, <2>5, <2>6 DEF UnaCaja, UltimoEvento
  <2>9. \A j \in Cajeros : cerrando'[j] # Quieto => cerrando'[j] = cerrando[j]
    BY <1>i, <2>1 DEF TurnosTypeOK
  <2>10. TurnoDeCada'
    BY <1>i, <2>1, <2>3, <2>9 DEF TurnoDeCada
  <2>11. RezagadosAnotados'
    <3> SUFFICES ASSUME NEW m \in Movimientos, movimiento'[m].etapa = "LEIDO",
                        turno'[movimiento'[m].turno] = "CERRADA"
                 PROVE  m \in rezagados'
      BY DEF RezagadosAnotados
    <3>1. movimiento[m].etapa = "LEIDO" /\ movimiento[m].turno \in Turnos
      BY <1>i, <2>1 DEF TurnoDeCada
    <3> QED
      BY <1>i, <2>1, <2>3, <3>1 DEF RezagadosAnotados
  <2>12. CuentasVigentes'
    <3>1. ASSUME NEW j \in Cajeros, cerrando'[j] # Quieto
          PROVE  Coinciden(cerrando[j].contados, cerrando[j].turno)'
      <4>1. cerrando'[j] = cerrando[j]
        BY <2>9, <3>1
      <4>2. Coinciden(cerrando[j].contados, cerrando[j].turno)
        BY <1>i, <3>1, <4>1 DEF CuentasVigentes
      <4> QED
        BY <2>1, <4>1, <4>2 DEF Coinciden, EfectivoEsperado
    <3>2. ASSUME NEW u \in Turnos, cierreCaja'[u].hecho
          PROVE  Coinciden(cierreCaja[u].contados, u)'
      <4>1. CASE u = t
        <5>1. Coinciden(c, t)
          BY <1>i, <2>0, <2>1 DEF CuentasVigentes
        <5>2. cierreCaja'[u].contados = c
          BY <2>4, <4>1
        <5> QED
          BY <2>1, <4>1, <5>1, <5>2 DEF Coinciden, EfectivoEsperado
      <4>2. CASE u # t
        <5>1. cierreCaja'[u] = cierreCaja[u]
          BY <2>4, <4>2
        <5>2. Coinciden(cierreCaja[u].contados, u)
          BY <1>i, <3>2, <5>1 DEF CuentasVigentes
        <5> QED
          BY <2>1, <5>1, <5>2 DEF Coinciden, EfectivoEsperado
      <4> QED
        BY <4>1, <4>2
    <3> QED
      BY <3>1, <3>2 DEF CuentasVigentes
  <2> QED
    BY <2>5, <2>7, <2>8, <2>10, <2>11, <2>12 DEF TurnosIInv
<1>8. ASSUME NEW k \in Cajeros, CierreRechazado(k) PROVE TurnosIInv'
  <2>1. /\ cerrando' = [cerrando EXCEPT ![k] = Quieto]
        /\ UNCHANGED <<arca, publicados, identidad, salvedades>>
    BY <1>8 DEF CierreRechazado
  <2>2. \A j \in Cajeros : cerrando'[j] # Quieto => cerrando'[j] = cerrando[j]
    BY <1>i, <2>1 DEF TurnosTypeOK
  <2>3. TurnosTypeOK'
    BY <1>i, <2>1 DEF TurnosTypeOK, Quieto
  <2>4. TurnoDeCada'
    BY <1>i, <2>1, <2>2 DEF TurnoDeCada
  <2>5. CuentasVigentes'
    BY <1>i, <2>1, <2>2, CuentasSiguen DEF EfectivoEsperado
  <2>6. UnaCaja' /\ UltimoEvento' /\ MeserosComoDicho' /\ RezagadosAnotados'
    BY <1>i, <2>1 DEF UnaCaja, UltimoEvento, MeserosComoDicho, RezagadosAnotados, Abiertos
  <2> QED
    BY <2>3, <2>4, <2>5, <2>6 DEF TurnosIInv
<1>9. ASSUME NEW i \in DOMAIN publicados, ActivarMeseros(i) PROVE TurnosIInv'
  <2>1. /\ meseros' = publicados[i] /\ ultimo' = i
        /\ aMano' = FALSE
        /\ UNCHANGED <<arca, cerrando, publicados, salvedades>>
    BY <1>9 DEF ActivarMeseros
  <2>2. publicados \in Seq(BOOLEAN) /\ i \in 1..Len(publicados)
    BY <1>i DEF TurnosTypeOK
  <2>3. publicados[i] \in BOOLEAN /\ i \in 0..Len(publicados)
    BY <2>2
  <2>4. TurnosTypeOK'
    BY <1>i, <2>1, <2>3 DEF TurnosTypeOK
  <2>5. MeserosComoDicho'
    BY <2>1 DEF MeserosComoDicho
  <2>6. /\ UnaCaja' /\ UltimoEvento' /\ TurnoDeCada' /\ RezagadosAnotados'
        /\ CuentasVigentes'
    BY <1>i, <2>1 DEF UnaCaja, UltimoEvento, TurnoDeCada, RezagadosAnotados, CuentasVigentes,
       Coinciden, EfectivoEsperado, Abiertos
  <2> QED
    BY <2>4, <2>5, <2>6 DEF TurnosIInv
<1>10. CASE CambiarEstadoMesero
  <2>1. /\ meseros' = ~meseros /\ aMano' = TRUE
        /\ UNCHANGED <<arca, cerrando, publicados, ultimo, salvedades>>
    BY <1>10 DEF CambiarEstadoMesero
  <2>2. TurnosTypeOK'
    BY <1>i, <2>1 DEF TurnosTypeOK
  <2>3. MeserosComoDicho'
    BY <2>1 DEF MeserosComoDicho
  <2>4. /\ UnaCaja' /\ UltimoEvento' /\ TurnoDeCada' /\ RezagadosAnotados'
        /\ CuentasVigentes'
    BY <1>i, <2>1 DEF UnaCaja, UltimoEvento, TurnoDeCada, RezagadosAnotados, CuentasVigentes,
       Coinciden, EfectivoEsperado, Abiertos
  <2> QED
    BY <2>2, <2>3, <2>4 DEF TurnosIInv
<1> QED
  BY <1>0, <1>1, <1>2, <1>3, <1>4, <1>5, <1>6, <1>7, <1>8, <1>9, <1>10 DEF TurnosNext

\* The variables of the shifts keep their types.
THEOREM TurnosTipos == TurnosSpec => []TurnosTypeOK
<1>1. TurnosIInv => TurnosTypeOK
  BY DEF TurnosIInv
<1> QED
  BY <1>1, InicioTurnos, PasoTurnos, PTL DEF TurnosSpec

\* A close and the rows of its shift agree for ever, for any number of shifts,
\* movements and closes at once.
THEOREM CierreCuadraSiempre == TurnosSpec => []CierreCuadra
<1>1. TurnosIInv => CierreCuadra
  BY DEF TurnosIInv, TurnosTypeOK, CuentasVigentes, CierreCuadra, Coinciden, EfectivoEsperado
<1> QED
  BY <1>1, InicioTurnos, PasoTurnos, PTL DEF TurnosSpec

\* The waiters follow the till once its last event is the last one handled, for
\* any number of openings and closes, delivered in any order.
THEOREM MeserosSiguenSiempreLaCaja == TurnosSpec => []MeserosSiguenLaCaja
<1>1. TurnosIInv => MeserosSiguenLaCaja
  BY DEF TurnosIInv, TurnosTypeOK, UltimoEvento, MeserosComoDicho, MeserosSiguenLaCaja
<1> QED
  BY <1>1, InicioTurnos, PasoTurnos, PTL DEF TurnosSpec
-----------------------------------------------------------------------------
(* The payments of a bill *)

\* A set of equal elements has one at most.
LEMMA UnoComoMucho ==
  ASSUME NEW S, \A x, y \in S : x = y
  PROVE  Cardinality(S) <= 1
<1>1. CASE S = {}
  BY <1>1, FS_EmptySet
<1>2. CASE S # {}
  <2>1. PICK x \in S : S = {x}
    BY <1>2
  <2> QED
    BY <2>1, FS_Singleton
<1> QED
  BY <1>1, <1>2

\* What is left of a total after a discount, and what it says of both.
LEMMA Descontado ==
  ASSUME NEW t \in Nat, NEW d \in Nat
  PROVE  /\ MenosDescuento(t, d) \in Nat /\ MenosDescuento(t, d) <= t
         /\ MenosDescuento(t, d) + d >= t
         /\ MenosDescuento(t, d) > 0 => MenosDescuento(t, d) + d = t
  BY DEF MenosDescuento

\* A payment fits in the total it has read, and fills it when it is the last one.
LEMMA CobroCabe ==
  ASSUME CajaTypeOK, NEW p \in Cobros, Cobrar(p)
  PROVE  /\ Monto[p] \in Nat \ {0} /\ Descuento[p] \in Nat
         /\ cobrado + Monto[p] + Descuento[p] <= leido[p].total
         /\ Monto[p] = PendienteDe(p) => cobrado + Monto[p] + Descuento[p] = leido[p].total
<1>1. Monto[p] \in Nat \ {0} /\ Descuento[p] \in Nat
  BY CajaAssumption DEF CajaAssumption
<1>2. leido[p].total \in Nat /\ cobrado \in Nat
  BY DEF CajaTypeOK, CuentaVista
<1>3. PICK n \in Nat : n = MenosDescuento(leido[p].total, Descuento[p])
  BY <1>1, <1>2, Descontado
<1>4. n > 0 => n + Descuento[p] = leido[p].total
  BY <1>1, <1>2, <1>3, Descontado
<1>5. PICK r \in Nat : r = MenosDescuento(n, cobrado)
  BY <1>2, <1>3, Descontado
<1>6. r <= n /\ (r > 0 => r + cobrado = n)
  BY <1>2, <1>5, Descontado
<1>7. Monto[p] <= r /\ r = PendienteDe(p)
  BY <1>3, <1>5 DEF Cobrar, PendienteDe
<1> QED
  BY <1>1, <1>2, <1>4, <1>6, <1>7

\* A bill that closes is no larger than it was.
LEMMA CierreRemoto ==
  ASSUME CajaTypeOK, NEW d \in Nat, CerrarRemota(d)
  PROVE  /\ remota.estado = "ABIERTA" /\ remota'.estado = "CERRADA"
         /\ remota' \in CuentaVista /\ remota'.total <= remota.total
<1>1. remota.total \in Nat
  BY DEF CajaTypeOK, CuentaVista
<1>2. /\ MenosDescuento(remota.total, d) \in Nat
      /\ MenosDescuento(remota.total, d) <= remota.total
  BY <1>1, Descontado
<1>3. remota' = [estado |-> "CERRADA", total |-> MenosDescuento(remota.total, d)]
  BY DEF CerrarRemota
<1> QED
  BY <1>2, <1>3 DEF CerrarRemota, CuentaVista

\* At the start nothing has been charged and every payment is new.
LEMMA InicioCaja == CajaInit => CajaIInv
<1> SUFFICES ASSUME CajaInit PROVE CajaIInv
  OBVIOUS
<1>1. PICK t \in Totales : remota = [estado |-> "ABIERTA", total |-> t] /\ mayorTotal = t
  BY DEF CajaInit
<1>2. t \in Nat /\ MaxFilas \in Nat
  BY CajaAssumption DEF CajaAssumption
<1>3. remota \in CuentaVista /\ remota.total = t
  BY <1>1, <1>2 DEF CuentaVista
<1>4. CajaTypeOK
  <2>1. /\ leido \in [Cobros -> CuentaVista] /\ proyeccion \in CuentaVista
    BY <1>3 DEF CajaInit, SinLeer, CuentaVista
  <2>2. mayorTotal \in Nat /\ 0 \in 0..MaxFilas
    BY <1>1, <1>2
  <2> QED
    BY <1>3, <2>1, <2>2 DEF CajaInit, CajaTypeOK
<1>5. TotalesVistos
  BY <1>1, <1>2, <1>3 DEF CajaInit, SinLeer, TotalesVistos
<1>6. CobradoConDescuento /\ UnSoloSitio /\ TotalVigente /\ SaldadaAlCerrar
  BY DEF CajaInit, CobradoConDescuento, UnSoloSitio, TotalVigente, SaldadaAlCerrar, Leyendo
<1> QED
  BY <1>4, <1>5, <1>6 DEF CajaIInv

\* What is forgotten belonged to no payment in progress.
LEMMA Suelta ==
  ASSUME CajaTypeOK, TotalesVistos, NEW p \in Cobros, Soltar(p)
  PROVE  /\ leido' \in [Cobros -> CuentaVista]
         /\ \A q \in Cobros : leido'[q].total <= mayorTotal
         /\ \A q \in Leyendo' : leido'[q] = leido[q]
<1>1. SinLeer \in CuentaVista /\ SinLeer.total = 0 /\ mayorTotal \in Nat
  BY DEF SinLeer, CuentaVista, CajaTypeOK
<1>2. \A q \in Cobros : leido[q] \in CuentaVista /\ leido[q].total <= mayorTotal
  BY DEF CajaTypeOK, TotalesVistos
<1>3. \A q \in Cobros : leido'[q] = IF q = p /\ p \notin Leyendo' \cup porCerrar'
                                   THEN SinLeer ELSE leido[q]
  BY DEF Soltar, CajaTypeOK
<1>4. leido' \in [Cobros -> CuentaVista]
  BY <1>1, <1>2 DEF Soltar, CajaTypeOK
<1>5. Leyendo' \subseteq Cobros
  BY DEF Leyendo
<1> QED
  BY <1>1, <1>2, <1>3, <1>4, <1>5

\* A bill that has been closed keeps the invariant, whoever closed it.
LEMMA Cerrada ==
  ASSUME CajaTypeOK, TotalesVistos, CobradoConDescuento, UnSoloSitio, TotalVigente,
         UNCHANGED <<turnos, etapa, deFila, espera, reencolado, dinero, mayorTotal, crecio>>,
         UNCHANGED leido \/ \E p \in Cobros : Soltar(p),
         reconciliando' \in BOOLEAN, porCerrar' \subseteq Cobros,
         proyeccion' \in CuentaVista, remota' \in CuentaVista,
         remota'.estado = "CERRADA", remota'.total <= remota.total
  PROVE  CajaIInv'
<1> USE DEF turnos, dinero
<1>0. /\ leido' \in [Cobros -> CuentaVista]
      /\ \A q \in Cobros : leido'[q].total <= mayorTotal
      /\ \A q \in Leyendo' : leido'[q] = leido[q]
  <2>1. CASE UNCHANGED leido
    BY <2>1 DEF CajaTypeOK, TotalesVistos
  <2>2. CASE \E p \in Cobros : Soltar(p)
    BY <2>2, Suelta
  <2> QED
    BY <2>1, <2>2
<1>1. CajaTypeOK'
  BY <1>0 DEF CajaTypeOK
<1>2. TotalesVistos'
  BY <1>0 DEF TotalesVistos, CajaTypeOK, CuentaVista
<1>3. CobradoConDescuento' /\ UnSoloSitio'
  BY DEF CobradoConDescuento, UnSoloSitio
<1>4. TotalVigente'
  <2>1. Leyendo' = Leyendo
    BY DEF Leyendo
  <2>2. \A q \in Leyendo : leido'[q].total \in Nat
    BY <1>0, <2>1 DEF Leyendo, CuentaVista
  <2> QED
    BY <1>0, <2>1, <2>2 DEF TotalVigente, CajaTypeOK, CuentaVista
<1>5. SaldadaAlCerrar'
  BY DEF SaldadaAlCerrar
<1> QED
  BY <1>1, <1>2, <1>3, <1>4, <1>5 DEF CajaIInv

\* What a step of a payment, of a shift or of the closing does, action by action.
LEMMA PasoCaja == CajaIInv /\ [CajaNext]_cajaVars => CajaIInv'
<1> SUFFICES ASSUME CajaIInv, [CajaNext]_cajaVars PROVE CajaIInv'
  OBVIOUS
<1>i. /\ CajaTypeOK /\ TotalesVistos /\ CobradoConDescuento /\ UnSoloSitio
      /\ TotalVigente /\ SaldadaAlCerrar
  BY DEF CajaIInv
<1> USE DEF turnos, peticion, dinero, cierre
<1>0. CASE UNCHANGED cajaVars
  BY <1>i, <1>0 DEF cajaVars, CajaIInv, CajaTypeOK, TotalesVistos, CobradoConDescuento,
     UnSoloSitio, TotalVigente, SaldadaAlCerrar, Leyendo
<1>1. CASE AbrirTurno \/ CerrarTurno
  <2>1. /\ turnoCaja' \in {"ABIERTA", "CERRADA"} /\ listadas' \subseteq Cobros
        /\ UNCHANGED <<peticion, dinero, cierre, proyeccion, remota, mayorTotal, crecio>>
    BY <1>i, <1>1 DEF AbrirTurno, CerrarTurno, CajaTypeOK
  <2> QED
    BY <1>i, <2>1 DEF CajaIInv, CajaTypeOK, TotalesVistos, CobradoConDescuento,
       UnSoloSitio, TotalVigente, SaldadaAlCerrar, Leyendo
<1>2. ASSUME NEW p \in Cobros, Reclamar(p) PROVE CajaIInv'
  <2>1. /\ espera[p] > 0 /\ etapa[p] = "FIN"
        /\ espera' = [espera EXCEPT ![p] = @ - 1]
        /\ etapa' = [etapa EXCEPT ![p] = "NUEVO"]
        /\ deFila' = deFila \cup {p}
        /\ UNCHANGED <<turnos, leido, reencolado, dinero, cierre, proyeccion, remota,
                       mayorTotal, crecio>>
    BY <1>2 DEF Reclamar
  <2>2. CajaTypeOK'
    <3>1. espera[p] \in 0..MaxFilas /\ MaxFilas \in Nat
      BY <1>i, CajaAssumption DEF CajaTypeOK, CajaAssumption
    <3>2. espera[p] - 1 \in 0..MaxFilas
      BY <2>1, <3>1
    <3>3. espera' \in [Cobros -> 0..MaxFilas]
      BY <1>i, <2>1, <3>2 DEF CajaTypeOK
    <3> QED
      BY <1>i, <2>1, <3>3 DEF CajaTypeOK
  <2>3. UnSoloSitio'
    BY <1>i, <2>1 DEF UnSoloSitio, CajaTypeOK
  <2>4. Leyendo' = Leyendo
    BY <1>i, <2>1 DEF Leyendo, CajaTypeOK
  <2>5. TotalesVistos' /\ CobradoConDescuento' /\ TotalVigente' /\ SaldadaAlCerrar'
    BY <1>i, <2>1, <2>4 DEF TotalesVistos, CobradoConDescuento, TotalVigente, SaldadaAlCerrar
  <2> QED
    BY <2>2, <2>3, <2>5 DEF CajaIInv
<1>3. ASSUME NEW p \in Cobros, FetchCuenta(p) PROVE CajaIInv'
  <2>1. /\ etapa[p] = "NUEVO" /\ etapa' = [etapa EXCEPT ![p] = "LEIDO"]
        /\ leido' = [leido EXCEPT ![p] = remota]
        /\ UNCHANGED <<turnos, deFila, espera, reencolado, dinero, cierre, proyeccion,
                       remota, mayorTotal, crecio>>
    BY <1>3 DEF FetchCuenta
  <2>2. CajaTypeOK'
    BY <1>i, <2>1 DEF CajaTypeOK
  <2>3. UnSoloSitio'
    BY <1>i, <2>1 DEF UnSoloSitio, CajaTypeOK
  <2>4. leido'[p] = remota /\ \A q \in Cobros \ {p} : leido'[q] = leido[q]
    BY <1>i, <2>1 DEF CajaTypeOK
  <2>5. Leyendo' = Leyendo \cup {p} /\ remota.total \in Nat
    BY <1>i, <2>1 DEF Leyendo, CajaTypeOK, CuentaVista
  <2>6. TotalesVistos' /\ TotalVigente'
    BY <1>i, <2>1, <2>4, <2>5 DEF TotalesVistos, TotalVigente, Leyendo
  <2>7. CobradoConDescuento' /\ SaldadaAlCerrar'
    BY <1>i, <2>1 DEF CobradoConDescuento, SaldadaAlCerrar
  <2> QED
    BY <2>2, <2>3, <2>6, <2>7 DEF CajaIInv
<1>4. ASSUME NEW p \in Cobros, ConTurno(p) PROVE CajaIInv'
  <2>1. /\ etapa[p] = "LEIDO" /\ etapa' = [etapa EXCEPT ![p] = "CON_TURNO"]
        /\ UNCHANGED <<turnos, leido, deFila, espera, reencolado, dinero, cierre, proyeccion,
                       remota, mayorTotal, crecio>>
    BY <1>4 DEF ConTurno
  <2>2. CajaTypeOK'
    BY <1>i, <2>1 DEF CajaTypeOK
  <2>3. UnSoloSitio'
    BY <1>i, <2>1 DEF UnSoloSitio, CajaTypeOK
  <2>4. Leyendo' = Leyendo
    BY <1>i, <2>1 DEF Leyendo, CajaTypeOK
  <2>5. TotalesVistos' /\ CobradoConDescuento' /\ TotalVigente' /\ SaldadaAlCerrar'
    BY <1>i, <2>1, <2>4 DEF TotalesVistos, CobradoConDescuento, TotalVigente, SaldadaAlCerrar
  <2> QED
    BY <2>2, <2>3, <2>5 DEF CajaIInv
<1>5. ASSUME NEW p \in Cobros, NEW vuelve \in BOOLEAN, SinTurno(p, vuelve) PROVE CajaIInv'
  <2>1. /\ etapa[p] = "LEIDO" /\ etapa' = [etapa EXCEPT ![p] = "FIN"]
        /\ vuelve => p \in deFila
        /\ espera' = [espera EXCEPT ![p] = IF vuelve THEN @ + 2 ELSE @ + 1]
        /\ espera'[p] <= MaxFilas
        /\ reencolado' = reencolado \cup ({p} \cap deFila)
        /\ deFila' = deFila \ {p}
        /\ UNCHANGED <<turnos, dinero, cierre, proyeccion, remota, mayorTotal, crecio>>
        /\ Soltar(p)
    BY <1>5 DEF SinTurno
  <2>0. /\ leido' \in [Cobros -> CuentaVista]
        /\ \A q \in Cobros : leido'[q].total <= mayorTotal
        /\ \A q \in Leyendo' : leido'[q] = leido[q]
    BY <1>i, <2>1, Suelta
  <2>2. CajaTypeOK'
    <3>1. espera'[p] = IF vuelve THEN espera[p] + 2 ELSE espera[p] + 1
      BY <1>i, <2>1 DEF CajaTypeOK
    <3>2. espera'[p] \in 0..MaxFilas
      BY <1>i, <2>1, <3>1, CajaAssumption DEF CajaTypeOK, CajaAssumption
    <3>3. espera' \in [Cobros -> 0..MaxFilas]
      BY <1>i, <2>1, <3>2 DEF CajaTypeOK
    <3> QED
      BY <1>i, <2>0, <2>1, <3>3 DEF CajaTypeOK
  <2>3. UnSoloSitio'
    <3> SUFFICES ASSUME NEW q \in Cobros \ reencolado'
                 PROVE  veces'[q] + espera'[q] + (IF etapa'[q] = "FIN" THEN 0 ELSE 1) <= 1
      BY DEF UnSoloSitio
    <3>1. q \in Cobros \ reencolado /\ (q = p => ~vuelve) /\ veces' = veces
      BY <2>1
    <3>2. veces[q] + espera[q] + (IF etapa[q] = "FIN" THEN 0 ELSE 1) <= 1
      BY <1>i, <3>1 DEF UnSoloSitio
    <3>3. veces[q] \in Nat /\ espera[q] \in 0..MaxFilas
      BY <1>i, <3>1 DEF CajaTypeOK
    <3>4. CASE q = p
      <4>1. espera'[q] = espera[q] + 1 /\ etapa'[q] = "FIN" /\ etapa[q] # "FIN"
        BY <1>i, <2>1, <3>1, <3>4 DEF CajaTypeOK
      <4> QED
        BY <3>1, <3>2, <3>3, <4>1
    <3>5. CASE q # p
      <4>1. espera'[q] = espera[q] /\ etapa'[q] = etapa[q]
        BY <1>i, <2>1, <3>5 DEF CajaTypeOK
      <4> QED
        BY <3>1, <3>2, <4>1
    <3> QED
      BY <3>4, <3>5
  <2>4. Leyendo' \subseteq Leyendo
    BY <1>i, <2>1 DEF Leyendo, CajaTypeOK
  <2>5. TotalesVistos' /\ CobradoConDescuento' /\ TotalVigente' /\ SaldadaAlCerrar'
    BY <1>i, <2>0, <2>1, <2>4 DEF TotalesVistos, CobradoConDescuento, TotalVigente,
       SaldadaAlCerrar
  <2> QED
    BY <2>2, <2>3, <2>5 DEF CajaIInv
<1>6. ASSUME NEW p \in Cobros, Abandonar(p) PROVE CajaIInv'
  <2>1. /\ p \in Leyendo /\ etapa' = [etapa EXCEPT ![p] = "FIN"]
        /\ deFila' = deFila \ {p}
        /\ UNCHANGED <<turnos, espera, reencolado, dinero, cierre, proyeccion, remota,
                       mayorTotal, crecio>>
        /\ Soltar(p)
    BY <1>6 DEF Abandonar
  <2>0. /\ leido' \in [Cobros -> CuentaVista]
        /\ \A q \in Cobros : leido'[q].total <= mayorTotal
        /\ \A q \in Leyendo' : leido'[q] = leido[q]
    BY <1>i, <2>1, Suelta
  <2>2. CajaTypeOK'
    BY <1>i, <2>0, <2>1 DEF CajaTypeOK
  <2>3. UnSoloSitio'
    <3> SUFFICES ASSUME NEW q \in Cobros \ reencolado
                 PROVE  veces[q] + espera[q] + (IF etapa'[q] = "FIN" THEN 0 ELSE 1) <= 1
      BY <2>1 DEF UnSoloSitio
    <3>1. veces[q] + espera[q] + (IF etapa[q] = "FIN" THEN 0 ELSE 1) <= 1
      BY <1>i DEF UnSoloSitio
    <3>2. veces[q] \in Nat /\ espera[q] \in 0..MaxFilas
      BY <1>i DEF CajaTypeOK
    <3>3. etapa'[q] = "FIN" \/ etapa'[q] = etapa[q]
      BY <1>i, <2>1 DEF CajaTypeOK
    <3> QED
      BY <3>1, <3>2, <3>3
  <2>4. Leyendo' \subseteq Leyendo
    BY <1>i, <2>1 DEF Leyendo, CajaTypeOK
  <2>5. TotalesVistos' /\ CobradoConDescuento' /\ TotalVigente' /\ SaldadaAlCerrar'
    BY <1>i, <2>0, <2>1, <2>4 DEF TotalesVistos, CobradoConDescuento, TotalVigente,
       SaldadaAlCerrar
  <2> QED
    BY <2>2, <2>3, <2>5 DEF CajaIInv
<1>7. ASSUME NEW p \in Cobros, Cobrar(p) PROVE CajaIInv'
  <2> DEFINE ultima == Monto[p] = PendienteDe(p)
  <2>1. /\ etapa[p] = "CON_TURNO" /\ descuentos \subseteq {Descuento[p]}
        /\ proyeccion' = leido[p]
        /\ cobrado' = cobrado + Monto[p]
        /\ descuentos' = {Descuento[p]}
        /\ veces' = [veces EXCEPT ![p] = @ + 1]
        /\ completo' = (completo \/ ultima)
        /\ porCerrar' = IF ultima THEN porCerrar \cup {p} ELSE porCerrar
        /\ etapa' = [etapa EXCEPT ![p] = "FIN"]
        /\ deFila' = deFila \ {p}
        /\ UNCHANGED <<turnos, espera, reencolado, reconciliando, remota, mayorTotal, crecio>>
        /\ Soltar(p)
    BY <1>7 DEF Cobrar
  <2>0. /\ leido' \in [Cobros -> CuentaVista]
        /\ \A q \in Cobros : leido'[q].total <= mayorTotal
        /\ \A q \in Leyendo' : leido'[q] = leido[q]
    BY <1>i, <2>1, Suelta
  <2>2. /\ Monto[p] \in Nat \ {0} /\ Descuento[p] \in Nat
        /\ cobrado + Monto[p] + Descuento[p] <= leido[p].total
        /\ ultima => cobrado + Monto[p] + Descuento[p] = leido[p].total
    BY <1>i, <1>7, CobroCabe
  <2>3. /\ cobrado \in Nat /\ mayorTotal \in Nat /\ remota.total \in Nat
        /\ leido[p] \in CuentaVista /\ leido[p].total \in Nat
    BY <1>i DEF CajaTypeOK, CuentaVista
  <2> HIDE DEF ultima
  <2>4. CajaTypeOK'
    <3>1. completo' \in BOOLEAN
      BY <2>1
    <3>2. porCerrar' \subseteq Cobros
      BY <1>i, <2>1 DEF CajaTypeOK
    <3>3. cobrado' \in Nat /\ descuentos' \subseteq Nat
      BY <2>1, <2>2, <2>3
    <3>4. veces' \in [Cobros -> Nat] /\ etapa' \in [Cobros -> {"NUEVO", "LEIDO", "CON_TURNO", "FIN"}]
      BY <1>i, <2>1 DEF CajaTypeOK
    <3> QED
      BY <1>i, <2>0, <2>1, <2>3, <3>1, <3>2, <3>3, <3>4 DEF CajaTypeOK
  <2>5. TotalesVistos'
    BY <1>i, <2>0, <2>1 DEF TotalesVistos
  <2>6. CobradoConDescuento'
    <3>1. leido[p].total <= mayorTotal
      BY <1>i DEF TotalesVistos
    <3>2. cobrado' > 0 /\ cobrado' + Descuento[p] <= mayorTotal
      BY <2>1, <2>2, <2>3, <3>1
    <3> QED
      BY <2>1, <3>2 DEF CobradoConDescuento
  <2>7. UnSoloSitio'
    <3> SUFFICES ASSUME NEW q \in Cobros \ reencolado
                 PROVE  veces'[q] + espera[q] + (IF etapa'[q] = "FIN" THEN 0 ELSE 1) <= 1
      BY <2>1 DEF UnSoloSitio
    <3>1. veces[q] + espera[q] + (IF etapa[q] = "FIN" THEN 0 ELSE 1) <= 1
      BY <1>i DEF UnSoloSitio
    <3>2. veces[q] \in Nat /\ espera[q] \in 0..MaxFilas
      BY <1>i DEF CajaTypeOK
    <3>3. CASE q = p
      <4>1. veces'[q] = veces[q] + 1 /\ etapa'[q] = "FIN" /\ etapa[q] # "FIN"
        BY <1>i, <2>1, <3>3 DEF CajaTypeOK
      <4> QED
        BY <3>1, <3>2, <4>1
    <3>4. CASE q # p
      <4>1. veces'[q] = veces[q] /\ etapa'[q] = etapa[q]
        BY <1>i, <2>1, <3>4 DEF CajaTypeOK
      <4> QED
        BY <3>1, <4>1
    <3> QED
      BY <3>3, <3>4
  <2>8. ~crecio => remota.total <= leido[p].total
    BY <1>i, <2>1 DEF TotalVigente, Leyendo
  <2>9. TotalVigente'
    <3>1. Leyendo' \subseteq Leyendo
      BY <1>i, <2>1 DEF Leyendo, CajaTypeOK
    <3> QED
      BY <1>i, <2>0, <2>1, <2>8, <3>1 DEF TotalVigente
  <2>10. SaldadaAlCerrar'
    <3> SUFFICES ASSUME ~crecio, remota.estado = "ABIERTA",
                        porCerrar' # {} \/ reconciliando' \/ completo'
                 PROVE  cobrado' + Descuento[p] >= remota.total
      BY <2>1 DEF SaldadaAlCerrar
    <3>1. CASE ultima
      BY <2>1, <2>2, <2>3, <2>8, <3>1
    <3>2. CASE ~ultima
      <4>1. porCerrar # {} \/ reconciliando \/ completo
        BY <2>1, <3>2
      <4>2. PICK d \in descuentos : cobrado + d >= remota.total
        BY <1>i, <4>1 DEF SaldadaAlCerrar
      <4>3. d = Descuento[p]
        BY <2>1
      <4> QED
        BY <2>1, <2>2, <2>3, <4>2, <4>3
    <3> QED
      BY <3>1, <3>2
  <2> QED
    BY <2>4, <2>5, <2>6, <2>7, <2>9, <2>10 DEF CajaIInv
<1>8. ASSUME NEW p \in Cobros, NEW anota \in BOOLEAN, CerrarTrasPago(p, anota)
      PROVE  CajaIInv'
  <2>1. /\ porCerrar' = porCerrar \ {p} /\ CerrarRemota(Descuento[p])
        /\ proyeccion' = IF anota
                         THEN [estado |-> "CERRADA",
                               total |-> MenosDescuento(leido[p].total, Descuento[p])]
                         ELSE proyeccion
        /\ UNCHANGED <<turnos, etapa, deFila, espera, reencolado, dinero, reconciliando,
                       mayorTotal, crecio>>
        /\ Soltar(p)
    BY <1>8 DEF CerrarTrasPago
  <2>2. Descuento[p] \in Nat /\ leido[p].total \in Nat
    BY <1>i, CajaAssumption DEF CajaAssumption, CajaTypeOK, CuentaVista
  <2>3. MenosDescuento(leido[p].total, Descuento[p]) \in Nat
    BY <2>2, Descontado
  <2>4. proyeccion' \in CuentaVista
    BY <1>i, <2>1, <2>3 DEF CajaTypeOK, CuentaVista
  <2>5. /\ remota'.estado = "CERRADA" /\ remota' \in CuentaVista
        /\ remota'.total <= remota.total
    BY <1>i, <2>1, <2>2, CierreRemoto
  <2>6. /\ UNCHANGED <<turnos, etapa, deFila, espera, reencolado, dinero, mayorTotal, crecio>>
        /\ reconciliando' \in BOOLEAN
        /\ porCerrar' \subseteq Cobros
    BY <1>i, <2>1 DEF CajaTypeOK
  <2> QED
    BY <1>i, <2>1, <2>4, <2>5, <2>6, Cerrada
<1>9. ASSUME NEW p \in Cobros, CierreFallido(p) PROVE CajaIInv'
  <2>1. /\ p \in porCerrar /\ porCerrar' = porCerrar \ {p}
        /\ UNCHANGED <<turnos, etapa, deFila, espera, reencolado, dinero, reconciliando,
                       proyeccion, remota, mayorTotal, crecio>>
        /\ Soltar(p)
    BY <1>9 DEF CierreFallido
  <2>0. /\ leido' \in [Cobros -> CuentaVista]
        /\ \A q \in Cobros : leido'[q].total <= mayorTotal
        /\ \A q \in Leyendo' : leido'[q] = leido[q]
    BY <1>i, <2>1, Suelta
  <2>2. SaldadaAlCerrar'
    BY <1>i, <2>1 DEF SaldadaAlCerrar
  <2>3. Leyendo' = Leyendo
    BY <2>1 DEF Leyendo
  <2> QED
    BY <1>i, <2>0, <2>1, <2>2, <2>3 DEF CajaIInv, CajaTypeOK, TotalesVistos,
       CobradoConDescuento, UnSoloSitio, TotalVigente
<1>10. CASE RevisarCierre
  <2>1. /\ Candidata /\ reconciliando' = TRUE
        /\ UNCHANGED <<turnos, peticion, dinero, porCerrar, proyeccion, remota, mayorTotal,
                       crecio>>
    BY <1>10 DEF RevisarCierre
  <2>2. SaldadaAlCerrar'
    <3> SUFFICES ASSUME ~crecio, remota.estado = "ABIERTA"
                 PROVE  \E d \in descuentos : cobrado + d >= remota.total
      BY <2>1 DEF SaldadaAlCerrar
    <3>1. PICK d \in descuentos : cobrado >= MenosDescuento(proyeccion.total, d)
      BY <2>1 DEF Candidata
    <3>2. remota.total <= proyeccion.total
      BY <1>i DEF TotalVigente
    <3>3. /\ d \in Nat /\ cobrado \in Nat /\ proyeccion.total \in Nat
          /\ remota.total \in Nat
      BY <1>i DEF CajaTypeOK, CuentaVista
    <3>4. PICK n \in Nat : n = MenosDescuento(proyeccion.total, d)
      BY <3>3, Descontado
    <3>5. n + d >= proyeccion.total
      BY <3>3, <3>4, Descontado
    <3>6. cobrado + d >= remota.total
      BY <3>1, <3>2, <3>3, <3>4, <3>5
    <3> QED
      BY <3>6
  <2> QED
    BY <1>i, <2>1, <2>2 DEF CajaIInv, CajaTypeOK, TotalesVistos, CobradoConDescuento,
       UnSoloSitio, TotalVigente, Leyendo
<1>11. CASE ReconciliarCierre
  <2>1. PICK d \in descuentos : CerrarRemota(d)
    BY <1>11 DEF ReconciliarCierre
  <2>2. /\ reconciliando' = FALSE
        /\ proyeccion' = [proyeccion EXCEPT !.estado = "CERRADA"]
        /\ UNCHANGED <<turnos, peticion, dinero, porCerrar, mayorTotal, crecio>>
    BY <1>11 DEF ReconciliarCierre
  <2>3. proyeccion' \in CuentaVista
    BY <1>i, <2>2 DEF CajaTypeOK, CuentaVista
  <2>4. d \in Nat
    BY <1>i DEF CajaTypeOK
  <2>5. /\ remota'.estado = "CERRADA" /\ remota' \in CuentaVista
        /\ remota'.total <= remota.total
    BY <1>i, <2>1, <2>4, CierreRemoto
  <2>6. UNCHANGED <<turnos, peticion, dinero, mayorTotal, crecio>> /\ reconciliando' \in BOOLEAN
        /\ porCerrar' \subseteq Cobros
    BY <1>i, <2>2 DEF CajaTypeOK
  <2> QED
    BY <1>i, <2>3, <2>5, <2>6, Cerrada
<1>12. CASE ReconciliacionFallida
  <2>1. /\ reconciliando /\ reconciliando' = FALSE
        /\ UNCHANGED <<turnos, peticion, dinero, porCerrar, proyeccion, remota, mayorTotal,
                       crecio>>
    BY <1>12 DEF ReconciliacionFallida
  <2>2. SaldadaAlCerrar'
    BY <1>i, <2>1 DEF SaldadaAlCerrar
  <2> QED
    BY <1>i, <2>1, <2>2 DEF CajaIInv, CajaTypeOK, TotalesVistos, CobradoConDescuento,
       UnSoloSitio, TotalVigente, Leyendo
<1>13. CASE ProyectarAbierta
  <2>1. /\ proyeccion' = [proyeccion EXCEPT !.estado = "ABIERTA"]
        /\ UNCHANGED <<turnos, peticion, dinero, cierre, remota, mayorTotal, crecio>>
    BY <1>13 DEF ProyectarAbierta
  <2>2. proyeccion' \in CuentaVista /\ proyeccion'.total = proyeccion.total
    BY <1>i, <2>1 DEF CajaTypeOK, CuentaVista
  <2> QED
    BY <1>i, <2>1, <2>2 DEF CajaIInv, CajaTypeOK, TotalesVistos, CobradoConDescuento,
       UnSoloSitio, TotalVigente, SaldadaAlCerrar, Leyendo
<1>14. CASE ProyectarCerrada
  <2>1. /\ remota.estado = "CERRADA" /\ proyeccion' = remota
        /\ UNCHANGED <<turnos, peticion, dinero, cierre, remota, mayorTotal, crecio>>
    BY <1>14 DEF ProyectarCerrada
  <2> QED
    BY <1>i, <2>1 DEF CajaIInv, CajaTypeOK, TotalesVistos, CobradoConDescuento,
       UnSoloSitio, TotalVigente, SaldadaAlCerrar, Leyendo
<1>15. CASE CerrarPorEvento
  <2>1. /\ CerrarRemota(0)
        /\ UNCHANGED <<turnos, peticion, dinero, cierre, proyeccion, mayorTotal, crecio>>
    BY <1>15 DEF CerrarPorEvento
  <2>2. /\ remota'.estado = "CERRADA" /\ remota' \in CuentaVista
        /\ remota'.total <= remota.total
    BY <1>i, <2>1, CierreRemoto
  <2>3. /\ UNCHANGED <<turnos, peticion, dinero, mayorTotal, crecio>>
        /\ reconciliando' \in BOOLEAN /\ porCerrar' \subseteq Cobros
        /\ proyeccion' \in CuentaVista
    BY <1>i, <2>1 DEF CajaTypeOK
  <2> QED
    BY <1>i, <2>2, <2>3, Cerrada
<1>16. ASSUME NEW t \in Totales, CambiarTotal(t) PROVE CajaIInv'
  <2>1. /\ remota' = [remota EXCEPT !.total = t]
        /\ mayorTotal' = IF t > mayorTotal THEN t ELSE mayorTotal
        /\ crecio' = (crecio \/ (t > remota.total /\ (cobrado > 0 \/ Leyendo # {})))
        /\ UNCHANGED <<turnos, peticion, dinero, cierre, proyeccion>>
    BY <1>16 DEF CambiarTotal
  <2>2. /\ t \in Nat /\ remota.total \in Nat /\ mayorTotal \in Nat /\ cobrado \in Nat
        /\ \A p \in Cobros : leido[p].total \in Nat
        /\ \A d \in descuentos : d \in Nat
    BY <1>i, CajaAssumption DEF CajaAssumption, CajaTypeOK, CuentaVista
  <2>3. /\ remota' \in CuentaVista /\ remota'.total = t /\ remota'.estado = remota.estado
    BY <1>i, <2>1, <2>2 DEF CajaTypeOK, CuentaVista
  <2>4. mayorTotal' \in Nat /\ mayorTotal' >= mayorTotal /\ mayorTotal' >= t
    BY <2>1, <2>2
  <2>5. CajaTypeOK'
    <3>1. crecio' \in BOOLEAN
      BY <2>1
    <3> QED
      BY <1>i, <2>1, <2>3, <2>4, <3>1 DEF CajaTypeOK
  <2>6. TotalesVistos'
    BY <1>i, <2>1, <2>2, <2>3, <2>4 DEF TotalesVistos
  <2>7. CobradoConDescuento'
    BY <1>i, <2>1, <2>2, <2>4 DEF CobradoConDescuento
  <2>8. UnSoloSitio'
    BY <1>i, <2>1 DEF UnSoloSitio
  <2>9. Leyendo' = Leyendo
    BY <2>1 DEF Leyendo
  <2>10. ~crecio' => ~crecio /\ (t <= remota.total \/ (cobrado = 0 /\ Leyendo = {}))
    <3> DEFINE mas == t > remota.total
               enUso == cobrado > 0 \/ Leyendo # {}
    <3>1. crecio' = (crecio \/ (mas /\ enUso))
      BY <2>1
    <3>2. crecio \in BOOLEAN
      BY <1>i DEF CajaTypeOK
    <3> HIDE DEF mas, enUso
    <3>3. ~crecio' => ~crecio /\ (~mas \/ ~enUso)
      BY ONLY <3>1, <3>2
    <3> QED
      BY <2>2, <3>3 DEF mas, enUso
  <2>11. TotalVigente'
    <3> SUFFICES ASSUME ~crecio'
                 PROVE  /\ \A p \in Leyendo : t <= leido[p].total
                        /\ remota.estado = "ABIERTA" /\ descuentos # {} => t <= proyeccion.total
      BY <2>1, <2>3, <2>9 DEF TotalVigente
    <3>1. \A p \in Leyendo : t <= leido[p].total
      BY <1>i, <2>2, <2>10 DEF TotalVigente, Leyendo
    <3>2. remota.estado = "ABIERTA" /\ descuentos # {} => t <= proyeccion.total
      <4>1. descuentos # {} => cobrado > 0
        BY <1>i DEF CobradoConDescuento
      <4>2. proyeccion.total \in Nat
        BY <1>i DEF CajaTypeOK, CuentaVista
      <4> QED
        BY <1>i, <2>2, <2>10, <4>1, <4>2 DEF TotalVigente
    <3> QED
      BY <3>1, <3>2
  <2>12. SaldadaAlCerrar'
    <3> SUFFICES ASSUME ~crecio', remota.estado = "ABIERTA",
                        porCerrar # {} \/ reconciliando \/ completo
                 PROVE  \E d \in descuentos : cobrado + d >= t
      BY <2>1, <2>3 DEF SaldadaAlCerrar
    <3>1. PICK d \in descuentos : cobrado + d >= remota.total
      BY <1>i, <2>10 DEF SaldadaAlCerrar
    <3>2. cobrado > 0
      BY <1>i DEF CobradoConDescuento
    <3>3. cobrado + d >= t
      BY <2>2, <2>10, <3>1, <3>2
    <3> QED
      BY <3>3
  <2> QED
    BY <2>5, <2>6, <2>7, <2>8, <2>11, <2>12 DEF CajaIInv
<1>17. CASE CancelarRemota
  <2>1. /\ remota' = [remota EXCEPT !.estado = "CANCELADA"]
        /\ UNCHANGED <<turnos, peticion, dinero, cierre, proyeccion, mayorTotal, crecio>>
    BY <1>17 DEF CancelarRemota
  <2>2. remota' \in CuentaVista /\ remota'.total = remota.total /\ remota'.estado = "CANCELADA"
    BY <1>i, <2>1 DEF CajaTypeOK, CuentaVista
  <2> QED
    BY <1>i, <2>1, <2>2 DEF CajaIInv, CajaTypeOK, TotalesVistos, CobradoConDescuento,
       UnSoloSitio, TotalVigente, SaldadaAlCerrar, Leyendo
<1>18. ASSUME NEW d \in {0} \cup {Descuento[p] : p \in Cobros}, CerrarDirecto(d)
       PROVE  CajaIInv'
  <2>1. /\ CerrarRemota(d)
        /\ UNCHANGED <<turnos, peticion, dinero, cierre, proyeccion, mayorTotal, crecio>>
    BY <1>18 DEF CerrarDirecto
  <2>2. d \in Nat
    BY CajaAssumption DEF CajaAssumption
  <2>3. /\ remota'.estado = "CERRADA" /\ remota' \in CuentaVista
        /\ remota'.total <= remota.total
    BY <1>i, <2>1, <2>2, CierreRemoto
  <2>4. /\ UNCHANGED <<turnos, peticion, dinero, mayorTotal, crecio>>
        /\ reconciliando' \in BOOLEAN /\ porCerrar' \subseteq Cobros
        /\ proyeccion' \in CuentaVista
    BY <1>i, <2>1 DEF CajaTypeOK
  <2> QED
    BY <1>i, <2>3, <2>4, Cerrada
<1> QED
  BY <1>0, <1>1, <1>2, <1>3, <1>4, <1>5, <1>6, <1>7, <1>8, <1>9, <1>10, <1>11, <1>12,
     <1>13, <1>14, <1>15, <1>16, <1>17, <1>18 DEF CajaNext, RegistrarPago, RegistrarPagoCombinado

\* The variables of the payments keep their types.
THEOREM CajaTipos == CajaSpec => []CajaTypeOK
<1>1. CajaIInv => CajaTypeOK
  BY DEF CajaIInv
<1> QED
  BY <1>1, InicioCaja, PasoCaja, PTL DEF CajaSpec

\* The payments of a bill carry one discount and do not exceed its largest total,
\* for any number of payments, amounts and discounts.
THEOREM NuncaSeCobraDeMasNada == CajaSpec => []NuncaSeCobraDeMas
<1>1. CajaIInv => NuncaSeCobraDeMas
  BY UnoComoMucho DEF CajaIInv, CobradoConDescuento, NuncaSeCobraDeMas
<1> QED
  BY <1>1, InicioCaja, PasoCaja, PTL DEF CajaSpec

\* A payment that waited is charged once, for any number of rows and openings.
THEOREM LaEsperaSeCobraUnaVez == CajaSpec => []EsperaUnaVez
<1>1. ASSUME CajaIInv PROVE EsperaUnaVez
  <2> SUFFICES ASSUME NEW p \in Cobros \ reencolado PROVE veces[p] + espera[p] <= 1
    BY DEF EsperaUnaVez
  <2>1. veces[p] \in Nat /\ espera[p] \in 0..MaxFilas
    BY <1>1 DEF CajaIInv, CajaTypeOK
  <2>2. veces[p] + espera[p] + (IF etapa[p] = "FIN" THEN 0 ELSE 1) <= 1
    BY <1>1 DEF CajaIInv, UnSoloSitio
  <2> QED
    BY <2>1, <2>2
<1> QED
  BY <1>1, InicioCaja, PasoCaja, PTL DEF CajaSpec

\* The last payment, the cron and the payment event close no bill with a debt,
\* unless it grew after a payment had read it: for any payments and totals, and
\* whatever the staff, the shifts and late events do to the bill meanwhile.
THEOREM CierreSiempreSinDeuda == CajaSpec => CierreSinDeuda
<1> DEFINE Saldada == CierrePorPago /\ ~crecio => \E d \in descuentos : cobrado + d >= remota.total
<1>1. ASSUME CajaIInv PROVE Saldada
  <2> SUFFICES ASSUME CierrePorPago, ~crecio
               PROVE  \E d \in descuentos : cobrado + d >= remota.total
    OBVIOUS
  <2>1. remota.estado = "ABIERTA" /\ (porCerrar # {} \/ reconciliando \/ completo)
    <3>1. ASSUME NEW p \in Cobros, NEW anota \in BOOLEAN, CerrarTrasPago(p, anota)
          PROVE  remota.estado = "ABIERTA" /\ porCerrar # {}
      BY <3>1 DEF CerrarTrasPago, CerrarRemota
    <3>2. ASSUME ReconciliarCierre PROVE remota.estado = "ABIERTA" /\ reconciliando
      BY <3>2 DEF ReconciliarCierre, CerrarRemota
    <3>3. ASSUME CerrarPorEvento PROVE remota.estado = "ABIERTA" /\ completo
      BY <3>3 DEF CerrarPorEvento, CerrarRemota
    <3> QED
      BY <3>1, <3>2, <3>3 DEF CierrePorPago
  <2> QED
    BY <1>1, <2>1 DEF CajaIInv, SaldadaAlCerrar
<1>2. CajaIInv => [Saldada]_cajaVars
  BY <1>1
<1> QED
  BY <1>2, InicioCaja, PasoCaja, PTL DEF CajaSpec, CierreSinDeuda
=============================================================================
