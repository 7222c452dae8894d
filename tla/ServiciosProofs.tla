--------------------------- MODULE ServiciosProofs ---------------------------
(***************************************************************************)
(* Proofs about the smaller services (reservations, identity, purchasing)  *)
(* and the consumers of RabbitMQ, for any number of users, requests,       *)
(* tokens, ingredients and messages; and about the ten parts that          *)
(* MCServicios puts together, from the proofs of each.                     *)
(***************************************************************************)
EXTENDS MCServicios, SalonProofs, CajaProofs, FacturacionProofs, FiniteSetTheorems, TLAPS

\* A set of equal elements has one at most.
LEMMA CardinalidadUno ==
  ASSUME NEW S, \A x, y \in S : x = y
  PROVE  IsFiniteSet(S) /\ Cardinality(S) <= 1
<1>1. CASE S = {}
  BY <1>1, FS_EmptySet
<1>2. CASE S # {}
  <2>1. PICK x \in S : S = {x}
    BY <1>2
  <2>2. IsFiniteSet(S) /\ Cardinality(S) = 1
    BY <2>1, FS_Singleton
  <2> QED
    BY <2>2
<1> QED
  BY <1>1, <1>2
-----------------------------------------------------------------------------
(* servicio-reservas *)

\* At the start nothing is reserved.
LEMMA InicioReservas == ReservasInit => ReservasIInv
<1> SUFFICES ASSUME ReservasInit PROVE ReservasIInv
  OBVIOUS
<1>1. ReservasTypeOK
  BY DEF ReservasInit, ReservasTypeOK
<1>2. IndiceUnico
  BY DEF ReservasInit, IndiceUnico, Activas
<1> QED
  BY <1>1, <1>2 DEF ReservasIInv

\* Whatever the requests had read, the index is consulted by every write that
\* makes a row active.
LEMMA PasoReservas == ReservasIInv /\ [ReservasNext]_reservasVars => ReservasIInv'
<1> SUFFICES ASSUME ReservasIInv, [ReservasNext]_reservasVars PROVE ReservasIInv'
  OBVIOUS
<1> USE DEF ReservasIInv, ReservasTypeOK, IndiceUnico, Activas
<1>0. CASE UNCHANGED reservasVars
  BY <1>0 DEF reservasVars
<1>1. ASSUME NEW c \in Clientes, NEW f \in Franjas, ComprobarMesa(c, f) PROVE ReservasIInv'
  <2>1. ReservasTypeOK'
    BY <1>1 DEF ComprobarMesa
  <2>2. \A d \in Clientes \ {c} : reserva'[d] = reserva[d]
    BY <1>1 DEF ComprobarMesa
  <2>3. reserva'[c].estado = "NO"
    BY <1>1 DEF ComprobarMesa
  <2>4. IndiceUnico'
    BY <2>2, <2>3
  <2> QED
    BY <2>1, <2>4
<1>2. ASSUME NEW c \in Clientes, InsertarReserva(c) PROVE ReservasIInv'
  BY <1>2 DEF InsertarReserva, LibreParaIndice, EnFranja
<1>3. ASSUME NEW c \in Clientes, LeerPendiente(c) PROVE ReservasIInv'
  BY <1>3 DEF LeerPendiente
<1>4. ASSUME NEW c \in Clientes, ConfirmarReserva(c) PROVE ReservasIInv'
  <2>1. ReservasTypeOK'
    BY <1>4 DEF ConfirmarReserva
  <2>2. \A d \in Clientes \ {c} : reserva'[d] = reserva[d]
    BY <1>4 DEF ConfirmarReserva
  <2>3. reserva'[c].franja = reserva[c].franja
    BY <1>4 DEF ConfirmarReserva
  <2>4. \A d \in Clientes \ {c} :
          reserva[d].franja = reserva[c].franja => reserva[d].estado \notin Activas
    BY <1>4 DEF ConfirmarReserva, LibreParaIndice, EnFranja
  <2>5. IndiceUnico'
    <3> SUFFICES ASSUME NEW x \in Clientes, NEW y \in Clientes, x # y,
                        reserva'[x].estado \in Activas, reserva'[y].estado \in Activas,
                        reserva'[x].franja = reserva'[y].franja
                 PROVE  FALSE
      OBVIOUS
    <3>1. CASE x = c
      BY <3>1, <2>2, <2>3, <2>4
    <3>2. CASE y = c
      BY <3>2, <2>2, <2>3, <2>4
    <3>3. CASE x # c /\ y # c
      BY <3>3, <2>2
    <3> QED
      BY <3>1, <3>2, <3>3
  <2> QED
    BY <2>1, <2>5
<1>5. ASSUME NEW c \in Clientes, PerderFranja(c) PROVE ReservasIInv'
  BY <1>5 DEF PerderFranja
<1>6. ASSUME NEW c \in Clientes, CancelarReserva(c) PROVE ReservasIInv'
  <2>1. ReservasTypeOK'
    BY <1>6 DEF CancelarReserva
  <2>2. \A d \in Clientes \ {c} : reserva'[d] = reserva[d]
    BY <1>6 DEF CancelarReserva
  <2>3. reserva'[c].estado = "CANCELADA"
    BY <1>6 DEF CancelarReserva
  <2>4. IndiceUnico'
    BY <2>2, <2>3
  <2> QED
    BY <2>1, <2>4
<1> QED
  BY <1>0, <1>1, <1>2, <1>3, <1>4, <1>5, <1>6 DEF ReservasNext

\* The variables of the reservations keep their types.
THEOREM ReservasTipos == ReservasSpec => []ReservasTypeOK
<1>1. ReservasIInv => ReservasTypeOK
  BY DEF ReservasIInv
<1> QED
  BY <1>1, InicioReservas, PasoReservas, PTL DEF ReservasSpec

\* No table is reserved twice at a date and time, for any number of customers
\* and slots, however crear, confirmar and cancelar interleave.
THEOREM ReservaUnica == ReservasSpec => []UnaActivaPorMesa
<1>1. ReservasIInv => UnaActivaPorMesa
  <2> SUFFICES ASSUME ReservasIInv, NEW f \in Franjas
               PROVE  Cardinality(EnFranja(f)) <= 1
    BY DEF UnaActivaPorMesa
  <2>1. \A c, d \in EnFranja(f) : c = d
    BY DEF ReservasIInv, IndiceUnico, EnFranja
  <2> QED
    BY <2>1, CardinalidadUno
<1> QED
  BY <1>1, InicioReservas, PasoReservas, PTL DEF ReservasSpec
-----------------------------------------------------------------------------
(* servicio-identidad: administrators *)

\* There is an administrator to begin with, and nobody has read anything.
LEMMA InicioAdministradores == AdministradoresInit => AdministradoresIInv
BY AdministradoresAssumption
DEF AdministradoresInit, AdministradoresIInv, AdministradoresTypeOK, LecturaVigente,
    QuedaUnAdmin, AdminsActivos, CambiosDeOtros, QuitaAdmin, SinCambio, Ordenes

\* More than one administrator stays one at least when one is taken away.
LEMMA OtroAdmin ==
  ASSUME NEW S, Cardinality(S) > 1, NEW u
  PROVE  S \ {u} # {}
<1> SUFFICES ASSUME S \ {u} = {} PROVE FALSE
  OBVIOUS
<1>1. \A x, y \in S : x = y
  OBVIOUS
<1>2. Cardinality(S) \in Nat /\ Cardinality(S) <= 1
  BY <1>1, CardinalidadUno, FS_CardinalityType
<1> QED
  BY <1>2

\* A change is applied to a user: the types hold after it.
LEMMA AplicarTipos ==
  ASSUME AdministradoresIInv, NEW k \in Cambios, cambio[k].fase = "LEIDO", Aplicar(k)
  PROVE  /\ cambio[k].usuario \in Usuarios
         /\ rol' \in [Usuarios -> {"ADMIN", "OTRO"}]
         /\ habilitado' \in [Usuarios -> BOOLEAN]
         /\ cambio' \in [Cambios -> [fase : {"FIN", "LEIDO"}, usuario : Usuarios \cup {0},
                                     orden : Ordenes, comoAdmin : BOOLEAN]]
<1>1. cambio[k].usuario \in Usuarios /\ AdministradoresTypeOK
  BY DEF AdministradoresIInv, LecturaVigente
<1>2. rol' \in [Usuarios -> {"ADMIN", "OTRO"}]
  BY <1>1 DEF Aplicar, AdministradoresTypeOK, Ordenes
<1>3. habilitado' \in [Usuarios -> BOOLEAN]
  BY <1>1 DEF Aplicar, AdministradoresTypeOK, Ordenes
<1>4. cambio' \in [Cambios -> [fase : {"FIN", "LEIDO"}, usuario : Usuarios \cup {0},
                               orden : Ordenes, comoAdmin : BOOLEAN]]
  BY <1>1 DEF Aplicar, AdministradoresTypeOK, Ordenes, SinCambio
<1> QED
  BY <1>1, <1>2, <1>3, <1>4

\* A degradation under the lock leaves the others, and what is not one takes no
\* administrator away unless one was made meanwhile.
LEMMA PasoAdministradores ==
  AdministradoresIInv /\ [AdministradoresNext]_administradoresVars => AdministradoresIInv'
<1> SUFFICES ASSUME AdministradoresIInv, [AdministradoresNext]_administradoresVars
             PROVE  AdministradoresIInv'
  OBVIOUS
<1> USE DEF AdministradoresIInv, AdministradoresTypeOK, LecturaVigente, QuedaUnAdmin,
            AdminsActivos, CambiosDeOtros, QuitaAdmin
<1>0. CASE UNCHANGED administradoresVars
  BY <1>0 DEF administradoresVars
<1>1. ASSUME NEW k \in Cambios, NEW u \in Usuarios, NEW o \in Ordenes, LeerObjetivo(k, u, o)
      PROVE  AdministradoresIInv'
  BY <1>1 DEF LeerObjetivo
<1>2. ASSUME NEW k \in Cambios, DegradarAdmin(k) PROVE AdministradoresIInv'
  <2>1. AdministradoresTypeOK'
    BY <1>2, AplicarTipos DEF DegradarAdmin
  <2>2. \A j \in Cambios : cambio'[j].fase = "LEIDO" => cambio'[j] = cambio[j]
    BY <1>2 DEF DegradarAdmin, Aplicar, SinCambio
  <2>3. \A v \in Usuarios : rol'[v] = "ADMIN" => rol[v] = "ADMIN"
    BY <1>2 DEF DegradarAdmin, Aplicar
  <2>4. LecturaVigente'
    BY <1>2, <2>2, <2>3 DEF DegradarAdmin
  <2>5. QuedaUnAdmin'
    <3>1. PICK v \in AdminsActivos : v # cambio[k].usuario
      BY <1>2, OtroAdmin DEF DegradarAdmin
    <3>2. v \in AdminsActivos'
      BY <1>2, <3>1 DEF DegradarAdmin, Aplicar
    <3> QED
      BY <3>2
  <2> QED
    BY <2>1, <2>4, <2>5
<1>3. ASSUME NEW k \in Cambios, RechazarUltimo(k) PROVE AdministradoresIInv'
  BY <1>3 DEF RechazarUltimo, SinCambio, Ordenes
<1>4. ASSUME NEW k \in Cambios, CambiarOtro(k) PROVE AdministradoresIInv'
  <2> DEFINE u == cambio[k].usuario
  <2>1. AdministradoresTypeOK' /\ u \in Usuarios
    BY <1>4, AplicarTipos DEF CambiarOtro
  <2>2. \A j \in Cambios : cambio'[j].fase = "LEIDO" => cambio'[j] = cambio[j] /\ j # k
    BY <1>4 DEF CambiarOtro, Aplicar, SinCambio
  <2>3. CambiosDeOtros' \subseteq CambiosDeOtros
    BY <2>2
  <2>4. ASSUME ascendidos' = {} PROVE ascendidos = {} /\ (QuitaAdmin(k) \/ u \notin CambiosDeOtros)
    BY <1>4, <2>4 DEF CambiarOtro
  <2>5. ASSUME QuitaAdmin(k), ascendidos' = {} PROVE rol[u] # "ADMIN"
    BY <1>4, <2>4, <2>5 DEF CambiarOtro
  <2>6. \A v \in Usuarios \ {u} : rol'[v] = rol[v] /\ habilitado'[v] = habilitado[v]
    BY <1>4 DEF CambiarOtro, Aplicar
  <2>7. LecturaVigente'
    <3>1. \A j \in Cambios : cambio'[j].fase = "LEIDO" => cambio'[j].usuario \in Usuarios
      BY <2>2
    <3>2. ASSUME ascendidos' = {}, NEW v \in CambiosDeOtros' PROVE rol'[v] # "ADMIN"
      <4>1. v \in CambiosDeOtros /\ rol[v] # "ADMIN" /\ v \in Usuarios
        <5>1. v \in CambiosDeOtros /\ ascendidos = {}
          BY <2>3, <2>4, <3>2
        <5>2. CambiosDeOtros \subseteq Usuarios
          OBVIOUS
        <5> QED
          BY <5>1, <5>2
      <4>2. CASE QuitaAdmin(k)
        BY <1>4, <4>1, <4>2, <2>6 DEF CambiarOtro, Aplicar
      <4>3. CASE ~QuitaAdmin(k)
        BY <4>1, <4>3, <2>4, <2>6, <3>2
      <4> QED
        BY <4>2, <4>3
    <3> QED
      BY <3>1, <3>2
  <2>8. QuedaUnAdmin'
    <3> SUFFICES ASSUME ascendidos' = {} PROVE AdminsActivos' # {}
      OBVIOUS
    <3>1. PICK v \in AdminsActivos : TRUE
      BY <2>4
    <3>2. v \in AdminsActivos'
      <4>1. CASE v # u
        BY <4>1, <3>1, <2>6
      <4>2. CASE v = u /\ ~QuitaAdmin(k)
        BY <1>4, <4>2, <3>1, <2>1 DEF CambiarOtro, Aplicar, Ordenes
      <4> QED
        BY <4>1, <4>2, <3>1, <2>5
    <3> QED
      BY <3>2
  <2> QED
    BY <2>1, <2>7, <2>8
<1> QED
  BY <1>0, <1>1, <1>2, <1>3, <1>4 DEF AdministradoresNext

\* The variables of the administrators keep their types.
THEOREM AdministradoresTipos == AdministradoresSpec => []AdministradoresTypeOK
<1>1. AdministradoresIInv => AdministradoresTypeOK
  BY DEF AdministradoresIInv
<1> QED
  BY <1>1, InicioAdministradores, PasoAdministradores, PTL DEF AdministradoresSpec

\* An active administrator stays, for any number of users and requests, unless
\* somebody was promoted between the two steps of a change.
THEOREM SiempreQuedaUnAdmin == AdministradoresSpec => []QuedaUnAdmin
<1>1. AdministradoresIInv => QuedaUnAdmin
  BY DEF AdministradoresIInv
<1> QED
  BY <1>1, InicioAdministradores, PasoAdministradores, PTL DEF AdministradoresSpec
-----------------------------------------------------------------------------
(* servicio-identidad: sessions *)

\* Before the first login there is no token.
LEMMA InicioSesiones == SesionesInit => SesionesIInv
<1> SUFFICES ASSUME SesionesInit PROVE SesionesIInv
  OBVIOUS
<1> USE SesionesAssumption DEF SesionesInit, Tokens, SinToken, TokensVivos, CadenaDe
<1>1. SesionesTypeOK
  <2>1. refreshToken \in [Tokens -> [estado : {"NO", "VIVO", "REVOCADO"}, cadena : 0..MaxTokens,
                                     reemplazado : BOOLEAN, reciente : BOOLEAN]]
    OBVIOUS
  <2>2. refresco \in [Refrescos -> [fase : {"FIN", "LEIDO", "VALIDO"}, token : 0..MaxTokens]]
    BY DEF SinRefresco
  <2>3. revocacion \in [Revocaciones -> [por : {"NADIE", "REUSO", "BAJA", "CLAVE"},
                                         hasta : 0..MaxTokens]]
    BY DEF SinRevocacion
  <2>4. activo \in BOOLEAN /\ porCaja \in BOOLEAN
    BY Zenon
  <2>5. emitido \in 0..MaxTokens
    OBVIOUS
  <2>6. /\ entrando \subseteq Accesos /\ cruzados \subseteq Accesos
        /\ cerradas \subseteq Tokens /\ rezagadas \subseteq Tokens
    BY Zenon
  <2> QED
    BY ONLY <2>1, <2>2, <2>3, <2>4, <2>5, <2>6 DEF SesionesTypeOK
<1>2. FilasEmitidas /\ EntrandoCruzados /\ NoVistasRezagadas /\ SesionesCerradas
  BY DEF FilasEmitidas, EntrandoCruzados, NoVistasRezagadas, SesionesCerradas
<1> QED
  BY <1>1, <1>2 DEF SesionesIInv

FilasToken == [estado : {"NO", "VIVO", "REVOCADO"}, cadena : 0..MaxTokens,
               reemplazado : BOOLEAN, reciente : BOOLEAN]

\* What a rotation makes of the row of the token it replaces.
LEMMA FilaRotada ==
  ASSUME NEW f \in FilasToken
  PROVE  [f EXCEPT !.estado = "REVOCADO", !.reemplazado = TRUE, !.reciente = TRUE]
           = [estado |-> "REVOCADO", cadena |-> f.cadena, reemplazado |-> TRUE, reciente |-> TRUE]
<1> DEFINE Campos == {"estado", "cadena", "reemplazado", "reciente"}
           g == [f EXCEPT !.estado = "REVOCADO", !.reemplazado = TRUE, !.reciente = TRUE]
           h == [estado |-> "REVOCADO", cadena |-> f.cadena, reemplazado |-> TRUE,
                 reciente |-> TRUE]
<1>1. DOMAIN f = Campos
  BY DEF FilasToken
<1>2. g = [i \in Campos |-> g[i]] /\ h = [i \in Campos |-> h[i]]
  BY <1>1
<1>3. \A i \in Campos : g[i] = h[i]
  <2>1. /\ g["estado"] = "REVOCADO" /\ g["cadena"] = f.cadena
        /\ g["reemplazado"] = TRUE /\ g["reciente"] = TRUE
    BY <1>1
  <2>2. /\ h["estado"] = "REVOCADO" /\ h["cadena"] = f.cadena
        /\ h["reemplazado"] = TRUE /\ h["reciente"] = TRUE
    OBVIOUS
  <2> HIDE DEF g, h
  <2> QED
    BY <2>1, <2>2
<1> HIDE DEF g, h, Campos
<1>4. g = h
  BY <1>2, <1>3
<1> QED
  BY <1>4 DEF g, h

FasesRefresco == [fase : {"FIN", "LEIDO", "VALIDO"}, token : 0..MaxTokens]
Motivos       == {"NADIE", "REUSO", "BAJA", "CLAVE"}

\* What a step does to the rows keeps what is said of them, if it gives no row
\* life or another chain.
LEMMA FilasConservadas ==
  ASSUME SesionesIInv, UNCHANGED emitido, rezagadas' \in {rezagadas, rezagadas \ cerradas'},
         \A t \in Tokens : /\ refreshToken'[t].estado = "NO" <=> refreshToken[t].estado = "NO"
                           /\ refreshToken'[t].estado = "VIVO" => refreshToken[t].estado = "VIVO"
                           /\ refreshToken'[t].cadena = refreshToken[t].cadena,
         cerradas' \subseteq 1..emitido,
         \A t \in TokensVivos' : CadenaDe(t) \notin cerradas'
  PROVE  /\ FilasEmitidas'
         /\ \A t \in TokensVivos' : /\ t \in TokensVivos /\ CadenaDe(t)' = CadenaDe(t)
                                    /\ CadenaDe(t) \in rezagadas => CadenaDe(t) \in rezagadas'
         /\ \A t, u \in TokensVivos' : CadenaDe(t)' = CadenaDe(u)' => t = u
         /\ \A t \in TokensVivos' : CadenaDe(t)' \notin cerradas'
<1>1. FilasEmitidas'
  BY DEF SesionesIInv, FilasEmitidas, CadenaDe
<1>2. \A t \in TokensVivos' : t \in TokensVivos /\ CadenaDe(t)' = CadenaDe(t)
  BY DEF TokensVivos, CadenaDe
<1>3. \A t, u \in TokensVivos : CadenaDe(t) = CadenaDe(u) => t = u
  BY DEF SesionesIInv, SesionesCerradas
<1>4. \A t \in TokensVivos' : CadenaDe(t)' \notin cerradas'
  BY <1>2
<1>5. \A t \in TokensVivos' : CadenaDe(t) \in rezagadas => CadenaDe(t) \in rezagadas'
  BY Zenon
<1> QED
  BY <1>1, <1>2, <1>3, <1>4, <1>5

\* A step that leaves the rows and the user as they were, and in which no login
\* starts, keeps the invariant if it keeps the types and a revocation that begins
\* has every token issued before it.
LEMMA FilasIguales ==
  ASSUME SesionesIInv, UNCHANGED <<usuario, filas, entrando, tarde>>,
         refresco' \in [Refrescos -> FasesRefresco],
         revocacion' \in [Revocaciones -> [por : Motivos, hasta : 0..MaxTokens]],
         \A r \in Revocaciones : \/ revocacion'[r] = revocacion[r]
                                 \/ revocacion'[r].hasta = emitido
  PROVE  SesionesIInv'
<1> USE DEF usuario, filas, tarde
<1>1. SesionesTypeOK'
  BY DEF SesionesIInv, SesionesTypeOK, FasesRefresco, Motivos
<1>2. FilasEmitidas' /\ EntrandoCruzados' /\ SesionesCerradas'
  BY DEF SesionesIInv, FilasEmitidas, EntrandoCruzados, SesionesCerradas, TokensVivos, CadenaDe
<1>3. TokensVivos' = TokensVivos /\ \A t \in Tokens : CadenaDe(t)' = CadenaDe(t)
  BY DEF TokensVivos, CadenaDe
<1>4. NoVistasRezagadas'
  <2> SUFFICES ASSUME NEW r \in Revocaciones, revocacion'[r].por \in {"BAJA", "CLAVE"},
                      NEW t \in TokensVivos, t > revocacion'[r].hasta
               PROVE  CadenaDe(t) \in rezagadas
    BY <1>3 DEF NoVistasRezagadas, TokensVivos
  <2>1. t \in Int /\ emitido \in Int /\ t <= emitido
    BY SesionesAssumption DEF SesionesIInv, SesionesTypeOK, FilasEmitidas, TokensVivos, Tokens
  <2>2. revocacion'[r] = revocacion[r]
    BY <2>1
  <2> QED
    BY <2>2 DEF SesionesIInv, NoVistasRezagadas
<1> QED
  BY <1>1, <1>2, <1>4 DEF SesionesIInv

\* A token that is issued is the first of a new chain, or takes the place of the
\* one alive in its own; what revokes closes every chain it touches, and what an
\* administrator's revocation does not touch was issued while it ran.
LEMMA PasoSesiones == SesionesIInv /\ [SesionesNext]_sesionesVars => SesionesIInv'
<1> SUFFICES ASSUME SesionesIInv, [SesionesNext]_sesionesVars PROVE SesionesIInv'
  OBVIOUS
<1> USE SesionesAssumption
    DEF SesionesIInv, SesionesTypeOK, FilasEmitidas, EntrandoCruzados, SesionesCerradas,
        TokensVivos, CadenaDe, Tokens, usuario, filas, curso, tarde
<1>0. CASE UNCHANGED sesionesVars
  BY <1>0 DEF sesionesVars, NoVistasRezagadas
<1>1. ASSUME NEW l \in Accesos, Login(l) PROVE SesionesIInv'
  <2>1. /\ activo /\ entrando' = entrando \cup {l}
        /\ UNCHANGED <<activo, porCaja, refreshToken, emitido, cerradas, refresco, revocacion,
                       cruzados, rezagadas>>
    BY <1>1 DEF Login
  <2>2. NoVistasRezagadas'
    BY <2>1 DEF NoVistasRezagadas
  <2> QED
    BY <2>1, <2>2
<1>2. ASSUME NEW l \in Accesos, IssueRefreshToken(l) PROVE SesionesIInv'
  <2> DEFINE n == emitido + 1
  <2>0. /\ n \in Tokens /\ emitido' = n /\ l \in entrando
        /\ entrando' = entrando \ {l} /\ cruzados' = cruzados \ {l}
        /\ rezagadas' \in {rezagadas, rezagadas \cup {n}}
        /\ rezagadas \subseteq rezagadas'
        /\ l \in cruzados \/ ~FilaLibre => n \in rezagadas'
        /\ UNCHANGED <<activo, porCaja, refresco, revocacion, cerradas>>
    BY <1>2 DEF IssueRefreshToken
  <2>1. refreshToken'[n] = NuevoToken(n) /\ \A t \in Tokens \ {n} : refreshToken'[t] = refreshToken[t]
    BY <1>2, <2>0 DEF IssueRefreshToken
  <2>2. SesionesTypeOK'
    <3>1. refreshToken' \in [Tokens -> FilasToken]
      BY <1>2, <2>0 DEF IssueRefreshToken, NuevoToken, FilasToken
    <3>2. rezagadas' \subseteq Tokens /\ entrando' \subseteq Accesos /\ emitido' \in 0..MaxTokens
      BY <2>0
    <3> QED
      BY <2>0, <3>1, <3>2 DEF FilasToken
  <2>3. FilasEmitidas'
    <3>1. \A t \in Tokens : /\ refreshToken'[t].estado # "NO" <=> t <= emitido'
                            /\ t <= emitido' => refreshToken'[t].cadena \in 1..t
      BY <2>0, <2>1 DEF NuevoToken
    <3>2. cerradas' \subseteq 1..emitido' /\ rezagadas' \subseteq 1..emitido'
      BY <2>0
    <3> QED
      BY <3>1, <3>2
  <2>4. EntrandoCruzados'
    BY <2>0
  <2>5. NoVistasRezagadas'
    <3> SUFFICES ASSUME NEW r \in Revocaciones, revocacion[r].por \in {"BAJA", "CLAVE"},
                        NEW t \in TokensVivos', t > revocacion[r].hasta
                 PROVE  refreshToken'[t].cadena \in rezagadas'
      BY <2>0 DEF NoVistasRezagadas
    <3>1. CASE t = n
      <4>1. ~FilaLibre
        BY DEF FilaLibre
      <4> QED
        BY <2>0, <2>1, <3>1, <4>1 DEF NuevoToken
    <3>2. CASE t # n
      BY <2>0, <2>1, <3>2 DEF NoVistasRezagadas
    <3> QED
      BY <3>1, <3>2
  <2>6. SesionesCerradas'
    <3>1. \A t \in Tokens \ {n} : refreshToken[t].estado = "VIVO" => refreshToken[t].cadena < n
      BY <2>0
    <3>2. \A t \in TokensVivos' \ {n} : t \in TokensVivos /\ CadenaDe(t)' = CadenaDe(t)
      BY <2>1
    <3>3. \A t, u \in TokensVivos' : CadenaDe(t)' = CadenaDe(u)' => t = u
      <4>1. \A t \in Tokens : t = n => CadenaDe(t)' = n
        BY <2>1 DEF NuevoToken
      <4>2. \A t \in TokensVivos' \ {n} : CadenaDe(t)' # n
        BY <2>0, <3>1, <3>2
      <4>3. \A t, u \in TokensVivos : CadenaDe(t) = CadenaDe(u) => t = u
        OBVIOUS
      <4>4. TokensVivos' \subseteq Tokens
        OBVIOUS
      <4> HIDE DEF TokensVivos, CadenaDe, n
      <4> QED
        BY ONLY <3>2, <4>1, <4>2, <4>3, <4>4
    <3>4. n \notin cerradas /\ \A t \in Tokens : t = n => CadenaDe(t)' = n
      BY <2>0, <2>1 DEF NuevoToken
    <3>5. \A t \in TokensVivos' : CadenaDe(t)' \notin cerradas'
      BY <2>0, <3>2, <3>4
    <3>6. ~activo' /\ ~porCaja' => \A t \in TokensVivos' : CadenaDe(t)' \in rezagadas'
      BY <2>0, <3>2, <3>4
    <3> QED
      BY <3>3, <3>5, <3>6
  <2> QED
    BY <2>2, <2>3, <2>4, <2>5, <2>6
<1>3. ASSUME NEW p \in Refrescos, NEW t \in Tokens, LeerToken(p, t) PROVE SesionesIInv'
  <2>1. /\ refresco' \in [Refrescos -> FasesRefresco]
        /\ UNCHANGED <<usuario, filas, entrando, revocacion, tarde>>
    BY <1>3 DEF LeerToken, FasesRefresco
  <2>2. revocacion \in [Revocaciones -> [por : Motivos, hasta : 0..MaxTokens]]
    BY DEF Motivos
  <2> QED
    BY ONLY SesionesIInv, <2>1, <2>2, FilasIguales
<1>4. ASSUME NEW p \in Refrescos, LeerUsuario(p) PROVE SesionesIInv'
  <2>1. /\ refresco' \in [Refrescos -> FasesRefresco]
        /\ UNCHANGED <<usuario, filas, entrando, revocacion, tarde>>
    BY <1>4 DEF LeerUsuario, FasesRefresco, SinRefresco
  <2>2. revocacion \in [Revocaciones -> [por : Motivos, hasta : 0..MaxTokens]]
    BY DEF Motivos
  <2> QED
    BY ONLY SesionesIInv, <2>1, <2>2, FilasIguales
<1>5. ASSUME NEW p \in Refrescos, RotarToken(p) PROVE SesionesIInv'
  <2> DEFINE t == refresco[p].token
             n == emitido + 1
             cadena == refreshToken[t].cadena
  <2>0. /\ n \in Tokens /\ emitido' = n /\ emitido \in Nat
        /\ t \in Tokens /\ t <= emitido /\ t # n
        /\ cadena \in 1..t
        /\ refreshToken[t].estado = "VIVO"
        /\ refreshToken \in [Tokens -> FilasToken]
    BY <1>5 DEF RotarToken, FilasToken
  <2>1. /\ refreshToken' \in [Tokens -> FilasToken]
        /\ refreshToken'[n] = NuevoToken(cadena)
        /\ refreshToken'[t] = [estado |-> "REVOCADO", cadena |-> cadena,
                               reemplazado |-> TRUE, reciente |-> TRUE]
        /\ \A u \in Tokens \ {n, t} : refreshToken'[u] = refreshToken[u]
    <3>1. [refreshToken[t] EXCEPT !.estado = "REVOCADO", !.reemplazado = TRUE, !.reciente = TRUE]
            = [estado |-> "REVOCADO", cadena |-> cadena, reemplazado |-> TRUE, reciente |-> TRUE]
      BY <2>0, FilaRotada
    <3>2. refreshToken' = [refreshToken EXCEPT
            ![t] = [refreshToken[t] EXCEPT !.estado = "REVOCADO", !.reemplazado = TRUE,
                                           !.reciente = TRUE],
            ![n] = NuevoToken(cadena)]
      BY <1>5, Zenon DEF RotarToken
    <3>3. NuevoToken(cadena) \in FilasToken
      BY <2>0 DEF NuevoToken, FilasToken
    <3>4. [estado |-> "REVOCADO", cadena |-> cadena, reemplazado |-> TRUE, reciente |-> TRUE]
             \in FilasToken
      BY <2>0 DEF FilasToken
    <3> HIDE DEF cadena, t, n
    <3> QED
      BY ONLY <2>0, <3>1, <3>2, <3>3, <3>4
  <2>2. /\ rezagadas' \in {rezagadas, rezagadas \cup {cadena}}
        /\ rezagadas \subseteq rezagadas'
        /\ ~FilaLibre => cadena \in rezagadas'
        /\ UNCHANGED <<activo, porCaja, entrando, revocacion, cerradas, cruzados>>
    BY <1>5 DEF RotarToken
  <2>3. SesionesTypeOK'
    <3>1. refresco' \in [Refrescos -> [fase : {"FIN", "LEIDO", "VALIDO"}, token : 0..MaxTokens]]
      BY <1>5 DEF RotarToken, SinRefresco
    <3>2. emitido' \in 0..MaxTokens /\ rezagadas' \subseteq Tokens
      BY <2>0, <2>2
    <3> QED
      BY <2>1, <2>2, <3>1, <3>2 DEF FilasToken
  <2>4. /\ refreshToken'[n].estado = "VIVO" /\ refreshToken'[n].cadena = cadena
        /\ refreshToken'[t].estado = "REVOCADO" /\ refreshToken'[t].cadena = cadena
    BY <2>1 DEF NuevoToken
  <2>5. FilasEmitidas'
    <3>1. ASSUME NEW u \in Tokens
          PROVE  /\ refreshToken'[u].estado # "NO" <=> u <= n
                 /\ u <= n => refreshToken'[u].cadena \in 1..u
      <4>1. CASE u = n
        BY <2>0, <2>4, <4>1
      <4>2. CASE u = t
        BY <2>0, <2>4, <4>2
      <4>3. CASE u \notin {n, t}
        BY <2>0, <2>1, <4>3
      <4> QED
        BY <4>1, <4>2, <4>3
    <3>2. cerradas' \subseteq 1..n /\ rezagadas' \subseteq 1..n
      BY <2>0, <2>2
    <3> QED
      BY <2>0, <3>1, <3>2
  <2>6. EntrandoCruzados'
    BY <2>2
  <2>7. \A u \in TokensVivos' \ {n} : u \in TokensVivos /\ u # t /\ CadenaDe(u)' = CadenaDe(u)
    BY <2>0, <2>1, <2>4
  <2>8. NoVistasRezagadas'
    <3> SUFFICES ASSUME NEW r \in Revocaciones, revocacion[r].por \in {"BAJA", "CLAVE"},
                        NEW u \in TokensVivos', u > revocacion[r].hasta
                 PROVE  CadenaDe(u)' \in rezagadas'
      BY <2>2 DEF NoVistasRezagadas
    <3>1. CASE u = n
      <4>1. ~FilaLibre
        BY DEF FilaLibre
      <4> QED
        BY <2>2, <2>4, <3>1, <4>1
    <3>2. CASE u # n
      BY <2>2, <2>7, <3>2 DEF NoVistasRezagadas
    <3> QED
      BY <3>1, <3>2
  <2>9. SesionesCerradas'
    <3>1. \A u \in Tokens : refreshToken[u].estado = "VIVO" /\ u # t => refreshToken[u].cadena # cadena
      BY <2>0
    <3>3. \A u \in TokensVivos' \ {n} : CadenaDe(u)' # cadena
      BY <3>1, <2>7
    <3>4. \A u, v \in TokensVivos' : CadenaDe(u)' = CadenaDe(v)' => u = v
      <4> SUFFICES ASSUME NEW u \in TokensVivos', NEW v \in TokensVivos',
                          CadenaDe(u)' = CadenaDe(v)', u # v
                   PROVE  FALSE
        OBVIOUS
      <4>0. \A w \in Tokens : w = n => CadenaDe(w)' = cadena
        BY <2>4
      <4> HIDE DEF TokensVivos, CadenaDe, n, cadena
      <4>1. u # n /\ v # n
        BY <3>3, <4>0 DEF TokensVivos
      <4>2. u \in TokensVivos /\ v \in TokensVivos /\ CadenaDe(u) = CadenaDe(v)
        BY <2>7, <4>1
      <4> QED
        BY <4>2
    <3>5. /\ cadena = CadenaDe(t) /\ t \in TokensVivos
          /\ \A u \in TokensVivos' : u = n => CadenaDe(u)' = cadena
      BY <2>0, <2>4
    <3>6. \A u \in TokensVivos' : CadenaDe(u)' \notin cerradas'
      BY <2>2, <2>7, <3>5
    <3>7. ~activo' /\ ~porCaja' => \A u \in TokensVivos' : CadenaDe(u)' \in rezagadas'
      BY <2>2, <2>7, <3>5
    <3> QED
      BY <3>4, <3>6, <3>7
  <2> QED
    BY <2>3, <2>5, <2>6, <2>8, <2>9
<1>6. ASSUME NEW p \in Refrescos, PerderRotacion(p) PROVE SesionesIInv'
  <2>1. /\ refresco' \in [Refrescos -> FasesRefresco]
        /\ UNCHANGED <<usuario, filas, entrando, tarde>>
    BY <1>6 DEF PerderRotacion, FasesRefresco, SinRefresco
  <2>2. UNCHANGED revocacion \/ \E r \in Revocaciones : RevocarCadena(r, "REUSO")
    BY <1>6 DEF PerderRotacion
  <2>3. /\ revocacion' \in [Revocaciones -> [por : Motivos, hasta : 0..MaxTokens]]
        /\ \A r \in Revocaciones : \/ revocacion'[r] = revocacion[r]
                                   \/ revocacion'[r].hasta = emitido
    <3>1. CASE UNCHANGED revocacion
      BY <3>1 DEF Motivos
    <3>2. CASE \E r \in Revocaciones : RevocarCadena(r, "REUSO")
      BY <3>2 DEF RevocarCadena, Motivos
    <3> QED
      BY <2>2, <3>1, <3>2
  <2> QED
    BY ONLY SesionesIInv, <2>1, <2>3, FilasIguales
<1>7. ASSUME NEW t \in Tokens, NEW r \in Revocaciones, ReusoDetectado(t, r) PROVE SesionesIInv'
  <2>1. UNCHANGED <<usuario, filas, entrando, refresco, tarde>> /\ RevocarCadena(r, "REUSO")
    BY <1>7 DEF ReusoDetectado
  <2>2. refresco' \in [Refrescos -> FasesRefresco]
    BY <2>1 DEF FasesRefresco
  <2>3. /\ revocacion' \in [Revocaciones -> [por : Motivos, hasta : 0..MaxTokens]]
        /\ \A s \in Revocaciones : \/ revocacion'[s] = revocacion[s]
                                   \/ revocacion'[s].hasta = emitido
    BY <2>1 DEF RevocarCadena, Motivos
  <2> QED
    BY ONLY SesionesIInv, <2>1, <2>2, <2>3, FilasIguales
<1>8. ASSUME NEW t \in Tokens, Envejecer(t) PROVE SesionesIInv'
  <2>0. /\ UNCHANGED <<activo, porCaja, emitido, entrando, refresco, revocacion, cruzados,
                       rezagadas>>
        /\ refreshToken' \in [Tokens -> FilasToken]
        /\ \A u \in Tokens :
             /\ refreshToken'[u].estado = "NO" <=> refreshToken[u].estado = "NO"
             /\ refreshToken'[u].estado = "VIVO" => refreshToken[u].estado = "VIVO"
             /\ refreshToken'[u].cadena = refreshToken[u].cadena
        /\ UNCHANGED cerradas
    <3>1. refreshToken' = [refreshToken EXCEPT ![t] = [refreshToken[t] EXCEPT !.reciente = FALSE]]
      BY <1>8 DEF Envejecer
    <3>2. ASSUME NEW f \in FilasToken, NEW g, g = [f EXCEPT !.reciente = FALSE]
          PROVE  /\ g \in FilasToken
                 /\ g.estado = f.estado /\ g.cadena = f.cadena
      BY <3>2 DEF FilasToken
    <3>3. refreshToken \in [Tokens -> FilasToken]
      BY DEF FilasToken
    <3>4. PICK g : g = [refreshToken[t] EXCEPT !.reciente = FALSE]
      OBVIOUS
    <3>5. g \in FilasToken /\ g.estado = refreshToken[t].estado /\ g.cadena = refreshToken[t].cadena
      BY ONLY <3>2, <3>3, <3>4, t \in Tokens
    <3>6. refreshToken' = [refreshToken EXCEPT ![t] = g]
      BY <3>1, <3>4
    <3>7. /\ refreshToken' \in [Tokens -> FilasToken] /\ refreshToken'[t] = g
          /\ \A u \in Tokens \ {t} : refreshToken'[u] = refreshToken[u]
      BY ONLY <3>3, <3>5, <3>6
    <3>8. /\ UNCHANGED <<activo, porCaja, emitido, entrando, refresco, revocacion, cruzados,
                         rezagadas>>
          /\ UNCHANGED cerradas
      BY <1>8 DEF Envejecer
    <3> QED
      BY ONLY <3>5, <3>7, <3>8
  <2>c. cerradas' \subseteq 1..emitido
    BY <2>0
  <2>d. \A u \in TokensVivos' : CadenaDe(u) \notin cerradas'
    BY <2>0
  <2>1. SesionesTypeOK' /\ EntrandoCruzados'
    BY <2>0 DEF FilasToken
  <2>2. /\ FilasEmitidas'
        /\ \A u \in TokensVivos' : /\ u \in TokensVivos /\ CadenaDe(u)' = CadenaDe(u)
                                   /\ CadenaDe(u) \in rezagadas => CadenaDe(u) \in rezagadas'
        /\ \A u, v \in TokensVivos' : CadenaDe(u)' = CadenaDe(v)' => u = v
        /\ \A u \in TokensVivos' : CadenaDe(u)' \notin cerradas'
    BY ONLY SesionesIInv, <2>0, <2>c, <2>d, FilasConservadas
  <2> QED
    BY <2>0, <2>1, <2>2 DEF NoVistasRezagadas
<1>9. ASSUME NEW t \in Tokens, Logout(t) PROVE SesionesIInv'
  <2>0. /\ UNCHANGED <<activo, porCaja, emitido, entrando, refresco, revocacion, cruzados>>
        /\ rezagadas' = rezagadas \ cerradas'
        /\ refreshToken' \in [Tokens -> FilasToken]
        /\ \A u \in Tokens :
             /\ refreshToken'[u].estado = "NO" <=> refreshToken[u].estado = "NO"
             /\ refreshToken'[u].estado = "VIVO" => refreshToken[u].estado = "VIVO"
             /\ refreshToken'[u].cadena = refreshToken[u].cadena
        /\ t \in TokensVivos /\ cerradas' = cerradas \cup {CadenaDe(t)}
        /\ refreshToken'[t].estado = "REVOCADO"
    <3>1. refreshToken' = [refreshToken EXCEPT ![t] = [refreshToken[t] EXCEPT !.estado = "REVOCADO"]]
      BY <1>9 DEF Logout
    <3>2. ASSUME NEW f \in FilasToken, NEW g, g = [f EXCEPT !.estado = "REVOCADO"]
          PROVE  /\ g \in FilasToken
                 /\ g.estado = "REVOCADO" /\ g.cadena = f.cadena
      BY <3>2 DEF FilasToken
    <3>3. refreshToken \in [Tokens -> FilasToken]
      BY DEF FilasToken
    <3>4. PICK g : g = [refreshToken[t] EXCEPT !.estado = "REVOCADO"]
      OBVIOUS
    <3>5. g \in FilasToken /\ g.estado = "REVOCADO" /\ g.cadena = refreshToken[t].cadena
      BY ONLY <3>2, <3>3, <3>4, t \in Tokens
    <3>6. refreshToken' = [refreshToken EXCEPT ![t] = g]
      BY <3>1, <3>4
    <3>7. /\ refreshToken' \in [Tokens -> FilasToken] /\ refreshToken'[t] = g
          /\ \A u \in Tokens \ {t} : refreshToken'[u] = refreshToken[u]
      BY ONLY <3>3, <3>5, <3>6
    <3>8. /\ UNCHANGED <<activo, porCaja, emitido, entrando, refresco, revocacion, cruzados>>
          /\ rezagadas' = rezagadas \ cerradas'
          /\ t \in TokensVivos /\ cerradas' = cerradas \cup {CadenaDe(t)}
      BY <1>9 DEF Logout
    <3> QED
      BY ONLY <3>5, <3>7, <3>8 DEF TokensVivos
  <2>c. cerradas' \subseteq 1..emitido
    <3>1. t \in Int /\ emitido \in Int /\ CadenaDe(t) \in 1..t /\ t <= emitido
      BY <2>0
    <3>2. CadenaDe(t) \in 1..emitido
      BY <3>1
    <3> QED
      BY <2>0, <3>2
  <2>d. \A u \in TokensVivos' : CadenaDe(u) \notin cerradas'
    <3>1. \A u \in TokensVivos' : u \in TokensVivos /\ u # t
      BY <2>0
    <3>2. \A u \in TokensVivos : CadenaDe(u) \notin cerradas /\ (u # t => CadenaDe(u) # CadenaDe(t))
      BY <2>0
    <3> QED
      BY <2>0, <3>1, <3>2
  <2>1. SesionesTypeOK' /\ EntrandoCruzados'
    <3>1. cerradas' \subseteq Tokens
      BY <2>c
    <3>2. rezagadas' \subseteq Tokens
      BY <2>0, Zenon
    <3> QED
      BY <2>0, <3>1, <3>2 DEF FilasToken
  <2>2. /\ FilasEmitidas'
        /\ \A u \in TokensVivos' : /\ u \in TokensVivos /\ CadenaDe(u)' = CadenaDe(u)
                                   /\ CadenaDe(u) \in rezagadas => CadenaDe(u) \in rezagadas'
        /\ \A u, v \in TokensVivos' : CadenaDe(u)' = CadenaDe(v)' => u = v
        /\ \A u \in TokensVivos' : CadenaDe(u)' \notin cerradas'
    BY ONLY SesionesIInv, <2>0, <2>c, <2>d, FilasConservadas
  <2> QED
    BY <2>0, <2>1, <2>2 DEF NoVistasRezagadas
<1>10. CASE Activar
  BY <1>10 DEF Activar, NoVistasRezagadas
<1>11. ASSUME NEW r \in Revocaciones, NEW por \in {"BAJA", "CLAVE"}, RevocarUsuario(r, por)
       PROVE  SesionesIInv'
  <2>1. UNCHANGED <<usuario, filas, entrando, refresco, tarde>> /\ RevocarCadena(r, por)
    BY <1>11 DEF RevocarUsuario
  <2>2. refresco' \in [Refrescos -> FasesRefresco]
    BY <2>1 DEF FasesRefresco
  <2>3. /\ revocacion' \in [Revocaciones -> [por : Motivos, hasta : 0..MaxTokens]]
        /\ \A s \in Revocaciones : \/ revocacion'[s] = revocacion[s]
                                   \/ revocacion'[s].hasta = emitido
    BY <2>1 DEF RevocarCadena, Motivos
  <2> QED
    BY ONLY SesionesIInv, <2>1, <2>2, <2>3, FilasIguales
<1>12. ASSUME NEW r \in Revocaciones, ConfirmarRevocacion(r) PROVE SesionesIInv'
  <2> DEFINE caen == {t \in TokensVivos : t <= revocacion[r].hasta}
  <2>1. /\ revocacion[r].por # "NADIE"
        /\ cerradas' = cerradas \cup {CadenaDe(t) : t \in caen}
        /\ revocacion' = [revocacion EXCEPT ![r] = SinRevocacion]
        /\ rezagadas' = rezagadas \ cerradas'
        /\ UNCHANGED <<emitido, entrando, refresco>>
    BY <1>12 DEF ConfirmarRevocacion
  <2>2. /\ activo' \in BOOLEAN /\ porCaja' \in BOOLEAN
        /\ revocacion[r].por = "REUSO" => UNCHANGED <<activo, porCaja, cruzados>>
        /\ revocacion[r].por # "REUSO" => cruzados' = cruzados \cup entrando
    BY <1>12, Zenon DEF ConfirmarRevocacion
  <2>3. /\ refreshToken' \in [Tokens -> FilasToken]
        /\ \A t \in Tokens :
             /\ refreshToken'[t].estado = "NO" <=> refreshToken[t].estado = "NO"
             /\ refreshToken'[t].estado = "VIVO" => refreshToken[t].estado = "VIVO" /\ t \notin caen
             /\ refreshToken'[t].cadena = refreshToken[t].cadena
    <3>1. refreshToken' = [t \in Tokens |->
            IF t \in caen THEN [refreshToken[t] EXCEPT !.estado = "REVOCADO"] ELSE refreshToken[t]]
      BY <1>12 DEF ConfirmarRevocacion
    <3>2. \A t \in Tokens : /\ refreshToken[t] \in FilasToken
                            /\ t \in caen => refreshToken[t].estado = "VIVO"
      BY DEF FilasToken
    <3>3. ASSUME NEW f \in FilasToken
          PROVE  /\ [f EXCEPT !.estado = "REVOCADO"] \in FilasToken
                 /\ [f EXCEPT !.estado = "REVOCADO"].estado = "REVOCADO"
                 /\ [f EXCEPT !.estado = "REVOCADO"].cadena = f.cadena
      BY DEF FilasToken
    <3> HIDE DEF caen, FilasToken
    <3> QED
      BY ONLY <3>1, <3>2, <3>3
  <2>4. cerradas' \subseteq 1..emitido
    <3>1. \A t \in caen : t \in Tokens /\ t <= emitido /\ CadenaDe(t) \in 1..t
      OBVIOUS
    <3>2. \A t \in caen : CadenaDe(t) \in 1..emitido
      BY <3>1
    <3> HIDE DEF caen
    <3> QED
      BY <2>1, <3>2
  <2>5. \A t \in TokensVivos' : CadenaDe(t) \notin cerradas'
    <3>1. \A t \in TokensVivos' : t \in TokensVivos /\ t \notin caen
      BY <2>3
    <3>2. \A t \in TokensVivos : CadenaDe(t) \notin cerradas
      OBVIOUS
    <3>3. \A t, u \in TokensVivos : CadenaDe(t) = CadenaDe(u) => t = u
      OBVIOUS
    <3>4. caen \subseteq TokensVivos
      OBVIOUS
    <3> HIDE DEF caen, CadenaDe, TokensVivos
    <3> QED
      BY ONLY <2>1, <3>1, <3>2, <3>3, <3>4
  <2>6. /\ FilasEmitidas'
        /\ \A u \in TokensVivos' : /\ u \in TokensVivos /\ CadenaDe(u)' = CadenaDe(u)
                                   /\ CadenaDe(u) \in rezagadas => CadenaDe(u) \in rezagadas'
        /\ \A u, v \in TokensVivos' : CadenaDe(u)' = CadenaDe(v)' => u = v
        /\ \A u \in TokensVivos' : CadenaDe(u)' \notin cerradas'
    <3> HIDE DEF caen
    <3> QED
      BY ONLY SesionesIInv, <2>1, <2>3, <2>4, <2>5, FilasConservadas
  <2>7. SesionesTypeOK'
    <3>1. cruzados' \subseteq Accesos /\ cerradas' \subseteq Tokens
      BY <2>2, <2>4
    <3>2. revocacion' \in [Revocaciones -> [por : {"NADIE", "REUSO", "BAJA", "CLAVE"},
                                            hasta : 0..MaxTokens]]
      BY <2>1 DEF SinRevocacion
    <3> QED
      BY <2>1, <2>2, <2>3, <3>1, <3>2 DEF FilasToken
  <2>8. EntrandoCruzados'
    BY <2>1, <2>2
  <2>9. NoVistasRezagadas'
    <3>1. \A s \in Revocaciones : revocacion'[s].por \in {"BAJA", "CLAVE"} =>
                                  revocacion'[s] = revocacion[s]
      BY <2>1 DEF SinRevocacion
    <3> QED
      BY <2>1, <2>6, <3>1 DEF NoVistasRezagadas
  <2>10. ~activo' /\ ~porCaja' => \A t \in TokensVivos' : CadenaDe(t)' \in rezagadas'
    <3>1. CASE revocacion[r].por = "REUSO"
      BY <2>1, <2>2, <2>6, <3>1
    <3>2. CASE revocacion[r].por # "REUSO"
      <4>1. revocacion[r].por \in {"BAJA", "CLAVE"}
        BY <2>1, <3>2
      <4>2. \A t \in TokensVivos' : t > revocacion[r].hasta
        BY <2>3
      <4> QED
        BY <2>1, <2>6, <4>1, <4>2 DEF NoVistasRezagadas
    <3> QED
      BY <3>1, <3>2
  <2> QED
    BY <2>6, <2>7, <2>8, <2>9, <2>10
<1>13. ASSUME NEW a \in BOOLEAN, ActivarMeserosPorSede(a) PROVE SesionesIInv'
  <2>1. /\ UNCHANGED <<refreshToken, emitido, cerradas, entrando, refresco, revocacion,
                       cruzados, rezagadas>>
    BY <1>13 DEF ActivarMeserosPorSede
  <2>2. /\ activo' \in BOOLEAN /\ porCaja' \in BOOLEAN
        /\ ~activo' /\ ~porCaja' => ~activo /\ ~porCaja
    BY <1>13, Zenon DEF ActivarMeserosPorSede
  <2>3. NoVistasRezagadas'
    BY <2>1 DEF NoVistasRezagadas
  <2> QED
    BY <2>1, <2>2, <2>3
<1> QED
  BY <1>0, <1>1, <1>2, <1>3, <1>4, <1>5, <1>6, <1>7, <1>8, <1>9, <1>10, <1>11, <1>12, <1>13
     DEF SesionesNext

\* The variables of the sessions keep their types.
THEOREM SesionesTipos == SesionesSpec => []SesionesTypeOK
<1>1. SesionesIInv => SesionesTypeOK
  BY DEF SesionesIInv
<1> QED
  BY <1>1, InicioSesiones, PasoSesiones, PTL DEF SesionesSpec

\* One live token per chain and none in a chain that was closed; of a user whom an
\* administrator left inactive, only the chains that got a token while its tokens
\* were being revoked: for any number of tokens, of logins, and of concurrent
\* refreshes and revocations, and whatever the till does to the user.
THEOREM SesionesBienCerradas == SesionesSpec => []SesionesCerradas
<1>1. SesionesIInv => SesionesCerradas
  BY DEF SesionesIInv
<1> QED
  BY <1>1, InicioSesiones, PasoSesiones, PTL DEF SesionesSpec
-----------------------------------------------------------------------------
(* RabbitMQRetryInterceptor *)

\* Every message is in the queue and nothing runs.
LEMMA InicioConsumidor == ConsumidorInit => ConsumidorIInv
<1> SUFFICES ASSUME ConsumidorInit PROVE ConsumidorIInv
  OBVIOUS
<1> USE ConsumidorAssumption DEF ConsumidorInit
<1>1. ConsumidorTypeOK
  BY DEF ConsumidorTypeOK
<1>2. EnOrden /\ ExitoAlFinal
  BY DEF EnOrden, ExitoAlFinal
<1>3. EntregaConCausa
  BY DEF EntregaConCausa
<1> QED
  BY <1>1, <1>2, <1>3 DEF ConsumidorIInv

Ejecuciones == [fase : {"NO", "CORRE", "HECHO", "ESPERA", "FIN"}, fallos : 0..MaxRetries]

\* What a step changes when it gives one execution, (m, e), another value.
LEMMA UnaEjecucion ==
  ASSUME ConsumidorTypeOK, NEW m \in Mensajes, NEW e \in Entregas, NEW x \in Ejecuciones,
         ejecucion' = [ejecucion EXCEPT ![m] = [ejecucion[m] EXCEPT ![e] = x]]
  PROVE  /\ ejecucion'[m][e] = x
         /\ \A n \in Mensajes, f \in Entregas :
              n # m \/ f # e => ejecucion'[n][f] = ejecucion[n][f]
         /\ ejecucion' \in [Mensajes -> [Entregas -> Ejecuciones]]
<1>1. /\ ejecucion \in [Mensajes -> [Entregas -> Ejecuciones]]
      /\ ejecucion[m] \in [Entregas -> Ejecuciones]
  BY DEF ConsumidorTypeOK, Ejecuciones
<1> QED
  BY <1>1

\* The same when only its phase changes.
LEMMA UnaFase ==
  ASSUME ConsumidorTypeOK, NEW m \in Mensajes, NEW e \in Entregas,
         NEW fase \in {"NO", "CORRE", "HECHO", "ESPERA", "FIN"},
         ejecucion' = [ejecucion EXCEPT ![m][e].fase = fase]
  PROVE  /\ ejecucion'[m][e].fase = fase
         /\ ejecucion'[m][e].fallos = ejecucion[m][e].fallos
         /\ \A n \in Mensajes, f \in Entregas :
              n # m \/ f # e => ejecucion'[n][f] = ejecucion[n][f]
         /\ ejecucion' \in [Mensajes -> [Entregas -> Ejecuciones]]
<1>1. ejecucion[m][e] \in Ejecuciones
  BY DEF ConsumidorTypeOK, Ejecuciones
<1> DEFINE x == [ejecucion[m][e] EXCEPT !.fase = fase]
<1>2. x \in Ejecuciones /\ x.fase = fase /\ x.fallos = ejecucion[m][e].fallos
  BY <1>1 DEF Ejecuciones
<1>3. ejecucion' = [ejecucion EXCEPT ![m] = [ejecucion[m] EXCEPT ![e] = x]]
  OBVIOUS
<1> HIDE DEF x
<1>4. /\ ejecucion'[m][e] = x
      /\ \A n \in Mensajes, f \in Entregas :
           n # m \/ f # e => ejecucion'[n][f] = ejecucion[n][f]
      /\ ejecucion' \in [Mensajes -> [Entregas -> Ejecuciones]]
  BY ONLY ConsumidorTypeOK, m \in Mensajes, e \in Entregas, <1>2, <1>3, UnaEjecucion
<1> QED
  BY ONLY <1>2, <1>4

\* A step that delivers nothing and completes nothing keeps what is said of the
\* executions, if each stays as it was, ends, or is between two attempts.
LEMMA EjecucionesConservadas ==
  ASSUME ConsumidorTypeOK, EnOrden, ExitoAlFinal, UNCHANGED <<entregas, exitos>>,
         \A n \in Mensajes, f \in Entregas :
           \/ ejecucion'[n][f].fase = ejecucion[n][f].fase
           \/ f <= entregas[n] /\ ejecucion'[n][f].fase = "FIN"
           \/ /\ f <= entregas[n]
              /\ ejecucion'[n][f].fase \in {"CORRE", "ESPERA"}
              /\ ejecucion[n][f].fase \in {"CORRE", "ESPERA"},
         \A n \in Mensajes : mensaje'[n] # "EN_COLA" => mensaje[n] # "EN_COLA"
  PROVE  EnOrden' /\ ExitoAlFinal'
<1>1. EnOrden'
  <2>1. ASSUME NEW n \in Mensajes, NEW f \in Entregas, f > entregas[n]
        PROVE  ejecucion'[n][f].fase = "NO"
    <3>1. f \in Int /\ entregas[n] \in Int /\ ejecucion[n][f].fase = "NO"
      BY <2>1 DEF ConsumidorTypeOK, Entregas, EnOrden
    <3> QED
      BY <2>1, <3>1
  <2> QED
    BY <2>1 DEF EnOrden
<1>2. ExitoAlFinal'
  BY DEF ExitoAlFinal
<1> QED
  BY <1>1, <1>2

\* Each delivery runs to its end once at most, and what leaves the broker has a
\* reason to: action by action.
LEMMA PasoConsumidor == ConsumidorIInv /\ [ConsumidorNext]_consumidorVars => ConsumidorIInv'
<1> SUFFICES ASSUME ConsumidorIInv, [ConsumidorNext]_consumidorVars PROVE ConsumidorIInv'
  OBVIOUS
<1>i. ConsumidorTypeOK /\ EnOrden /\ ExitoAlFinal /\ EntregaConCausa
  BY DEF ConsumidorIInv
<1>e. \A n \in Mensajes, f \in Entregas : f \in Int /\ entregas[n] \in Int
  BY <1>i DEF ConsumidorTypeOK, Entregas
<1>c. \A n \in Mensajes, f \in Entregas : ejecucion[n][f].fase # "NO" => f <= entregas[n]
  <2> SUFFICES ASSUME NEW n \in Mensajes, NEW f \in Entregas, ~(f <= entregas[n])
               PROVE  ejecucion[n][f].fase = "NO"
    OBVIOUS
  <2>1. f > entregas[n]
    BY <1>e
  <2> QED
    BY <1>i, <2>1 DEF EnOrden
<1>0. CASE UNCHANGED consumidorVars
  BY <1>i, <1>0 DEF consumidorVars, broker, ConsumidorIInv, ConsumidorTypeOK, EnOrden,
                    ExitoAlFinal, EntregaConCausa
<1>1. ASSUME NEW m \in Mensajes, Entregar(m) PROVE ConsumidorIInv'
  <2>0. PICK e \in Entregas : e = entregas[m] + 1 /\ entregas'[m] = e
    BY <1>1, <1>i, ConsumidorAssumption DEF Entregar, Entregas, ConsumidorTypeOK, ConsumidorAssumption
  <2>1. ejecucion' = [ejecucion EXCEPT ![m][e].fase = "CORRE"]
    BY <1>1, <2>0 DEF Entregar
  <2>2. /\ ejecucion'[m][e].fase = "CORRE"
        /\ \A n \in Mensajes, f \in Entregas :
             n # m \/ f # e => ejecucion'[n][f] = ejecucion[n][f]
        /\ ejecucion' \in [Mensajes -> [Entregas -> Ejecuciones]]
    BY <1>i, <2>0, <2>1, UnaFase
  <2>3. /\ UNCHANGED <<exitos, permanentes, agotados>>
        /\ mensaje' \in [Mensajes -> {"EN_COLA", "ENTREGADO", "CONFIRMADO", "DLQ"}]
        /\ mensaje'[m] = "ENTREGADO"
        /\ \A n \in Mensajes : n # m => mensaje'[n] = mensaje[n] /\ entregas'[n] = entregas[n]
        /\ entregas' \in [Mensajes -> 0..MaxEntregas]
    <3>1. \A k \in Entregas : k \in 0..MaxEntregas
      BY ConsumidorAssumption DEF Entregas, ConsumidorAssumption
    <3>2. entregas' = [entregas EXCEPT ![m] = e]
      BY <1>1, <1>i, <2>0 DEF Entregar, ConsumidorTypeOK
    <3> QED
      BY <1>1, <1>i, <2>0, <3>1, <3>2 DEF Entregar, ConsumidorTypeOK
  <2>4. ConsumidorTypeOK'
    BY <1>i, <2>2, <2>3 DEF ConsumidorTypeOK, Ejecuciones
  <2>5. EnOrden'
    <3>1. ASSUME NEW n \in Mensajes, NEW f \in Entregas, f > entregas'[n]
          PROVE  ejecucion'[n][f].fase = "NO"
      <4>1. n # m \/ f # e
        BY <1>e, <2>0, <3>1
      <4>2. f > entregas[n]
        BY <1>e, <2>0, <2>3, <3>1
      <4> QED
        BY <1>i, <2>2, <4>1, <4>2 DEF EnOrden
    <3>2. \A n \in Mensajes : mensaje'[n] # "EN_COLA" => entregas'[n] \in Entregas
      BY <1>i, <2>0, <2>3 DEF EnOrden
    <3> QED
      BY <3>1, <3>2 DEF EnOrden
  <2>6. ExitoAlFinal'
    <3>1. ejecucion[m][e].fase = "NO"
      BY <1>e, <1>i, <2>0 DEF EnOrden
    <3>2. exitos[m][e] = 0
      BY <1>i, <3>1 DEF ExitoAlFinal
    <3> QED
      BY <1>i, <2>2, <2>3, <3>2 DEF ExitoAlFinal
  <2>7. EntregaConCausa'
    BY <1>i, <2>3 DEF EntregaConCausa
  <2> QED
    BY <2>4, <2>5, <2>6, <2>7 DEF ConsumidorIInv
<1>2. ASSUME NEW m \in Mensajes, NEW e \in Entregas, Manejar(m, e) PROVE ConsumidorIInv'
  <2>1. /\ ejecucion'[m][e].fase = "HECHO"
        /\ \A n \in Mensajes, f \in Entregas :
             n # m \/ f # e => ejecucion'[n][f] = ejecucion[n][f]
        /\ ejecucion' \in [Mensajes -> [Entregas -> Ejecuciones]]
    BY <1>2, <1>i, UnaFase DEF Manejar
  <2>2. /\ UNCHANGED <<mensaje, entregas, permanentes, agotados>>
        /\ exitos' = [exitos EXCEPT ![m] = [exitos[m] EXCEPT ![e] = exitos[m][e] + 1]]
        /\ ejecucion[m][e].fase = "CORRE"
    BY <1>2 DEF Manejar, broker
  <2>3. /\ exitos' \in [Mensajes -> [Entregas -> Nat]]
        /\ exitos'[m][e] = exitos[m][e] + 1 /\ exitos[m][e] = 0
        /\ \A n \in Mensajes, f \in Entregas : n # m \/ f # e => exitos'[n][f] = exitos[n][f]
    <3>1. exitos \in [Mensajes -> [Entregas -> Nat]] /\ exitos[m] \in [Entregas -> Nat]
      BY <1>i DEF ConsumidorTypeOK
    <3>2. exitos[m][e] = 0
      BY <1>i, <2>2 DEF ExitoAlFinal
    <3>3. exitos[m][e] + 1 \in Nat
      BY <3>2
    <3> DEFINE x == [exitos[m] EXCEPT ![e] = exitos[m][e] + 1]
    <3>4. /\ x \in [Entregas -> Nat] /\ x[e] = exitos[m][e] + 1
          /\ \A f \in Entregas : f # e => x[f] = exitos[m][f]
      BY ONLY <3>1, <3>3, e \in Entregas
    <3>5. exitos' = [exitos EXCEPT ![m] = x]
      BY <2>2
    <3> HIDE DEF x
    <3> QED
      BY ONLY <3>1, <3>2, <3>4, <3>5
  <2>4. ConsumidorTypeOK'
    BY <1>i, <2>1, <2>2, <2>3 DEF ConsumidorTypeOK, Ejecuciones
  <2>5. EnOrden'
    <3>1. e <= entregas[m]
      BY <1>c, <2>2
    <3> QED
      BY <1>i, <1>e, <2>1, <2>2, <3>1 DEF EnOrden
  <2>6. ExitoAlFinal'
    <3>1. ASSUME NEW n \in Mensajes, NEW f \in Entregas
          PROVE  /\ ejecucion'[n][f].fase \in {"NO", "CORRE", "ESPERA"} => exitos'[n][f] = 0
                 /\ ejecucion'[n][f].fase = "HECHO" => exitos'[n][f] > 0
      <4>1. CASE n = m /\ f = e
        BY <2>1, <2>3, <4>1
      <4>2. CASE n # m \/ f # e
        BY <1>i, <2>1, <2>3, <4>2 DEF ExitoAlFinal
      <4> QED
        BY <4>1, <4>2
    <3> QED
      BY <3>1 DEF ExitoAlFinal
  <2>7. EntregaConCausa'
    <3>1. \A n \in Mensajes, f \in Entregas : exitos'[n][f] <= 1 /\ exitos'[n][f] >= exitos[n][f]
      <4> SUFFICES ASSUME NEW n \in Mensajes, NEW f \in Entregas
                   PROVE  exitos'[n][f] <= 1 /\ exitos'[n][f] >= exitos[n][f]
        OBVIOUS
      <4>1. exitos[n][f] \in Nat /\ exitos[n][f] <= 1
        BY <1>i DEF ConsumidorTypeOK, EntregaConCausa
      <4>2. CASE n = m /\ f = e
        BY <2>3, <4>2
      <4>3. CASE n # m \/ f # e
        BY <2>3, <4>1, <4>3
      <4> QED
        BY <4>2, <4>3
    <3>2. \A n \in Mensajes : mensaje[n] = "CONFIRMADO" => entregas[n] \in Entregas
      BY <1>i DEF EnOrden
    <3>3. ASSUME NEW n \in Mensajes, mensaje[n] = "CONFIRMADO"
          PROVE  exitos'[n][entregas[n]] > 0
      <4>1. PICK f \in Entregas : f = entregas[n]
        BY <3>2, <3>3
      <4>2. exitos[n][f] > 0 /\ exitos[n][f] \in Nat /\ exitos'[n][f] \in Nat
        BY <1>i, <2>3, <3>3, <4>1 DEF EntregaConCausa, ConsumidorTypeOK
      <4>3. exitos'[n][f] >= exitos[n][f]
        BY <3>1
      <4> QED
        BY <4>1, <4>2, <4>3
    <3> QED
      BY <1>i, <2>2, <3>1, <3>3 DEF EntregaConCausa
  <2> QED
    BY <2>4, <2>5, <2>6, <2>7 DEF ConsumidorIInv
<1>3. ASSUME NEW m \in Mensajes, NEW e \in Entregas, Acusar(m, e) PROVE ConsumidorIInv'
  <2>1. /\ ejecucion'[m][e].fase = "FIN"
        /\ \A n \in Mensajes, f \in Entregas :
             n # m \/ f # e => ejecucion'[n][f] = ejecucion[n][f]
        /\ ejecucion' \in [Mensajes -> [Entregas -> Ejecuciones]]
    BY <1>3, <1>i, UnaFase DEF Acusar
  <2>2. /\ ejecucion[m][e].fase = "HECHO" /\ UNCHANGED <<entregas, exitos>>
        /\ permanentes \subseteq permanentes' /\ agotados \subseteq agotados'
        /\ permanentes' \subseteq permanentes \cup {<<m, e>>}
        /\ agotados' \subseteq agotados \cup {<<m, e>>}
    BY <1>3 DEF Acusar
  <2>3. /\ mensaje' \in [Mensajes -> {"EN_COLA", "ENTREGADO", "CONFIRMADO", "DLQ"}]
        /\ \A n \in Mensajes : \/ mensaje'[n] = mensaje[n]
                               \/ /\ n = m /\ e = entregas[m] /\ mensaje[m] = "ENTREGADO"
                                  /\ mensaje'[m] = "CONFIRMADO"
    BY <1>3, <1>i DEF Acusar, Responder, CanalVivo, ConsumidorTypeOK
  <2>4. e <= entregas[m]
    BY <1>c, <2>2
  <2>5. EnOrden' /\ ExitoAlFinal'
    BY <1>i, <1>e, <2>1, <2>2, <2>3, <2>4, EjecucionesConservadas
  <2>6. ConsumidorTypeOK'
    BY <1>i, <2>1, <2>2, <2>3 DEF ConsumidorTypeOK, Ejecuciones
  <2>7. EntregaConCausa'
    <3>1. exitos[m][e] > 0
      BY <1>i, <2>2 DEF ExitoAlFinal
    <3> QED
      BY <1>i, <2>2, <2>3, <3>1 DEF EntregaConCausa
  <2> QED
    BY <2>5, <2>6, <2>7 DEF ConsumidorIInv
<1>4. ASSUME NEW m \in Mensajes, NEW e \in Entregas, FallarPermanente(m, e) PROVE ConsumidorIInv'
  <2>1. /\ ejecucion'[m][e].fase = "FIN"
        /\ \A n \in Mensajes, f \in Entregas :
             n # m \/ f # e => ejecucion'[n][f] = ejecucion[n][f]
        /\ ejecucion' \in [Mensajes -> [Entregas -> Ejecuciones]]
    BY <1>4, <1>i, UnaFase DEF FallarPermanente
  <2>2. /\ ejecucion[m][e].fase = "CORRE" /\ UNCHANGED <<entregas, exitos>>
        /\ permanentes \subseteq permanentes' /\ agotados \subseteq agotados'
        /\ permanentes' \subseteq permanentes \cup {<<m, e>>}
        /\ agotados' \subseteq agotados \cup {<<m, e>>}
    BY <1>4 DEF FallarPermanente
  <2>3. /\ mensaje' \in [Mensajes -> {"EN_COLA", "ENTREGADO", "CONFIRMADO", "DLQ"}]
        /\ \A n \in Mensajes : \/ mensaje'[n] = mensaje[n]
                               \/ /\ n = m /\ e = entregas[m] /\ mensaje[m] = "ENTREGADO"
                                  /\ mensaje'[m] = "DLQ"
    BY <1>4, <1>i DEF FallarPermanente, Responder, CanalVivo, ConsumidorTypeOK
  <2>4. e <= entregas[m]
    BY <1>c, <2>2
  <2>5. EnOrden' /\ ExitoAlFinal'
    BY <1>i, <1>e, <2>1, <2>2, <2>3, <2>4, EjecucionesConservadas
  <2>6. ConsumidorTypeOK'
    BY <1>i, <2>1, <2>2, <2>3 DEF ConsumidorTypeOK, Ejecuciones
  <2>7. EntregaConCausa'
    <3>1. <<m, e>> \in permanentes' \cup agotados'
      BY <1>4 DEF FallarPermanente
    <3> QED
      BY <1>i, <2>2, <2>3, <3>1 DEF EntregaConCausa
  <2> QED
    BY <2>5, <2>6, <2>7 DEF ConsumidorIInv
<1>5. ASSUME NEW m \in Mensajes, NEW e \in Entregas, FallarTransitorio(m, e) PROVE ConsumidorIInv'
  <2> DEFINE x == [fase |-> "ESPERA", fallos |-> ejecucion[m][e].fallos + 1]
  <2>0. /\ ejecucion' = [ejecucion EXCEPT ![m] = [ejecucion[m] EXCEPT ![e] = x]]
        /\ UNCHANGED <<mensaje, entregas, exitos, permanentes, agotados>>
        /\ ejecucion[m][e].fase = "CORRE"
        /\ ejecucion[m][e].fallos < MaxRetries
    BY <1>5 DEF FallarTransitorio, broker
  <2>1. x \in Ejecuciones /\ x.fase = "ESPERA"
    BY <2>0, <1>i, ConsumidorAssumption DEF ConsumidorTypeOK, Ejecuciones, ConsumidorAssumption
  <2> HIDE DEF x
  <2>2. /\ ejecucion'[m][e] = x
        /\ \A n \in Mensajes, f \in Entregas :
             n # m \/ f # e => ejecucion'[n][f] = ejecucion[n][f]
        /\ ejecucion' \in [Mensajes -> [Entregas -> Ejecuciones]]
    BY ONLY <1>i, m \in Mensajes, e \in Entregas, <2>0, <2>1, UnaEjecucion
  <2>3. e <= entregas[m]
    BY <1>c, <2>0
  <2>4. EnOrden' /\ ExitoAlFinal'
    <3>1. \A n \in Mensajes, f \in Entregas : ejecucion'[n][f] = ejecucion[n][f] \/ (n = m /\ f = e)
      BY <2>2
    <3> QED
      BY <1>i, <2>0, <2>1, <2>2, <2>3, <3>1, EjecucionesConservadas
  <2>5. ConsumidorTypeOK'
    BY <1>i, <2>0, <2>2 DEF ConsumidorTypeOK, Ejecuciones
  <2>6. EntregaConCausa'
    BY <1>i, <2>0 DEF EntregaConCausa
  <2> QED
    BY <2>4, <2>5, <2>6 DEF ConsumidorIInv
<1>6. ASSUME NEW m \in Mensajes, NEW e \in Entregas, Agotar(m, e) PROVE ConsumidorIInv'
  <2>1. /\ ejecucion'[m][e].fase = "FIN"
        /\ \A n \in Mensajes, f \in Entregas :
             n # m \/ f # e => ejecucion'[n][f] = ejecucion[n][f]
        /\ ejecucion' \in [Mensajes -> [Entregas -> Ejecuciones]]
    BY <1>6, <1>i, UnaFase DEF Agotar
  <2>2. /\ ejecucion[m][e].fase = "CORRE" /\ UNCHANGED <<entregas, exitos>>
        /\ permanentes \subseteq permanentes' /\ agotados \subseteq agotados'
        /\ permanentes' \subseteq permanentes \cup {<<m, e>>}
        /\ agotados' \subseteq agotados \cup {<<m, e>>}
    BY <1>6 DEF Agotar
  <2>3. /\ mensaje' \in [Mensajes -> {"EN_COLA", "ENTREGADO", "CONFIRMADO", "DLQ"}]
        /\ \A n \in Mensajes : \/ mensaje'[n] = mensaje[n]
                               \/ /\ n = m /\ e = entregas[m] /\ mensaje[m] = "ENTREGADO"
                                  /\ mensaje'[m] = "DLQ"
    BY <1>6, <1>i DEF Agotar, Responder, CanalVivo, ConsumidorTypeOK
  <2>4. e <= entregas[m]
    BY <1>c, <2>2
  <2>5. EnOrden' /\ ExitoAlFinal'
    BY <1>i, <1>e, <2>1, <2>2, <2>3, <2>4, EjecucionesConservadas
  <2>6. ConsumidorTypeOK'
    BY <1>i, <2>1, <2>2, <2>3 DEF ConsumidorTypeOK, Ejecuciones
  <2>7. EntregaConCausa'
    <3>1. <<m, e>> \in permanentes' \cup agotados'
      BY <1>6 DEF Agotar
    <3> QED
      BY <1>i, <2>2, <2>3, <3>1 DEF EntregaConCausa
  <2> QED
    BY <2>5, <2>6, <2>7 DEF ConsumidorIInv
<1>7. ASSUME NEW m \in Mensajes, NEW e \in Entregas, ReintentarEntrega(m, e) PROVE ConsumidorIInv'
  <2>1. /\ ejecucion'[m][e].fase = "CORRE"
        /\ \A n \in Mensajes, f \in Entregas :
             n # m \/ f # e => ejecucion'[n][f] = ejecucion[n][f]
        /\ ejecucion' \in [Mensajes -> [Entregas -> Ejecuciones]]
    BY <1>7, <1>i, UnaFase DEF ReintentarEntrega
  <2>2. /\ UNCHANGED <<mensaje, entregas, exitos, permanentes, agotados>>
        /\ ejecucion[m][e].fase = "ESPERA"
    BY <1>7 DEF ReintentarEntrega, broker
  <2>3. e <= entregas[m]
    BY <1>c, <2>2
  <2>4. EnOrden' /\ ExitoAlFinal'
    <3>1. \A n \in Mensajes, f \in Entregas : ejecucion'[n][f] = ejecucion[n][f] \/ (n = m /\ f = e)
      BY <2>1
    <3> QED
      BY <1>i, <2>1, <2>2, <2>3, <3>1, EjecucionesConservadas
  <2>5. ConsumidorTypeOK'
    BY <1>i, <2>1, <2>2 DEF ConsumidorTypeOK, Ejecuciones
  <2>6. EntregaConCausa'
    BY <1>i, <2>2 DEF EntregaConCausa
  <2> QED
    BY <2>4, <2>5, <2>6 DEF ConsumidorIInv
<1>8. CASE CaerCanal
  <2>1. /\ mensaje' \in [Mensajes -> {"EN_COLA", "ENTREGADO", "CONFIRMADO", "DLQ"}]
        /\ \A n \in Mensajes : mensaje'[n] = mensaje[n] \/ mensaje'[n] = "EN_COLA"
        /\ UNCHANGED <<entregas, ejecucion, exitos, permanentes, agotados>>
    BY <1>8, <1>i DEF CaerCanal, Devueltos, ConsumidorTypeOK
  <2>2. EnOrden' /\ ExitoAlFinal'
    BY <1>i, <2>1, EjecucionesConservadas
  <2>3. ConsumidorTypeOK'
    BY <1>i, <2>1 DEF ConsumidorTypeOK, Ejecuciones
  <2>4. EntregaConCausa'
    BY <1>i, <2>1 DEF EntregaConCausa
  <2> QED
    BY <2>2, <2>3, <2>4 DEF ConsumidorIInv
<1>9. CASE CaerConsumidor
  <2>1. \A n \in Mensajes, f \in Entregas :
          /\ ejecucion'[n][f] \in Ejecuciones
          /\ IF f <= entregas[n] THEN ejecucion'[n][f].fase = "FIN"
                                 ELSE ejecucion'[n][f] = ejecucion[n][f]
    <3> SUFFICES ASSUME NEW n \in Mensajes, NEW f \in Entregas
                 PROVE  /\ ejecucion'[n][f] \in Ejecuciones
                        /\ IF f <= entregas[n] THEN ejecucion'[n][f].fase = "FIN"
                                               ELSE ejecucion'[n][f] = ejecucion[n][f]
      OBVIOUS
    <3>1. ejecucion'[n][f] = IF f <= entregas[n] THEN [ejecucion[n][f] EXCEPT !.fase = "FIN"]
                                                 ELSE ejecucion[n][f]
      BY <1>9 DEF CaerConsumidor
    <3>2. ejecucion[n][f] \in Ejecuciones
      BY <1>i DEF ConsumidorTypeOK, Ejecuciones
    <3> QED
      BY <3>1, <3>2 DEF Ejecuciones
  <2>2. ejecucion' \in [Mensajes -> [Entregas -> Ejecuciones]]
    <3>1. ejecucion' = [n \in Mensajes |-> [f \in Entregas |-> ejecucion'[n][f]]]
      BY <1>9 DEF CaerConsumidor
    <3> QED
      BY <2>1, <3>1
  <2>3. /\ mensaje' \in [Mensajes -> {"EN_COLA", "ENTREGADO", "CONFIRMADO", "DLQ"}]
        /\ \A n \in Mensajes : mensaje'[n] = mensaje[n] \/ mensaje'[n] = "EN_COLA"
        /\ UNCHANGED <<entregas, exitos, permanentes, agotados>>
    BY <1>9, <1>i DEF CaerConsumidor, Devueltos, ConsumidorTypeOK
  <2>4. EnOrden' /\ ExitoAlFinal'
    BY <1>i, <2>1, <2>3, EjecucionesConservadas
  <2>5. ConsumidorTypeOK'
    BY <1>i, <2>2, <2>3 DEF ConsumidorTypeOK, Ejecuciones
  <2>6. EntregaConCausa'
    BY <1>i, <2>3 DEF EntregaConCausa
  <2> QED
    BY <2>4, <2>5, <2>6 DEF ConsumidorIInv
<1> QED
  BY <1>0, <1>1, <1>2, <1>3, <1>4, <1>5, <1>6, <1>7, <1>8, <1>9 DEF ConsumidorNext

\* The variables of a consumer keep their types.
THEOREM ConsumidorTipos == ConsumidorSpec => []ConsumidorTypeOK
<1>1. ConsumidorIInv => ConsumidorTypeOK
  BY DEF ConsumidorIInv
<1> QED
  BY <1>1, InicioConsumidor, PasoConsumidor, PTL DEF ConsumidorSpec

\* A message leaves the broker for what became of its last delivery, and its
\* handler runs to its end once per delivery at most, for any number of messages,
\* retries and deliveries.
THEOREM TodaEntregaConCausa == ConsumidorSpec => []EntregaConCausa
<1>1. ConsumidorIInv => EntregaConCausa
  BY DEF ConsumidorIInv
<1> QED
  BY <1>1, InicioConsumidor, PasoConsumidor, PTL DEF ConsumidorSpec
-----------------------------------------------------------------------------
(* servicio-compras *)

\* A request that does nothing has the type of the requests.
LEMMA SinLlamadaTipo ==
  SinLlamada \in [op : {"", "conteo"} \cup DOMAIN Acepta,
                  diferencia : [Insumos -> -MaxStock..MaxStock]]
<1>1. 0 \in -MaxStock..MaxStock
  BY ComprasAssumption DEF ComprasAssumption
<1>2. Cero \in [Insumos -> -MaxStock..MaxStock]
  BY <1>1 DEF Cero
<1> QED
  BY <1>2 DEF SinLlamada

\* The order does not exist and the store has what it began with.
LEMMA InicioCompras == ComprasInit => ComprasIInv
<1> SUFFICES ASSUME ComprasInit PROVE ComprasIInv
  OBVIOUS
<1>1. ComprasTypeOK
  <2>1. /\ orden = "NO" /\ stock = Inicial /\ avisado = [i \in Insumos |-> FALSE]
        /\ ediciones = 0 /\ rehecha = FALSE /\ repetida = FALSE
        /\ item = SinItems /\ kardex = Cero /\ publicado = Cero /\ recibido = Cero
        /\ llamada = [k \in Llamadas |-> SinLlamada]
    BY DEF ComprasInit
  <2>2. /\ Inicial \in [Insumos -> 0..MaxStock] /\ MaxPedida \in Nat
        /\ MaxEdiciones \in Nat
    BY ComprasAssumption DEF ComprasAssumption
  <2>3. SinItems \in [Insumos -> [pedida : 0..MaxPedida, recibida : 0..2 * MaxPedida]]
    BY <2>2 DEF SinItems
  <2>4. Cero \in [Insumos -> Int] /\ Cero \in [Insumos -> Nat]
    BY DEF Cero
  <2>5. llamada \in [Llamadas -> [op : {"", "conteo"} \cup DOMAIN Acepta,
                                  diferencia : [Insumos -> -MaxStock..MaxStock]]]
    BY <2>1, SinLlamadaTipo
  <2>6. ediciones \in 0..MaxEdiciones
    BY <2>1, <2>2
  <2>7. avisado \in [Insumos -> BOOLEAN]
    BY <2>1
  <2>8. stock \in [Insumos -> 0..MaxStock]
    BY <2>1, <2>2
  <2> QED
    BY <2>1, <2>3, <2>4, <2>5, <2>6, <2>7, <2>8 DEF ComprasTypeOK
<1>2. BorradorSinRecibir
  BY DEF BorradorSinRecibir, ComprasInit, SinLlamada
<1>3. RecepcionRespaldada
  <2> SUFFICES ASSUME NEW i \in Insumos
               PROVE  /\ recibido[i] = item[i].recibida /\ recibido[i] <= item[i].pedida
                      /\ publicado[i] * FactorDen <= recibido[i] * FactorNum[i]
    BY DEF RecepcionRespaldada
  <2>1. recibido[i] = 0 /\ publicado[i] = 0 /\ item[i].recibida = 0 /\ item[i].pedida = 0
    BY DEF ComprasInit, SinItems, Cero
  <2>2. FactorDen \in Nat /\ FactorNum[i] \in Nat
    BY ComprasAssumption DEF ComprasAssumption
  <2>3. 0 * FactorDen = 0 /\ 0 * FactorNum[i] = 0
    BY <2>2
  <2> QED
    BY <2>1, <2>3
<1> QED
  BY <1>1, <1>2, <1>3 DEF ComprasIInv

\* What is sold of n units bought is rounded down.
LEMMA ConversionPorDefecto ==
  ASSUME NEW n \in Nat, NEW d \in Nat \ {0}
  PROVE  n \div d \in Nat /\ (n \div d) * d <= n
<1>1. n \div d \in Nat
  OBVIOUS
<1>2. (n \div d) * d <= n
  OBVIOUS
<1> QED
  BY <1>1, <1>2

\* Two more lines, each rounded down, keep what was published backed.
LEMMA ConversionSuma ==
  ASSUME NEW p \in Nat, NEW v \in Nat, NEW w \in Nat,
         NEW r \in Nat, NEW l \in Nat, NEW o \in Nat, NEW d \in Nat, NEW f \in Nat,
         p * d <= r * f, v * d <= l * f, w * d <= o * f
  PROVE  (p + v + w) * d <= (r + (l + o)) * f
<1>1. (p + v + w) * d = p * d + v * d + w * d
  OBVIOUS
<1>2. (r + (l + o)) * f = r * f + l * f + o * f
  OBVIOUS
<1>3. /\ p * d \in Nat /\ v * d \in Nat /\ w * d \in Nat
      /\ r * f \in Nat /\ l * f \in Nat /\ o * f \in Nat
  OBVIOUS
<1> QED
  BY <1>1, <1>2, <1>3

\* Movements keep the types of the store.
LEMMA MovimientosTipos ==
  ASSUME ComprasTypeOK, NEW delta \in [Insumos -> Int], AplicarMovimientos(delta)
  PROVE  /\ stock' \in [Insumos -> 0..MaxStock]
         /\ kardex' \in [Insumos -> Int]
         /\ avisado' \in [Insumos -> BOOLEAN]
<1>1. stock' \in [Insumos -> 0..MaxStock]
  BY DEF AplicarMovimientos
<1>2. kardex' \in [Insumos -> Int]
  <2>1. kardex' = [i \in Insumos |-> kardex[i] + delta[i]]
    BY DEF AplicarMovimientos
  <2>2. kardex \in [Insumos -> Int]
    BY DEF ComprasTypeOK
  <2> QED
    BY ONLY <2>1, <2>2, delta \in [Insumos -> Int]
<1>3. avisado' \in [Insumos -> BOOLEAN]
  <2>1. \A i \in Insumos : (\/ stock[i] > Minimo[i] /\ stock'[i] <= Minimo[i]
                            \/ avisado[i] /\ stock'[i] <= Minimo[i]) \in BOOLEAN
    BY ZenonT(20)
  <2> QED
    BY <2>1, ZenonT(20) DEF AplicarMovimientos
<1> QED
  BY <1>1, <1>2, <1>3

\* A request that ends keeps the type of the requests, and gives none an operation.
LEMMA FinDeLlamada ==
  ASSUME ComprasTypeOK, NEW k \in Llamadas, llamada' = [llamada EXCEPT ![k] = SinLlamada]
  PROVE  /\ llamada' \in [Llamadas -> [op : {"", "conteo"} \cup DOMAIN Acepta,
                                       diferencia : [Insumos -> -MaxStock..MaxStock]]]
         /\ \A j \in Llamadas : llamada'[j].op = llamada[j].op \/ llamada'[j].op = ""
<1>1. SinLlamada.op = ""
  BY DEF SinLlamada
<1> QED
  BY <1>1, SinLlamadaTipo DEF ComprasTypeOK

\* What the deliveries, the counts and the edits do to an order, action by
\* action: only a reception receives, once the order has left the draft.
LEMMA PasoCompras == ComprasIInv /\ [ComprasNext]_comprasVars => ComprasIInv'
<1> SUFFICES ASSUME ComprasIInv, [ComprasNext]_comprasVars PROVE ComprasIInv'
  OBVIOUS
<1>i. ComprasTypeOK /\ BorradorSinRecibir /\ RecepcionRespaldada
  BY DEF ComprasIInv
<1> USE DEF almacen, historial
<1>0. CASE UNCHANGED comprasVars
  BY <1>i, <1>0 DEF comprasVars, ComprasIInv, ComprasTypeOK, BorradorSinRecibir, RecepcionRespaldada
<1>1. ASSUME NEW pedida \in Cantidades, CrearOrden(pedida) PROVE ComprasIInv'
  <2>1. item' \in [Insumos -> [pedida : 0..MaxPedida, recibida : 0..2 * MaxPedida]]
    BY <1>1, ComprasAssumption DEF CrearOrden, Cantidades, ComprasAssumption
  <2>2. ComprasTypeOK'
    BY <1>i, <1>1, <2>1 DEF CrearOrden, ComprasTypeOK
  <2>3. BorradorSinRecibir'
    BY <1>i, <1>1 DEF CrearOrden, BorradorSinRecibir
  <2>4. RecepcionRespaldada'
    <3> SUFFICES ASSUME NEW i \in Insumos
                 PROVE  /\ recibido'[i] = item'[i].recibida
                        /\ recibido'[i] <= item'[i].pedida
                        /\ publicado'[i] * FactorDen <= recibido'[i] * FactorNum[i]
      BY DEF RecepcionRespaldada
    <3>1. recibido[i] = 0 /\ recibido' = recibido /\ publicado' = publicado
      BY <1>i, <1>1 DEF CrearOrden, BorradorSinRecibir, Cero
    <3>2. item'[i].recibida = 0 /\ item'[i].pedida \in 0..MaxPedida
      BY <1>1 DEF CrearOrden, Cantidades
    <3>3. publicado[i] * FactorDen <= recibido[i] * FactorNum[i]
      BY <1>i DEF RecepcionRespaldada
    <3> QED
      BY <3>1, <3>2, <3>3
  <2> QED
    BY <2>2, <2>3, <2>4 DEF ComprasIInv
<1>2. ASSUME NEW k \in Llamadas, NEW o \in DOMAIN Acepta, LeerOrden(k, o) PROVE ComprasIInv'
  <2>1. ComprasTypeOK'
    BY <1>i, <1>2 DEF LeerOrden, ComprasTypeOK
  <2>2. BorradorSinRecibir'
    <3>1. \A j \in Llamadas : llamada'[j].op = llamada[j].op \/ llamada'[j].op = o
      BY <1>i, <1>2 DEF LeerOrden, ComprasTypeOK
    <3>2. orden \in Acepta[o] /\ UNCHANGED <<orden, recibido>>
      BY <1>2 DEF LeerOrden
    <3>3. orden # "NO" /\ (orden = "BORRADOR" => o \notin {"registrar", "cerrar"})
      BY <3>2 DEF Acepta
    <3> QED
      BY <1>i, <3>1, <3>2, <3>3 DEF BorradorSinRecibir
  <2>3. RecepcionRespaldada'
    BY <1>i, <1>2 DEF LeerOrden, RecepcionRespaldada
  <2> QED
    BY <2>1, <2>2, <2>3 DEF ComprasIInv
<1>3. ASSUME NEW k \in Llamadas, FallarLlamada(k) PROVE ComprasIInv'
  <2>1. /\ UNCHANGED <<orden, item, almacen, publicado, historial>>
        /\ llamada' = [llamada EXCEPT ![k] = SinLlamada]
    BY <1>3 DEF FallarLlamada
  <2> QED
    BY <1>i, <2>1, FinDeLlamada
    DEF ComprasIInv, ComprasTypeOK, BorradorSinRecibir, RecepcionRespaldada
<1>4. ASSUME NEW k \in Llamadas, CambiarEstadoOrden(k) PROVE ComprasIInv'
  <2>1. /\ UNCHANGED <<item, almacen, publicado, historial>>
        /\ llamada' = [llamada EXCEPT ![k] = SinLlamada]
        /\ orden' \in {"ENVIADA", "RECIBIDA", "ANULADA"}
    BY <1>4 DEF CambiarEstadoOrden, Destino
  <2> QED
    BY <1>i, <2>1, FinDeLlamada
    DEF ComprasIInv, ComprasTypeOK, BorradorSinRecibir, RecepcionRespaldada
<1>5. ASSUME NEW k \in Llamadas, NEW pedida \in Cantidades, ActualizarOrden(k, pedida)
      PROVE  ComprasIInv'
  <2>1. /\ UNCHANGED <<orden, almacen, publicado, recibido, repetida>>
        /\ llamada' = [llamada EXCEPT ![k] = SinLlamada]
        /\ item' = [i \in Insumos |-> [pedida |-> pedida[i], recibida |-> 0]]
        /\ ediciones < MaxEdiciones /\ ediciones' = ediciones + 1
        /\ rehecha' = (rehecha \/ orden # "BORRADOR")
        /\ llamada[k].op = "actualizar"
    BY <1>5 DEF ActualizarOrden
  <2>2. item' \in [Insumos -> [pedida : 0..MaxPedida, recibida : 0..2 * MaxPedida]]
    BY <2>1, ComprasAssumption DEF Cantidades, ComprasAssumption
  <2>3. ComprasTypeOK'
    <3>1. ediciones' \in 0..MaxEdiciones
      <4>1. ediciones \in 0..MaxEdiciones
        BY <1>i DEF ComprasTypeOK
      <4>2. MaxEdiciones \in Nat
        BY ComprasAssumption DEF ComprasAssumption
      <4>3. ediciones < MaxEdiciones /\ ediciones' = ediciones + 1
        BY <2>1
      <4> QED
        BY ONLY <4>1, <4>2, <4>3
    <3>2. rehecha' \in BOOLEAN
      BY <2>1
    <3> QED
      BY <1>i, <2>1, <2>2, <3>1, <3>2, FinDeLlamada DEF ComprasTypeOK
  <2>4. BorradorSinRecibir'
    BY <1>i, <2>1, FinDeLlamada DEF BorradorSinRecibir
  <2>5. RecepcionRespaldada'
    <3>1. ~rehecha' => recibido = Cero
      BY <1>i, <2>1 DEF BorradorSinRecibir
    <3> QED
      BY <1>i, <2>1, <3>1 DEF RecepcionRespaldada, Cero, Cantidades
  <2> QED
    BY <2>3, <2>4, <2>5 DEF ComprasIInv
<1>6. ASSUME NEW k \in Llamadas, EliminarOrden(k) PROVE ComprasIInv'
  <2>1. /\ UNCHANGED <<almacen, publicado, recibido, ediciones, repetida>>
        /\ llamada' = [llamada EXCEPT ![k] = SinLlamada]
        /\ orden' = "ELIMINADA" /\ item' = SinItems
        /\ rehecha' = (rehecha \/ orden # "BORRADOR")
    BY <1>6 DEF EliminarOrden
  <2>2. item' \in [Insumos -> [pedida : 0..MaxPedida, recibida : 0..2 * MaxPedida]]
    BY <2>1, ComprasAssumption DEF SinItems, ComprasAssumption
  <2>3. ComprasTypeOK'
    BY <1>i, <2>1, <2>2, FinDeLlamada DEF ComprasTypeOK
  <2>4. BorradorSinRecibir'
    BY <2>1 DEF BorradorSinRecibir
  <2>5. RecepcionRespaldada'
    <3>1. ~rehecha' => recibido = Cero
      BY <1>i, <2>1 DEF BorradorSinRecibir
    <3> QED
      BY <1>i, <2>1, <3>1 DEF RecepcionRespaldada, Cero, SinItems
  <2> QED
    BY <2>3, <2>4, <2>5 DEF ComprasIInv
<1>7. ASSUME NEW i \in Insumos, NEW cantidad \in -MaxPedida..MaxPedida,
             RegistrarMovimiento(i, cantidad)
      PROVE  ComprasIInv'
  <2>1. /\ UNCHANGED <<orden, item, publicado, llamada, historial>>
        /\ AplicarMovimientos([Cero EXCEPT ![i] = cantidad])
    BY <1>7 DEF RegistrarMovimiento
  <2>2. [Cero EXCEPT ![i] = cantidad] \in [Insumos -> Int]
    BY ComprasAssumption DEF Cero, ComprasAssumption
  <2>3. /\ stock' \in [Insumos -> 0..MaxStock] /\ kardex' \in [Insumos -> Int]
        /\ avisado' \in [Insumos -> BOOLEAN]
    BY <1>i, <2>1, <2>2, MovimientosTipos
  <2> QED
    BY <1>i, <2>1, <2>3 DEF ComprasIInv, ComprasTypeOK, BorradorSinRecibir, RecepcionRespaldada
<1>8. ASSUME NEW k \in Llamadas, NEW insumos \in SUBSET Insumos,
             NEW contado \in [Insumos -> 0..MaxStock], LeerConteo(k, insumos, contado)
      PROVE  ComprasIInv'
  <2>1. UNCHANGED <<orden, item, almacen, publicado, historial>>
    BY <1>8 DEF LeerConteo
  <2>2. /\ llamada' \in [Llamadas -> [op : {"", "conteo"} \cup DOMAIN Acepta,
                                      diferencia : [Insumos -> -MaxStock..MaxStock]]]
        /\ \A j \in Llamadas : llamada'[j].op = llamada[j].op \/ llamada'[j].op = "conteo"
    <3> DEFINE diferencia == [i \in Insumos |-> IF i \in insumos THEN contado[i] - stock[i] ELSE 0]
    <3>1. diferencia \in [Insumos -> -MaxStock..MaxStock]
      <4> SUFFICES ASSUME NEW i \in Insumos
                   PROVE  (IF i \in insumos THEN contado[i] - stock[i] ELSE 0)
                            \in -MaxStock..MaxStock
        OBVIOUS
      <4>1. contado[i] \in 0..MaxStock /\ stock[i] \in 0..MaxStock /\ MaxStock \in Nat
        BY <1>i, ComprasAssumption DEF ComprasTypeOK, ComprasAssumption
      <4>2. contado[i] - stock[i] \in -MaxStock..MaxStock /\ 0 \in -MaxStock..MaxStock
        BY <4>1
      <4> QED
        BY <4>2
    <3>2. llamada' = [llamada EXCEPT ![k] = [op |-> "conteo", diferencia |-> diferencia]]
      BY <1>8 DEF LeerConteo
    <3> HIDE DEF diferencia
    <3> QED
      BY <1>i, <3>1, <3>2 DEF ComprasTypeOK
  <2> QED
    BY <1>i, <2>1, <2>2 DEF ComprasIInv, ComprasTypeOK, BorradorSinRecibir, RecepcionRespaldada
<1>9. ASSUME NEW k \in Llamadas, AplicarConteo(k) PROVE ComprasIInv'
  <2>1. /\ UNCHANGED <<orden, item, publicado, historial>>
        /\ AplicarMovimientos(llamada[k].diferencia)
        /\ llamada' = [llamada EXCEPT ![k] = SinLlamada]
    BY <1>9 DEF AplicarConteo
  <2>2. llamada[k].diferencia \in [Insumos -> Int]
    <3>1. llamada[k].diferencia \in [Insumos -> -MaxStock..MaxStock]
      BY <1>i DEF ComprasTypeOK
    <3>2. -MaxStock..MaxStock \subseteq Int
      BY ComprasAssumption DEF ComprasAssumption
    <3> QED
      BY <3>1, <3>2
  <2>3. /\ stock' \in [Insumos -> 0..MaxStock] /\ kardex' \in [Insumos -> Int]
        /\ avisado' \in [Insumos -> BOOLEAN]
    BY <1>i, <2>1, <2>2, MovimientosTipos
  <2> QED
    BY <1>i, <2>1, <2>3, FinDeLlamada
    DEF ComprasIInv, ComprasTypeOK, BorradorSinRecibir, RecepcionRespaldada
<1>10. ASSUME NEW k \in Llamadas, NEW linea \in Cantidades, NEW otra \in Cantidades,
              Recibir(k, linea, otra)
       PROVE  ComprasIInv'
  <2> DEFINE cantidad == [i \in Insumos |-> linea[i] + otra[i]]
             v(i) == (linea[i] * FactorNum[i]) \div FactorDen
             w(i) == (otra[i] * FactorNum[i]) \div FactorDen
  <2>1. /\ UNCHANGED <<ediciones, rehecha>>
        /\ llamada' = [llamada EXCEPT ![k] = SinLlamada]
        /\ llamada[k].op = "registrar"
        /\ AplicarMovimientos(cantidad)
        /\ item' = [i \in Insumos |-> [item[i] EXCEPT !.recibida = @ + cantidad[i]]]
        /\ orden' \in {"RECIBIDA", "PARCIAL"}
        /\ publicado' = [i \in Insumos |-> publicado[i] + v(i) + w(i)]
        /\ recibido' = [i \in Insumos |-> recibido[i] + cantidad[i]]
        /\ repetida' = (repetida \/ \E i \in Insumos : linea[i] > 0 /\ otra[i] > 0)
        /\ \A i \in Insumos : \A c \in {linea, otra} :
             c[i] > 0 => c[i] <= item[i].pedida - item[i].recibida
    BY <1>10 DEF Recibir, PendienteDeRecibir
  <2>2. \A i \in Insumos :
          /\ linea[i] \in 0..MaxPedida /\ otra[i] \in 0..MaxPedida
          /\ item[i].pedida \in 0..MaxPedida /\ item[i].recibida \in 0..2 * MaxPedida
          /\ recibido[i] \in Nat /\ publicado[i] \in Nat
    BY <1>i DEF ComprasTypeOK, Cantidades
  <2>3. MaxPedida \in Nat /\ FactorDen \in Nat \ {0} /\ FactorNum \in [Insumos -> Nat]
    BY ComprasAssumption DEF ComprasAssumption
  <2>4. \A i \in Insumos :
          /\ linea[i] > 0 => linea[i] <= item[i].pedida - item[i].recibida
          /\ otra[i] > 0 => otra[i] <= item[i].pedida - item[i].recibida
    BY <2>1
  <2>5. \A i \in Insumos : /\ item'[i].pedida = item[i].pedida
                           /\ item'[i].recibida = item[i].recibida + (linea[i] + otra[i])
    BY <1>i, <2>1 DEF ComprasTypeOK
  <2>6. item' \in [Insumos -> [pedida : 0..MaxPedida, recibida : 0..2 * MaxPedida]]
    <3> SUFFICES ASSUME NEW i \in Insumos
                 PROVE  item'[i] \in [pedida : 0..MaxPedida, recibida : 0..2 * MaxPedida]
      BY <2>1
    <3>1. item[i].recibida + (linea[i] + otra[i]) \in 0..2 * MaxPedida
      BY <2>2, <2>3, <2>4
    <3>2. item[i] \in [pedida : 0..MaxPedida, recibida : 0..2 * MaxPedida]
      BY <1>i DEF ComprasTypeOK
    <3>3. item'[i] = [item[i] EXCEPT !.recibida = item[i].recibida + (linea[i] + otra[i])]
      BY <2>1
    <3> QED
      BY <3>1, <3>2, <3>3
  <2>7. \A i \in Insumos : /\ v(i) \in Nat /\ v(i) * FactorDen <= linea[i] * FactorNum[i]
                           /\ w(i) \in Nat /\ w(i) * FactorDen <= otra[i] * FactorNum[i]
    <3> SUFFICES ASSUME NEW i \in Insumos
                 PROVE  /\ v(i) \in Nat /\ v(i) * FactorDen <= linea[i] * FactorNum[i]
                        /\ w(i) \in Nat /\ w(i) * FactorDen <= otra[i] * FactorNum[i]
      OBVIOUS
    <3>1. linea[i] * FactorNum[i] \in Nat /\ otra[i] * FactorNum[i] \in Nat
      BY <2>2, <2>3
    <3> QED
      BY <2>3, <3>1, ConversionPorDefecto
  <2>8. ComprasTypeOK'
    <3>1. cantidad \in [Insumos -> Int]
      BY <2>2
    <3>2. /\ stock' \in [Insumos -> 0..MaxStock] /\ kardex' \in [Insumos -> Int]
          /\ avisado' \in [Insumos -> BOOLEAN]
      BY <1>i, <2>1, <3>1, MovimientosTipos
    <3>3. publicado' \in [Insumos -> Nat] /\ recibido' \in [Insumos -> Nat]
      BY <2>1, <2>2, <2>7
    <3>4. repetida' \in BOOLEAN
      BY <2>1
    <3>5. llamada' \in [Llamadas -> [op : {"", "conteo"} \cup DOMAIN Acepta,
                                     diferencia : [Insumos -> -MaxStock..MaxStock]]]
      BY <1>i, <2>1, FinDeLlamada
    <3>6. orden' \in {"NO", "BORRADOR", "ENVIADA", "PARCIAL", "RECIBIDA", "ANULADA", "ELIMINADA"}
      BY <2>1
    <3> QED
      BY <1>i, <2>1, <2>6, <3>2, <3>3, <3>4, <3>5, <3>6 DEF ComprasTypeOK
  <2>9. BorradorSinRecibir'
    BY <2>1 DEF BorradorSinRecibir
  <2>10. RecepcionRespaldada'
    <3> SUFFICES ASSUME NEW i \in Insumos
                 PROVE  /\ ~rehecha' => recibido'[i] = item'[i].recibida
                        /\ ~rehecha' /\ ~repetida' => recibido'[i] <= item'[i].pedida
                        /\ publicado'[i] * FactorDen <= recibido'[i] * FactorNum[i]
      BY DEF RecepcionRespaldada
    <3>1. /\ recibido'[i] = recibido[i] + (linea[i] + otra[i])
          /\ publicado'[i] = publicado[i] + v(i) + w(i)
          /\ rehecha' = rehecha
      BY <2>1
    <3>5. ~repetida' => ~repetida /\ (linea[i] = 0 \/ otra[i] = 0)
      <4>1. repetida' = (repetida \/ \E j \in Insumos : linea[j] > 0 /\ otra[j] > 0)
        BY <2>1
      <4>2. ~repetida' => ~repetida /\ ~(linea[i] > 0 /\ otra[i] > 0)
        BY <4>1
      <4>3. linea[i] \in Nat /\ otra[i] \in Nat
        BY <2>2
      <4> QED
        BY ONLY <4>2, <4>3
    <3>2. ~rehecha' => recibido'[i] = item'[i].recibida
      BY <1>i, <2>2, <2>5, <3>1 DEF RecepcionRespaldada
    <3>3. ~rehecha' /\ ~repetida' => recibido'[i] <= item'[i].pedida
      <4>1. ~rehecha /\ ~repetida => recibido[i] <= item[i].pedida
        BY <1>i DEF RecepcionRespaldada
      <4>2. ~rehecha => recibido[i] = item[i].recibida
        BY <1>i DEF RecepcionRespaldada
      <4> QED
        BY <2>2, <2>4, <2>5, <3>1, <3>5, <4>1, <4>2
    <3>4. publicado'[i] * FactorDen <= recibido'[i] * FactorNum[i]
      <4>1. publicado[i] * FactorDen <= recibido[i] * FactorNum[i]
        BY <1>i DEF RecepcionRespaldada
      <4>2. FactorNum[i] \in Nat
        BY <2>3
      <4> HIDE DEF v, w
      <4>3. (publicado[i] + v(i) + w(i)) * FactorDen
              <= (recibido[i] + (linea[i] + otra[i])) * FactorNum[i]
        BY <2>2, <2>3, <2>7, <4>1, <4>2, ConversionSuma
      <4> QED
        BY <3>1, <4>3
    <3> QED
      BY <3>2, <3>3, <3>4
  <2> QED
    BY <2>8, <2>9, <2>10 DEF ComprasIInv
<1> QED
  BY <1>0, <1>1, <1>2, <1>3, <1>4, <1>5, <1>6, <1>7, <1>8, <1>9, <1>10 DEF ComprasNext

\* The variables of purchasing keep their types.
THEOREM ComprasTipos == ComprasSpec => []ComprasTypeOK
<1>1. ComprasIInv => ComprasTypeOK
  BY DEF ComprasIInv
<1> QED
  BY <1>1, InicioCompras, PasoCompras, PTL DEF ComprasSpec

\* No more of an item comes in than was ordered, and no more is offered for sale
\* than came in, for any quantities, factors of conversion and requests.
THEOREM RecepcionSiempreRespaldada == ComprasSpec => []RecepcionRespaldada
<1>1. ComprasIInv => RecepcionRespaldada
  BY DEF ComprasIInv
<1> QED
  BY <1>1, InicioCompras, PasoCompras, PTL DEF ComprasSpec
(* The ten parts together *)

\* Each part starts in its initial states.
LEMMA InicioServicios == ServiciosInit => ServiciosIInv
<1>1. ServiciosInit => /\ Init /\ CajaInit /\ FacturacionInit /\ ImpresionInit /\ SesionesInit
                       /\ AdministradoresInit /\ ComprasInit /\ ReservasInit
                       /\ ConsumidorInit /\ TurnosInit
  BY DEF ServiciosInit
<1>2. FacturacionInit => FacturacionIInv
  BY InicioFacturacion DEF EnvioIInv
<1> QED
  BY <1>1, <1>2, InicioSalon, InicioCaja, InicioImpresion, InicioSesiones, InicioAdministradores,
     InicioCompras, InicioReservas, InicioConsumidor, InicioTurnos DEF ServiciosIInv

\* A step of the whole is one of a part, and the others stay as they are.
LEMMA PasoDeUnaParte ==
  ASSUME [ServiciosNext]_<<componente, vars, cajaVars, facturacionVars, impresionVars,
                           sesionesVars, administradoresVars, comprasVars, reservasVars,
                           consumidorVars, turnosVars>>
  PROVE  /\ [Next]_vars /\ [CajaNext]_cajaVars /\ [FacturacionNext]_facturacionVars
         /\ [ImpresionNext]_impresionVars /\ [SesionesNext]_sesionesVars
         /\ [AdministradoresNext]_administradoresVars /\ [ComprasNext]_comprasVars
         /\ [ReservasNext]_reservasVars /\ [ConsumidorNext]_consumidorVars
         /\ [TurnosNext]_turnosVars
<1>1. CASE ServiciosNext
  <2>1. /\ componente = "salon" => Next
        /\ componente = "caja" => CajaNext
        /\ componente = "facturacion" => FacturacionNext
        /\ componente = "impresion" => ImpresionNext
        /\ componente = "sesiones" => SesionesNext
        /\ componente = "administradores" => AdministradoresNext
        /\ componente = "compras" => ComprasNext
        /\ componente = "reservas" => ReservasNext
        /\ componente = "consumidor" => ConsumidorNext
        /\ componente = "turnos" => TurnosNext
    BY <1>1 DEF ServiciosNext
  <2>2. /\ componente = "salon" \/ UNCHANGED vars
        /\ componente = "caja" \/ UNCHANGED cajaVars
        /\ componente = "facturacion" \/ UNCHANGED facturacionVars
        /\ componente = "impresion" \/ UNCHANGED impresionVars
        /\ componente = "sesiones" \/ UNCHANGED sesionesVars
        /\ componente = "administradores" \/ UNCHANGED administradoresVars
        /\ componente = "compras" \/ UNCHANGED comprasVars
        /\ componente = "reservas" \/ UNCHANGED reservasVars
        /\ componente = "consumidor" \/ UNCHANGED consumidorVars
        /\ componente = "turnos" \/ UNCHANGED turnosVars
    BY <1>1 DEF ServiciosNext, Quieta
  <2> QED
    BY <2>1, <2>2
<1>2. CASE UNCHANGED <<componente, vars, cajaVars, facturacionVars, impresionVars,
                       sesionesVars, administradoresVars, comprasVars, reservasVars,
                       consumidorVars, turnosVars>>
  BY <1>2
<1> QED
  BY <1>1, <1>2

\* Whichever part moves keeps its own invariant.
LEMMA PasoServicios ==
  ServiciosIInv /\ [ServiciosNext]_<<componente, vars, cajaVars, facturacionVars, impresionVars,
                                     sesionesVars, administradoresVars, comprasVars,
                                     reservasVars, consumidorVars, turnosVars>>
    => ServiciosIInv'
<1> SUFFICES ASSUME ServiciosIInv,
                    [ServiciosNext]_<<componente, vars, cajaVars, facturacionVars, impresionVars,
                                      sesionesVars, administradoresVars, comprasVars,
                                      reservasVars, consumidorVars, turnosVars>>
             PROVE  ServiciosIInv'
  OBVIOUS
<1>1. /\ SalonIInv /\ CajaIInv /\ FacturacionIInv /\ ImpresionIInv /\ SesionesIInv
      /\ AdministradoresIInv /\ ComprasIInv /\ ReservasIInv /\ ConsumidorIInv /\ TurnosIInv
  BY DEF ServiciosIInv
<1>2. SalonIInv' /\ CajaIInv' /\ FacturacionIInv' /\ ImpresionIInv' /\ SesionesIInv'
  BY <1>1, PasoDeUnaParte, PasoSalon, PasoCaja, PasoFacturacion, PasoImpresion, PasoSesiones
<1>3. AdministradoresIInv' /\ ComprasIInv' /\ ReservasIInv' /\ ConsumidorIInv' /\ TurnosIInv'
  BY <1>1, PasoDeUnaParte, PasoAdministradores, PasoCompras, PasoReservas, PasoConsumidor,
     PasoTurnos
<1> QED
  BY <1>2, <1>3 DEF ServiciosIInv

\* The specification that the run checks, with all its parts and its fairness, has
\* the invariant of each of them; in particular every variable keeps its type.
THEOREM LosServiciosJuntos == ServiciosSpec => [](ServiciosIInv /\ Tipos)
<1>1. ServiciosIInv => Tipos
  BY DEF ServiciosIInv, Tipos, SalonIInv, CajaIInv, FacturacionIInv, ImpresionIInv, SesionesIInv,
     AdministradoresIInv, ComprasIInv, ReservasIInv, ConsumidorIInv, TurnosIInv
<1> QED
  BY <1>1, InicioServicios, PasoServicios, PTL DEF ServiciosSpec
=============================================================================
