------------------------------ MODULE Sesiones -------------------------------
(***************************************************************************)
(* The refresh tokens of one user in servicio-identidad: each login starts *)
(* a chain in which every token is rotated into the next, while logouts,   *)
(* changes of password and of state revoke them, and requests of the same  *)
(* browser race. If the user is a waiter, the till lets it in and out.     *)
(*                                                                         *)
(* The database is at READ COMMITTED. A rotation is one transaction, and   *)
(* shows when it commits; an updateMany over all the tokens of the user is *)
(* two steps, as it updates the rows that were live when it began, if they *)
(* still are when it gets their locks, and sees no row committed since.    *)
(*                                                                         *)
(* Time only matters for how long ago a token was rotated (ten seconds of  *)
(* grace): a rotation grows old at any moment. Expired tokens are refused  *)
(* with nothing done, so no action stands for that.                        *)
(***************************************************************************)
EXTENDS Integers

CONSTANTS
  MaxTokens,    \* bound: tokens issued
  Accesos,      \* logins
  Refrescos,    \* concurrent calls of auth/refresh
  Revocaciones  \* concurrent revocations of all the tokens

ASSUME SesionesAssumption == MaxTokens \in Nat

Tokens == 1..MaxTokens

VARIABLES
  activo,       \* of the user
  refreshToken, \* [estado, cadena, reemplazado, reciente], cadena: its first token
  emitido,      \* number of tokens issued
  entrando,     \* logins with the password verified and no token yet
  refresco,     \* per call: [fase, token]
  revocacion,   \* per revocation: [por, hasta], why and the last token issued when it began
  \* history
  porCaja,      \* it was the till that deactivated the user, and nobody has revoked since
  cerradas,     \* chains whose live token was revoked by other than a rotation
  cruzados,     \* logins in flight that were so when an administrator revoked the tokens
  rezagadas     \* chains not closed begun by those, or that got a token during a revocation

usuario      == <<activo, porCaja>>
filas        == <<refreshToken, emitido, cerradas>>
curso        == <<entrando, refresco, revocacion>>
tarde        == <<cruzados, rezagadas>>
sesionesVars == <<usuario, filas, curso, tarde>>

SinRefresco   == [fase |-> "FIN", token |-> 0]
SinRevocacion == [por |-> "NADIE", hasta |-> 0]
SinToken == [estado |-> "NO", cadena |-> 0, reemplazado |-> FALSE, reciente |-> FALSE]

SesionesInit ==
  /\ activo = TRUE
  /\ refreshToken = [t \in Tokens |-> SinToken]
  /\ emitido = 0
  /\ entrando = {}
  /\ refresco = [p \in Refrescos |-> SinRefresco]
  /\ revocacion = [r \in Revocaciones |-> SinRevocacion]
  /\ porCaja = FALSE
  /\ cerradas = {}
  /\ cruzados = {}
  /\ rezagadas = {}

TokensVivos == {t \in Tokens : refreshToken[t].estado = "VIVO"}
CadenaDe(t) == refreshToken[t].cadena

NuevoToken(cadena) ==
  [estado |-> "VIVO", cadena |-> cadena, reemplazado |-> FALSE, reciente |-> FALSE]

\* cambiarEstado and cambiarPasswordUsuario update the user first: its row is
\* locked until they commit.
FilaLibre == \A r \in Revocaciones : revocacion[r].por \in {"NADIE", "REUSO"}

\* The statement of revocarCadenaRefresh begins: all the tokens of the user,
\* whatever their chain.
RevocarCadena(r, por) ==
  /\ revocacion[r].por = "NADIE"
  /\ revocacion' = [revocacion EXCEPT ![r] = [por |-> por, hasta |-> emitido]]
-----------------------------------------------------------------------------
\* login, up to the answer of AuthService; a locked account is refused.
Login(l) ==
  /\ activo
  /\ l \notin entrando
  /\ entrando' = entrando \cup {l}
  /\ UNCHANGED <<usuario, filas, refresco, revocacion, tarde>>

\* issueRefreshToken, which does not look at the user again.
IssueRefreshToken(l) ==
  LET n == emitido + 1
  IN /\ l \in entrando
     /\ emitido < MaxTokens
     /\ emitido' = n
     /\ refreshToken' = [refreshToken EXCEPT ![n] = NuevoToken(n)]
     /\ entrando' = entrando \ {l}
     /\ rezagadas' = IF l \in cruzados \/ ~FilaLibre THEN rezagadas \cup {n} ELSE rezagadas
     /\ cruzados' = cruzados \ {l}
     /\ UNCHANGED <<usuario, refresco, revocacion, cerradas>>

\* rotateRefreshToken: the token is read, then its user ...
LeerToken(p, t) ==
  /\ refresco[p].fase = "FIN"
  /\ t \in TokensVivos
  /\ refresco' = [refresco EXCEPT ![p] = [fase |-> "LEIDO", token |-> t]]
  /\ UNCHANGED <<usuario, filas, entrando, revocacion, tarde>>

LeerUsuario(p) ==
  /\ refresco[p].fase = "LEIDO"
  /\ refresco' = [refresco EXCEPT ![p] = IF activo THEN [@ EXCEPT !.fase = "VALIDO"]
                                            ELSE SinRefresco]
  /\ UNCHANGED <<usuario, filas, entrando, revocacion, tarde>>

\* Defect: ... and rotated, if nothing has been read to the contrary.
RotarSinComparar(p) ==
  LET t == refresco[p].token
      n == emitido + 1
  IN /\ refresco[p].fase = "VALIDO"
     /\ emitido < MaxTokens
     /\ emitido' = n
     /\ refreshToken' = [refreshToken EXCEPT
          ![t] = [@ EXCEPT !.estado = "REVOCADO", !.reemplazado = TRUE, !.reciente = TRUE],
          ![n] = NuevoToken(CadenaDe(t))]
     /\ refresco' = [refresco EXCEPT ![p] = SinRefresco]
     /\ rezagadas' = IF FilaLibre THEN rezagadas ELSE rezagadas \cup {CadenaDe(t)}
     /\ UNCHANGED <<usuario, entrando, revocacion, cerradas, cruzados>>

\* ... and rotated, if it is not revoked yet. While its transaction is open it
\* holds the lock of the row, and whoever would revoke that row waits.
RotarToken(p) ==
  LET t == refresco[p].token
      n == emitido + 1
  IN /\ refresco[p].fase = "VALIDO"
     /\ t \in TokensVivos
     /\ emitido < MaxTokens
     /\ emitido' = n
     /\ refreshToken' = [refreshToken EXCEPT
          ![t] = [@ EXCEPT !.estado = "REVOCADO", !.reemplazado = TRUE, !.reciente = TRUE],
          ![n] = NuevoToken(CadenaDe(t))]
     /\ refresco' = [refresco EXCEPT ![p] = SinRefresco]
     /\ rezagadas' = IF FilaLibre THEN rezagadas ELSE rezagadas \cup {CadenaDe(t)}
     /\ UNCHANGED <<usuario, entrando, revocacion, cerradas, cruzados>>

\* esCarreraReciente
CarreraReciente(t) ==
  refreshToken[t].estado = "REVOCADO" /\ refreshToken[t].reemplazado /\ refreshToken[t].reciente

\* It lost the rotation: a recent race is refused, anything else is a reuse.
PerderRotacion(p) ==
  LET t == refresco[p].token
  IN /\ refresco[p].fase = "VALIDO"
     /\ t \notin TokensVivos
     /\ refresco' = [refresco EXCEPT ![p] = SinRefresco]
     /\ IF CarreraReciente(t) THEN UNCHANGED revocacion
        ELSE \E r \in Revocaciones : RevocarCadena(r, "REUSO")
     /\ UNCHANGED <<usuario, filas, entrando, tarde>>

\* A revoked token comes again, as from a browser that lost the answer.
ReusoDetectado(t, r) ==
  /\ refreshToken[t].estado = "REVOCADO"
  /\ ~CarreraReciente(t)
  /\ RevocarCadena(r, "REUSO")
  /\ UNCHANGED <<usuario, filas, entrando, refresco, tarde>>

Envejecer(t) ==
  /\ refreshToken[t].reciente
  /\ refreshToken' = [refreshToken EXCEPT ![t].reciente = FALSE]
  /\ UNCHANGED <<usuario, emitido, cerradas, curso, tarde>>

\* revokeRefreshTokenByRaw
Logout(t) ==
  /\ t \in TokensVivos
  /\ refreshToken' = [refreshToken EXCEPT ![t].estado = "REVOCADO"]
  /\ cerradas' = cerradas \cup {CadenaDe(t)}
  /\ rezagadas' = rezagadas \ cerradas'
  /\ UNCHANGED <<usuario, emitido, curso, cruzados>>

\* cambiarEstado to active, which revokes nothing ...
Activar ==
  /\ FilaLibre
  /\ activo' = TRUE
  /\ porCaja' = FALSE
  /\ UNCHANGED <<filas, curso, tarde>>

\* ... to inactive (BAJA), or cambiarPasswordUsuario (CLAVE), up to the revocation.
RevocarUsuario(r, por) ==
  /\ FilaLibre
  /\ RevocarCadena(r, por)
  /\ UNCHANGED <<usuario, filas, entrando, refresco, tarde>>

\* A revocation commits, and with it the state of the user: of the rows there
\* were, those still live.
ConfirmarRevocacion(r) ==
  LET por  == revocacion[r].por
      caen == {t \in TokensVivos : t <= revocacion[r].hasta}
  IN /\ por # "NADIE"
     /\ refreshToken' = [t \in Tokens |->
          IF t \in caen THEN [refreshToken[t] EXCEPT !.estado = "REVOCADO"] ELSE refreshToken[t]]
     /\ cerradas' = cerradas \cup {CadenaDe(t) : t \in caen}
     /\ revocacion' = [revocacion EXCEPT ![r] = SinRevocacion]
     /\ activo' = (activo /\ por # "BAJA")
     /\ porCaja' = (porCaja /\ por = "REUSO")
     /\ cruzados' = IF por = "REUSO" THEN cruzados ELSE cruzados \cup entrando
     /\ rezagadas' = rezagadas \ cerradas'
     /\ UNCHANGED <<emitido, entrando, refresco>>

\* turno_caja.abierto and .cerrado, if the user is a waiter: nothing is revoked.
ActivarMeserosPorSede(a) ==
  /\ FilaLibre
  /\ activo' = a
  /\ porCaja' = (~a /\ (activo \/ porCaja))
  /\ UNCHANGED <<filas, curso, tarde>>

SesionesNext ==
  \/ \E l \in Accesos : Login(l)
  \/ \E l \in Accesos : IssueRefreshToken(l)
  \/ \E p \in Refrescos, t \in Tokens : LeerToken(p, t)
  \/ \E p \in Refrescos : LeerUsuario(p)
  \/ \E p \in Refrescos : RotarToken(p)
  \/ \E p \in Refrescos : PerderRotacion(p)
  \/ \E t \in Tokens, r \in Revocaciones : ReusoDetectado(t, r)
  \/ \E t \in Tokens : Envejecer(t)
  \/ \E t \in Tokens : Logout(t)
  \/ Activar
  \/ \E r \in Revocaciones, por \in {"BAJA", "CLAVE"} : RevocarUsuario(r, por)
  \/ \E r \in Revocaciones : ConfirmarRevocacion(r)
  \/ \E a \in BOOLEAN : ActivarMeserosPorSede(a)

SesionesSpec == SesionesInit /\ [][SesionesNext]_sesionesVars
=============================================================================
