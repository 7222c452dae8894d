---------------------------- MODULE SesionesProps ----------------------------
(* What the sessions of a user may never be. *)
EXTENDS Sesiones

\* Every variable keeps its type.
SesionesTypeOK ==
  /\ activo \in BOOLEAN
  /\ refreshToken \in [Tokens -> [estado : {"NO", "VIVO", "REVOCADO"}, cadena : 0..MaxTokens,
                                  reemplazado : BOOLEAN, reciente : BOOLEAN]]
  /\ emitido \in 0..MaxTokens
  /\ entrando \subseteq Accesos
  /\ refresco \in [Refrescos -> [fase : {"FIN", "LEIDO", "VALIDO"}, token : 0..MaxTokens]]
  /\ revocacion \in [Revocaciones -> [por : {"NADIE", "REUSO", "BAJA", "CLAVE"},
                                      hasta : 0..MaxTokens]]
  /\ porCaja \in BOOLEAN
  /\ cerradas \subseteq Tokens
  /\ cruzados \subseteq Accesos
  /\ rezagadas \subseteq Tokens

\* "dos refresh concurrentes con el mismo token ya no emiten dos pares": a chain
\* has one live token at most, and none once a logout, a reset or a reuse has
\* revoked it. "una contrasena reseteada no deberia dejar sesiones vivas" only
\* goes so far: of a user whom an administrator left inactive, the tokens still
\* live are of chains that got one while the revocation was under way, by a
\* rotation or a login. A waiter whom the till deactivates keeps its tokens.
SesionesCerradas ==
  /\ \A t, u \in TokensVivos : CadenaDe(t) = CadenaDe(u) => t = u
  /\ \A t \in TokensVivos : CadenaDe(t) \notin cerradas
  /\ ~activo /\ ~porCaja => \A t \in TokensVivos : CadenaDe(t) \in rezagadas
-----------------------------------------------------------------------------
(* The inductive invariant (ServiciosProofs). *)

\* The rows are those of the tokens issued, each in a chain begun before it: the
\* chain of a login is new.
FilasEmitidas ==
  /\ \A t \in Tokens : refreshToken[t].estado # "NO" <=> t <= emitido
  /\ \A t \in Tokens : t <= emitido => CadenaDe(t) \in 1..t
  /\ cerradas \subseteq 1..emitido
  /\ rezagadas \subseteq 1..emitido

\* The logins in flight of a user whom an administrator left inactive were so
\* when the tokens were revoked.
EntrandoCruzados == ~activo /\ ~porCaja => entrando \subseteq cruzados

\* What was issued since an administrator's revocation began is of those chains.
NoVistasRezagadas ==
  \A r \in Revocaciones : revocacion[r].por \in {"BAJA", "CLAVE"} =>
    \A t \in TokensVivos : t > revocacion[r].hasta => CadenaDe(t) \in rezagadas

SesionesIInv == /\ SesionesTypeOK /\ FilasEmitidas /\ EntrandoCruzados /\ NoVistasRezagadas
                /\ SesionesCerradas
=============================================================================
