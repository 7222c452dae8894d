--------------------------- MODULE Administradores ---------------------------
(***************************************************************************)
(* Roles and states of the users in servicio-identidad, as administrators  *)
(* change those of each other: the change of an administrator is checked   *)
(* under a lock of the rows of all of them, that of another user is not.   *)
(***************************************************************************)
EXTENDS Integers, FiniteSets

CONSTANTS
  Usuarios,
  Cambios       \* requests: those of one administrator, each at a time

VARIABLES
  rol,          \* ADMIN or not, of each user
  habilitado,   \* activo of each user
  cambio,       \* [fase, usuario, orden, comoAdmin]: what each request has read
  \* history
  ascendidos    \* users made ADMIN, or active, while a change had read otherwise

administradoresVars == <<rol, habilitado, cambio, ascendidos>>

\* The orders of cambiarRol and cambiarEstado.
Ordenes == {"ASCENDER", "DEGRADAR", "ACTIVAR", "DESACTIVAR"}

SinCambio == [fase |-> "FIN", usuario |-> 0, orden |-> "ACTIVAR", comoAdmin |-> FALSE]

ASSUME AdministradoresAssumption == Usuarios \subseteq Nat \ {0}

AdministradoresInit ==
  /\ rol \in [Usuarios -> {"ADMIN", "OTRO"}]
  /\ habilitado \in [Usuarios -> BOOLEAN]
  /\ \E u \in Usuarios : rol[u] = "ADMIN" /\ habilitado[u]
  /\ cambio = [k \in Cambios |-> SinCambio]
  /\ ascendidos = {}

AdminsActivos == {u \in Usuarios : rol[u] = "ADMIN" /\ habilitado[u]}
-----------------------------------------------------------------------------
\* The user is read first, and whoever asks may not degrade or deactivate
\* themselves: somebody else is an administrator, or was when the token of the
\* request was signed.
LeerObjetivo(k, u, orden) ==
  /\ cambio[k].fase = "FIN"
  /\ cambio' = [cambio EXCEPT ![k] = [fase |-> "LEIDO", usuario |-> u, orden |-> orden,
                                      comoAdmin |-> rol[u] = "ADMIN"]]
  /\ UNCHANGED <<rol, habilitado, ascendidos>>

QuitaAdmin(k) == cambio[k].orden \in {"DEGRADAR", "DESACTIVAR"}

Aplicar(k) ==
  LET u == cambio[k].usuario
      orden == cambio[k].orden
  IN /\ rol' = [rol EXCEPT ![u] = CASE orden = "ASCENDER" -> "ADMIN"
                                    [] orden = "DEGRADAR" -> "OTRO"
                                    [] OTHER -> @]
     /\ habilitado' = [habilitado EXCEPT ![u] = CASE orden = "ACTIVAR" -> TRUE
                                                  [] orden = "DESACTIVAR" -> FALSE
                                                  [] OTHER -> @]
     /\ cambio' = [cambio EXCEPT ![k] = SinCambio]

\* Defect: the administrators are counted, not locked: any of them may have been
\* changed since.
DegradarSinLock(k) ==
  /\ cambio[k].fase = "LEIDO"
  /\ QuitaAdmin(k) /\ cambio[k].comoAdmin
  /\ Aplicar(k)
  /\ UNCHANGED ascendidos

\* The branch of administrators: SELECT ... FOR UPDATE, the count and the change,
\* in one transaction.
DegradarAdmin(k) ==
  /\ cambio[k].fase = "LEIDO"
  /\ QuitaAdmin(k) /\ cambio[k].comoAdmin
  /\ Cardinality(AdminsActivos) > 1
  /\ Aplicar(k)
  /\ UNCHANGED ascendidos

\* The last one is refused, even when the user of the request is not the one.
RechazarUltimo(k) ==
  /\ cambio[k].fase = "LEIDO"
  /\ QuitaAdmin(k) /\ cambio[k].comoAdmin
  /\ Cardinality(AdminsActivos) <= 1
  /\ cambio' = [cambio EXCEPT ![k] = SinCambio]
  /\ UNCHANGED <<rol, habilitado, ascendidos>>

\* Users about to be changed as if they were not administrators.
CambiosDeOtros == {cambio[k].usuario :
  k \in {j \in Cambios : cambio[j].fase = "LEIDO" /\ QuitaAdmin(j) /\ ~cambio[j].comoAdmin}}

\* The other branch: no lock and no count.
CambiarOtro(k) ==
  /\ cambio[k].fase = "LEIDO"
  /\ ~(QuitaAdmin(k) /\ cambio[k].comoAdmin)
  /\ Aplicar(k)
  /\ ascendidos' = IF QuitaAdmin(k) THEN ascendidos
                   ELSE ascendidos \cup ({cambio[k].usuario} \cap CambiosDeOtros)

AdministradoresNext ==
  \/ \E k \in Cambios, u \in Usuarios, orden \in Ordenes : LeerObjetivo(k, u, orden)
  \/ \E k \in Cambios : DegradarAdmin(k)
  \/ \E k \in Cambios : RechazarUltimo(k)
  \/ \E k \in Cambios : CambiarOtro(k)

AdministradoresSpec == AdministradoresInit /\ [][AdministradoresNext]_administradoresVars
=============================================================================
