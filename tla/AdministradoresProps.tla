------------------------- MODULE AdministradoresProps ------------------------
(* What the administrators may never do. *)
EXTENDS Administradores

\* Every variable keeps its type.
AdministradoresTypeOK ==
  /\ rol \in [Usuarios -> {"ADMIN", "OTRO"}]
  /\ habilitado \in [Usuarios -> BOOLEAN]
  /\ cambio \in [Cambios -> [fase : {"FIN", "LEIDO"}, usuario : Usuarios \cup {0},
                             orden : Ordenes, comoAdmin : BOOLEAN]]
  /\ ascendidos \subseteq Usuarios

\* "no dejar el sistema sin ningun admin activo": however they degrade and
\* deactivate each other, one stays, unless a user became an administrator
\* between the two steps of a change that had read otherwise.
QuedaUnAdmin == ascendidos = {} => AdminsActivos # {}
-----------------------------------------------------------------------------
(* The inductive invariant (ServiciosProofs). *)

\* A request past its read has read a user, and unless somebody was promoted
\* meanwhile, those about to take rights from a user who was not an administrator
\* find one who is not.
LecturaVigente ==
  /\ \A k \in Cambios : cambio[k].fase = "LEIDO" => cambio[k].usuario \in Usuarios
  /\ ascendidos = {} => \A u \in CambiosDeOtros : rol[u] # "ADMIN"

AdministradoresIInv == AdministradoresTypeOK /\ LecturaVigente /\ QuedaUnAdmin
=============================================================================
