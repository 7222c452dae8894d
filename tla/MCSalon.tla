------------------------------- MODULE MCSalon -------------------------------
(* Two attentions of a table. *)
EXTENDS SalonProps
=============================================================================
