--------------------------- MODULE MCIdempotencia ---------------------------
(* Three requests with one key: a client's, its retry, and another body. *)
EXTENDS IdempotenciaProps

CONSTANTS p1, p2, p3, c1, c2

TresPeticiones == {p1, p2, p3}
Dos == {c1, c2}
Cuerpo == [p \in TresPeticiones |-> IF p = p3 THEN c2 ELSE c1]
=============================================================================
