------------------------------- MODULE MCStock -------------------------------
(* Two orders of one product, of one item each, or one order of two items.   *)
EXTENDS StockProps

CONSTANTS i1, i2, p1, p2, c1, m1, u1, u2

UnoCadaUno == [i \in {i1, i2} |-> IF i = i2 THEN p2 ELSE p1]
AmbosEnP1  == [i \in {i1, i2} |-> p1]
UnaYDos    == [i \in {i1, i2} |-> IF i = i2 THEN 2 ELSE 1]
UnaCada    == [c \in {c1} |-> 1]
Sube       == {1}
Baja       == {-2}
SubeYBaja  == {1, -2}
Ninguna    == [c \in {} |-> 1]
=============================================================================
