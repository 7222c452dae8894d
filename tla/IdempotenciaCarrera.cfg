\* One process dies with the key claimed; no handler is slow.
CONSTANTS
  p1 = p1
  p2 = p2
  p3 = p3
  c1 = c1
  c2 = c2
  Peticiones <- TresPeticiones
  Cuerpos <- Dos
  CuerpoDe <- Cuerpo
  MaxFallos = 1
  MaxLentas = 0
SPECIFICATION Spec
INVARIANTS
  UnaSolaEjecucion
CHECK_DEADLOCK FALSE
