\* Two requests with one body and one with another; failures and slow handlers.
CONSTANTS
  p1 = p1
  p2 = p2
  p3 = p3
  c1 = c1
  c2 = c2
  Peticiones <- TresPeticiones
  Cuerpos <- Dos
  CuerpoDe <- Cuerpo
  MaxFallos = 2
  MaxLentas = 1
SPECIFICATION FairSpec
INVARIANTS
  DobleEjecucionConCausa
  UnSoloDueno
  RespuestaPropia
PROPERTIES
  HechaEsFinal
  TodaPeticionSeResuelve
CHECK_DEADLOCK FALSE
