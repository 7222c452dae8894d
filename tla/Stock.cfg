CONSTANTS
  i1 = i1
  i2 = i2
  p1 = p1
  p2 = p2
  c1 = c1
  m1 = m1
  u1 = u1
  u2 = u2
  Lineas = {i1, i2}
  Pedidos = {p1, p2}
  PedidoDe <- UnoCadaUno
  Cantidad <- UnaYDos
  Inicial = 2
  Ajustes = {}
  Compras = {c1}
  Recibido <- UnaCada
  Mermas = {}
  Editores = {}
  Perdidas = {1, 2}
  MaxGestiones = 2
  MaxManual = 0
  SinFila = SinFila
SPECIFICATION FairSpec
INVARIANTS
  TypeOK
  ReservaRespaldada
  RechazoConCausa
PROPERTIES
  TodoPedidoSeResuelve
  Convergen
CHECK_DEADLOCK FALSE
