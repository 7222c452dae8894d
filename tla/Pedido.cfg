CONSTANTS
  i1 = i1
  i2 = i2
  p1 = p1
  p2 = p2
  c1 = c1
  m1 = m1
  u1 = u1
  u2 = u2
  Lineas = {i1, i2}
  Pedidos = {p1}
  PedidoDe <- AmbosEnP1
  Cantidad <- UnaYDos
  Inicial = 3
  Ajustes <- SubeYBaja
  Compras = {}
  Recibido <- Ninguna
  Mermas = {m1}
  Editores = {u1}
  Perdidas = {1, 2}
  MaxGestiones = 1
  MaxManual = 2
  SinFila = SinFila

  Items = {1, 2}
  Directos = {1}
  Peticiones = {1, 2, 3}
  Marcas = {"ENTREGADO", "CANCELADO"}
SPECIFICATION PedidoSpec
INVARIANTS
  InventarioCuadra
  TotalCuadra
PROPERTY TerminalSeRespeta
CHECK_DEADLOCK FALSE
