CONSTANTS
  Cuentas = {1, 2}
  Pedidos = {1, 2}
  Listos = {}
  Ninguna = Ninguna
  Igual = Igual
SPECIFICATION Spec
INVARIANT
  DescarteDeAtencionAnterior
CHECK_DEADLOCK FALSE
