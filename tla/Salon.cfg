CONSTANTS
  Cuentas = {1, 2}
  Pedidos = {1, 2}
  Listos = {}
  Ninguna = Ninguna
  Igual = Igual
SPECIFICATION Spec
INVARIANTS
  CuentasDisjuntas
  AsociacionFiel
PROPERTY TerminadaEsFinal
CHECK_DEADLOCK FALSE
