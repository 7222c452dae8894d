\* An order of dishes of the kitchen and two requests, one after the other or not.
CONSTANTS
  Items = {1, 2}
  Directos = {}
  Peticiones = {1, 2}
  Marcas = {"CANCELADO"}
SPECIFICATION ComandaSpec
INVARIANT
  RestauradoVuelveALaCuenta
CHECK_DEADLOCK FALSE
