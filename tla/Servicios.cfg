CONSTANTS
  Cuentas = {1, 2}
  Pedidos = {1}
  Listos = {1}
  Ninguna = Ninguna
  Igual = Igual

  Cobros = {1, 2}
  Monto <- Montos
  Descuento <- Descuentos
  Combinados = {2}
  Totales = {2, 3}
  MaxFilas = 2

  Ventas = {1, 2}
  Emisiones = {1, 2, 3}
  Notas = {4}
  VentaDe <- VentaDeCada
  AfectadoDe <- AfectadoDeCada
  Procesadores = {1}
  MaxIntentos = 2

  Tickets = {1}
  Agentes = {1, 2}
  MaxAttempts = 2
  MaxReintentos = 1

  MaxTokens = 3
  Accesos = {1}
  Refrescos = {1, 2}
  Revocaciones = {1}

  Usuarios = {1, 2}
  Cambios = {1, 2}

  Insumos = {1}
  Llamadas = {1, 2}
  Inicial <- StockInicial
  Minimo <- StockMinimo
  FactorNum <- Factores
  FactorDen = 2
  MaxPedida = 2
  MaxStock = 2
  MaxEdiciones = 1

  Clientes = {1, 2, 3}
  Franjas = {1, 2}

  Mensajes = {1}
  MaxRetries = 3
  MaxEntregas = 2

  Turnos = {1, 2}
  Movimientos = {1}
  Manuales = {}
  Cajeros = {1, 2}
SPECIFICATION ServiciosSpec
INVARIANTS
  Tipos
  NuncaSeCobraDeMas
  EsperaUnaVez
  DocumentoUnico
  AnunciadoEsAceptado
  PapelConCausa
  SesionesCerradas
  QuedaUnAdmin
  RecepcionRespaldada
  UnaActivaPorMesa
  EntregaConCausa
  CierreCuadra
  MeserosSiguenLaCaja
PROPERTIES
  CierreSinDeuda
  HuerfanaSeResuelve
  CobradaSeCierra
CHECK_DEADLOCK FALSE
