\* Two events (one with an unknown routing key), two replicas.
CONSTANTS
  Replicas = {r1, r2}
  Eventos = {1, 2}
  Corruptos = {2}
  MaxAttempts = 2
  BatchSize = 2
  MaxFallos = 2
  MaxCaidas = 1
SPECIFICATION FairSpec
INVARIANTS
  NadaSePierde
  DuplicadoConCausa
  ReclamoExclusivo
  FailedPorSusFallos
PROPERTIES
  ProcesadoEsFinal
  ImplementaEntrega
  TodoSePublica
  NadaQuedaReclamado
CHECK_DEADLOCK FALSE
