\* Nothing fails and nobody crashes: a replica is just slower than the rescue cron.
CONSTANTS
  Replicas = {r1, r2}
  Eventos = {1}
  Corruptos = {}
  MaxAttempts = 2
  BatchSize = 1
  MaxFallos = 0
  MaxCaidas = 0
SPECIFICATION Spec
INVARIANTS
  SinDuplicadosEnElHappyPath
CHECK_DEADLOCK FALSE
