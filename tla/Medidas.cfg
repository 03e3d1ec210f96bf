SPECIFICATION MedidasSpec
CONSTANTS
  NIVELES = 7
  Pares <- ParesTodos
  Cron = {c1, c2}
  Ordenes = {0, 1, 2}
  MaxMuertes = 1
INVARIANTS
  DistanciaSegura
  DistanciasMedidas
  NuncaVacioEnReposo
CHECK_DEADLOCK FALSE
