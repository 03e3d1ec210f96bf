SPECIFICATION Spec
CONSTANTS
  Direccion <- MCDireccion
  Nula <- MCNula
  Sitelocal <- MCSitelocal
  rango_unicast <- MCRango
  LenRango = 1
  Largo = 2
  Dev <- MCDev
  SinDev = SinDev
  todas_ifaces <- MCIfaces
  Tablas <- TablasAB
  Origen <- MCOrigen
  Grupo <- MCGrupo
  MaxHop = 2
  Distancias = {0}
  SinDato = SinDato
  MAX_RUTAS = 3
  GEOPAG_calcula_distancia <- MCDistancia
INVARIANTS
  TypeOK
  FilasPublicadas
  SoloDesbordaLectura
  SoloDondeDebe
PROPERTY
  DecisionExacta
