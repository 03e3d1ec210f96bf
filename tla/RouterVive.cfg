SPECIFICATION FairSpec
CONSTANTS
  Direccion <- MCDireccion
  Nula <- MCNula
  Sitelocal <- MCSitelocal
  rango_unicast <- MCRango
  LenRango = 1
  Largo = 2
  Dev <- MCDev
  SinDev = SinDev
  todas_ifaces <- MCIfacesDoble
  Tablas <- TablasF
  Origen <- MCOrigen
  Grupo <- MCGrupo
  MaxHop = 2
  Distancias = {0}
  SinDato = SinDato
  MAX_RUTAS = 2
  GEOPAG_calcula_distancia <- MCDistancia
CONSTRAINT
  UnPaquete
PROPERTIES
  PrometeReenvio
  SiempreVuelve
  TablaAlDia
