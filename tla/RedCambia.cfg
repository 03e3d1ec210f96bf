SPECIFICATION FairSpec
CONSTANTS
  Direccion <- MCDireccion
  Nula <- MCNula
  Sitelocal <- MCSitelocal
  rango_unicast <- MCRango
  LenRango = 1
  Largo = 2
  Dev <- MCDev
  SinDev = SinDev
  GEOPAG_calcula_distancia <- MCDistancia
  Router <- MCRouter
  Ifaces <- MCIfaces
  Enlace <- MCEnlace
  Sitio <- MCSitio
  Celdas <- MCCeldas
  Tablas <- TablasRed
  Mensaje <- Dos
  HopLimit = 4
  Fragil <- Uno
INVARIANT
  ResultadoPruebas
PROPERTIES
  AvisaElArea
  SeVacia
  AvisaEnReposo
