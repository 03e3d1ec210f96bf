SPECIFICATION MCSpec
CONSTANTS
  Indices = {1, 2}
  TablaMain = 1
  Datos = {"a"}
  NombreIF = "eth"
  Alterado = "x"
  SinIP = ""
  BUFSIZE = 8
  Largo = 3
  MaxMensajes = 3
  MaxFallos = 2
  Pila = 2
  Tablas <- MCTablas
  SinCuerpo = SinCuerpo
  MaxSeq = 3
  MaxVolcado = 2
  MaxAvisos = 1
  MaxPerdidas = 1
  Argumentos <- MCArgumentos
  Filtros <- MCFiltros
  FiltroVacio <- FVacio
  CabeFlush = 1
  Bits4 = 2
  Bits6 = 3
  BitsLong = 7
  BitsCorto = 3
  BitsByte = 2
  Palabra = 2
  NumerosTexto <- MCNumeros
  Direcciones <- MCDirecciones
  Cadenas <- MCCadenas
  Huecos <- MCHuecos
  MaxTipo = 1
  Sitio = 20
  SeqAplicacion = 2
  Listas <- MCListas
  Ficheros <- MCFicheros
INVARIANTS
  ListaFiel
  DireccionSuya
  ListaCompleta
  RespuestaPropia
  ColaLimpia
  BorraLoPedido
  ConsultaCompleta
  PruebaEnteros
  PruebaPrefijos
  IdaYVuelta
  PruebaAtributos
  PruebaFichero
PROPERTIES
  LlamadasVuelven
  ConsultaAcaba
  ListadoTermina
CHECK_DEADLOCK FALSE
