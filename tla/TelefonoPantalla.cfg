SPECIFICATION SpecPantalla
CONSTANTS
  g1 = g1
  Grupos = {g1}
  MaxRemotos = 1
  MaxSenales = 0
  MaxErrores = 0
INVARIANT PantallaAlDia
CHECK_DEADLOCK FALSE
