SPECIFICATION Spec
CONSTANTS
  g1 = g1
  g2 = g2
  Grupos = {g1, g2}
  MaxRemotos = 1
  MaxSenales = 1
  MaxErrores = 1
INVARIANTS ValoresAlDia GrupoMostrado SoloFallaAlSalir
SYMMETRY Simetria
CHECK_DEADLOCK FALSE
CONSTRAINT UnaEnLlamada
