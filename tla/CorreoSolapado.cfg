SPECIFICATION Spec
CONSTANTS
  Mensaje <- Tres
  Sesion = {s1, s2}
  Carpetas = {"Probes", "Unknown"}
  Renumera = {TRUE}
  MaxCortes = 0
INVARIANTS
  SoloSePierdeRechazado
