SPECIFICATION FairSpec
CONSTANTS
  Mensaje <- Dos
  Sesion = {s1, s2}
  Carpetas = {"Probes", "Unknown"}
  Renumera = {TRUE, FALSE}
  MaxCortes = 1
INVARIANTS
  TypeOK
  SoloSePierdeRenumerando
  
PROPERTY
  SeArchiva
