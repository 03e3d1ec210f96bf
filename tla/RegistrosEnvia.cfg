SPECIFICATION Spec
CONSTANTS
  Mitad = 4
  Ids = {0, 1, 6, 7}
  Valores = {"a1", "a2"}
  MaxLineas = 3
  MaxDescriptores = 1
INVARIANTS EnviaLaUltima TodoSeEnvia Descriptores
CHECK_DEADLOCK FALSE
