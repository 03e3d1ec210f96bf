SPECIFICATION Spec
CONSTANTS
  Mitad = 4
  Ids = {0, 1, 6, 7}
  Valores = {"a1", "a2"}
  MaxLineas = 3
  MaxDescriptores = 1
INVARIANT CadaIdSuDatagrama
CHECK_DEADLOCK FALSE
