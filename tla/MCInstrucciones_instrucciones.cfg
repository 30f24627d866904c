SPECIFICATION Spec
CONSTANTS
  Modulo = 1024
  Generales <- AxBx
  Valores <- Bordes
  Repertorio <- Todas
INVARIANTS
  LecturaExacta
PROPERTIES
  EjecucionFiel
CHECK_DEADLOCK FALSE
