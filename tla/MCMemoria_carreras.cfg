SPECIFICATION Spec
CONSTANTS
  c1 = c1
  c2 = c2
  c3 = c3
  c4 = c4
  Cpu = Cpu
  PIDs <- DosPIDs
  Conexiones <- CuatroConexiones
  Archivos <- UnoFalta
  Lineas <- UnLargo
  Pedidos <- Todo
  BasuraOpera = FALSE
SYMMETRY Simetria
INVARIANTS
  RespondidoCargado
  MuerteJustificada
PROPERTIES
  Refina
CHECK_DEADLOCK FALSE
