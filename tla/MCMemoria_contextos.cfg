SPECIFICATION FairSpec
CONSTANTS
  c1 = c1
  c2 = c2
  c3 = c3
  c4 = c4
  Cpu = Cpu
  PIDs <- DosPIDs
  Conexiones <- TresConexiones
  Archivos <- UnoFalta
  Lineas <- UnLargo
  Pedidos <- Cambios
  BasuraOpera = TRUE
INVARIANTS
  SinColgados
  IInv
PROPERTIES
  CreacionRespondida
CHECK_DEADLOCK FALSE
