SPECIFICATION Spec
CONSTANTS
  SemExecInicial = 3
  MaxFallas = 3
  Syscalls <- TodasLasSyscalls
  Algoritmos = {"FIFO", "CMN"}
  Basura <- DosBasuras
INVARIANTS
  SemaforosRespaldados
  UnaSolaFicha
  SoloCorrenPrincipales
  DespachoPresupuestado
  DespachadoRegistrado
  DespachadoConfirmado
  UnSoloLugar
  SinLeerLiberado
  PedidosLegales
  IInv
  Reparto
PROPERTIES
  ProcessExitNuncaAvanza
  Planifica
CHECK_DEADLOCK FALSE
