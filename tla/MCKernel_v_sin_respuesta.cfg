SPECIFICATION Spec
CONSTANTS
  SemExecInicial = 1
  MaxFallas = 0
  Syscalls <- SoloThreadExit
  Algoritmos = {"FIFO"}
  Basura <- DosBasuras
INVARIANTS
  ReadySoloConRespuesta
CHECK_DEADLOCK FALSE
