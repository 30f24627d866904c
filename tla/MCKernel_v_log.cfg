SPECIFICATION Spec
CONSTANTS
  SemExecInicial = 1
  MaxFallas = 0
  Syscalls <- SoloThreadExit
  Algoritmos = {"FIFO"}
  Basura <- DosBasuras
INVARIANTS
  LogLeeTcbVivo
CHECK_DEADLOCK FALSE
