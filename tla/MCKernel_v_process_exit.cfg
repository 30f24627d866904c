SPECIFICATION FairSpec
CONSTANTS
  SemExecInicial = 1
  MaxFallas = 0
  Syscalls <- SoloProcessExit
  Algoritmos = {"FIFO"}
  Basura <- DosBasuras
PROPERTIES
  ProcessExitEncolaTodo
CHECK_DEADLOCK FALSE
