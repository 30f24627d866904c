SPECIFICATION FairSpec
CONSTANTS
  SemExecInicial = 1
  MaxFallas = 3
  Syscalls <- TodasLasSyscalls
  Algoritmos = {"FIFO"}
  Basura <- DosBasuras
PROPERTIES
  PrimerDespacho
  ReintentoDeNew
  ExitAvisaMemoria
CHECK_DEADLOCK FALSE
