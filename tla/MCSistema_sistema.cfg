SPECIFICATION FairSpec
CONSTANTS
  Modulo = 512
  Generales <- AxBx
  Programas <- TodosLosProgramas
  Bucles <- ElBucle
  Basura <- DosBasuras
  Sueltas <- TresLineas
INVARIANTS
  ContextoCoherente
  MemoriaMuereSi
  IInv
PROPERTIES
  EjecutaComoMaquina
  Concluye
  BajaLlega
  InterrupcionSaca
CHECK_DEADLOCK FALSE
