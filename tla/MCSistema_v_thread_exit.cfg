SPECIFICATION Spec
CONSTANTS
  Modulo = 512
  Generales <- AxBx
  Programas <- SoloTest2
  Bucles <- ElBucle
  Basura <- DosBasuras
  Sueltas <- TresLineas
PROPERTIES
  ThreadExitFinaliza
CHECK_DEADLOCK FALSE
