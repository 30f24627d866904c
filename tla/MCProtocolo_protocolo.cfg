SPECIFICATION FairSpec
CONSTANTS
  Llamadas <- Llamadas_
  Respuestas <- Respuestas_
  MaxLlamadas = 2
  MaxCortes = 2
  MaxMotivos = 2
INVARIANTS
  SinDesborde
  EntregaFiel
  RespuestaFiel
  CortoSoloSiParte
  IInv
  EsperaMutuaSoloSinMotivo
PROPERTIES
  Avanza
  LlamadaTermina
CHECK_DEADLOCK FALSE
