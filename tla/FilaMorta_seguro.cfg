SPECIFICATION SpecJusta
CONSTANTS
  e1 = e1
  Envelopes <- UmEnvelope
  MaxRupturas = 3
  Falhas <- TodasAsFalhas
INVARIANTS TypeOK NadaEvapora UmaLinhaPorEnvelope
PROPERTIES TodaCartaRegistrada
CHECK_DEADLOCK FALSE
