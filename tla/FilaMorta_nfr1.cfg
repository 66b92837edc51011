SPECIFICATION Spec
CONSTANTS
  e1 = e1
  Envelopes <- UmEnvelope
  MaxRupturas = 0
  Falhas <- SoBanco
INVARIANTS FalhaDeBancoNaoPerde
