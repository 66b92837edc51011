SPECIFICATION SpecSemDestino
CONSTANTS
  p1 = p1
  p2 = p2
  mensagem = mensagem
  conta = conta
  n1 = n1
  n2 = n2
  a1 = a1
  a2 = a2
  u1 = u1
  w1 = w1
  Nulo = Nulo
  Pedidos <- DoisPedidos
  Eventos <- DoisEventos
  Evento <- Catalogo
  Inboxes <- DuasInboxes
  PidDe <- DoisPids
  Ambientes <- UmAmbiente
  Wabas <- UmaWaba
  Urls <- UmaUrl
  MaxRetries = 1
  Falhas <- MenosEdicao
CHECK_DEADLOCK FALSE
INVARIANTS UmEnvioPorAmbiente
PROPERTIES RespondeSemEsperar
