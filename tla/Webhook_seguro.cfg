SPECIFICATION SpecSemBroker
CONSTANTS
  p1 = p1
  p2 = p2
  mensagem = mensagem
  conta = conta
  vazio = vazio
  falsa = falsa
  ruido = ruido
  n1 = n1
  n2 = n2
  a1 = a1
  a2 = a2
  w1 = w1
  Nulo = Nulo
  Pedidos <- DoisPedidos
  Eventos <- Variados
  Evento <- Catalogo
  Inboxes <- DuasInboxes
  PidDe <- DoisPids
  Ambientes <- DoisAmbientes
  Wabas <- UmaWaba
  Falhas <- TodasAsFalhas
INVARIANTS TypeOK RespostaHonesta SemEfeitoDobrado
PROPERTIES UmaPorAmbiente SoEsperaOBroker
CHECK_DEADLOCK FALSE
