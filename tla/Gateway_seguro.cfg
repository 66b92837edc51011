SPECIFICATION Spec
CONSTANTS
  p1 = p1
  p2 = p2
  mensagem = mensagem
  conta = conta
  n1 = n1
  n2 = n2
  a1 = a1
  a2 = a2
  u1 = u1
  w1 = w1
  Nulo = Nulo
  Pedidos <- UmPedido
  Eventos <- SoConta
  Evento <- Catalogo
  Inboxes <- DuasInboxes
  PidDe <- DoisPids
  Ambientes <- DoisAmbientes
  Wabas <- UmaWaba
  Urls <- UmaUrl
  MaxRetries = 1
  Falhas <- MetaEEdicao
CHECK_DEADLOCK FALSE
INVARIANTS NadaSePerde
