SPECIFICATION Spec
CONSTANTS
  p1 = p1
  p2 = p2
  k1 = k1
  a1 = a1
  a2 = a2
  i1 = i1
  f1 = f1
  x1 = x1
  x2 = x2
  g1 = g1
  g2 = g2
  w1 = w1
  t1 = t1
  t2 = t2
  Nulo = Nulo
  Global = Global
  Pedidos <- DoisPedidos
  Chaves <- UmaChave
  Admins <- DoisAdmins
  Instancias <- UmaPartida
  Uids <- UmUid
  Urls <- DuasUrls
  Gestores <- DoisGestores
  Webhooks <- UmWebhook
  Tokens <- DoisTokens
  Payload <- Noticias
  MaxNos = 2
  Cenarios <- SoRotas
  Falhas = {"banco", "redis"}
CHECK_DEADLOCK FALSE
INVARIANT TodaRotaChega
