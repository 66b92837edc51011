SPECIFICATION SpecJusta
CONSTANTS
  n1 = n1
  i1 = i1
  i2 = i2
  c1 = c1
  c2 = c2
  c3 = c3
  e1 = e1
  d1 = d1
  r1 = r1
  g2 = g2
  g1 = g1
  j1 = j1
  Nenhuma = Nenhuma
  Pids <- UmPid
  Ambientes = {1, 2}
  Ids <- DuasLinhas
  Chamadas <- TresChamadas
  Operacoes <- CincoOperacoes
  Eventos <- UmEvento
  MaxRetries = 2
  RetriesDaCopia = 2
  Envios <- UmEnvio
  Reds <- UmRed
  Global = 0
  Gestores <- DoisGestores
  Jobs <- UmJob
  Pedidos <- CincoPedidos
  Bracos = {1, 2}
  TentativasDeCallback = 2
  MaxRupturas = 2
  Cenarios <- CincoCenarios
  Falhas = {"banco", "redis", "broker", "queda"}
CHECK_DEADLOCK FALSE
INVARIANTS CadastroCumpre InstagramNaoPerde RedirecionaExato JobDeixaRastro
PROPERTIES ArquivoSome SoEdita
