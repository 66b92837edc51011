SPECIFICATION SpecSemTimeout
CONSTANTS
  t1 = t1
  t2 = t2
  i1 = i1
  i2 = i2
  a1 = a1
  u1 = u1
  Nulo = Nulo
  Tarefas <- DuasTarefas
  Inboxes <- DuasInboxes
  Ambientes <- UmAmbiente
  Urls <- UmaUrl
  MaxRetries = 2
  Falhas <- TodasAsFalhas
INVARIANTS TypeOK StatusExplicaFalha UmDesfecho
PROPERTIES CumpreEntrega SoParaNoPostOuNoBroker
