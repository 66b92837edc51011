SPECIFICATION Spec
CONSTANTS
  i1 = i1
  i2 = i2
  m1 = m1
  m2 = m2
  b1 = b1
  b2 = b2
  d1 = d1
  SemInbox = SemInbox
  Inboxes <- DuasInboxes
  Mensagens <- DuasMensagens
  Caixa <- CaixaDuas
  MaxLinhas = 3
  Limite = 2
  Lotes <- DoisLotes
  Avulsos <- UmAvulso
INVARIANTS TypeOK NenhumaEsquecida ContagemFecha
CHECK_DEADLOCK FALSE
