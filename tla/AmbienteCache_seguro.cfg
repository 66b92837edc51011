SPECIFICATION SpecJusta
CONSTANTS
  a1 = a1
  a2 = a2
  r1 = r1
  d1 = d1
  d2 = d2
  Ambientes <- DoisAmbientes
  Leitores <- UmLeitor
  Admins <- DoisAdmins
  MaxVersao = 2
  Eventos <- TodosOsEventos
INVARIANTS TypeOK CopiasSaoDeLinhas
PROPERTIES IncoerenciaTemCausa TtlEncerraIncoerencia
