------------------------------- MODULE MCCanais -------------------------------
(* One pid in two ambientes, hence two rows at most; one redirect.          *)
EXTENDS Canais

CONSTANTS n1, i1, i2, c1, c2, c3, e1, d1, r1, g1, g2, j1

UmPid == {n1}
DuasLinhas == {i1, i2}
TresChamadas == {c1, c2, c3}
UmEvento == {e1}
UmEnvio == {d1}
UmRed == {r1}
DoisGestores == {g1, g2}
UmJob == {j1}

Pede(tipo, amb, id) == [tipo |-> tipo, pid |-> n1, amb |-> amb, id |-> id]
CincoOperacoes == {Pede("create", 1, Nenhuma), Pede("create", 2, Nenhuma),
                   Pede("update", 1, i1), Pede("update", 2, i1), Pede("softDelete", 1, i1)}

Envia(tipo, valido, callback) == [tipo |-> tipo, valido |-> valido, callback |-> callback]
CincoPedidos == {Envia("media", TRUE, TRUE), Envia("media", TRUE, FALSE), Envia("media", FALSE, TRUE),
                 Envia("binario", TRUE, TRUE), Envia("binario", FALSE, TRUE)}

Nada == [chamadas |-> {}, apagam |-> {}, eventos |-> {}, envios |-> {}, gestores |-> {},
         jobs |-> {}, caem |-> FALSE]

Cadastros == [Nada EXCEPT !.chamadas = TresChamadas, !.apagam = {1}]
Mensagens == [Nada EXCEPT !.chamadas = {c1}, !.eventos = UmEvento, !.caem = TRUE]
Copias    == [Nada EXCEPT !.chamadas = {c1}, !.envios = UmEnvio, !.gestores = {g1}]
Gestao    == [Nada EXCEPT !.envios = UmEnvio, !.gestores = DoisGestores, !.caem = TRUE]
Uploads   == [Nada EXCEPT !.jobs = UmJob, !.caem = TRUE]

CincoCenarios == {Cadastros, Mensagens, Copias, Gestao, Uploads}
=============================================================================
