------------------------------- MODULE MCProxy -------------------------------
(* Two requests, one key, one callback, and a scenario per hazard.          *)
EXTENDS Proxy

CONSTANTS p1, p2, k1, a1, a2, i1, f1, x1, x2, g1, g2, w1, t1, t2

DoisPedidos == {p1, p2}
UmaChave    == {k1}
DoisAdmins  == {a1, a2}
UmaPartida  == {i1}
UmUid       == {f1}
DuasUrls    == {x1, x2}
DoisGestores == {g1, g2}
UmWebhook   == {w1}
DoisTokens  == {t1, t2}

(* Two statuses, one of them with two errors, and one of the account.       *)
Noticias == [w \in UmWebhook |-> << << [statuses |-> <<2, 0>>, proprios |-> 1] >>, << >> >>]

Onde(rotas) == {k \in DOMAIN Tabela : Tabela[k] \in rotas}

Parado == [pedidos |-> {p1}, rotas |-> {2}, tokens |-> {Nulo}, chaves |-> {k1},
           admins |-> {}, instancias |-> {}, gestores |-> {}, webhooks |-> {}]

Todas == [Parado EXCEPT !.rotas = DOMAIN Tabela]
Juntos == [Parado EXCEPT !.pedidos = DoisPedidos, !.tokens = {t1, t2, Nulo},
             !.rotas = Onde({MarcaLida, WppSubscriptionsController[2]})]
Revoga == [Parado EXCEPT !.chaves = {k1, Nulo}, !.admins = DoisAdmins, !.instancias = UmaPartida]
Edita == [Parado EXCEPT !.pedidos = DoisPedidos, !.rotas = Onde({Endpoint}),
            !.gestores = DoisGestores]
Registram == [Parado EXCEPT !.webhooks = UmWebhook]

CincoCenarios == {Todas, Juntos, Revoga, Edita, Registram}
SoRotas == {Todas}
=============================================================================
