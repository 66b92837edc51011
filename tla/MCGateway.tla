------------------------------- MODULE MCGateway -------------------------------
(* Instances of Gateway: POSTs of a message of one number, or of an event   *)
(* of a WABA with two numbers, in one ambiente or two.                      *)
EXTENDS Gateway

CONSTANTS p1, p2, mensagem, conta, n1, n2, a1, a2, u1, w1

Valido(pid, w) == [assinatura |-> "valida", pid |-> pid, waba |-> w]

Catalogo == [e \in {mensagem, conta} |->
               IF e = mensagem THEN Valido(n1, Nulo) ELSE Valido(Nulo, w1)]

UmPedido == {p1}
DoisPedidos == {p1, p2}
SoConta == {conta}
DoisEventos == {mensagem, conta}
DuasInboxes == {1, 2}
DoisPids == [i \in 1 .. 2 |-> IF i = 1 THEN n1 ELSE n2]
UmAmbiente == {a1}
DoisAmbientes == {a1, a2}
UmaUrl == {u1}
UmaWaba == {w1}

MenosEdicao == {"banco", "redis", "amqp", "queda", "meta"}
MetaEEdicao == {"meta", "edicao"}
================================================================================
