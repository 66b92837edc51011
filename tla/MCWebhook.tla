------------------------------- MODULE MCWebhook -------------------------------
(* An instance of Webhook: two POSTs of the events named below, two         *)
(* inboxes of two pids, two ambientes and one WABA.                         *)
EXTENDS Webhook

CONSTANTS p1, p2, mensagem, conta, vazio, falsa, ruido, n1, n2, a1, a2, w1

Entrada(a, pid, w) == [assinatura |-> a, pid |-> pid, waba |-> w]

Variados == {mensagem, conta, vazio, falsa, ruido}
Catalogo == [e \in Variados |->
               CASE e = mensagem -> Entrada("valida", n1, w1)
                 [] e = conta    -> Entrada("valida", Nulo, w1)
                 [] e = vazio    -> Entrada("valida", Nulo, Nulo)
                 [] e = falsa    -> Entrada("divergente", n1, w1)
                 [] e = ruido    -> Entrada("ruido", n1, w1)]

DoisPedidos == {p1, p2}
DuasInboxes == {1, 2}
DoisPids == [i \in 1 .. 2 |-> IF i = 1 THEN n1 ELSE n2]
DoisAmbientes == {a1, a2}
UmaWaba == {w1}
TodasAsFalhas == TiposDeFalha
================================================================================
