---------------------------- MODULE Webhook_proofs ----------------------------
(***************************************************************************)
(* Webhook for any number of POSTs, events, inboxes and ambientes: what a  *)
(* status promises, that delivering again repeats nothing, and that a POST *)
(* reaches an ambiente once.                                               *)
(***************************************************************************)
EXTENDS Webhook, TLAPS

LEMMA InitIndutivo == Init => Indutivo
  BY DEF Init, Indutivo, TypeOK, RespostaHonesta, EtapaCoerente, UmAceito, Etapas, Efeito,
         NaoRegistrada, Rejeitada

LEMMA Fatos ==
  ASSUME Indutivo
  PROVE  /\ TypeOK /\ EtapaCoerente /\ RespostaHonesta /\ UmAceito /\ ParUnico(inbox)
  BY DEF Indutivo

(* What every step keeps: the letters of the two kinds are different, and  *)
(* adding one of p changes nothing for the others.                         *)
LEMMA CartasDistintas ==
  /\ \A p, q : /\ Carta(p, "INBOX_NAO_REGISTRADA") # Carta(q, "ASSINATURA_INVALIDA")
  /\ \A p, q : /\ Carta(p, "INBOX_NAO_REGISTRADA") = Carta(q, "INBOX_NAO_REGISTRADA") => p = q
               /\ Carta(p, "ASSINATURA_INVALIDA") = Carta(q, "ASSINATURA_INVALIDA") => p = q
  /\ \A p \in Pedidos : /\ Carta(p, "INBOX_NAO_REGISTRADA") \in Cartas
                        /\ Carta(p, "ASSINATURA_INVALIDA") \in Cartas
  BY DEF Carta, Cartas

LEMMA PassoPost ==
  ASSUME Indutivo, NEW p \in Pedidos, Post(p) PROVE Indutivo'
<1> USE Fatos DEF Post, Vai, Responde, DepoisDoPid
<1>1. TypeOK'
  BY DEF TypeOK, Etapas, pedidos, tabela
<1>2. RespostaHonesta' /\ EtapaCoerente'
  BY DEF TypeOK, Etapas, RespostaHonesta, EtapaCoerente, Efeito, NaoRegistrada, Rejeitada, Ev, pedidos, tabela
<1>3. UmAceito'
  BY DEF TypeOK, UmAceito, MetaInsiste, EtapaCoerente, pedidos, tabela
<1>4. ParUnico(inbox)'
  BY DEF tabela, ParUnico
<1> QED
  BY <1>1, <1>2, <1>3, <1>4 DEF Indutivo

LEMMA PassoResolve ==
  ASSUME Indutivo, NEW p \in Pedidos, Banco(p) PROVE Indutivo'
<1> USE Fatos
<1>1. PICK S \in SUBSET Inboxes :
        /\ pedido[p] \in {"pid", "waba"}
        /\ \/ /\ S # {}
              /\ alvos' = [alvos EXCEPT ![p] = S]
              /\ pedido' = [pedido EXCEPT ![p] = "fim"]
              /\ resposta' = [resposta EXCEPT ![p] = 200]
           \/ /\ UNCHANGED <<alvos, resposta>>
              /\ \E e \in {"waba", "dlq"} : pedido' = [pedido EXCEPT ![p] = e]
        /\ UNCHANGED <<evento, desistiu, avulsas, cartas, inbox, waba>>
  <2>1. \A w : FindAllByPid(w) \in SUBSET Inboxes /\ FindAllByWabaId(w) \in SUBSET Inboxes
    BY DEF FindAllByPid, FindAllByWabaId, Ativas
  <2>2. CASE ResolvePid(p)
    BY <2>1, <2>2 DEF ResolvePid, Despacha, Responde, Vai, DepoisDoPid, tabela
  <2>3. CASE ResolveWaba(p)
    BY <2>1, <2>3 DEF ResolveWaba, Despacha, Responde, Vai, tabela
  <2> QED
    BY <2>2, <2>3 DEF Banco
<1> USE <1>1
<1>2. TypeOK'
  BY DEF TypeOK, Etapas
<1>3. RespostaHonesta' /\ EtapaCoerente'
  BY DEF TypeOK, Etapas, RespostaHonesta, EtapaCoerente, Efeito, NaoRegistrada, Rejeitada, Ev
<1>4. UmAceito'
  BY DEF TypeOK, UmAceito, EtapaCoerente
<1>5. ParUnico(inbox)'
  BY DEF ParUnico
<1> QED
  BY <1>2, <1>3, <1>4, <1>5 DEF Indutivo

LEMMA PassoBroker ==
  ASSUME Indutivo, NEW p \in Pedidos, Broker(p) \/ Excecao(p) PROVE Indutivo'
<1> USE Fatos, CartasDistintas
<1>1. CASE SendToQueue(p)
  <2> USE <1>1 DEF SendToQueue, Vai, tabela
  <2>1. TypeOK'
    BY DEF TypeOK, Etapas
  <2>2. RespostaHonesta' /\ EtapaCoerente'
    BY DEF TypeOK, Etapas, RespostaHonesta, EtapaCoerente, Efeito, NaoRegistrada, Rejeitada, Ev
  <2>3. UmAceito' /\ ParUnico(inbox)'
    BY DEF TypeOK, UmAceito, ParUnico
  <2> QED
    BY <2>1, <2>2, <2>3 DEF Indutivo
<1>2. CASE Confirma(p)
  <2> USE <1>2 DEF Confirma, Responde, tabela
  <2>1. TypeOK'
    BY DEF TypeOK, Etapas
  <2>2. RespostaHonesta' /\ EtapaCoerente'
    BY DEF TypeOK, Etapas, RespostaHonesta, EtapaCoerente, Efeito, NaoRegistrada, Rejeitada, Ev
  <2>3. UmAceito' /\ ParUnico(inbox)'
    BY DEF TypeOK, UmAceito, ParUnico, EtapaCoerente
  <2> QED
    BY <2>1, <2>2, <2>3 DEF Indutivo
<1>3. CASE PersistToDeadLetter(p)
  <2> USE <1>3 DEF PersistToDeadLetter, pedidos, tabela
  <2>1. TypeOK'
    BY DEF TypeOK
  <2>2. RespostaHonesta' /\ EtapaCoerente'
    BY DEF TypeOK, RespostaHonesta, EtapaCoerente, Efeito, NaoRegistrada, Rejeitada, Ev
  <2>3. UmAceito' /\ ParUnico(inbox)'
    BY DEF TypeOK, UmAceito, ParUnico
  <2> QED
    BY <2>1, <2>2, <2>3 DEF Indutivo
<1>4. CASE Excecao(p)
  <2> USE <1>4 DEF Excecao, Responde, tabela
  <2>1. TypeOK'
    BY DEF TypeOK, Etapas
  <2>2. RespostaHonesta' /\ EtapaCoerente'
    BY DEF TypeOK, Etapas, RespostaHonesta, EtapaCoerente, Efeito, NaoRegistrada, Rejeitada, Ev
  <2>3. UmAceito' /\ ParUnico(inbox)'
    BY DEF TypeOK, UmAceito, ParUnico, EtapaCoerente
  <2> QED
    BY <2>1, <2>2, <2>3 DEF Indutivo
<1> QED
  BY <1>1, <1>2, <1>3, <1>4 DEF Broker

LEMMA PassoExterno ==
  ASSUME Indutivo,
         \/ \E p \in Pedidos : RespostaPerdida(p)
         \/ Queda
         \/ \E i \in Inboxes : EditaInbox(i)
         \/ UNCHANGED vars
  PROVE  Indutivo'
<1> USE Fatos
<1>1. ASSUME NEW p \in Pedidos, RespostaPerdida(p) PROVE Indutivo'
  <2> USE <1>1 DEF RespostaPerdida, tabela
  <2>1. TypeOK'
    BY DEF TypeOK
  <2>2. RespostaHonesta' /\ EtapaCoerente'
    BY DEF TypeOK, RespostaHonesta, EtapaCoerente, Efeito, NaoRegistrada, Rejeitada, Ev
  <2>3. UmAceito' /\ ParUnico(inbox)'
    BY DEF TypeOK, UmAceito, ParUnico
  <2> QED
    BY <2>1, <2>2, <2>3 DEF Indutivo
<1>2. CASE Queda
  <2> USE <1>2 DEF Queda, Aberto, tabela
  <2>1. TypeOK'
    BY DEF TypeOK, Etapas
  <2>2. ASSUME NEW p \in Pedidos
        PROVE  /\ pedido'[p] = IF Aberto(p) THEN "fim" ELSE pedido[p]
               /\ desistiu'[p] <=> desistiu[p] \/ Aberto(p)
               /\ resposta'[p] = resposta[p] /\ alvos'[p] = alvos[p] /\ Ev(p)' = Ev(p)
               /\ Efeito(p)' = Efeito(p) /\ NaoRegistrada(p)' = NaoRegistrada(p)
               /\ Rejeitada(p)' = Rejeitada(p) /\ p \notin avulsas'
    BY DEF Efeito, NaoRegistrada, Rejeitada, Ev
  <2>4. RespostaHonesta'
    BY <2>2 DEF RespostaHonesta
  <2>5. ASSUME NEW p \in Pedidos
        PROVE  /\ resposta'[p] # 0 => pedido'[p] = "fim"
               /\ pedido'[p] \in {"livre", "pid", "waba", "dlq"} => ~Efeito(p)'
               /\ pedido'[p] # "confirma"
               /\ p \in avulsas' \/ Rejeitada(p)' => resposta'[p] = 401 /\ Ev(p)'.assinatura = "divergente"
               /\ pedido'[p] = "fim" /\ resposta'[p] = 0 => desistiu'[p] /\ alvos'[p] = {}
    <3>1. /\ resposta[p] # 0 => pedido[p] = "fim"
          /\ pedido[p] \in {"livre", "pid", "waba", "dlq"} => ~Efeito(p)
          /\ pedido[p] = "confirma" => alvos[p] = {}
          /\ Rejeitada(p) => resposta[p] = 401 /\ Ev(p).assinatura = "divergente"
          /\ pedido[p] = "fim" /\ resposta[p] = 0 => desistiu[p] /\ alvos[p] = {}
          /\ Efeito(p) <=> alvos[p] # {} \/ NaoRegistrada(p)
          /\ pedido[p] \in Etapas
      BY DEF EtapaCoerente, Efeito, TypeOK
    <3>2. resposta'[p] # 0 => pedido'[p] = "fim"
      BY <2>2, <3>1
    <3>3. pedido'[p] \in {"livre", "pid", "waba", "dlq"} => ~Efeito(p)'
      BY <2>2, <3>1
    <3>4. pedido'[p] # "confirma"
      BY <2>2, <3>1
    <3>5. p \in avulsas' \/ Rejeitada(p)' => resposta'[p] = 401 /\ Ev(p)'.assinatura = "divergente"
      BY <2>2, <3>1
    <3>6. pedido'[p] = "fim" /\ resposta'[p] = 0 => desistiu'[p] /\ alvos'[p] = {}
      BY <2>2, <3>1 DEF Etapas
    <3> QED
      BY <3>2, <3>3, <3>4, <3>5, <3>6
  <2>6. EtapaCoerente'
    BY <2>5 DEF EtapaCoerente
  <2>3. UmAceito' /\ ParUnico(inbox)'
    BY DEF TypeOK, UmAceito, ParUnico
  <2> QED
    BY <2>1, <2>3, <2>4, <2>6 DEF Indutivo
<1>3. ASSUME NEW i \in Inboxes, EditaInbox(i) PROVE Indutivo'
  <2> USE <1>3 DEF EditaInbox, pedidos
  <2>1. TypeOK'
    BY DEF TypeOK
  <2>2. RespostaHonesta' /\ EtapaCoerente'
    BY DEF RespostaHonesta, EtapaCoerente, Efeito, NaoRegistrada, Rejeitada, Ev
  <2>3. UmAceito' /\ ParUnico(inbox)'
    BY DEF UmAceito, ParUnico
  <2> QED
    BY <2>1, <2>2, <2>3 DEF Indutivo
<1>4. CASE UNCHANGED vars
  <2> USE <1>4 DEF vars, pedidos, tabela
  <2>1. TypeOK'
    BY DEF TypeOK
  <2>2. RespostaHonesta' /\ EtapaCoerente'
    BY DEF RespostaHonesta, EtapaCoerente, Efeito, NaoRegistrada, Rejeitada, Ev
  <2>3. UmAceito' /\ ParUnico(inbox)'
    BY DEF UmAceito, ParUnico
  <2> QED
    BY <2>1, <2>2, <2>3 DEF Indutivo
<1> QED
  BY <1>1, <1>2, <1>3, <1>4

THEOREM Indutividade == Spec => []Indutivo
<1>1. Indutivo /\ [Next]_vars => Indutivo'
  BY PassoPost, PassoResolve, PassoBroker, PassoExterno DEF Next
<1> QED
  BY <1>1, InitIndutivo, PTL DEF Spec

(* The types of the requests, the letters and the table.                   *)
THEOREM Tipos == Spec => []TypeOK
<1>1. Indutivo => TypeOK
  BY DEF Indutivo
<1> QED
  BY <1>1, Indutividade, PTL

(* A 200 leaves the payload in exactly one place, a 500 in none, a 401 at  *)
(* most as a rejected signature, whatever fails and whoever edits inboxes. *)
THEOREM Honestidade == Spec => []RespostaHonesta
<1>1. Indutivo => RespostaHonesta
  BY DEF Indutivo
<1> QED
  BY <1>1, Indutividade, PTL

(* Meta's redeliveries repeat no effect, unless it missed the answer to    *)
(* one of the POSTs that had it.                                           *)
THEOREM SemDobra == Spec => []SemEfeitoDobrado
<1>1. Indutivo => SemEfeitoDobrado
  <2> SUFFICES ASSUME Indutivo, NEW p \in Pedidos, NEW q \in Pedidos,
                      evento[p] = evento[q], Efeito(p), Efeito(q), p # q
               PROVE  desistiu[p] \/ desistiu[q]
    BY DEF SemEfeitoDobrado
  <2>1. pedido[p] # "livre" /\ pedido[q] # "livre"
    BY Fatos DEF EtapaCoerente
  <2>2. PICK r \in {p, q} : resposta[r] \in {401, 500} \/ desistiu[r]
    BY <2>1, Fatos DEF UmAceito
  <2>3. ~(resposta[r] \in {401, 500})
    BY Fatos DEF RespostaHonesta
  <2> QED
    BY <2>2, <2>3
<1> QED
  BY <1>1, Indutividade, PTL

LEMMA AlvosDistintos ==
  ASSUME Indutivo, NEW q \in Pedidos, Banco(q),
         NEW p \in Pedidos, alvos'[p] # alvos[p],
         NEW i \in alvos'[p], NEW j \in alvos'[p], inbox[i].amb = inbox[j].amb
  PROVE  i = j
<1>1. alvos \in [Pedidos -> SUBSET Inboxes]
  BY Fatos DEF TypeOK
<1>2. CASE ResolvePid(q)
  <2>1. alvos'[p] = FindAllByPid(Ev(q).pid)
    BY <1>1, <1>2 DEF ResolvePid, Despacha
  <2>2. i \in Inboxes /\ j \in Inboxes /\ PidDe[i] = PidDe[j]
    BY <2>1 DEF FindAllByPid, Ativas
  <2> QED
    BY <2>2, Fatos DEF ParUnico
<1>3. CASE ResolveWaba(q)
  <2>1. alvos'[p] = FindAllByWabaId(Ev(q).waba)
    BY <1>1, <1>3 DEF ResolveWaba, Despacha
  <2>2. i \in Inboxes /\ j \in Inboxes /\ i <= j /\ j <= i
    BY <2>1 DEF FindAllByWabaId, Ativas
  <2> QED
    BY <2>2, InboxesAssumption
<1> QED
  BY <1>2, <1>3 DEF Banco

(* Every POST starts at most one call per ambiente.                        *)
THEOREM PorAmbiente == Spec => UmaPorAmbiente
<1>1. ASSUME Indutivo, [Next]_vars, NEW p \in Pedidos, alvos'[p] # alvos[p],
             NEW i \in alvos'[p], NEW j \in alvos'[p], inbox[i].amb = inbox[j].amb
      PROVE  i = j
  <2>1. PICK q \in Pedidos : Banco(q)
    BY <1>1 DEF Next, vars, Post, Broker, SendToQueue, Confirma, PersistToDeadLetter, Excecao,
                RespostaPerdida, Queda, EditaInbox
  <2> QED
    BY <1>1, <2>1, AlvosDistintos
<1>2. Indutivo /\ [Next]_vars =>
        [\A p \in Pedidos : alvos'[p] # alvos[p] =>
           \A i, j \in alvos'[p] : inbox[i].amb = inbox[j].amb => i = j]_vars
  BY <1>1
<1> QED
  BY <1>2, Indutividade, PTL DEF Spec, UmaPorAmbiente
=============================================================================
