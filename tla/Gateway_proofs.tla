---------------------------- MODULE Gateway_proofs ----------------------------
(***************************************************************************)
(* What is proved of the requests and of the calls apart is carried to     *)
(* their composition, for any number of POSTs, inboxes and retries; the    *)
(* two together give the conservation of messages from the POST to the     *)
(* destination or the DLQ.                                                 *)
(***************************************************************************)
EXTENDS Gateway, TLAPS

WP == INSTANCE Webhook_proofs
DP == INSTANCE Dispatch_proofs WITH Falhas <- Falhas \cap {"banco", "redis", "amqp", "queda"}

(* The instances of the components' proofs are instances of the components. *)
LEMMA MesmoDispatch ==
  /\ DP!Init <=> D!Init
  /\ DP!Next <=> D!Next
  /\ UNCHANGED DP!vars <=> UNCHANGED D!vars
<1>1. DP!Init <=> D!Init
  BY DEF DP!Init, D!Init, DP!Linhas, D!Linhas
<1>2. DP!Next <=> D!Next
  BY Zenon DEF DP!Next, D!Next, DP!Handle, D!Handle, DP!Passo, D!Passo, DP!Responde, D!Responde,
       DP!Excecao, D!Excecao, DP!Queda, D!Queda, DP!Ambiente, D!Ambiente, DP!FindInbox, D!FindInbox,
       DP!GetAmbiente, D!GetAmbiente, DP!Envia, D!Envia, DP!Backoff, D!Backoff,
       DP!EnviarParaDlq, D!EnviarParaDlq, DP!Resposta2xx, D!Resposta2xx,
       DP!TentativaFalha, D!TentativaFalha, DP!EditaInbox, D!EditaInbox,
       DP!MudaVista, D!MudaVista, DP!locais, D!locais, DP!externas, D!externas,
       DP!Letra, D!Letra, DP!Termina, D!Termina, DP!VaiParaDlq, D!VaiParaDlq,
       DP!EmCurso, D!EmCurso, DP!StatusDe, D!StatusDe, DP!Erros, D!Erros, DP!Linhas, D!Linhas
<1>3. UNCHANGED DP!vars <=> UNCHANGED D!vars
  BY DEF DP!vars, D!vars, DP!locais, D!locais, DP!externas, D!externas
<1> QED
  BY <1>1, <1>2, <1>3

LEMMA MesmoWebhook ==
  /\ WP!Init <=> W!Init
  /\ WP!Next <=> W!Next
  /\ UNCHANGED WP!vars <=> UNCHANGED W!vars
<1>1. WP!Init <=> W!Init
  BY DEF WP!Init, W!Init, WP!Linhas, W!Linhas, WP!ParUnico, W!ParUnico
<1>2. WP!Next <=> W!Next
  BY Zenon DEF WP!Next, W!Next, WP!Post, W!Post, WP!Banco, W!Banco, WP!Broker, W!Broker,
       WP!Excecao, W!Excecao, WP!RespostaPerdida, W!RespostaPerdida, WP!Queda, W!Queda,
       WP!EditaInbox, W!EditaInbox, WP!ResolvePid, W!ResolvePid, WP!ResolveWaba, W!ResolveWaba,
       WP!SendToQueue, W!SendToQueue, WP!Confirma, W!Confirma,
       WP!PersistToDeadLetter, W!PersistToDeadLetter, WP!MetaInsiste, W!MetaInsiste,
       WP!DepoisDoPid, W!DepoisDoPid, WP!Vai, W!Vai, WP!Responde, W!Responde,
       WP!Despacha, W!Despacha, WP!FindAllByPid, W!FindAllByPid,
       WP!FindAllByWabaId, W!FindAllByWabaId, WP!Ativas, W!Ativas, WP!Aberto, W!Aberto,
       WP!Carta, W!Carta, WP!Ev, W!Ev, WP!ParUnico, W!ParUnico, WP!Linhas, W!Linhas,
       WP!pedidos, W!pedidos, WP!tabela, W!tabela
<1>3. UNCHANGED WP!vars <=> UNCHANGED W!vars
  BY DEF WP!vars, W!vars, WP!pedidos, W!pedidos, WP!tabela, W!tabela
<1> QED
  BY <1>1, <1>2, <1>3

-----------------------------------------------------------------------------
(* A step of the process is a step of its requests, or one they do not see. *)
LEMMA PassoWebhook == [Next]_vars => [W!Next]_(W!vars)
<1> SUFFICES ASSUME [Next]_vars PROVE [W!Next]_(W!vars)
  OBVIOUS
<1>0. UNCHANGED <<soWebhook, inbox>> => UNCHANGED W!vars
  BY DEF soWebhook, W!vars, W!pedidos, W!tabela
<1>1. ASSUME NEW p \in Pedidos, Resolve(p) PROVE W!Next
  BY <1>1 DEF Resolve, W!Next
<1>2. ASSUME NEW p \in Pedidos, Pedido(p) PROVE W!Next
  BY <1>2 DEF Pedido, W!Next
<1>3. ASSUME NEW t \in Tarefas, Chamada(t) PROVE UNCHANGED W!vars
  <2>1. UNCHANGED inbox
    BY <1>3 DEF Chamada, D!Passo, D!Responde, D!Excecao, D!FindInbox, D!GetAmbiente, D!Envia,
                D!Backoff, D!EnviarParaDlq, D!Resposta2xx, D!TentativaFalha, D!externas
  <2> QED
    BY <1>0, <1>3, <2>1 DEF Chamada
<1>4. CASE Queda
  BY <1>4 DEF Queda, W!Next
<1>5. ASSUME NEW i \in Inboxes, EditaInbox(i) PROVE W!Next
  BY <1>5 DEF EditaInbox, W!Next
<1>6. ASSUME NEW a \in Ambientes, MudaVista(a) PROVE UNCHANGED W!vars
  BY <1>0, <1>6 DEF MudaVista, D!MudaVista
<1>7. CASE UNCHANGED vars
  BY <1>0, <1>7 DEF vars, soWebhook
<1> QED
  BY <1>1, <1>2, <1>3, <1>4, <1>5, <1>6, <1>7 DEF Next

(* Seen as requests alone, the process is the component Webhook, so the    *)
(* invariant of that component is one of the process.                      *)
LEMMA SoPedidos == Spec => W!Spec
<1>1. Init => W!Init
  BY DEF Init
<1> QED
  BY <1>1, PassoWebhook, PTL DEF Spec, W!Spec

LEMMA IndutivoDoWebhook == Spec => []WP!Indutivo
<1>1. W!Init => WP!Init
  BY MesmoWebhook
<1>2. [W!Next]_(W!vars) => [WP!Next]_(WP!vars)
  BY MesmoWebhook
<1>3. W!Spec => WP!Spec
  BY <1>1, <1>2, PTL DEF W!Spec, WP!Spec
<1>4. WP!Spec => []WP!Indutivo
  <2>1. /\ Inboxes \subseteq Nat
        /\ Nulo \notin Wabas
        /\ \A e \in Eventos : /\ Evento[e].assinatura \in WP!Assinaturas
                              /\ Evento[e].waba \in Wabas \cup {Nulo}
    BY InboxesAssumption, NuloAssumption, EventoAssumption DEF WP!Assinaturas, W!Assinaturas
  <2> QED
    BY <2>1, WP!Indutividade
<1> QED
  BY <1>3, <1>4, SoPedidos, PTL

-----------------------------------------------------------------------------
(* What a resolution does, seen from both sides. *)
LEMMA ResolveEfeito ==
  ASSUME WP!Indutivo, NEW p \in Pedidos, Resolve(p)
  PROVE  \E S \in SUBSET Inboxes :
            /\ alvos[p] = {}
            /\ alvos' = [alvos EXCEPT ![p] = S]
            /\ alvos'[p] = S
            /\ UNCHANGED inbox
            /\ IF S = {} THEN UNCHANGED soDispatch
                         ELSE D!Handle(Chamadas(p, S), InboxDe(Chamadas(p, S)))
<1>1. /\ pedido[p] \in {"pid", "waba"} => alvos[p] = {}
      /\ alvos \in [Pedidos -> SUBSET Inboxes]
  BY DEF WP!Indutivo, WP!TypeOK, WP!EtapaCoerente, WP!Efeito
<1>2. PICK S \in SUBSET Inboxes : /\ pedido[p] \in {"pid", "waba"}
                                  /\ alvos' = [alvos EXCEPT ![p] = S]
                                  /\ UNCHANGED inbox
  <2>1. /\ W!FindAllByPid(W!Ev(p).pid) \in SUBSET Inboxes
        /\ W!FindAllByWabaId(W!Ev(p).waba) \in SUBSET Inboxes
    BY DEF W!FindAllByPid, W!FindAllByWabaId, W!Ativas
  <2>2. W!ResolvePid(p) \/ W!ResolveWaba(p)
    BY DEF Resolve, W!Banco
  <2>3. alvos = [alvos EXCEPT ![p] = {}] \/ pedido[p] \notin {"pid", "waba"}
    BY <1>1
  <2>4. CASE W!ResolvePid(p)
    BY <2>1, <2>3, <2>4 DEF W!ResolvePid, W!Despacha, W!tabela
  <2>5. CASE W!ResolveWaba(p)
    BY <2>1, <2>3, <2>5 DEF W!ResolveWaba, W!Despacha, W!tabela
  <2> QED
    BY <2>2, <2>4, <2>5
<1>3. alvos'[p] = S
  BY <1>1, <1>2
<1>4. Chamadas(p, S) = {} <=> S = {}
  <2>1. \A i \in S : <<p, i>> \in Chamadas(p, S)
    BY DEF Chamadas
  <2>2. S = {} => Chamadas(p, S) = {}
    BY DEF Chamadas
  <2> QED
    BY <2>1, <2>2
<1> QED
  BY <1>1, <1>2, <1>3, <1>4 DEF Resolve

(* A step of the process is a step of its calls, or one they do not see. *)
LEMMA PassoDispatch == WP!Indutivo /\ [Next]_vars => [D!Next]_(D!vars)
<1> SUFFICES ASSUME WP!Indutivo, [Next]_vars PROVE [D!Next]_(D!vars)
  OBVIOUS
<1>0. UNCHANGED <<soDispatch, inbox>> => UNCHANGED D!vars
  BY DEF soDispatch, D!vars, D!locais, D!externas
<1>1. ASSUME NEW p \in Pedidos, Resolve(p) PROVE [D!Next]_(D!vars)
  <2>1. PICK S \in SUBSET Inboxes :
          /\ UNCHANGED inbox
          /\ IF S = {} THEN UNCHANGED soDispatch
                       ELSE D!Handle(Chamadas(p, S), InboxDe(Chamadas(p, S)))
    BY <1>1, ResolveEfeito
  <2>2. Chamadas(p, S) \in SUBSET Tarefas /\ InboxDe(Chamadas(p, S)) \in [Chamadas(p, S) -> Inboxes]
    BY DEF Chamadas, Tarefas, InboxDe
  <2>3. CASE S = {}
    BY <1>0, <2>1, <2>3
  <2>4. CASE S # {}
    BY <2>1, <2>2, <2>4 DEF D!Next
  <2> QED
    BY <2>3, <2>4
<1>2. ASSUME NEW p \in Pedidos, Pedido(p) PROVE UNCHANGED D!vars
  BY <1>0, <1>2 DEF Pedido, W!Post, W!Broker, W!SendToQueue, W!Confirma, W!PersistToDeadLetter,
                    W!Excecao, W!RespostaPerdida, W!tabela
<1>3. ASSUME NEW t \in Tarefas, Chamada(t) PROVE D!Next
  BY <1>3 DEF Chamada, D!Next
<1>4. CASE Queda
  BY <1>4 DEF Queda, D!Next
<1>5. ASSUME NEW i \in Inboxes, EditaInbox(i) PROVE D!Next
  BY <1>5 DEF EditaInbox, W!EditaInbox, W!Linhas, D!Linhas, D!EditaInbox, D!Ambiente, D!Next,
              soDispatch, D!locais
<1>6. ASSUME NEW a \in Ambientes, MudaVista(a) PROVE D!Next
  BY <1>6 DEF MudaVista, D!Next, D!Ambiente
<1>7. CASE UNCHANGED vars
  BY <1>0, <1>7 DEF vars, soDispatch
<1> QED
  BY <1>1, <1>2, <1>3, <1>4, <1>5, <1>6, <1>7 DEF Next

(* The same on the side of the calls. *)
LEMMA SoChamadas == Spec => D!Spec
<1>1. Init => D!Init
  BY DEF Init
<1> QED
  BY <1>1, PassoDispatch, IndutivoDoWebhook, PTL DEF Spec, D!Spec

LEMMA IndutivoDoDispatch == Spec => []DP!Indutivo
<1>1. D!Init => DP!Init
  BY MesmoDispatch
<1>2. [D!Next]_(D!vars) => [DP!Next]_(DP!vars)
  BY MesmoDispatch
<1>3. D!Spec => DP!Spec
  BY <1>1, <1>2, PTL DEF D!Spec, DP!Spec
<1>4. DP!Spec => []DP!Indutivo
  <2>1. /\ MaxRetries \in Nat
        /\ Falhas \cap {"banco", "redis", "amqp", "queda"} \subseteq DP!TiposDeFalha
        /\ Nulo \notin Urls \cup Inboxes \cup Ambientes
    BY RetriesAssumption, NuloAssumption DEF DP!TiposDeFalha
  <2> QED
    BY <2>1, DP!Indutividade
<1> QED
  BY <1>3, <1>4, SoChamadas, PTL

-----------------------------------------------------------------------------
(* The relation between the two components, from here on.                  *)
Ligacao == ChamadasDosAlvos /\ AmbientesDosAlvos

LEMMA Fatos ==
  ASSUME WP!Indutivo, DP!Indutivo
  PROVE  /\ alvos \in [Pedidos -> SUBSET Inboxes]
         /\ pc \in [Tarefas -> DP!Pcs]
         /\ caixa \in [Tarefas -> Inboxes \cup {Nulo}]
         /\ amb \in [Tarefas -> Ambientes \cup {Nulo}]
         /\ inbox \in [Inboxes -> [amb : Ambientes, del : BOOLEAN]]
         /\ W!ParUnico(inbox)
  BY DEF WP!Indutivo, DP!Indutivo, WP!TypeOK, DP!TypeOK, WP!ParUnico, W!ParUnico, WP!Linhas

LEMMA InitLigacao == Init => Ligacao
<1> SUFFICES ASSUME Init PROVE ChamadasDosAlvos /\ AmbientesDosAlvos
  BY DEF Ligacao
<1>1. \A p \in Pedidos : alvos[p] = {}
  BY DEF Init, W!Init
<1>2. \A p \in Pedidos, i \in Inboxes : pc[<<p, i>>] = "livre" /\ amb[<<p, i>>] = Nulo
  BY DEF Init, D!Init, Tarefas
<1> QED
  BY <1>1, <1>2 DEF ChamadasDosAlvos, AmbientesDosAlvos

(* The inboxes of a resolution lie in different ambientes: a pid has one   *)
(* row per ambiente, and the query by WABA keeps the oldest of each.       *)
LEMMA ResolucaoDistinta ==
  ASSUME WP!Indutivo, DP!Indutivo, NEW p \in Pedidos, Resolve(p),
         NEW i \in alvos'[p], NEW j \in alvos'[p], inbox[i].amb = inbox[j].amb
  PROVE  i = j
<1>0. alvos \in [Pedidos -> SUBSET Inboxes] /\ W!ParUnico(inbox)
  BY Fatos
<1>1. pedido[p] \in {"pid", "waba"} => alvos[p] = {}
  BY DEF WP!Indutivo, WP!EtapaCoerente, WP!Efeito
<1>2. W!ResolvePid(p) \/ W!ResolveWaba(p)
  BY DEF Resolve, W!Banco
<1>3. CASE W!ResolvePid(p)
  <2>1. i \in W!FindAllByPid(W!Ev(p).pid) /\ j \in W!FindAllByPid(W!Ev(p).pid)
    BY <1>0, <1>1, <1>3 DEF W!ResolvePid, W!Despacha
  <2>2. i \in Inboxes /\ j \in Inboxes /\ PidDe[i] = PidDe[j]
    BY <2>1 DEF W!FindAllByPid, W!Ativas
  <2> QED
    BY <1>0, <2>2 DEF W!ParUnico
<1>4. CASE W!ResolveWaba(p)
  <2>1. i \in W!FindAllByWabaId(W!Ev(p).waba) /\ j \in W!FindAllByWabaId(W!Ev(p).waba)
    BY <1>0, <1>1, <1>4 DEF W!ResolveWaba, W!Despacha
  <2>2. i \in Inboxes /\ j \in Inboxes /\ i <= j /\ j <= i
    BY <2>1 DEF W!FindAllByWabaId, W!Ativas
  <2> QED
    BY <2>2, InboxesAssumption
<1> QED
  BY <1>2, <1>3, <1>4

(* A resolution sets the inboxes of its POST and starts their calls. *)
LEMMA LigacaoResolve ==
  ASSUME WP!Indutivo, DP!Indutivo, Ligacao, NEW p \in Pedidos, Resolve(p) PROVE Ligacao'
<1>0. PICK S \in SUBSET Inboxes :
        /\ alvos[p] = {}
        /\ alvos' = [alvos EXCEPT ![p] = S]
        /\ alvos'[p] = S
        /\ UNCHANGED inbox
        /\ IF S = {} THEN UNCHANGED soDispatch
                     ELSE D!Handle(Chamadas(p, S), InboxDe(Chamadas(p, S)))
  BY ResolveEfeito
<1>1. /\ alvos \in [Pedidos -> SUBSET Inboxes]
      /\ \A q \in Pedidos : q # p => alvos'[q] = alvos[q]
  BY <1>0, Fatos
<1>2. \A q \in Pedidos, i \in Inboxes :
        /\ <<q, i>> \in Tarefas
        /\ <<q, i>> \in Chamadas(p, S) <=> q = p /\ i \in S
  BY DEF Tarefas, Chamadas
<1>3. \A q \in Pedidos, i \in Inboxes :
        /\ amb'[<<q, i>>] = amb[<<q, i>>]
        /\ pc'[<<q, i>>] = IF q = p /\ i \in S THEN "inbox" ELSE pc[<<q, i>>]
        /\ caixa'[<<q, i>>] = IF q = p /\ i \in S THEN i ELSE caixa[<<q, i>>]
  <2>1. CASE S = {}
    BY <1>0, <2>1 DEF soDispatch
  <2>2. CASE S # {}
    <3>1. D!Handle(Chamadas(p, S), InboxDe(Chamadas(p, S)))
      BY <1>0, <2>2
    <3>2. amb' = amb
      BY <3>1 DEF D!Handle
    <3>3. \A i \in S : InboxDe(Chamadas(p, S))[<<p, i>>] = i
      BY <1>2 DEF InboxDe
    <3> QED
      BY <1>2, <3>1, <3>2, <3>3 DEF D!Handle
  <2> QED
    BY <2>1, <2>2
<1>4. ChamadasDosAlvos'
  <2> SUFFICES ASSUME NEW q \in Pedidos, NEW i \in Inboxes
               PROVE  /\ i \in alvos'[q] <=> pc'[<<q, i>>] # "livre"
                      /\ i \in alvos'[q] => caixa'[<<q, i>>] = i
    BY DEF ChamadasDosAlvos
  <2>1. /\ i \in alvos[q] <=> pc[<<q, i>>] # "livre"
        /\ i \in alvos[q] => caixa[<<q, i>>] = i
    BY DEF Ligacao, ChamadasDosAlvos
  <2>2. CASE q = p
    BY <1>0, <1>3, <2>1, <2>2
  <2>3. CASE q # p
    BY <1>1, <1>3, <2>1, <2>3
  <2> QED
    BY <2>2, <2>3
<1>5. AmbientesDosAlvos'
  <2> SUFFICES ASSUME "edicao" \notin Falhas, NEW q \in Pedidos, NEW i \in Inboxes, NEW j \in Inboxes
               PROVE  /\ (/\ i \in alvos'[q]
                          /\ j \in alvos'[q]
                          /\ inbox'[i].amb = inbox'[j].amb) => i = j
                      /\ amb'[<<q, i>>] # Nulo => i \in alvos'[q] /\ amb'[<<q, i>>] = inbox'[i].amb
    BY DEF AmbientesDosAlvos
  <2>1. /\ i \in alvos[q] /\ j \in alvos[q] /\ inbox[i].amb = inbox[j].amb => i = j
        /\ amb[<<q, i>>] # Nulo => i \in alvos[q] /\ amb[<<q, i>>] = inbox[i].amb
    BY DEF Ligacao, AmbientesDosAlvos
  <2>2. CASE q = p
    BY <1>0, <1>3, <2>1, <2>2, ResolucaoDistinta
  <2>3. CASE q # p
    BY <1>0, <1>1, <1>3, <2>1, <2>3
  <2> QED
    BY <2>2, <2>3
<1> QED
  BY <1>4, <1>5 DEF Ligacao

(* A call moves within those that have started, and takes for its ambiente *)
(* the one its own inbox has.                                              *)
LEMMA LigacaoChamada ==
  ASSUME WP!Indutivo, DP!Indutivo, Ligacao, NEW t \in Tarefas, Chamada(t) PROVE Ligacao'
<1>0. UNCHANGED <<alvos, inbox, caixa>>
  BY DEF Chamada, soWebhook, D!Passo, D!Responde, D!Excecao, D!FindInbox, D!GetAmbiente, D!Envia,
         D!Backoff, D!EnviarParaDlq, D!Resposta2xx, D!TentativaFalha, D!externas, D!locais
<1>1. /\ pc \in [Tarefas -> DP!Pcs]
      /\ amb \in [Tarefas -> Ambientes \cup {Nulo}]
      /\ inbox \in [Inboxes -> [amb : Ambientes, del : BOOLEAN]]
  BY Fatos
<1>2. /\ pc[t] # "livre"
      /\ \E v : v # "livre" /\ pc' = [pc EXCEPT ![t] = v]
  BY DEF Chamada, D!Passo, D!Responde, D!Excecao, D!FindInbox, D!GetAmbiente, D!Envia,
         D!Backoff, D!EnviarParaDlq, D!Resposta2xx, D!TentativaFalha, D!VaiParaDlq, D!Termina
<1>3. \/ amb' = amb
      \/ amb' = [amb EXCEPT ![t] = inbox[caixa[t]].amb]
  BY DEF Chamada, D!Passo, D!Responde, D!Excecao, D!FindInbox, D!GetAmbiente, D!Envia,
         D!Backoff, D!EnviarParaDlq, D!Resposta2xx, D!TentativaFalha, D!locais
<1>4. PICK r \in Pedidos, k \in Inboxes : t = <<r, k>>
  BY DEF Tarefas
<1>5. \A q \in Pedidos, i \in Inboxes :
        /\ <<q, i>> \in Tarefas
        /\ pc'[<<q, i>>] = "livre" <=> pc[<<q, i>>] = "livre"
  BY <1>1, <1>2 DEF Tarefas
<1>6. k \in alvos[r] /\ caixa[t] = k
  BY <1>2, <1>4 DEF Ligacao, ChamadasDosAlvos
<1>7. ChamadasDosAlvos'
  BY <1>0, <1>5 DEF Ligacao, ChamadasDosAlvos
<1>8. AmbientesDosAlvos'
  <2> SUFFICES ASSUME "edicao" \notin Falhas, NEW q \in Pedidos, NEW i \in Inboxes, amb'[<<q, i>>] # Nulo
               PROVE  i \in alvos[q] /\ amb'[<<q, i>>] = inbox[i].amb
    BY <1>0 DEF Ligacao, AmbientesDosAlvos
  <2>1. amb[<<q, i>>] # Nulo => i \in alvos[q] /\ amb[<<q, i>>] = inbox[i].amb
    BY DEF Ligacao, AmbientesDosAlvos
  <2>2. CASE <<q, i>> = t
    <3>1. q = r /\ i = k
      BY <1>4, <2>2
    <3>2. amb'[t] = amb[t] \/ amb'[t] = inbox[k].amb
      BY <1>1, <1>3, <1>6
    <3> QED
      BY <1>6, <2>1, <2>2, <3>1, <3>2
  <2>3. CASE <<q, i>> # t
    <3>1. amb'[<<q, i>>] = amb[<<q, i>>]
      BY <1>1, <1>3, <1>5, <2>3
    <3> QED
      BY <2>1, <3>1
  <2> QED
    BY <2>2, <2>3
<1> QED
  BY <1>7, <1>8 DEF Ligacao

(* Nothing else starts a call or changes its ambiente. *)
LEMMA LigacaoResto ==
  ASSUME WP!Indutivo, DP!Indutivo, Ligacao,
         \/ \E p \in Pedidos : Pedido(p)
         \/ Queda
         \/ \E i \in Inboxes : EditaInbox(i)
         \/ \E a \in Ambientes : MudaVista(a)
         \/ UNCHANGED vars
  PROVE  Ligacao'
<1>1. UNCHANGED <<alvos, caixa, amb>>
  BY DEF Pedido, Queda, EditaInbox, MudaVista, vars, soDispatch, soWebhook, W!Post, W!Broker,
         W!SendToQueue, W!Confirma, W!PersistToDeadLetter, W!Excecao, W!RespostaPerdida,
         W!Queda, D!Queda, D!MudaVista, W!EditaInbox, D!locais, W!pedidos
<1>2. "edicao" \notin Falhas => UNCHANGED inbox
  BY DEF Pedido, Queda, EditaInbox, MudaVista, vars, W!Post, W!Broker, W!SendToQueue, W!Confirma,
         W!PersistToDeadLetter, W!Excecao, W!RespostaPerdida, W!Queda, W!EditaInbox, D!MudaVista,
         W!tabela
<1>3. \A q \in Pedidos, i \in Inboxes : pc'[<<q, i>>] = "livre" <=> pc[<<q, i>>] = "livre"
  <2>1. CASE Queda
    BY <2>1 DEF Queda, D!Queda, D!EmCurso, Tarefas
  <2>2. CASE ~Queda
    BY <2>2 DEF Pedido, EditaInbox, MudaVista, vars, soDispatch, D!MudaVista
  <2> QED
    BY <2>1, <2>2
<1>4. ChamadasDosAlvos'
  BY <1>1, <1>3 DEF Ligacao, ChamadasDosAlvos
<1>5. AmbientesDosAlvos'
  BY <1>1, <1>2 DEF Ligacao, AmbientesDosAlvos
<1> QED
  BY <1>4, <1>5 DEF Ligacao

LEMMA Ligados == Spec => [](WP!Indutivo /\ DP!Indutivo /\ Ligacao)
<1>1. WP!Indutivo /\ DP!Indutivo /\ Ligacao /\ [Next]_vars => Ligacao'
  BY LigacaoResolve, LigacaoChamada, LigacaoResto DEF Next
<1> QED
  BY InitLigacao, <1>1, IndutivoDoWebhook, IndutivoDoDispatch, PTL DEF Spec

(* A payload answered 200 is in the DLQ or, for every inbox it resolved    *)
(* to, delivered, dead with a letter, or with a call that still runs.      *)
THEOREM Conserva == Spec => []NadaSePerde
<1>1. WP!Indutivo /\ DP!Indutivo /\ Ligacao => NadaSePerde
  <2> SUFFICES ASSUME WP!Indutivo, DP!Indutivo, Ligacao, Falhas \subseteq {"meta", "edicao"},
                      MaxRetries > 0, NEW p \in Pedidos, resposta[p] = 200, ~W!NaoRegistrada(p)
               PROVE  alvos[p] # {} /\ \A i \in alvos[p] : Segura(<<p, i>>)
    BY DEF NadaSePerde
  <2>1. alvos[p] # {}
    BY DEF WP!Indutivo, WP!RespostaHonesta, WP!NaoRegistrada, W!NaoRegistrada, WP!Carta, W!Carta
  <2>2. ASSUME NEW i \in alvos[p] PROVE Segura(<<p, i>>)
    <3> DEFINE t == <<p, i>>
    <3>1. i \in Inboxes /\ t \in Tarefas
      BY Fatos DEF Tarefas
    <3>2. pc[t] # "livre" /\ caixa[t] = i
      BY <3>1 DEF Ligacao, ChamadasDosAlvos
    <3>3. /\ pc[t] = "fim" => desfecho[t] \in {"entregue", "morta", "perdida"}
          /\ desfecho[t] = "morta" => DP!Letra(t) \in publicadas
      BY <3>1 DEF DP!Indutivo, DP!TypeOK, DP!PcCoerente, DP!LetrasSaoDasMortas, DP!Desfechos
    <3>4. desfecho[t] # "perdida"
      <4>1. Falhas \cap {"banco", "redis", "amqp", "queda"} = {} /\ MaxRetries # 0
        BY RetriesAssumption
      <4> QED
        BY <3>1, <4>1 DEF DP!Indutivo, DP!PerdaTemCausa
    <3>5. DP!Letra(t).tarefa = t /\ DP!Letra(t).inbox = i /\ t[2] = i
      BY <3>2 DEF DP!Letra
    <3> QED
      BY <3>2, <3>3, <3>4, <3>5 DEF Segura, D!EmCurso
  <2> QED
    BY <2>1, <2>2
<1> QED
  BY <1>1, Ligados, PTL

(* While nobody edits the table, no two calls of a POST read the same      *)
(* ambiente.                                                               *)
THEOREM UmPorAmbiente == Spec => []UmEnvioPorAmbiente
<1>1. Ligacao => UmEnvioPorAmbiente
  BY DEF Ligacao, AmbientesDosAlvos, UmEnvioPorAmbiente, EnviosDistintos
<1> QED
  BY <1>1, Ligados, PTL
=============================================================================
