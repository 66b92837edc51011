------------------------------- MODULE Gateway -------------------------------
(***************************************************************************)
(* The path of a message through the process: the requests of Webhook      *)
(* start the calls of Dispatch, over the same table of inboxes and in the  *)
(* same memory.  A POST that resolves starts every call in the step that   *)
(* answers it, and a crash takes the requests and the calls together.      *)
(***************************************************************************)
EXTENDS Naturals, FiniteSets

CONSTANTS Pedidos, Eventos, Evento, Inboxes, PidDe, Ambientes, Wabas, Urls, Nulo,
          MaxRetries, Falhas

(* Those of the two components. *)
ASSUME InboxesAssumption == Inboxes \subseteq Nat
ASSUME NuloAssumption == Nulo \notin Wabas \cup Urls \cup Inboxes \cup Ambientes
ASSUME RetriesAssumption == MaxRetries \in Nat

VARIABLES pedido, evento, resposta, desistiu, alvos, avulsas, cartas,     \* Webhook
          inbox, waba,                                                   \* the table
          pc, caixa, amb, url, tentativa, status, desfecho, vistos,       \* Dispatch
          publicadas, vista

(* One call of handle() for each inbox a POST may resolve to. *)
Tarefas == Pedidos \X Inboxes

W == INSTANCE Webhook

ASSUME EventoAssumption ==
  \A e \in Eventos : /\ Evento[e].assinatura \in W!Assinaturas
                     /\ Evento[e].waba \in Wabas \cup {Nulo}

D == INSTANCE Dispatch WITH Falhas <- Falhas \cap {"banco", "redis", "amqp", "queda"}

vars == <<pedido, evento, resposta, desistiu, alvos, avulsas, cartas, inbox, waba,
          pc, caixa, amb, url, tentativa, status, desfecho, vistos, publicadas, vista>>

soWebhook  == <<pedido, evento, resposta, desistiu, alvos, avulsas, cartas, waba>>
soDispatch == <<pc, caixa, amb, url, tentativa, status, desfecho, vistos, publicadas, vista>>

Init == W!Init /\ D!Init

-----------------------------------------------------------------------------
(* Mutant: the loop stops at the first inbox. *)
SoAPrimeira(p, S) == {p} \X {i \in S : \A j \in S : i <= j}

Chamadas(p, S) == {p} \X S
InboxDe(T) == [t \in T |-> t[2]]

(* Mutant: a POST waits for the calls of the others. *)
ResolveUmPorVez(p) ==
  /\ \A t \in Tarefas : ~D!EmCurso(t)
  /\ W!Banco(p)
  /\ LET T == Chamadas(p, alvos'[p])
     IN IF T = {} THEN UNCHANGED soDispatch ELSE D!Handle(T, InboxDe(T))

(* The loop that calls handle() without awaiting it. *)
Resolve(p) == /\ W!Banco(p)
              /\ LET T == Chamadas(p, alvos'[p])
                 IN IF T = {} THEN UNCHANGED soDispatch ELSE D!Handle(T, InboxDe(T))

Pedido(p) == /\ W!Post(p) \/ W!Broker(p) \/ W!Excecao(p) \/ W!RespostaPerdida(p)
             /\ UNCHANGED soDispatch

Chamada(t) == /\ D!Passo(t) \/ D!Responde(t) \/ D!EnviarParaDlq(t) \/ D!Excecao(t)
              /\ UNCHANGED soWebhook

Queda == W!Queda /\ D!Queda

EditaInbox(i) == W!EditaInbox(i) /\ UNCHANGED soDispatch

MudaVista(a) == D!MudaVista(a) /\ UNCHANGED soWebhook

Next == \/ \E p \in Pedidos : Resolve(p) \/ Pedido(p)
        \/ \E t \in Tarefas : Chamada(t)
        \/ Queda
        \/ \E i \in Inboxes : EditaInbox(i)
        \/ \E a \in Ambientes : MudaVista(a)

Spec == Init /\ [][Next]_vars

(* The database and the broker serve the requests; nothing is assumed of   *)
(* the calls, whose destinations may never answer.                         *)
SpecSemDestino == Spec /\ \A p \in Pedidos : /\ WF_vars(Resolve(p))
                                             /\ WF_vars(W!Broker(p) /\ UNCHANGED soDispatch)

-----------------------------------------------------------------------------
(* From the POST to the destination or the DLQ: a payload answered 200 has *)
(* its letter of an unknown inbox or, for every inbox it resolved to, a    *)
(* call that was delivered, is dead with a letter or still runs.  Holds    *)
(* where none of the faults that handle() swallows happens.                *)
Segura(t) == \/ D!EmCurso(t)
             \/ desfecho[t] = "entregue"
             \/ \E l \in publicadas : l.tarefa = t /\ l.inbox = t[2]

NadaSePerde ==
  (Falhas \subseteq {"meta", "edicao"} /\ MaxRetries > 0) =>
     \A p \in Pedidos : resposta[p] = 200 =>
        W!NaoRegistrada(p) \/ (alvos[p] # {} /\ \A i \in alvos[p] : Segura(<<p, i>>))

(* While nobody edits the table, the calls of a POST go to different       *)
(* ambientes, although each of them reads its inbox again.                 *)
EnviosDistintos ==
  \A p \in Pedidos : \A i, j \in Inboxes :
     (/\ amb[<<p, i>>] = amb[<<p, j>>]
      /\ amb[<<p, i>>] # Nulo) => i = j

UmEnvioPorAmbiente == "edicao" \notin Falhas => EnviosDistintos

(* What makes the two inductive: the calls that started are those of the   *)
(* inboxes the POST resolved to, each for its own inbox.                   *)
ChamadasDosAlvos ==
  \A p \in Pedidos, i \in Inboxes :
     /\ i \in alvos[p] <=> pc[<<p, i>>] # "livre"
     /\ i \in alvos[p] => caixa[<<p, i>>] = i

AmbientesDosAlvos ==
  "edicao" \notin Falhas =>
     \A p \in Pedidos, i, j \in Inboxes :
        /\ i \in alvos[p] /\ j \in alvos[p] /\ inbox[i].amb = inbox[j].amb => i = j
        /\ amb[<<p, i>>] # Nulo => i \in alvos[p] /\ amb[<<p, i>>] = inbox[i].amb

(* Every POST is answered although no destination may ever answer (FR-7 of *)
(* the ingestion spec).                                                    *)
RespondeSemEsperar == \A p \in Pedidos : W!Aberto(p) ~> pedido[p] = "fim"
=============================================================================
