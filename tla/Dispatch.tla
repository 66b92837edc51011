------------------------------- MODULE Dispatch -------------------------------
(***************************************************************************)
(* DispatchHandlerService.handle: one asynchronous call per (payload,      *)
(* inbox).  Each await of the source ends a step, so the calls interleave  *)
(* with each other and with the administrators who edit inboxes and        *)
(* ambientes.  getAmbiente is one step here: `vista` is what the cache     *)
(* over the database would answer at that moment and the environment may   *)
(* change it at any time (module AmbienteCache opens that box).            *)
(***************************************************************************)
EXTENDS Naturals, FiniteSets

CONSTANTS Tarefas,      \* calls of handle(): one payload for one inbox each
          Inboxes,      \* ids of rows of the table inboxes
          Ambientes,    \* ids of rows of the table ambiente
          Urls,         \* values of ambiente.url
          Nulo,         \* nothing read yet, or no such ambiente
          MaxRetries,   \* DISPATCH_MAX_RETRIES
          Falhas        \* faults of this instance, a subset of TiposDeFalha

TiposDeFalha == {"banco", "redis", "amqp", "queda"}

ASSUME RetriesAssumption == MaxRetries \in Nat
ASSUME FalhasAssumption == Falhas \subseteq TiposDeFalha
ASSUME NuloAssumption == Nulo \notin Urls \cup Inboxes \cup Ambientes

VARIABLES pc,          \* per call: the await it is at
          caixa,       \* per call: inboxId
          amb,         \* per call: inbox.id_ambiente as read
          url,         \* per call: ambiente.url as read
          tentativa,   \* per call: attempt
          status,      \* per call: the status of the dead letter to publish
          desfecho,    \* per call: how it ended
          vistos,      \* per call, history: kinds of failure its attempts met
          publicadas,  \* dead letters published to inbox.dead-letter
          inbox,       \* table inboxes: id_ambiente and del
          vista        \* per ambiente: the url getAmbiente would answer

locais   == <<caixa, amb, url, tentativa, status, vistos>>
externas == <<inbox, vista>>
vars     == <<pc, locais, desfecho, publicadas, externas>>

Pcs == {"livre", "inbox", "ambiente", "envia", "aguarda", "backoff", "dlq", "fim"}
Status == {"NACK_RECEBIDO", "AMBIENTE_INDISPONIVEL", "FALHA_ENVIO"}
Desfechos == {"nenhum", "entregue", "morta", "perdida"}
Erros == {"resposta", "rede"}
Letras == [tarefa : Tarefas, inbox : Inboxes, status : Status]
Linhas == [amb : Ambientes, del : BOOLEAN]

EmCurso(t) == pc[t] \notin {"livre", "fim"}

Init == /\ pc = [t \in Tarefas |-> "livre"]
        /\ caixa = [t \in Tarefas |-> Nulo]
        /\ amb = [t \in Tarefas |-> Nulo]
        /\ url = [t \in Tarefas |-> Nulo]
        /\ tentativa = [t \in Tarefas |-> 0]
        /\ status = [t \in Tarefas |-> "NACK_RECEBIDO"]
        /\ desfecho = [t \in Tarefas |-> "nenhum"]
        /\ vistos = [t \in Tarefas |-> {}]
        /\ publicadas = {}
        /\ inbox \in [Inboxes -> Linhas]
        /\ vista \in [Ambientes -> Urls \cup {Nulo}]

-----------------------------------------------------------------------------
(* The callers start one call per resolved inbox without awaiting it, so a *)
(* whole set of calls may start in one step.  The fan-out to the           *)
(* redirecionamentos that handle() launches first is fire-and-forget and   *)
(* shares no state with the rest of the call.                              *)
Handle(T, c) == /\ T # {}
                /\ \A t \in T : pc[t] = "livre"
                /\ pc' = [t \in Tarefas |-> IF t \in T THEN "inbox" ELSE pc[t]]
                /\ caixa' = [t \in Tarefas |-> IF t \in T THEN c[t] ELSE caixa[t]]
                /\ UNCHANGED <<amb, url, tentativa, status, vistos, desfecho, publicadas, externas>>

VaiParaDlq(t, s) == /\ pc' = [pc EXCEPT ![t] = "dlq"]
                    /\ status' = [status EXCEPT ![t] = s]

Termina(t, d) == /\ pc' = [pc EXCEPT ![t] = "fim"]
                 /\ desfecho' = [desfecho EXCEPT ![t] = d]

(* inboxRepo.findById answers null for a soft-deleted row. *)
FindInbox(t) ==
  /\ pc[t] = "inbox"
  /\ \/ /\ inbox[caixa[t]].del
        /\ VaiParaDlq(t, "NACK_RECEBIDO")
        /\ UNCHANGED amb
     \/ /\ ~inbox[caixa[t]].del
        /\ pc' = [pc EXCEPT ![t] = "ambiente"]
        /\ amb' = [amb EXCEPT ![t] = inbox[caixa[t]].amb]
        /\ UNCHANGED status
  /\ UNCHANGED <<caixa, url, tentativa, vistos, desfecho, publicadas, externas>>

(* The url is read once, before the loop.  With MaxRetries = 0 the loop    *)
(* body never runs and the call returns with nothing sent or published.    *)
GetAmbiente(t) ==
  /\ pc[t] = "ambiente"
  /\ \/ /\ vista[amb[t]] = Nulo
        /\ VaiParaDlq(t, "AMBIENTE_INDISPONIVEL")
        /\ UNCHANGED <<url, tentativa, desfecho>>
     \/ /\ vista[amb[t]] # Nulo
        /\ IF MaxRetries > 0
           THEN /\ pc' = [pc EXCEPT ![t] = "envia"]
                /\ url' = [url EXCEPT ![t] = vista[amb[t]]]
                /\ tentativa' = [tentativa EXCEPT ![t] = 1]
                /\ UNCHANGED desfecho
           ELSE Termina(t, "perdida") /\ UNCHANGED <<url, tentativa>>
        /\ UNCHANGED status
  /\ UNCHANGED <<caixa, amb, vistos, publicadas, externas>>

Envia(t) == /\ pc[t] = "envia"
            /\ pc' = [pc EXCEPT ![t] = "aguarda"]
            /\ UNCHANGED <<locais, desfecho, publicadas, externas>>

Resposta2xx(t) == /\ pc[t] = "aguarda"
                  /\ Termina(t, "entregue")
                  /\ UNCHANGED <<locais, publicadas, externas>>

(* Mutant: the two kinds of failure swapped. *)
StatusTrocado(e) == IF e = "rede" THEN "FALHA_ENVIO" ELSE "AMBIENTE_INDISPONIVEL"

StatusDe(e) == IF e = "resposta" THEN "FALHA_ENVIO" ELSE "AMBIENTE_INDISPONIVEL"

(* An attempt fails with a response that is not 2xx, or with none at all   *)
(* (refused, reset, DNS).  Only the last attempt decides the status.       *)
TentativaFalha(t, e) ==
  /\ pc[t] = "aguarda"
  /\ vistos' = [vistos EXCEPT ![t] = @ \cup {e}]
  /\ \/ /\ tentativa[t] < MaxRetries
        /\ pc' = [pc EXCEPT ![t] = "backoff"]
        /\ UNCHANGED status
     \/ /\ tentativa[t] >= MaxRetries
        /\ VaiParaDlq(t, StatusDe(e))
  /\ UNCHANGED <<caixa, amb, url, tentativa, desfecho, publicadas, externas>>

(* Mutants: the attempt is not counted; one attempt too many is made. *)
BackoffSemContar(t) == /\ pc[t] = "backoff"
                       /\ pc' = [pc EXCEPT ![t] = "envia"]
                       /\ UNCHANGED <<locais, desfecho, publicadas, externas>>

BackoffDobrado(t) == /\ pc[t] = "backoff"
                     /\ pc' = [pc EXCEPT ![t] = "envia"]
                     /\ tentativa' = [tentativa EXCEPT ![t] = @ + 2]
                     /\ UNCHANGED <<caixa, amb, url, status, vistos, desfecho, publicadas, externas>>

Backoff(t) == /\ pc[t] = "backoff"
              /\ pc' = [pc EXCEPT ![t] = "envia"]
              /\ tentativa' = [tentativa EXCEPT ![t] = @ + 1]
              /\ UNCHANGED <<caixa, amb, url, status, vistos, desfecho, publicadas, externas>>

Letra(t) == [tarefa |-> t, inbox |-> caixa[t], status |-> status[t]]

(* Mutant: no return after the dead letter, so the call goes on to try. *)
DlqSemReturn(t) == /\ pc[t] = "dlq"
                   /\ publicadas' = publicadas \cup {Letra(t)}
                   /\ pc' = [pc EXCEPT ![t] = "envia"]
                   /\ UNCHANGED <<locais, desfecho, externas>>

(* sendToQueue awaits the connection to the broker, with no timeout.  The  *)
(* wait and the publication are one step, which the broker takes when it   *)
(* is there (Excecao is its refusal).                                      *)
EnviarParaDlq(t) == /\ pc[t] = "dlq"
                    /\ publicadas' = publicadas \cup {Letra(t)}
                    /\ Termina(t, "morta")
                    /\ UNCHANGED <<locais, externas>>

(* The catch around the whole body swallows whatever the database, Redis   *)
(* (a corrupted entry included) or the broker throws.                      *)
Excecao(t) == /\ \/ pc[t] = "inbox" /\ "banco" \in Falhas
                 \/ pc[t] = "ambiente" /\ Falhas \cap {"banco", "redis"} # {}
                 \/ pc[t] = "dlq" /\ "amqp" \in Falhas
              /\ Termina(t, "perdida")
              /\ UNCHANGED <<locais, publicadas, externas>>

(* The process dies: the calls in flight live only in its memory. *)
Queda == /\ "queda" \in Falhas
         /\ pc' = [t \in Tarefas |-> IF EmCurso(t) THEN "fim" ELSE pc[t]]
         /\ desfecho' = [t \in Tarefas |-> IF EmCurso(t) THEN "perdida" ELSE desfecho[t]]
         /\ UNCHANGED <<locais, publicadas, externas>>

-----------------------------------------------------------------------------
(* The environment: administrators and whatever changes the cached view.   *)
EditaInbox(i) == /\ \E l \in Linhas : inbox' = [inbox EXCEPT ![i] = l]
                 /\ UNCHANGED <<pc, locais, desfecho, publicadas, vista>>

MudaVista(a) == /\ \E u \in Urls \cup {Nulo} : vista' = [vista EXCEPT ![a] = u]
                /\ UNCHANGED <<pc, locais, desfecho, publicadas, inbox>>

Responde(t) == Resposta2xx(t) \/ \E e \in Erros : TentativaFalha(t, e)

(* What the process does by itself once a promise is settled. *)
Passo(t) == FindInbox(t) \/ GetAmbiente(t) \/ Envia(t) \/ Backoff(t)

Ambiente == (\E i \in Inboxes : EditaInbox(i)) \/ (\E a \in Ambientes : MudaVista(a))

Next == \/ \E T \in SUBSET Tarefas : \E c \in [T -> Inboxes] : Handle(T, c)
        \/ \E t \in Tarefas : Passo(t) \/ Responde(t) \/ EnviarParaDlq(t) \/ Excecao(t)
        \/ Queda
        \/ Ambiente

Spec == Init /\ [][Next]_vars

(* The event loop runs every settled promise; nothing obliges a            *)
(* destination to answer, for the HTTP client has no timeout, nor the      *)
(* broker to be there, for sendToQueue has none either.                    *)
SpecSemTimeout == Spec /\ \A t \in Tarefas : WF_vars(Passo(t))

-----------------------------------------------------------------------------
TypeOK == /\ pc \in [Tarefas -> Pcs]
          /\ caixa \in [Tarefas -> Inboxes \cup {Nulo}]
          /\ amb \in [Tarefas -> Ambientes \cup {Nulo}]
          /\ url \in [Tarefas -> Urls \cup {Nulo}]
          /\ tentativa \in [Tarefas -> 0 .. MaxRetries]
          /\ status \in [Tarefas -> Status]
          /\ desfecho \in [Tarefas -> Desfechos]
          /\ vistos \in [Tarefas -> SUBSET Erros]
          /\ publicadas \subseteq Letras
          /\ inbox \in [Inboxes -> Linhas]
          /\ vista \in [Ambientes -> Urls \cup {Nulo}]

LetrasDe(t) == {l \in publicadas : l.tarefa = t}

(* A call publishes a dead letter exactly when it ends as dead, and then   *)
(* only one, for its own inbox: a 2xx is never followed by a dead letter   *)
(* (AC-7 of the dispatch spec) and a dead letter never by another.         *)
UmDesfecho == \A t \in Tarefas :
                /\ desfecho[t] = "morta" <=> LetrasDe(t) # {}
                /\ \A k, l \in LetrasDe(t) : k = l
                /\ \A l \in LetrasDe(t) : l.inbox = caixa[t]

(* The status of a dead letter tells what the attempts met: no attempt at  *)
(* all for NACK_RECEBIDO, every attempt spent for FALHA_ENVIO, and         *)
(* AC-4/AC-5: only responses gives FALHA_ENVIO, only silence gives         *)
(* AMBIENTE_INDISPONIVEL.                                                  *)
Explica(t, s) ==
  LET semPost   == tentativa[t] = 0 /\ vistos[t] = {}
      esgotou(e) == MaxRetries > 0 /\ tentativa[t] = MaxRetries /\ e \in vistos[t]
  IN /\ s = "NACK_RECEBIDO" => semPost
     /\ s = "FALHA_ENVIO" => esgotou("resposta")
     /\ s = "AMBIENTE_INDISPONIVEL" => semPost \/ esgotou("rede")

StatusExplicaFalha == \A l \in publicadas : Explica(l.tarefa, l.status)

(* Where neither the database, Redis, the broker nor the process fails and *)
(* at least one attempt is configured, no call ends without a delivery or  *)
(* a dead letter.                                                          *)
SemPerdaSilenciosa ==
  (Falhas = {} /\ MaxRetries > 0) =>
     \A t \in Tarefas : pc[t] = "fim" => desfecho[t] \in {"entregue", "morta"}

(* What makes the three invariants above inductive: where a call is fixes  *)
(* how much of it has happened, and the published letters are those of the *)
(* dead calls.                                                             *)
PcCoerente ==
  \A t \in Tarefas :
    /\ pc[t] = "fim" <=> desfecho[t] # "nenhum"
    /\ pc[t] # "livre" => caixa[t] \in Inboxes
    /\ pc[t] \in {"ambiente", "envia", "aguarda", "backoff"} => amb[t] \in Ambientes
    /\ pc[t] \in {"livre", "inbox", "ambiente"} => tentativa[t] = 0 /\ vistos[t] = {}
    /\ pc[t] \in {"envia", "aguarda", "backoff"} => tentativa[t] \in 1 .. MaxRetries
    /\ pc[t] = "backoff" => tentativa[t] < MaxRetries
    /\ pc[t] = "dlq" => Explica(t, status[t])

LetrasSaoDasMortas ==
  /\ \A l \in publicadas : desfecho[l.tarefa] = "morta" /\ l = Letra(l.tarefa)
  /\ \A t \in Tarefas : desfecho[t] = "morta" => Letra(t) \in publicadas

PerdaTemCausa ==
  \A t \in Tarefas : desfecho[t] = "perdida" => Falhas # {} \/ MaxRetries = 0

Indutivo == /\ TypeOK
            /\ PcCoerente
            /\ LetrasSaoDasMortas
            /\ StatusExplicaFalha
            /\ PerdaTemCausa

(* README.md:5: any failure at any point sends the message to the dead     *)
(* letters.                                                                *)
QualquerFalhaViraMorta ==
  \A t \in Tarefas : pc[t] = "fim" => desfecho[t] \in {"entregue", "morta"}

(* With destinations that may never answer and a broker that may never be  *)
(* back, a call stays for ever only at its pending POST or at the letter   *)
(* it has to publish, and a call held there holds up no other: one that is *)
(* answered ends its attempts, however they go, and ends or asks for its   *)
(* letter.  FR-10 (a message is never held indefinitely) is not promised.  *)
SoParaNoPostOuNoBroker == \A t \in Tarefas : <>[](pc[t] \in {"livre", "aguarda", "dlq", "fim"})

-----------------------------------------------------------------------------
(* handle() keeps the promise of Entrega. *)
Estado == [t \in Tarefas |-> IF pc[t] = "livre" THEN "ociosa"
                             ELSE IF pc[t] = "fim" THEN desfecho[t] ELSE "pendente"]

E == INSTANCE Entrega WITH estado <- Estado,
                           PodePerder <- (Falhas # {} \/ MaxRetries = 0)

(* Every step of a call is a step of its abstract obligation or invisible  *)
(* to it: from accepted to exactly one of delivered, dead, lost.           *)
CumpreEntrega == E!Spec
=============================================================================
