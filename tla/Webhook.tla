------------------------------- MODULE Webhook -------------------------------
(***************************************************************************)
(* POST /webhook: MetaSignatureGuard, WebhookService.handleIncoming and    *)
(* the two queries that resolve a payload to inboxes, with Meta delivering *)
(* an event again until it is answered 200.  The calls of handle() a       *)
(* request starts are just the set of their inboxes here; Gateway opens    *)
(* them.                                                                   *)
(***************************************************************************)
EXTENDS Naturals, FiniteSets

CONSTANTS Pedidos,     \* the POSTs this instance may receive
          Eventos,     \* the events Meta reports, each in one or more POSTs
          Evento,      \* per event: signature, pid and WABA of entry[0]
          Inboxes,     \* ids of rows of the table inboxes, oldest first
          PidDe,       \* per inbox: its pid, which nothing ever changes
          Ambientes,   \* ids of rows of the table ambiente
          Wabas,       \* WABA ids
          Nulo,        \* an id that is absent or not a non-empty string
          Falhas       \* faults of this instance, a subset of TiposDeFalha

(* "meta": the answer is lost or late; "edicao": the table changes.        *)
TiposDeFalha == {"banco", "redis", "amqp", "queda", "meta", "edicao"}

(* "ruido": no signature or body at all, or a mismatch over a body that is *)
(* not shaped like a webhook.                                              *)
Assinaturas == {"valida", "divergente", "ruido"}

ASSUME InboxesAssumption == Inboxes \subseteq Nat
ASSUME WabasAssumption == Nulo \notin Wabas
ASSUME EventoAssumption ==
  \A e \in Eventos : /\ Evento[e].assinatura \in Assinaturas
                     /\ Evento[e].waba \in Wabas \cup {Nulo}

VARIABLES pedido,      \* per POST: where the request is
          evento,      \* per POST: the event it reports
          resposta,    \* per POST: the HTTP status answered, 0 if none
          desistiu,    \* per POST: Meta never saw that answer
          alvos,       \* per POST: inboxes handle() was called for
          avulsas,     \* rejected POSTs whose dead letter is not yet in the broker
          cartas,      \* dead letters in inbox.dead-letter
          inbox,       \* table inboxes: id_ambiente and del
          waba         \* table inboxes: waba_id

pedidos == <<pedido, evento, resposta, desistiu>>
tabela  == <<inbox, waba>>
vars    == <<pedidos, alvos, avulsas, cartas, tabela>>

Etapas == {"livre", "pid", "waba", "dlq", "confirma", "fim"}
Cartas == [pedido : Pedidos, status : {"INBOX_NAO_REGISTRADA", "ASSINATURA_INVALIDA"}]
Linhas == [amb : Ambientes, del : BOOLEAN]

Ev(p) == Evento[evento[p]]
Carta(p, s) == [pedido |-> p, status |-> s]

(* The unique index on (pid, id_ambiente), which deleted rows still occupy. *)
ParUnico(t) == \A i, j \in Inboxes :
                  PidDe[i] = PidDe[j] /\ t[i].amb = t[j].amb => i = j

Init == /\ pedido = [p \in Pedidos |-> "livre"]
        /\ evento \in [Pedidos -> Eventos]
        /\ resposta = [p \in Pedidos |-> 0]
        /\ desistiu = [p \in Pedidos |-> FALSE]
        /\ alvos = [p \in Pedidos |-> {}]
        /\ avulsas = {}
        /\ cartas = {}
        /\ inbox \in [Inboxes -> Linhas]
        /\ ParUnico(inbox)
        /\ waba \in [Inboxes -> Wabas \cup {Nulo}]

-----------------------------------------------------------------------------
Ativas == {i \in Inboxes : ~inbox[i].del}

FindAllByPid(pid) == {i \in Ativas : PidDe[i] = pid}

(* Mutant: no distinct on id_ambiente. *)
TodasDaWaba(w) == {i \in Ativas : waba[i] = w}

(* One per ambiente, the oldest: a WABA normally has several numbers. *)
FindAllByWabaId(w) ==
  LET R == {i \in Ativas : waba[i] = w}
  IN {i \in R : \A j \in R : inbox[j].amb = inbox[i].amb => i <= j}

(* Mutant: no @HttpCode(200), so a POST that succeeds answers 201. *)
RespondeCriado(p, s) == /\ pedido' = [pedido EXCEPT ![p] = "fim"]
                        /\ resposta' = [resposta EXCEPT ![p] = IF s = 200 THEN 201 ELSE s]

Responde(p, s) == /\ pedido' = [pedido EXCEPT ![p] = "fim"]
                  /\ resposta' = [resposta EXCEPT ![p] = s]

Vai(p, etapa) == /\ pedido' = [pedido EXCEPT ![p] = etapa]
                 /\ UNCHANGED resposta

(* Meta reports an event until it sees a 200 for it. *)
MetaInsiste(p) ==
  \A q \in Pedidos : (q # p /\ evento[q] = evento[p] /\ pedido[q] # "livre")
                        => (resposta[q] \in {401, 500} \/ desistiu[q])

(* Mutant: a payload without WABA looks for its pid for ever. *)
VoltaAoPid(p) == IF Ev(p).waba # Nulo THEN "waba" ELSE "pid"

(* The guard runs before anything is awaited.  It lets a POST with a valid *)
(* signature through, and of the others dead-letters, without waiting for  *)
(* it, the mismatch over a body shaped like a webhook.                     *)
DepoisDoPid(p) == IF Ev(p).waba # Nulo THEN "waba" ELSE "dlq"

Post(p) ==
  /\ pedido[p] = "livre"
  /\ MetaInsiste(p)
  /\ \/ /\ Ev(p).assinatura = "valida"
        /\ Vai(p, IF Ev(p).pid # Nulo THEN "pid" ELSE DepoisDoPid(p))
        /\ UNCHANGED avulsas
     \/ /\ Ev(p).assinatura # "valida"
        /\ Responde(p, 401)
        /\ avulsas' = IF Ev(p).assinatura = "divergente" THEN avulsas \cup {p} ELSE avulsas
  /\ UNCHANGED <<evento, desistiu, alvos, cartas, tabela>>

(* The inboxes are dispatched to, and the POST answered, without waiting   *)
(* for any of the calls.                                                   *)
Despacha(p, S) == /\ S # {}
                  /\ alvos' = [alvos EXCEPT ![p] = S]
                  /\ Responde(p, 200)

ResolvePid(p) ==
  /\ pedido[p] = "pid"
  /\ LET S == FindAllByPid(Ev(p).pid) IN
     \/ Despacha(p, S)
     \/ /\ S = {}
        /\ Vai(p, DepoisDoPid(p))
        /\ UNCHANGED alvos
  /\ UNCHANGED <<evento, desistiu, avulsas, cartas, tabela>>

ResolveWaba(p) ==
  /\ pedido[p] = "waba"
  /\ LET S == FindAllByWabaId(Ev(p).waba) IN
     \/ Despacha(p, S)
     \/ /\ S = {}
        /\ Vai(p, "dlq")
        /\ UNCHANGED alvos
  /\ UNCHANGED <<evento, desistiu, avulsas, cartas, tabela>>

(* sendToQueue is awaited: the broker takes the letter, then confirms it.  *)
SendToQueue(p) == /\ pedido[p] = "dlq"
                  /\ cartas' = cartas \cup {Carta(p, "INBOX_NAO_REGISTRADA")}
                  /\ Vai(p, "confirma")
                  /\ UNCHANGED <<evento, desistiu, alvos, avulsas, tabela>>

Confirma(p) == /\ pedido[p] = "confirma"
               /\ Responde(p, 200)
               /\ UNCHANGED <<evento, desistiu, alvos, avulsas, cartas, tabela>>

(* Mutants: the exception is swallowed and the POST answered 200; it is    *)
(* raised after the letter went out.                                       *)
ExcecaoEngolida(p) == /\ \/ pedido[p] \in {"pid", "waba"} /\ "banco" \in Falhas
                         \/ pedido[p] = "dlq" /\ "amqp" \in Falhas
                      /\ Responde(p, 200)
                      /\ UNCHANGED <<evento, desistiu, alvos, avulsas, cartas, tabela>>

ExcecaoTardia(p) == /\ pedido[p] = "confirma" /\ "amqp" \in Falhas
                    /\ Responde(p, 500)
                    /\ UNCHANGED <<evento, desistiu, alvos, avulsas, cartas, tabela>>

(* A query that throws, or a letter the broker refuses, answers 500. *)
Excecao(p) == /\ \/ pedido[p] \in {"pid", "waba"} /\ "banco" \in Falhas
                 \/ pedido[p] = "dlq" /\ "amqp" \in Falhas
              /\ Responde(p, 500)
              /\ UNCHANGED <<evento, desistiu, alvos, avulsas, cartas, tabela>>

(* persistToDeadLetter, behind the 401; a refusal is only logged. *)
PersistToDeadLetter(p) ==
  /\ p \in avulsas
  /\ avulsas' = avulsas \ {p}
  /\ \/ cartas' = cartas \cup {Carta(p, "ASSINATURA_INVALIDA")}
     \/ "amqp" \in Falhas /\ UNCHANGED cartas
  /\ UNCHANGED <<pedidos, alvos, tabela>>

-----------------------------------------------------------------------------
(* The environment: Meta stops waiting for an answer or does not get it,   *)
(* the process dies, an administrator registers, edits or deletes a row.   *)
RespostaPerdida(p) == /\ "meta" \in Falhas
                      /\ pedido[p] # "livre"
                      /\ ~desistiu[p]
                      /\ desistiu' = [desistiu EXCEPT ![p] = TRUE]
                      /\ UNCHANGED <<pedido, evento, resposta, alvos, avulsas, cartas, tabela>>

Aberto(p) == pedido[p] \notin {"livre", "fim"}

Queda == /\ "queda" \in Falhas
         /\ pedido' = [p \in Pedidos |-> IF Aberto(p) THEN "fim" ELSE pedido[p]]
         /\ desistiu' = [p \in Pedidos |-> desistiu[p] \/ Aberto(p)]
         /\ avulsas' = {}
         /\ UNCHANGED <<evento, resposta, alvos, cartas, tabela>>

EditaInbox(i) == /\ "edicao" \in Falhas
                 /\ \E l \in Linhas : /\ inbox' = [inbox EXCEPT ![i] = l]
                                      /\ ParUnico(inbox')
                 /\ \E w \in Wabas \cup {Nulo} : waba' = [waba EXCEPT ![i] = w]
                 /\ UNCHANGED <<pedidos, alvos, avulsas, cartas>>

Banco(p) == ResolvePid(p) \/ ResolveWaba(p)
Broker(p) == SendToQueue(p) \/ Confirma(p) \/ PersistToDeadLetter(p)

Next == \/ \E p \in Pedidos : \/ Post(p) \/ Banco(p) \/ Broker(p)
                              \/ Excecao(p) \/ RespostaPerdida(p)
        \/ Queda
        \/ \E i \in Inboxes : EditaInbox(i)

Spec == Init /\ [][Next]_vars

(* The database answers, the broker may not: sendToQueue waits for the     *)
(* connection for as long as it takes.                                     *)
SpecSemBroker == Spec /\ \A p \in Pedidos : WF_vars(Banco(p))

-----------------------------------------------------------------------------
TypeOK == /\ pedido \in [Pedidos -> Etapas]
          /\ evento \in [Pedidos -> Eventos]
          /\ resposta \in [Pedidos -> {0, 200, 401, 500}]
          /\ desistiu \in [Pedidos -> BOOLEAN]
          /\ alvos \in [Pedidos -> SUBSET Inboxes]
          /\ avulsas \subseteq Pedidos
          /\ cartas \subseteq Cartas
          /\ inbox \in [Inboxes -> Linhas]
          /\ waba \in [Inboxes -> Wabas \cup {Nulo}]

NaoRegistrada(p) == Carta(p, "INBOX_NAO_REGISTRADA") \in cartas
Rejeitada(p) == Carta(p, "ASSINATURA_INVALIDA") \in cartas
Efeito(p) == alvos[p] # {} \/ NaoRegistrada(p)

(* What a status promises to Meta.  A 200 means the payload is in exactly  *)
(* one place: with handle() or in the DLQ.  A 500 means it is in neither,  *)
(* so delivering it again repeats nothing.  A 401 means at most a letter   *)
(* of a rejected signature, and only for a body shaped like a webhook.     *)
RespostaHonesta ==
  \A p \in Pedidos :
     /\ resposta[p] = 200 => ((alvos[p] # {}) # NaoRegistrada(p)) /\ ~Rejeitada(p)
     /\ resposta[p] = 500 => ~Efeito(p) /\ ~Rejeitada(p)
     /\ resposta[p] = 401 => ~Efeito(p) /\ (Rejeitada(p) => Ev(p).assinatura = "divergente")

(* Delivering an event again never takes effect twice, whatever fails,     *)
(* unless Meta missed the answer to one of the POSTs that took effect.     *)
SemEfeitoDobrado ==
  \A p, q \in Pedidos :
     p # q /\ evento[p] = evento[q] /\ Efeito(p) /\ Efeito(q) => desistiu[p] \/ desistiu[q]

(* A payload goes to each ambiente once: the numbers of a WABA that share  *)
(* an ambiente get one call, and a pid has one row per ambiente.           *)
UmaPorAmbiente ==
  [][\A p \in Pedidos : alvos'[p] # alvos[p] =>
        \A i, j \in alvos'[p] : inbox[i].amb = inbox[j].amb => i = j]_vars

(* A broker that does not answer holds up no POST but those that resolve   *)
(* to no inbox.                                                            *)
SoEsperaOBroker == \A p \in Pedidos : <>[](pedido[p] \in {"livre", "dlq", "confirma", "fim"})

(* What makes RespostaHonesta inductive: an effect and an answer belong to *)
(* one stage of the request each.                                          *)
EtapaCoerente ==
  \A p \in Pedidos :
     /\ resposta[p] # 0 => pedido[p] = "fim"
     /\ pedido[p] \in {"livre", "pid", "waba", "dlq"} => ~Efeito(p)
     /\ pedido[p] = "confirma" => alvos[p] = {} /\ NaoRegistrada(p)
     /\ p \in avulsas \/ Rejeitada(p) => resposta[p] = 401 /\ Ev(p).assinatura = "divergente"
     /\ pedido[p] = "fim" /\ resposta[p] = 0 => desistiu[p] /\ alvos[p] = {}

(* And SemEfeitoDobrado: of the POSTs of an event at most one has not been *)
(* refused in a way Meta saw.                                              *)
UmAceito ==
  \A p, q \in Pedidos :
     (/\ evento[p] = evento[q] /\ p # q
      /\ pedido[p] # "livre" /\ pedido[q] # "livre")
        => \E r \in {p, q} : resposta[r] \in {401, 500} \/ desistiu[r]

Indutivo == TypeOK /\ RespostaHonesta /\ EtapaCoerente /\ UmAceito /\ ParUnico(inbox)
=============================================================================
