------------------------------ MODULE Instagram ------------------------------
(***************************************************************************)
(* The webhooks of Instagram and Messenger: a POST is answered 200 before  *)
(* anything is done, and handleIncoming then forwards the event to the     *)
(* inboxes of its pid one after the other, each with its own attempts and  *)
(* its own dead letter.  A failure of one is caught and the next follows.  *)
(***************************************************************************)
EXTENDS Integers, FiniteSets

CONSTANTS Pids, Ambientes, Ids, Nenhuma,
          Eventos,     \* POSTs of the three surfaces
          MaxRetries,  \* DISPATCH_MAX_RETRIES, 0 for any number below 1
          Falhas       \* faults of this instance: "banco", "redis", "broker"

VARIABLES inboxes,     \* the table of Cadastro
          pidDe,       \* per event: entry[0].id, Nenhuma if it is no non-empty string
          ev,          \* per event: where it is
          achados,     \* per event: the inboxes findAllByPid gave, as <<ambiente, id>>
          restam,      \* per event: those the loop has not taken yet
          atual,       \* per event: the one being forwarded to
          tent,        \* per event: attempts of the current forward that failed
          letra,       \* per event: the status of the letter about to be sent
          desfechos    \* history: <<inbox, outcome>>, of Nenhuma for the event itself

evento == <<pidDe, ev, achados, restam, atual, tent, letra, desfechos>>
vars == <<inboxes, evento>>

FindAllByPid(p) ==
  {<<inboxes[i].amb, i>> : i \in {j \in Ids : /\ inboxes[j] # Nenhuma
                                              /\ inboxes[j].pid = p
                                              /\ ~inboxes[j].del}}

Ninguem == <<0, Nenhuma>>

Init == /\ pidDe \in [Eventos -> Pids \cup {Nenhuma}]
        /\ ev = [e \in Eventos |-> "livre"]
        /\ achados = [e \in Eventos |-> {}]
        /\ restam = [e \in Eventos |-> {}]
        /\ atual = [e \in Eventos |-> Ninguem]
        /\ tent = [e \in Eventos |-> 0]
        /\ letra = [e \in Eventos |-> "nenhuma"]
        /\ desfechos = [e \in Eventos |-> {}]

-----------------------------------------------------------------------------
Vai(e, p) == ev' = [ev EXCEPT ![e] = p]

(* sendToQueue of a letter about the current inbox. *)
VaiParaDlq(e, status) == /\ Vai(e, "carta")
                         /\ letra' = [letra EXCEPT ![e] = status]

(* The current forward, or the whole event before there is one, ends so.   *)
Acaba(e, desfecho) == /\ desfechos' = [desfechos EXCEPT ![e] = @ \cup {<<atual[e][2], desfecho>>}]
                      /\ Vai(e, IF atual[e] = Ninguem THEN "fim" ELSE "proxima")

(* dispatch of the controller: 200 at once.  An event without a pid has no *)
(* inbox to be looked for.                                                 *)
Recebe(e) == /\ ev[e] = "livre"
             /\ IF pidDe[e] = Nenhuma THEN VaiParaDlq(e, "INBOX_NAO_REGISTRADA")
                                     ELSE Vai(e, "busca") /\ UNCHANGED letra
             /\ UNCHANGED <<pidDe, achados, restam, atual, tent, desfechos>>

FindInboxes(e) ==
  /\ ev[e] = "busca"
  /\ achados' = [achados EXCEPT ![e] = FindAllByPid(pidDe[e])]
  /\ restam' = [restam EXCEPT ![e] = FindAllByPid(pidDe[e])]
  /\ IF achados'[e] = {} THEN VaiParaDlq(e, "INBOX_NAO_REGISTRADA")
                         ELSE Vai(e, "proxima") /\ UNCHANGED letra
  /\ UNCHANGED <<pidDe, atual, tent, desfechos>>

(* The loop, in the order of the ambientes. *)
Proxima(e) ==
  /\ ev[e] = "proxima" /\ restam[e] # {}
  /\ \E x \in restam[e] : /\ \A y \in restam[e] : x[1] <= y[1]
                          /\ atual' = [atual EXCEPT ![e] = x]
                          /\ restam' = [restam EXCEPT ![e] = @ \ {x}]
  /\ Vai(e, "ambiente")
  /\ tent' = [tent EXCEPT ![e] = 0]
  /\ UNCHANGED <<pidDe, achados, letra, desfechos>>

Termina(e) == /\ ev[e] = "proxima" /\ restam[e] = {}
              /\ Vai(e, "fim")
              /\ UNCHANGED <<pidDe, achados, restam, atual, tent, letra, desfechos>>

(* getAmbiente: the key or the row may be of any age, so the ambiente may  *)
(* be found or not whatever it is now.  With no attempt to make the loop   *)
(* never runs, and forward returns with nothing sent and no letter.        *)
GetAmbiente(e) ==
  /\ ev[e] = "ambiente"
  /\ \/ VaiParaDlq(e, "AMBIENTE_INDISPONIVEL") /\ UNCHANGED desfechos
     \/ /\ IF MaxRetries > 0 THEN Vai(e, "post") /\ UNCHANGED desfechos
                             ELSE Acaba(e, "silencio")
        /\ UNCHANGED letra
  /\ UNCHANGED <<pidDe, achados, restam, atual, tent>>

(* POST of the raw body.  The backoff reads nothing, so it is part of the  *)
(* attempt before it; a destination may never answer.                      *)
Post(e) ==
  /\ ev[e] = "post"
  /\ \/ /\ Acaba(e, "entregue")
        /\ UNCHANGED <<tent, letra>>
     \/ /\ tent' = [tent EXCEPT ![e] = @ + 1]
        /\ IF tent'[e] < MaxRetries THEN UNCHANGED <<ev, letra>>
           ELSE VaiParaDlq(e, "FALHA_ENVIO") \/ VaiParaDlq(e, "AMBIENTE_INDISPONIVEL")
        /\ UNCHANGED desfechos
  /\ UNCHANGED <<pidDe, achados, restam, atual>>

(* A refused letter throws out of forward, or out of handleIncoming.       *)
SendToQueue(e) == /\ ev[e] = "carta"
                  /\ Acaba(e, letra[e]) \/ ("broker" \in Falhas /\ Acaba(e, "recusada"))
                  /\ UNCHANGED <<pidDe, achados, restam, atual, tent, letra>>

(* Mutant: nothing is caught around a forward. *)
ExcecaoSemTry(e) == /\ \/ ev[e] = "busca" /\ "banco" \in Falhas
                       \/ ev[e] = "ambiente" /\ Falhas \cap {"banco", "redis"} # {}
                    /\ desfechos' = [desfechos EXCEPT ![e] = @ \cup {<<atual[e][2], "excecao">>}]
                    /\ Vai(e, "fim")
                    /\ restam' = [restam EXCEPT ![e] = {}]
                    /\ UNCHANGED <<pidDe, achados, atual, tent, letra>>

(* A query or Redis throws: the catch around the forward logs and goes on, *)
(* the one around the whole event logs and ends.                           *)
Excecao(e) == /\ \/ ev[e] = "busca" /\ "banco" \in Falhas
                 \/ ev[e] = "ambiente" /\ Falhas \cap {"banco", "redis"} # {}
              /\ Acaba(e, "excecao")
              /\ UNCHANGED <<pidDe, achados, restam, atual, tent, letra>>

Queda == /\ ev' = [e \in Eventos |-> IF ev[e] \in {"livre", "fim"} THEN ev[e] ELSE "perdido"]
         /\ UNCHANGED <<pidDe, achados, restam, atual, tent, letra, desfechos>>

Evento(e) == \/ Recebe(e) \/ FindInboxes(e) \/ Proxima(e) \/ Termina(e) \/ GetAmbiente(e)
             \/ Post(e) \/ SendToQueue(e) \/ Excecao(e)

-----------------------------------------------------------------------------
(* The outcomes of the inbox i, or of the event itself for Nenhuma, and    *)
(* the inbox that is being forwarded to.                                   *)
DesfechosDe(e, i) == {d \in desfechos[e] : d[1] = i}
EmCurso(e) == IF ev[e] \in {"ambiente", "post", "carta"} THEN {atual[e]} ELSE {}

(* An event answered 200 and not lost in a crash: every inbox it resolved  *)
(* to is still to come, is being forwarded to, or has exactly one outcome, *)
(* and an inbox gets none it was not resolved to; an event that resolved   *)
(* to none has one outcome of its own.  The outcome is silence, neither    *)
(* sent nor a letter nor an error logged, only where no attempt is         *)
(* configured.                                                             *)
InstagramNaoPerde ==
  \A e \in Eventos :
     /\ \A d \in desfechos[e] : d[1] = Nenhuma \/ \E x \in achados[e] : d[1] = x[2]
     /\ \A d \in desfechos[e] : d[2] = "silencio" => MaxRetries = 0
     /\ ev[e] # "perdido" =>
          \A x \in achados[e] :
             Cardinality(DesfechosDe(e, x[2])) = IF x \in restam[e] \cup EmCurso(e) THEN 0 ELSE 1
     /\ ev[e] = "fim" =>
          Cardinality(DesfechosDe(e, Nenhuma)) = IF achados[e] = {} THEN 1 ELSE 0

-----------------------------------------------------------------------------
(* The inductive invariant.  The inboxes found have distinct ids; up to a  *)
(* crash one has exactly one outcome once the loop is past it, and none    *)
(* before; the event has one of its own only if none was found.  Only a    *)
(* forward without attempts is silent, and no letter stands for silence.   *)
TypeOK == /\ ev \in [Eventos -> {"livre", "busca", "proxima", "ambiente", "post", "carta",
                                 "fim", "perdido"}]
          /\ achados \in [Eventos -> SUBSET (Ambientes \X Ids)]
          /\ restam \in [Eventos -> SUBSET (Ambientes \X Ids)]
          /\ atual \in [Eventos -> (Ambientes \X Ids) \cup {Ninguem}]
          /\ letra = [e \in Eventos |-> letra[e]]
          /\ desfechos = [e \in Eventos |-> desfechos[e]]

Um(S) == \E x \in S : S = {x}

Percurso(e) ==
  /\ \A x, y \in achados[e] : x[2] = y[2] => x = y
  /\ restam[e] \subseteq achados[e]
  /\ ev[e] \in {"livre", "busca"} => achados[e] = {} /\ desfechos[e] = {} /\ atual[e] = Ninguem
  /\ ev[e] \in {"ambiente", "post"} => atual[e] \in achados[e] \ restam[e]
  /\ ev[e] = "carta" => \/ atual[e] \in achados[e] \ restam[e]
                        \/ atual[e] = Ninguem /\ achados[e] = {}
  /\ ev[e] = "proxima" => achados[e] # {}

Contagem(e) ==
  /\ \A d \in desfechos[e] : d[1] = Nenhuma \/ \E x \in achados[e] : d[1] = x[2]
  /\ ev[e] # "perdido" =>
       /\ \A x \in achados[e] : IF x \in restam[e] \cup EmCurso(e) THEN DesfechosDe(e, x[2]) = {}
                                                                  ELSE Um(DesfechosDe(e, x[2]))
       /\ IF ev[e] = "fim" /\ achados[e] = {} THEN Um(DesfechosDe(e, Nenhuma))
                                              ELSE DesfechosDe(e, Nenhuma) = {}

SemSilencio(e) == /\ \A d \in desfechos[e] : d[2] = "silencio" => MaxRetries = 0
                  /\ ev[e] = "carta" => letra[e] # "silencio"

Indutivo == TypeOK /\ \A e \in Eventos : Percurso(e) /\ Contagem(e) /\ SemSilencio(e)
=============================================================================
