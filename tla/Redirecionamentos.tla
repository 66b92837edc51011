-------------------------- MODULE Redirecionamentos --------------------------
(***************************************************************************)
(* dispatch sends a copy of a webhook to every active redirect of every    *)
(* ambiente its pid is registered in, while redirects and inboxes are      *)
(* edited.  It reads the inboxes once, asks for the redirects of each      *)
(* distinct ambiente in queries that run side by side, and then sends.     *)
(***************************************************************************)
EXTENDS Naturals

CONSTANTS Pids, Ambientes, Ids, Nenhuma,
          Envios,      \* calls of dispatch
          Reds,        \* uids of redirects; create draws one never used before
          Global,      \* id_ambiente null: the redirect is of every ambiente
          Gestores,    \* calls of create, update and remove
          MaxRetries,  \* MAX_RETRIES, 5 in the code
          Falhas       \* faults of this instance: "banco"

Red == [amb : Ambientes \cup {Global}, vencida : BOOLEAN, del : BOOLEAN]

VARIABLES inboxes,     \* the table of Cadastro
          reds,        \* the table: Nenhuma, or a Red
          gere,        \* per gestor: "livre", the operation it has begun, "fim"
          alvo,        \* per gestor: its redirect
          payload,     \* per call: what extractPid gives, or Nenhuma
          fase,        \* per call: where it is
          faltam,      \* per call: the ambientes whose query has not returned
          copias,      \* per call: what the queries returned, as <<redirect, ambiente>>
          tentou,      \* per call and copy: attempts that failed
          entregues,   \* per call: copies answered 2xx
          sempre,      \* history, per call: copies due ever since it read the inboxes
          vistos       \* history, per call: ambientes of its pid, redirects active since

escritas == <<reds, gere, alvo>>
envio == <<payload, fase, faltam, copias, tentou, entregues>>
historia == <<sempre, vistos>>
vars == <<inboxes, escritas, envio, historia>>

Copias == Reds \X Ambientes

AmbientesDe(p) == {inboxes[i].amb : i \in {j \in Ids : /\ inboxes[j] # Nenhuma
                                                       /\ inboxes[j].pid = p
                                                       /\ ~inboxes[j].del}}

Existe(r) == reds[r] # Nenhuma /\ ~reds[r].del

(* findActiveByAmbiente *)
Ativos(a) == {<<r, a>> : r \in {s \in Reds : /\ Existe(s)
                                             /\ ~reds[s].vencida
                                             /\ reds[s].amb \in {a, Global}}}

Init == /\ reds \in [Reds -> {Nenhuma} \cup [amb : Ambientes \cup {Global},
                                             vencida : {FALSE}, del : {FALSE}]]
        /\ gere = [g \in Gestores |-> "livre"]
        /\ alvo \in [Gestores -> Reds]
        /\ payload \in [Envios -> Pids \cup {Nenhuma}]
        /\ fase = [d \in Envios |-> "livre"]
        /\ faltam = [d \in Envios |-> {}]
        /\ copias = [d \in Envios |-> {}]
        /\ tentou = [d \in Envios |-> [x \in Copias |-> 0]]
        /\ entregues = [d \in Envios |-> {}]
        /\ sempre = [d \in Envios |-> {}]
        /\ vistos = [d \in Envios |-> {}]

-----------------------------------------------------------------------------
Vai(d, f) == fase' = [fase EXCEPT ![d] = f]

(* Mutant: only the ambiente of one of the inboxes is asked for. *)
FindAllByPidUm(d) ==
  /\ fase[d] = "livre"
  /\ \E as \in {x \in SUBSET AmbientesDe(payload[d]) : \A a, b \in x : a = b} :
        /\ faltam' = [faltam EXCEPT ![d] = as]
        /\ Vai(d, IF as = {} THEN "fim" ELSE "consulta")
  /\ UNCHANGED <<inboxes, escritas, payload, copias, tentou, entregues>>

(* extractPid and the distinct ambientes; a payload without a pid has none. *)
FindAllByPid(d) ==
  /\ fase[d] = "livre"
  /\ faltam' = [faltam EXCEPT ![d] = AmbientesDe(payload[d])]
  /\ Vai(d, IF faltam'[d] = {} THEN "fim" ELSE "consulta")
  /\ UNCHANGED <<inboxes, escritas, payload, copias, tentou, entregues>>

(* One of the queries of Promise.all; the sends begin after the last one.  *)
FindActiveByAmbiente(d) ==
  /\ fase[d] = "consulta"
  /\ \E a \in faltam[d] : /\ faltam' = [faltam EXCEPT ![d] = @ \ {a}]
                          /\ copias' = [copias EXCEPT ![d] = @ \cup Ativos(a)]
  /\ Vai(d, IF faltam'[d] # {} THEN "consulta" ELSE "envia")
  /\ UNCHANGED <<inboxes, escritas, payload, tentou, entregues>>

(* One query that fails rejects the whole call, which has sent nothing. *)
ConsultaFalha(d) == /\ fase[d] \in {"livre", "consulta"} /\ "banco" \in Falhas
                    /\ Vai(d, "falhou")
                    /\ UNCHANGED <<inboxes, escritas, payload, faltam, copias, tentou, entregues>>

Tentavel(d) == {x \in copias[d] : tentou[d][x] < MaxRetries} \ entregues[d]

(* sendWithRetry, side by side for all the copies. *)
SendWithRetry(d) ==
  /\ fase[d] = "envia"
  /\ \E x \in Tentavel(d) : \/ /\ entregues' = [entregues EXCEPT ![d] = @ \cup {x}]
                               /\ UNCHANGED tentou
                            \/ /\ tentou' = [tentou EXCEPT ![d][x] = @ + 1]
                               /\ UNCHANGED entregues
  /\ UNCHANGED <<inboxes, escritas, payload, fase, faltam, copias>>

Dispatched(d) == /\ fase[d] = "envia" /\ Tentavel(d) = {}
                 /\ Vai(d, "fim")
                 /\ UNCHANGED <<inboxes, escritas, payload, faltam, copias, tentou, entregues>>

-----------------------------------------------------------------------------
(* The API of redirects.  An expiry that is not given is 15 minutes ahead, *)
(* one that is null never comes; it may be given in the past.              *)
Create(g) == /\ gere[g] = "livre" /\ reds[alvo[g]] = Nenhuma
             /\ \E a \in Ambientes \cup {Global}, v \in BOOLEAN :
                   reds' = [reds EXCEPT ![alvo[g]] = [amb |-> a, vencida |-> v, del |-> FALSE]]
             /\ gere' = [gere EXCEPT ![g] = "fim"]
             /\ UNCHANGED <<inboxes, alvo, envio>>

(* update and remove: 404, or a write by uid whatever the row is by then.  *)
FindByUid(g) == /\ gere[g] = "livre"
                /\ \E o \in IF Existe(alvo[g]) THEN {"update", "remove"} ELSE {"fim"} :
                      gere' = [gere EXCEPT ![g] = o]
                /\ UNCHANGED <<inboxes, reds, alvo, envio>>

Update(g) == /\ gere[g] = "update"
             /\ \E a \in Ambientes \cup {Global}, v \in BOOLEAN :
                   reds' = [reds EXCEPT ![alvo[g]].amb = a, ![alvo[g]].vencida = v]
             /\ gere' = [gere EXCEPT ![g] = "fim"]
             /\ UNCHANGED <<inboxes, alvo, envio>>

Remove(g) == /\ gere[g] = "remove"
             /\ reds' = [reds EXCEPT ![alvo[g]].del = TRUE]
             /\ gere' = [gere EXCEPT ![g] = "fim"]
             /\ UNCHANGED <<inboxes, alvo, envio>>

(* data_expiracao passes. *)
Vence(r) == /\ Existe(r) /\ ~reds[r].vencida
            /\ reds' = [reds EXCEPT ![r].vencida = TRUE]
            /\ UNCHANGED <<inboxes, gere, alvo, envio>>

(* The process dies with its calls. *)
Queda == /\ fase' = [d \in Envios |-> IF fase[d] \in {"consulta", "envia"}
                                      THEN "perdido" ELSE fase[d]]
         /\ gere' = [g \in Gestores |-> IF gere[g] = "livre" THEN "livre" ELSE "fim"]
         /\ UNCHANGED <<inboxes, reds, alvo, payload, faltam, copias, tentou, entregues>>

Envio(d) == \/ FindAllByPid(d) \/ FindActiveByAmbiente(d) \/ ConsultaFalha(d)
            \/ SendWithRetry(d) \/ Dispatched(d)

Gestor(g) == Create(g) \/ FindByUid(g) \/ Update(g) \/ Remove(g)

-----------------------------------------------------------------------------
(* The histories: a conjunct of every step of the system, frozen for a     *)
(* call once its queries are done.                                         *)
Devidas(d) == UNION {Ativos(a) : a \in AmbientesDe(payload[d])}
Vistas(d) == {<<"ambiente", a>> : a \in AmbientesDe(payload[d])}
               \cup {<<"ativo", x>> : x \in UNION {Ativos(a) : a \in Ambientes}}

Observa ==
  /\ sempre' = [d \in Envios |-> IF fase[d] = "livre" /\ fase'[d] # "livre" THEN Devidas(d)
                                 ELSE IF fase'[d] = "consulta" THEN sempre[d] \cap Devidas(d)'
                                 ELSE sempre[d]]
  /\ vistos' = [d \in Envios |-> IF fase[d] = "livre" /\ fase'[d] # "livre" THEN Vistas(d)
                                 ELSE IF fase'[d] = "consulta" THEN vistos[d] \cup Vistas(d)'
                                 ELSE vistos[d]]

(* The copies of a call that read everything: every redirect that was      *)
(* active, for an ambiente the pid was in, throughout its reads, and none  *)
(* that at no moment of them was active and asked for an ambiente that was *)
(* the pid's.  At the end each was answered, or tried MAX_RETRIES times.   *)
RedirecionaExato ==
  \A d \in Envios :
     /\ fase[d] \in {"envia", "fim"} =>
          /\ sempre[d] \subseteq copias[d]
          /\ \A x \in copias[d] : {<<"ambiente", x[2]>>, <<"ativo", x>>} \subseteq vistos[d]
     /\ fase[d] = "fim" =>
          \A x \in copias[d] : x \in entregues[d] \/ tentou[d][x] = MaxRetries

-----------------------------------------------------------------------------
(* The inductive invariant.  While a call reads, what has been due all the *)
(* time is due now, and is of an ambiente still to be asked for or has     *)
(* been copied; what may be copied next has been seen.                     *)
TypeOK == /\ fase \in [Envios -> {"livre", "consulta", "envia", "fim", "falhou", "perdido"}]
          /\ faltam \in [Envios -> SUBSET Ambientes]
          /\ copias \in [Envios -> SUBSET Copias]
          /\ tentou \in [Envios -> [Copias -> 0..MaxRetries]]
          /\ entregues = [d \in Envios |-> entregues[d]]

LeTudo(d) ==
  /\ fase[d] = "livre" => copias[d] = {}
  /\ fase[d] = "consulta" =>
       /\ sempre[d] \subseteq Devidas(d) /\ Vistas(d) \subseteq vistos[d]
       /\ \A a \in faltam[d] : <<"ambiente", a>> \in vistos[d]
       /\ \A x \in sempre[d] : x[2] \in faltam[d] \/ x \in copias[d]
       /\ \A x \in copias[d] : {<<"ambiente", x[2]>>, <<"ativo", x>>} \subseteq vistos[d]

Indutivo == TypeOK /\ (\A d \in Envios : LeTudo(d)) /\ RedirecionaExato
=============================================================================
