-------------------------------- MODULE Proxy --------------------------------
(***************************************************************************)
(* A request below /wpp from its arrival to its answer: the token of its   *)
(* context, ApiKeyGuard over the hash of Chaves, the route of Rotas that   *)
(* captures it, the url of Callbacks for the routes of a flow, the call to *)
(* Meta and the row of ErrosMeta for its error.  The administrators of     *)
(* keys and callbacks work at the same time.                               *)
(***************************************************************************)
EXTENDS Rotas

CONSTANTS Pedidos, Chaves, Admins, Instancias, Uids, Urls, Gestores, Webhooks, Payload,
          MaxNos, Nulo, Tokens, Global, Falhas,
          Cenarios     \* bounds: what a behaviour uses of all this

ASSUME NuloAssumption ==
  /\ Nulo \notin Urls
  /\ \A k, i \in DOMAIN Tabela : \A c \in Tabela[i].corpos : Nulo # Prometida(Tabela[k], c)

(* A bound on the requests that run and their routes, keys and tokens, and *)
(* on the administrators, starts and webhooks beside them.                 *)
ASSUME CenariosAssumption ==
  \A c \in Cenarios : /\ c.pedidos \subseteq Pedidos /\ c.rotas \subseteq DOMAIN Tabela
                      /\ c.tokens \subseteq Tokens \cup {Nulo} /\ c.chaves \subseteq Chaves \cup {Nulo}
                      /\ c.admins \subseteq Admins /\ c.instancias \subseteq Instancias
                      /\ c.gestores \subseteq Gestores /\ c.webhooks \subseteq Webhooks

VARIABLES cenario,
          pc,          \* per request: where it is
          rota,        \* per request: the route it was written for
          captura,     \* per request: the route that receives it, 0 before it does
          corpo,       \* per request: its query, file and fields
          chave,       \* per request: its key, Nulo if it sends none
          token,       \* per request: X-Meta-Access-Token, Nulo if absent or empty
          contexto,    \* per request: what MetaTokenStore holds for it
          enviado,     \* per request: the call made to Meta, with its token
          veio,        \* per request: the status Meta answered, 502 for none
          status,      \* per request: the status answered, 0 if none
          linha, hash, etapa, alvo, copia, partiu, revogadas, presas, relidas,
          url, del, cache, le, uidDe, obtida, gere, uidGerido, tardias,
          registros, antigos, purgados, perdidos, restam, lidos

C == INSTANCE Chaves
U == INSTANCE Callbacks WITH Leitores <- Pedidos
E == INSTANCE ErrosMeta WITH Chamadas <- Pedidos

pedidos == <<pc, rota, captura, corpo, chave, token, contexto, enviado, veio, status>>
dado == <<cenario, rota, corpo, chave, token>>
asChaves == <<linha, hash, etapa, alvo, copia, partiu, revogadas, presas, relidas>>
asUrls == <<url, del, cache, le, uidDe, obtida, gere, uidGerido, tardias>>
osErros == <<registros, antigos, purgados, perdidos, restam, lidos>>
vars == <<cenario, pedidos, asChaves, asUrls, osErros>>

Pcs == {"livre", "guarda", "uid", "corpo", "publica", "meta", "registra", "cliente", "fim"}

SemChamada == [chamada |-> Nulo, token |-> Nulo]

(* The route a request was written for and, below, the one it gets. *)
Escrita(p) == Tabela[rota[p]]

(* The requests a scenario leaves out are all alike. *)
Fixa(f) == \A p \in Pedidos \ cenario.pedidos, q \in Pedidos : f[p] = f[q]

Init == /\ cenario \in Cenarios
        /\ pc = [p \in Pedidos |-> "livre"]
        /\ rota \in [Pedidos -> cenario.rotas] /\ Fixa(rota)
        /\ captura = [p \in Pedidos |-> 0]
        /\ corpo \in [Pedidos -> UNION {Escrita(p).corpos : p \in Pedidos}] /\ Fixa(corpo)
        /\ \A p \in cenario.pedidos : corpo[p] \in Escrita(p).corpos
        /\ chave \in [Pedidos -> cenario.chaves] /\ Fixa(chave)
        /\ token \in [Pedidos -> cenario.tokens] /\ Fixa(token)
        /\ contexto = [p \in Pedidos |-> Nulo]
        /\ enviado = [p \in Pedidos |-> SemChamada]
        /\ veio = [p \in Pedidos |-> 0]
        /\ status = [p \in Pedidos |-> 0]
        /\ C!Init /\ U!Init /\ E!Init

-----------------------------------------------------------------------------
Vai(p, e) == pc' = [pc EXCEPT ![p] = e] /\ UNCHANGED status
Responde(p, s) == /\ pc' = [pc EXCEPT ![p] = "fim"]
                  /\ status' = [status EXCEPT ![p] = s]

Dono(p) == Tabela[captura[p]]
Visto(p) == Recebe(Dono(p), Escrita(p), corpo[p])

(* Mutant: one token for the process instead of one per request.           *)
ContextoUnico(p) == contexto' = [q \in Pedidos |-> token[p]]

(* MetaTokenMiddleware: the token is in the context of its request. *)
Contexto(p) == contexto' = [contexto EXCEPT ![p] = token[p]]

(* The router, the middleware, and the guard up to its first await: a      *)
(* request without a key is refused.  The flows endpoint has no guard; its *)
(* signature is checked before anything is awaited.                        *)
Chega(p) ==
  /\ pc[p] = "livre" /\ p \in cenario.pedidos
  /\ captura' = [captura EXCEPT ![p] = Atende[rota[p]]]
  /\ Contexto(p)
  /\ \/ /\ Tabela[captura'[p]].acao = "endpoint"
        /\ Vai(p, "uid") \/ Responde(p, 401)
     \/ /\ Tabela[captura'[p]].acao # "endpoint"
        /\ IF chave[p] = Nulo THEN Responde(p, 401) ELSE Vai(p, "guarda")
  /\ UNCHANGED <<dado, enviado, veio, asChaves, asUrls, osErros>>

(* Mutant: no fallback to the global token.                                *)
SoContexto(p) == contexto[p]

(* forward reads the token of its context when it is called.               *)
Token(p) == IF contexto[p] = Nulo \/ Dono(p).app THEN Global ELSE contexto[p]

Encaminha(p) == /\ enviado' = [enviado EXCEPT ![p] =
                      [chamada |-> Chamada(Dono(p), Escrita(p), corpo[p]), token |-> Token(p)]]
                /\ Vai(p, "meta")

(* Mutant: any key that is in the table, deleted or not. *)
ChaveConhecida(p) == linha[chave[p]] # "nenhuma"

(* hgetall, then the pipes and the handler up to its first await.  Between *)
(* the two only what is the request's own is read.                         *)
ChaveValida(p) == chave[p] \in hash

Guarda(p) ==
  /\ pc[p] = "guarda"
  /\ \/ ~ChaveValida(p) /\ Responde(p, 401) /\ UNCHANGED enviado
     \/ "redis" \in Falhas /\ Responde(p, 500) /\ UNCHANGED enviado
     \/ /\ ChaveValida(p)
        /\ \/ ~Admite(Dono(p), Visto(p)) /\ Responde(p, 400) /\ UNCHANGED enviado
           \/ /\ Admite(Dono(p), Visto(p))
              /\ \/ Dono(p).acao = "uid" /\ Vai(p, "uid") /\ UNCHANGED enviado
                 \/ Dono(p).acao = "fila" /\ Vai(p, "corpo") /\ UNCHANGED enviado
                 \/ Dono(p).acao \notin {"uid", "fila"} /\ Encaminha(p)
  /\ UNCHANGED <<dado, captura, contexto, veio, asChaves, asUrls, osErros>>

(* The two upload routes: the body goes to a file at the pace of its       *)
(* sender, then the job to the broker, which sendToQueue awaits without a  *)
(* timeout.  Either may fail.  Module Midia has the file and the job.      *)
GravaArquivo(p) ==
  /\ pc[p] = "corpo"
  /\ Vai(p, "publica") \/ Responde(p, 500)
  /\ UNCHANGED <<dado, captura, contexto, enviado, veio, asChaves, asUrls, osErros>>

Publica(p) ==
  /\ pc[p] = "publica"
  /\ \E s \in {202, 500} : Responde(p, s)
  /\ UNCHANGED <<dado, captura, contexto, enviado, veio, asChaves, asUrls, osErros>>

(* getUrl of the uid in the path: a word that is no uid, when the route    *)
(* captures the request of another, has no row.                            *)
TemUid(p) == Escrita(p).acao \in {"uid", "endpoint"}

GetUrl(p) ==
  /\ pc[p] = "uid" /\ TemUid(p)
  /\ U!Leitor(p)
  /\ UNCHANGED <<cenario, pedidos, asChaves, osErros>>

(* Mutant: a query that fails is caught and never answered.                *)
ComUrlCalado(p) ==
  /\ pc[p] = "uid"
  /\ \/ /\ ~TemUid(p) \/ le[p] = "nenhuma"
        /\ Responde(p, 404) /\ UNCHANGED enviado
     \/ /\ le[p] = "tem" /\ Dono(p).acao = "uid"
        /\ Encaminha(p)
     \/ /\ le[p] = "tem" /\ Dono(p).acao = "endpoint"
        /\ Vai(p, "cliente") /\ UNCHANGED enviado
  /\ UNCHANGED <<dado, captura, contexto, veio, asChaves, asUrls, osErros>>

(* The key, the payload and a ping are dealt with in the step that has the *)
(* url; anything else goes to the client.  The getUrl of a word that is no *)
(* uid finds nothing, or throws like any other.                            *)
ComUrl(p) ==
  /\ pc[p] = "uid"
  /\ \/ /\ ~TemUid(p) \/ le[p] = "nenhuma"
        /\ Responde(p, 404) /\ UNCHANGED enviado
     \/ /\ (~TemUid(p) /\ "banco" \in Falhas) \/ le[p] = "erro"
        /\ Responde(p, 500) /\ UNCHANGED enviado
     \/ /\ le[p] = "tem" /\ Dono(p).acao = "uid"
        /\ Encaminha(p)
     \/ /\ le[p] = "tem" /\ Dono(p).acao = "endpoint"
        /\ Vai(p, "cliente") \/ \E s \in {200, 421, 503} : Responde(p, s)
        /\ UNCHANGED enviado
  /\ UNCHANGED <<dado, captura, contexto, veio, asChaves, asUrls, osErros>>

(* The client answers the payload, or anything else happens. *)
Cliente(p) == /\ pc[p] = "cliente"
              /\ \E s \in {200, 500} : Responde(p, s)
              /\ UNCHANGED <<dado, captura, contexto, enviado, veio, asChaves, asUrls, osErros>>

(* Meta answers, or the transport fails. *)
Meta(p) == /\ pc[p] = "meta"
           /\ \E s \in {200, 403, 502} :
                 /\ veio' = [veio EXCEPT ![p] = s]
                 /\ IF s = 200 THEN Responde(p, 200) ELSE Vai(p, "registra")
           /\ UNCHANGED <<dado, captura, contexto, enviado, asChaves, asUrls, osErros>>

(* Mutant: a row that cannot be created is a failure of the request.       *)
RegistroQueLanca(p) ==
  /\ pc[p] = "registra"
  /\ E!Persiste(<<p>>)
  /\ Responde(p, IF <<p>> \in perdidos' THEN 500 ELSE veio[p])
  /\ UNCHANGED <<dado, captura, contexto, enviado, veio, restam, lidos, asChaves, asUrls>>

(* persistirErro, then Meta's status as it came, 502 for the transport. *)
Registra(p) ==
  /\ pc[p] = "registra"
  /\ E!Persiste(<<p>>)
  /\ Responde(p, veio[p])
  /\ UNCHANGED <<dado, captura, contexto, enviado, veio, restam, lidos, asChaves, asUrls>>

Local(p) == Guarda(p) \/ GetUrl(p) \/ ComUrl(p) \/ Registra(p)

AdminDeChaves == /\ \/ \E a \in cenario.admins : C!Admin(a)
                    \/ \E i \in cenario.instancias : C!Instancia(i)
                 /\ UNCHANGED <<cenario, pedidos, asUrls, osErros>>

GestorDeUrls == /\ cenario.gestores # {}
                /\ \/ \E g \in cenario.gestores : U!Gestor(g)
                   \/ \E u \in Uids : U!Expira(u)
                /\ UNCHANGED <<cenario, pedidos, asChaves, osErros>>

LogDeErros == /\ \/ \E w \in cenario.webhooks : E!LeWebhook(w) \/ E!RegistraErro(w)
                 \/ cenario.webhooks # {} /\ (E!Envelhece \/ E!Purga)
              /\ UNCHANGED <<cenario, pedidos, asChaves, asUrls>>

(* What another party does with a request, or never does. *)
Externo(p) == Cliente(p) \/ Meta(p) \/ GravaArquivo(p) \/ Publica(p)

Next == \/ \E p \in Pedidos : Chega(p) \/ Local(p) \/ Externo(p)
        \/ AdminDeChaves \/ GestorDeUrls \/ LogDeErros

Spec == Init /\ [][Next]_vars

(* The process, Redis and the database serve a request; no call to Meta or *)
(* to a client has a timeout, nor has the wait for the body of an upload   *)
(* or for the broker, so nothing is assumed of them.                       *)
SpecJusta == Spec /\ \A p \in Pedidos : WF_vars(Local(p))

-----------------------------------------------------------------------------
TypeOK ==
  /\ cenario \in Cenarios
  /\ pc \in [Pedidos -> Pcs]
  /\ captura \in [Pedidos -> {0} \cup DOMAIN Tabela]
  /\ contexto \in [Pedidos -> Tokens \cup {Nulo}]
  /\ \A p \in Pedidos : enviado[p] # SemChamada => enviado[p].token \in Tokens \cup {Global}
  /\ veio \in [Pedidos -> {0, 200, 403, 502}]
  /\ status \in [Pedidos -> {0, 200, 202, 400, 401, 403, 404, 421, 500, 502, 503}]
  /\ C!TypeOK /\ U!TypeOK /\ E!TypeOK

(* A dead key is in the hash only for one of the causes of Chaves, and a   *)
(* cached url disagrees with its row only for one of those of Callbacks,   *)
(* with the requests reading both.                                         *)
MortaTemCausa == C!MortaTemCausa
UrlVelhaTemCausa == U!UrlVelhaTemCausa

(* No request passes the guard with a key whose revocation was answered    *)
(* 204, but for one that a create or a start wrote to the hash afterwards. *)
RevogadaNaoPassa ==
  [][\A p \in Pedidos :
        LET passa == pc[p] = "guarda" /\ pc'[p] # "guarda" /\ status'[p] \notin {401, 500}
        IN passa /\ chave[p] \in revogadas => chave[p] \in relidas]_vars

(* The token of a call is that of its own request, whatever other requests *)
(* arrive between its awaits; app routes always use the global one.        *)
TokenDoPedido ==
  \A p \in Pedidos : enviado[p] # SemChamada =>
     enviado[p].token = IF Dono(p).app \/ token[p] = Nulo THEN Global ELSE token[p]

(* The log never changes an answer: a request that was called gets the     *)
(* status of Meta as it came, and its error has a row unless that could    *)
(* not be created.  So has every error of a webhook.                       *)
RespostaFiel ==
  /\ \A p \in Pedidos : pc[p] = "fim" /\ veio[p] # 0 =>
        status[p] = veio[p] /\ (veio[p] # 200 => E!Registrado(<<p>>))
  /\ E!WebhookRegistrado

(* A request that is called or queued is called as the documents promise,  *)
(* exactly if its route is not one of the known deviations, which answer   *)
(* 400 or 404 or lose a part of the request.  The table says so of every   *)
(* route and body there is, and so do the requests, wherever they are      *)
(* stopped and whoever edits keys and urls beside them.                    *)
ComoPrometida(p) ==
  \/ status[p] = 202
  \/ enviado[p].chamada = Prometida(Escrita(p), corpo[p])

Documentada ==
  /\ TabelaConfere
  /\ \A p \in Pedidos :
       IF Desviada(Escrita(p)) THEN ~ComoPrometida(p)
       ELSE /\ enviado[p] = SemChamada \/ ComoPrometida(p)
            /\ status[p] # 400
            /\ status[p] = 404 => TemUid(p)

(* What a reader of the specs expects: a request with a valid key that is  *)
(* answered was called as documented, unless its uid has no url.           *)
TodaRotaChega ==
  \A p \in Pedidos : status[p] \in {200, 202, 400, 403, 404} /\ ~TemUid(p) => ComoPrometida(p)

(* A request stays for ever only at Meta, at the client of the endpoint,   *)
(* at the body of its own upload or at the broker, and then holds no       *)
(* other: whoever edits keys and urls and whatever of Redis and the        *)
(* database fails beside it, the guard, getUrl and the log of errors let   *)
(* it go on or answer it.                                                  *)
SoEsperaForaDoProcesso ==
  \A p \in Pedidos : <>[](pc[p] \in {"livre", "meta", "cliente", "corpo", "publica", "fim"})
=============================================================================
