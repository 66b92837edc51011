----------------------------- MODULE Proxy_proofs -----------------------------
(***************************************************************************)
(* What holds of every request below /wpp, for any number of requests,     *)
(* keys, callbacks, administrators and webhooks: first the hash of the     *)
(* keys and the cached urls by themselves, then that the steps of Proxy    *)
(* are steps of both or leave them alone, then the requests.               *)
(***************************************************************************)
EXTENDS Proxy, WellFoundedInduction, TLAPS

-----------------------------------------------------------------------------
(* The keys.                                                                 *)
LEMMA InitDasChaves == C!Init => C!Indutivo
BY DEF C!Init, C!Indutivo, C!TypeOK, C!TemLinha, C!MortaTemCausa, C!RevogadaSai,
       C!Apagada, C!Etapas

(* Every step of a call of an administrator keeps the types.                 *)
LEMMA AdminTypeOK ==
  ASSUME C!TypeOK, NEW a \in Admins, C!Admin(a)
  PROVE  C!TypeOK'
<1> USE DEF C!TypeOK, C!Etapas, C!Vai, C!tabela, C!chamadas, C!partidas, C!historia
<1>1. CASE C!Cria(a) BY <1>1 DEF C!Cria
<1>2. CASE C!CriaGrava(a) BY <1>2 DEF C!CriaGrava, C!Hset
<1>3. CASE C!Acha(a) BY <1>3 DEF C!Acha
<1>4. CASE C!NaoAcha(a) BY <1>4 DEF C!NaoAcha
<1>5. CASE C!SoftDelete(a) BY <1>5 DEF C!SoftDelete
<1>6. CASE C!Hdel(a) BY <1>6 DEF C!Hdel
<1>7. CASE C!Excecao(a) BY <1>7 DEF C!Excecao
<1> QED BY <1>1, <1>2, <1>3, <1>4, <1>5, <1>6, <1>7 DEF C!Admin

(* So does every step of an instance that starts.                            *)
LEMMA InstanciaTypeOK ==
  ASSUME C!TypeOK, NEW i \in Instancias, C!Instancia(i)
  PROVE  C!TypeOK'
<1> USE DEF C!TypeOK, C!Etapas, C!tabela, C!chamadas, C!partidas, C!historia
<1>1. CASE C!Parte(i) BY <1>1 DEF C!Parte
<1>2. CASE C!ParteGrava(i) BY <1>2 DEF C!ParteGrava, C!Hset
<1>3. CASE C!ParteFalha(i) BY <1>3 DEF C!ParteFalha
<1> QED BY <1>1, <1>2, <1>3 DEF C!Instancia

(* A row, once there, stays, and a deleted one stays deleted: every step     *)
(* only moves rows forward.                                                  *)
LinhaAvanca ==
  \A k \in Chaves : /\ linha[k] # "nenhuma" => linha'[k] # "nenhuma"
                    /\ C!Apagada(k) => linha'[k] = "apagada"

LEMMA PassoAvanca ==
  ASSUME C!Indutivo, [C!Next]_(C!vars)
  PROVE  LinhaAvanca
<1> USE DEF C!Indutivo, C!TypeOK, LinhaAvanca, C!Apagada, C!Vai, C!tabela,
            C!chamadas, C!partidas, C!historia, C!vars
<1>1. ASSUME NEW a \in Admins, C!Admin(a) PROVE LinhaAvanca
  BY <1>1 DEF C!Admin, C!Cria, C!CriaGrava, C!Acha, C!NaoAcha, C!SoftDelete, C!Hdel,
              C!Excecao, C!Hset
<1>2. ASSUME NEW i \in Instancias, C!Instancia(i) PROVE LinhaAvanca
  BY <1>2 DEF C!Instancia, C!Parte, C!ParteGrava, C!ParteFalha, C!Hset
<1> QED BY <1>1, <1>2 DEF C!Next

(* The conjuncts of the invariant under one step of an administrator.        *)
LEMMA AdminIndutivo ==
  ASSUME C!Indutivo, LinhaAvanca, NEW a \in Admins, C!Admin(a)
  PROVE  C!TemLinha' /\ C!MortaTemCausa' /\ C!RevogadaSai'
<1> USE DEF C!Indutivo, C!TypeOK, C!TemLinha, C!MortaTemCausa, C!RevogadaSai,
            LinhaAvanca, C!Apagada,
            C!Etapas, C!Vai, C!tabela, C!chamadas, C!partidas, C!historia
<1>1. CASE C!Cria(a) BY <1>1 DEF C!Cria
<1>2. CASE C!CriaGrava(a) BY <1>2 DEF C!CriaGrava, C!Hset
<1>3. CASE C!Acha(a) BY <1>3 DEF C!Acha
<1>4. CASE C!NaoAcha(a) BY <1>4 DEF C!NaoAcha
<1>5. CASE C!SoftDelete(a)
  <2>1. C!TemLinha' BY <1>5 DEF C!SoftDelete
  <2>2. C!MortaTemCausa' BY <1>5 DEF C!SoftDelete
  <2>3. C!RevogadaSai' BY <1>5 DEF C!SoftDelete
  <2> QED BY <2>1, <2>2, <2>3
<1>6. CASE C!Hdel(a)
  <2>1. C!TemLinha' BY <1>6 DEF C!Hdel
  <2>2. C!MortaTemCausa' BY <1>6 DEF C!Hdel
  <2>3. C!RevogadaSai' BY <1>6 DEF C!Hdel
  <2> QED BY <2>1, <2>2, <2>3
<1>7. CASE C!Excecao(a)
  <2>1. C!TemLinha' BY <1>7 DEF C!Excecao
  <2>2. C!MortaTemCausa' BY <1>7 DEF C!Excecao
  <2>3. C!RevogadaSai' BY <1>7 DEF C!Excecao
  <2> QED BY <2>1, <2>2, <2>3
<1> QED BY <1>1, <1>2, <1>3, <1>4, <1>5, <1>6, <1>7 DEF C!Admin

(* And under one of an instance that starts, which writes keys that may      *)
(* have been deleted since it read them.                                     *)
LEMMA InstanciaIndutivo ==
  ASSUME C!Indutivo, NEW i \in Instancias, C!Instancia(i)
  PROVE  C!TemLinha' /\ C!MortaTemCausa' /\ C!RevogadaSai'
<1> USE DEF C!Indutivo, C!TypeOK, C!TemLinha, C!MortaTemCausa, C!RevogadaSai, C!Apagada,
            C!tabela, C!chamadas, C!partidas, C!historia
<1>1. CASE C!Parte(i) BY <1>1 DEF C!Parte
<1>2. CASE C!ParteGrava(i) BY <1>2 DEF C!ParteGrava, C!Hset
<1>3. CASE C!ParteFalha(i) BY <1>3 DEF C!ParteFalha
<1> QED BY <1>1, <1>2, <1>3 DEF C!Instancia

LEMMA PassoDasChavesIndutivo == C!Indutivo /\ [C!Next]_(C!vars) => C!Indutivo'
<1> SUFFICES ASSUME C!Indutivo, [C!Next]_(C!vars) PROVE C!Indutivo'
  OBVIOUS
<1>1. C!TypeOK BY DEF C!Indutivo
<1>2. ASSUME NEW a \in Admins, C!Admin(a) PROVE C!Indutivo'
  BY <1>1, <1>2, PassoAvanca, AdminTypeOK, AdminIndutivo DEF C!Indutivo
<1>3. ASSUME NEW i \in Instancias, C!Instancia(i) PROVE C!Indutivo'
  BY <1>1, <1>3, InstanciaTypeOK, InstanciaIndutivo DEF C!Indutivo
<1>4. CASE UNCHANGED (C!vars)
  BY <1>4 DEF C!Indutivo, C!TypeOK, C!TemLinha, C!MortaTemCausa, C!RevogadaSai,
              C!Apagada, C!vars,
              C!tabela, C!chamadas, C!partidas, C!historia
<1> QED BY <1>2, <1>3, <1>4 DEF C!Next

-----------------------------------------------------------------------------
(* The urls of the callbacks.                                                *)
LEMMA InitDasUrls == U!Init => U!Indutivo
<1> SUFFICES ASSUME U!Init PROVE U!Indutivo
  OBVIOUS
<1>1. U!TypeOK BY DEF U!Init, U!TypeOK, U!Leituras, U!Escritas
<1>2. U!UrlVelhaTemCausa /\ U!GestorTemLinha
  BY DEF U!Init, U!UrlVelhaTemCausa, U!Velha, U!GestorTemLinha
<1> QED BY <1>1, <1>2 DEF U!Indutivo

(* A url that is read is one of Urls or none.                                *)
LEMMA VigenteTipo ==
  ASSUME U!TypeOK, NEW u \in Uids
  PROVE  U!Vigente(u) \in Urls \cup {Nulo}
BY DEF U!TypeOK, U!Vigente

LEMMA PassoDosTiposDasUrls == U!TypeOK /\ [U!Next]_(U!vars) => U!TypeOK'
<1> SUFFICES ASSUME U!TypeOK, [U!Next]_(U!vars) PROVE U!TypeOK'
  OBVIOUS
<1> USE DEF U!TypeOK, U!Leituras, U!Escritas, U!linhas, U!leituras, U!escritas
<1>1. ASSUME NEW l \in Pedidos, U!Consulta(l) PROVE U!TypeOK'
  BY <1>1 DEF U!Consulta
<1>2. ASSUME NEW l \in Pedidos, U!FindByUid(l) PROVE U!TypeOK'
  BY <1>2, VigenteTipo DEF U!FindByUid
<1>3. ASSUME NEW l \in Pedidos, U!GravaCache(l) PROVE U!TypeOK'
  BY <1>3 DEF U!GravaCache
<1>4. ASSUME NEW l \in Pedidos, U!LeituraFalha(l) PROVE U!TypeOK'
  BY <1>4 DEF U!LeituraFalha
<1>5. ASSUME NEW g \in Gestores, U!Cria(g) \/ U!Acha(g) PROVE U!TypeOK'
  BY <1>5 DEF U!Cria, U!Acha
<1>6. ASSUME NEW g \in Gestores, U!Escreve(g) PROVE U!TypeOK'
  BY <1>6 DEF U!Escreve
<1>7. ASSUME NEW g \in Gestores, U!Invalida(g) \/ U!EscritaFalha(g) PROVE U!TypeOK'
  BY <1>7 DEF U!Invalida, U!EscritaFalha
<1>8. ASSUME NEW u \in Uids, U!Expira(u) PROVE U!TypeOK'
  BY <1>8 DEF U!Expira
<1>9. CASE UNCHANGED (U!vars)
  BY <1>9 DEF U!vars
<1> QED BY <1>1, <1>2, <1>3, <1>4, <1>5, <1>6, <1>7, <1>8, <1>9 DEF U!Next, U!Leitor,
                                                                    U!Gestor

(* A call that writes has found a row, and rows never vanish.                *)
LEMMA PassoGestorTemLinha ==
  ASSUME U!Indutivo, [U!Next]_(U!vars)
  PROVE  U!GestorTemLinha'
<1> USE NuloAssumption DEF U!Indutivo, U!TypeOK, U!GestorTemLinha, U!linhas,
                           U!leituras, U!escritas
<1>1. ASSUME NEW l \in Pedidos, U!Leitor(l) PROVE U!GestorTemLinha'
  BY <1>1 DEF U!Leitor, U!Consulta, U!FindByUid, U!GravaCache, U!LeituraFalha
<1>2. ASSUME NEW g \in Gestores, U!Cria(g) PROVE U!GestorTemLinha'
  BY <1>2 DEF U!Cria
<1>3. ASSUME NEW g \in Gestores, U!Acha(g) \/ U!Escreve(g) PROVE U!GestorTemLinha'
  BY <1>3 DEF U!Acha, U!Escreve, U!Viva
<1>4. ASSUME NEW g \in Gestores, U!Invalida(g) \/ U!EscritaFalha(g) PROVE
    U!GestorTemLinha'
  BY <1>4 DEF U!Invalida, U!EscritaFalha
<1>5. ASSUME NEW u \in Uids, U!Expira(u) PROVE U!GestorTemLinha'
  BY <1>5 DEF U!Expira
<1>6. CASE UNCHANGED (U!vars)
  BY <1>6 DEF U!vars
<1> QED BY <1>1, <1>2, <1>3, <1>4, <1>5, <1>6 DEF U!Next, U!Gestor

(* The causes of a stale key, one step at a time.                            *)
LEMMA PassoUrlVelha ==
  ASSUME U!Indutivo, [U!Next]_(U!vars)
  PROVE  U!UrlVelhaTemCausa'
<1> USE DEF U!Indutivo, U!TypeOK, U!UrlVelhaTemCausa, U!Velha, U!Vigente, U!Viva,
            U!linhas, U!leituras, U!escritas
<1>1. ASSUME NEW l \in Pedidos, U!Consulta(l) \/ U!FindByUid(l) \/ U!LeituraFalha(l)
      PROVE  U!UrlVelhaTemCausa'
  BY <1>1 DEF U!Consulta, U!FindByUid, U!LeituraFalha
<1>2. ASSUME NEW l \in Pedidos, U!GravaCache(l) PROVE U!UrlVelhaTemCausa'
  BY <1>2 DEF U!GravaCache
<1>3. ASSUME NEW g \in Gestores, U!Cria(g) PROVE U!UrlVelhaTemCausa'
  BY <1>3, NuloAssumption DEF U!Cria, U!GestorTemLinha
<1>4. ASSUME NEW g \in Gestores, U!Acha(g) PROVE U!UrlVelhaTemCausa'
  BY <1>4 DEF U!Acha
<1>5. ASSUME NEW g \in Gestores, U!Escreve(g) PROVE U!UrlVelhaTemCausa'
  BY <1>5 DEF U!Escreve
<1>6. ASSUME NEW g \in Gestores, U!Invalida(g) PROVE U!UrlVelhaTemCausa'
  BY <1>6 DEF U!Invalida
<1>7. ASSUME NEW g \in Gestores, U!EscritaFalha(g) PROVE U!UrlVelhaTemCausa'
  BY <1>7 DEF U!EscritaFalha
<1>8. ASSUME NEW u \in Uids, U!Expira(u) PROVE U!UrlVelhaTemCausa'
  BY <1>8 DEF U!Expira
<1>9. CASE UNCHANGED (U!vars)
  BY <1>9 DEF U!vars
<1> QED BY <1>1, <1>2, <1>3, <1>4, <1>5, <1>6, <1>7, <1>8, <1>9 DEF U!Next, U!Leitor,
                                                                    U!Gestor

LEMMA PassoDasUrlsIndutivo == U!Indutivo /\ [U!Next]_(U!vars) => U!Indutivo'
BY PassoDosTiposDasUrls, PassoGestorTemLinha, PassoUrlVelha DEF U!Indutivo

-----------------------------------------------------------------------------
(* A scenario starts only what there is.                                     *)
LEMMA CenarioCabe ==
  ASSUME cenario \in Cenarios
  PROVE  /\ cenario.admins \subseteq Admins /\ cenario.instancias \subseteq Instancias
         /\ cenario.gestores \subseteq Gestores /\ cenario.webhooks \subseteq Webhooks
BY CenariosAssumption

(* Proxy is Chaves, seen from the keys.                                      *)
LEMMA PassoDasChaves ==
  ASSUME cenario \in Cenarios, [Next]_vars
  PROVE  [C!Next]_(C!vars) /\ cenario' \in Cenarios
<1> USE DEF asChaves, C!vars, C!tabela, C!chamadas, C!partidas, C!historia, dado
<1>1. ASSUME NEW p \in Pedidos, Chega(p) \/ Local(p) \/ Externo(p)
      PROVE  UNCHANGED (C!vars) /\ UNCHANGED cenario
  BY <1>1 DEF Chega, Local, Guarda, GetUrl, ComUrl, Registra, Externo, Cliente, Meta,
              GravaArquivo, Publica
<1>2. CASE AdminDeChaves
  BY <1>2, CenarioCabe DEF AdminDeChaves, C!Next
<1>3. CASE GestorDeUrls \/ LogDeErros
  BY <1>3 DEF GestorDeUrls, LogDeErros
<1>4. CASE UNCHANGED vars
  BY <1>4 DEF vars
<1> QED BY <1>1, <1>2, <1>3, <1>4 DEF Next

(* And Callbacks, seen from the urls.                                        *)
LEMMA PassoDasUrls ==
  ASSUME cenario \in Cenarios, [Next]_vars
  PROVE  [U!Next]_(U!vars)
<1> USE DEF asUrls, U!vars, U!linhas, U!leituras, U!escritas
<1>1. ASSUME NEW p \in Pedidos, Chega(p) \/ Guarda(p) \/ ComUrl(p) \/ Registra(p)
                                  \/ Externo(p)
      PROVE  UNCHANGED (U!vars)
  BY <1>1 DEF Chega, Guarda, ComUrl, Registra, Externo, Cliente, Meta, GravaArquivo, Publica
<1>2. ASSUME NEW p \in Pedidos, GetUrl(p) PROVE U!Next
  BY <1>2 DEF GetUrl, U!Next
<1>3. CASE GestorDeUrls
  BY <1>3, CenarioCabe DEF GestorDeUrls, U!Next
<1>4. CASE AdminDeChaves \/ LogDeErros
  BY <1>4 DEF AdminDeChaves, LogDeErros
<1>5. CASE UNCHANGED vars
  BY <1>5 DEF vars
<1> QED BY <1>1, <1>2, <1>3, <1>4, <1>5 DEF Next, Local, Externo

DosDois == cenario \in Cenarios /\ C!Indutivo /\ U!Indutivo

LEMMA SempreDosDois == Spec => []DosDois
<1>1. Init => DosDois
  BY InitDasChaves, InitDasUrls DEF Init, DosDois
<1>2. DosDois /\ [Next]_vars => DosDois'
  BY PassoDasChaves, PassoDasUrls, PassoDasChavesIndutivo, PassoDasUrlsIndutivo DEF DosDois
<1> QED BY <1>1, <1>2, PTL DEF Spec

(* A deleted key is in the hash, whatever requests read it, only between the *)
(* two writes of its revoke, after one that failed half-way, or because one  *)
(* that had read the row wrote it again.                                     *)
THEOREM ChaveMortaTemCausa == Spec => []MortaTemCausa
<1>1. DosDois => MortaTemCausa BY DEF DosDois, C!Indutivo, MortaTemCausa
<1> QED BY <1>1, SempreDosDois, PTL

(* A cached url disagrees with its row only while the call that wrote the    *)
(* row has yet to delete the key, if that deletion failed, or after a late   *)
(* write of a reader.                                                        *)
THEOREM UrlVelhaExplicada == Spec => []UrlVelhaTemCausa
<1>1. DosDois => UrlVelhaTemCausa BY DEF DosDois, U!Indutivo, UrlVelhaTemCausa
<1> QED BY <1>1, SempreDosDois, PTL

-----------------------------------------------------------------------------
(* The requests.  What the process keeps for each of them:                   *)
Funcoes == /\ cenario \in Cenarios
           /\ pc \in [Pedidos -> Pcs]
           /\ captura = [p \in Pedidos |-> captura[p]]
           /\ contexto = [p \in Pedidos |-> contexto[p]]
           /\ enviado = [p \in Pedidos |-> enviado[p]]
           /\ veio \in [Pedidos -> {0, 200, 403, 502}]
           /\ status = [p \in Pedidos |-> status[p]]
           /\ restam = [w \in Webhooks |-> restam[w]]

(* A request that has begun has its own token in its context, and one that   *)
(* has not has called nobody.                                                *)
Contextos == /\ \A p \in Pedidos : IF pc[p] = "livre" THEN enviado[p] = SemChamada
                                                   ELSE contexto[p] = token[p]
             /\ TokenDoPedido

(* Meta's status is known from its answer on.                                *)
Respostas == /\ \A p \in Pedidos : pc[p] \notin {"registra", "fim"} => veio[p] = 0
             /\ RespostaFiel

(* The steps that are of no request.                                         *)
Outros == AdminDeChaves \/ GestorDeUrls \/ LogDeErros

LEMMA PassoFuncoes == Funcoes /\ [Next]_vars => Funcoes'
<1> SUFFICES ASSUME Funcoes, [Next]_vars PROVE Funcoes'
  OBVIOUS
<1> USE DEF Funcoes, Pcs, Vai, Responde, dado, osErros
<1>1. ASSUME NEW p \in Pedidos, Chega(p) PROVE Funcoes'
  <2>1. /\ pc' \in [Pedidos -> Pcs]
        /\ status' = [q \in Pedidos |-> status'[q]]
    BY <1>1 DEF Chega
  <2>2. captura' = [q \in Pedidos |-> captura'[q]]
    BY <1>1 DEF Chega
  <2>3. contexto' = [q \in Pedidos |-> contexto'[q]]
    BY <1>1 DEF Chega, Contexto
  <2> QED BY <1>1, <2>1, <2>2, <2>3 DEF Chega
<1>2. ASSUME NEW p \in Pedidos, Guarda(p) PROVE Funcoes'
  BY <1>2 DEF Guarda, Encaminha
<1>3. ASSUME NEW p \in Pedidos, GetUrl(p) PROVE Funcoes'
  BY <1>3 DEF GetUrl, pedidos
<1>4. ASSUME NEW p \in Pedidos, ComUrl(p) PROVE Funcoes'
  BY <1>4 DEF ComUrl, Encaminha
<1>5. ASSUME NEW p \in Pedidos, Cliente(p) \/ GravaArquivo(p) \/ Publica(p) PROVE Funcoes'
  BY <1>5 DEF Cliente, GravaArquivo, Publica
<1>6. ASSUME NEW p \in Pedidos, Meta(p) PROVE Funcoes'
  BY <1>6 DEF Meta
<1>7. ASSUME NEW p \in Pedidos, Registra(p) PROVE Funcoes'
  BY <1>7 DEF Registra
<1>8. CASE Outros
  <2>1. UNCHANGED <<cenario, pedidos>>
    BY <1>8 DEF Outros, AdminDeChaves, GestorDeUrls, LogDeErros
  <2>2. restam' = [w \in Webhooks |-> restam'[w]]
    BY <1>8 DEF Outros, AdminDeChaves, GestorDeUrls, LogDeErros,
                E!LeWebhook, E!RegistraErro, E!Envelhece, E!Purga
  <2> QED BY <2>1, <2>2 DEF pedidos
<1>9. CASE UNCHANGED vars
  BY <1>9 DEF vars, pedidos
<1> QED BY <1>1, <1>2, <1>3, <1>4, <1>5, <1>6, <1>7, <1>8, <1>9 DEF Next, Local, Externo, Outros

(* The token of a call is fixed when the call is made, from a context that   *)
(* only the arrival of its own request writes.                               *)
LEMMA PassoContextos ==
  ASSUME Funcoes, Contextos, [Next]_vars
  PROVE  Contextos'
<1> USE DEF Funcoes, Contextos, TokenDoPedido, Dono, SemChamada, Vai, Responde, dado
<1>1. ASSUME NEW p \in Pedidos, Chega(p) PROVE Contextos'
  BY <1>1 DEF Chega, Contexto
<1>2. ASSUME NEW p \in Pedidos, Encaminha(p), pc[p] # "livre",
             UNCHANGED <<dado, captura, contexto>>
      PROVE  Contextos'
  BY <1>2 DEF Encaminha, Token
<1>3. ASSUME NEW p \in Pedidos, pc[p] # "livre",
             UNCHANGED <<dado, captura, contexto, enviado>>,
             \E e \in Pcs \ {"livre"} : pc' = [pc EXCEPT ![p] = e]
      PROVE  Contextos'
  BY <1>3
<1>4. ASSUME NEW p \in Pedidos, Guarda(p) PROVE Contextos'
  BY <1>4, <1>2, <1>3 DEF Guarda, Pcs
<1>5. ASSUME NEW p \in Pedidos, ComUrl(p) PROVE Contextos'
  BY <1>5, <1>2, <1>3 DEF ComUrl, Pcs
<1>6. ASSUME NEW p \in Pedidos, Externo(p) \/ Registra(p) PROVE Contextos'
  BY <1>6, <1>3 DEF Externo, Cliente, Meta, GravaArquivo, Publica, Registra, Pcs
<1>7. ASSUME NEW p \in Pedidos, GetUrl(p) PROVE Contextos'
  BY <1>7 DEF GetUrl, pedidos
<1>8. CASE Outros \/ UNCHANGED vars
  BY <1>8 DEF Outros, AdminDeChaves, GestorDeUrls, LogDeErros, vars, pedidos
<1> QED BY <1>1, <1>4, <1>5, <1>6, <1>7, <1>8 DEF Next, Local, Externo, Outros

(* An error that is in the log, was, or could not be, stays so, and those of *)
(* a webhook are never dropped.                                              *)
LEMMA PassoDoLog ==
  ASSUME Funcoes, E!WebhookRegistrado, [Next]_vars
  PROVE  E!WebhookRegistrado' /\ \A x : E!Registrado(x) => E!Registrado(x)'
<1> USE DEF Funcoes, E!WebhookRegistrado, E!Registrado, osErros
<1> DEFINE Bom == E!WebhookRegistrado' /\ \A x : E!Registrado(x) => E!Registrado(x)'
<1>1. ASSUME NEW p \in Pedidos, Chega(p) \/ Guarda(p) \/ GetUrl(p) \/ ComUrl(p)
                                  \/ Externo(p)
      PROVE  Bom
  BY <1>1 DEF Chega, Guarda, GetUrl, ComUrl, Externo, Cliente, Meta, GravaArquivo, Publica
<1>2. ASSUME NEW p \in Pedidos, Registra(p) PROVE Bom
  BY <1>2 DEF Registra, E!Persiste
<1>3. ASSUME NEW w \in Webhooks, E!LeWebhook(w) PROVE Bom
  BY <1>3 DEF E!LeWebhook
<1>4. ASSUME NEW w \in Webhooks, E!RegistraErro(w) PROVE Bom
  BY <1>4 DEF E!RegistraErro, E!Persiste
<1>5. CASE E!Envelhece \/ E!Purga
  BY <1>5 DEF E!Envelhece, E!Purga
<1>6. CASE LogDeErros
  BY <1>6, <1>3, <1>4, <1>5, CenarioCabe DEF LogDeErros
<1>7. CASE AdminDeChaves \/ GestorDeUrls \/ UNCHANGED vars
  BY <1>7 DEF AdminDeChaves, GestorDeUrls, vars
<1> QED BY <1>1, <1>2, <1>6, <1>7 DEF Next, Local, Externo

(* Every answer after a call is Meta's, and an error has been dealt with by  *)
(* the log before it.                                                        *)
LEMMA PassoRespostas ==
  ASSUME Funcoes, Respostas, [Next]_vars
  PROVE  Respostas'
<1>1. E!WebhookRegistrado' /\ \A x : E!Registrado(x) => E!Registrado(x)'
  BY PassoDoLog DEF Respostas, RespostaFiel
<1> USE <1>1 DEF Funcoes, Respostas, RespostaFiel, Vai, Responde
<1>2. ASSUME NEW p \in Pedidos, Chega(p) PROVE Respostas'
  BY <1>2 DEF Chega
<1>3. ASSUME NEW p \in Pedidos, Guarda(p) PROVE Respostas'
  BY <1>3 DEF Guarda, Encaminha
<1>4. ASSUME NEW p \in Pedidos, ComUrl(p) PROVE Respostas'
  BY <1>4 DEF ComUrl, Encaminha
<1>5. ASSUME NEW p \in Pedidos, Cliente(p) \/ GravaArquivo(p) \/ Publica(p)
      PROVE  Respostas'
  BY <1>5 DEF Cliente, GravaArquivo, Publica
<1>6. ASSUME NEW p \in Pedidos, Meta(p) PROVE Respostas'
  BY <1>6 DEF Meta
<1>7. ASSUME NEW p \in Pedidos, Registra(p) PROVE Respostas'
  <2>1. E!Registrado(<<p>>)'
    BY <1>7 DEF Registra, E!Persiste, E!Registrado
  <2> QED BY <1>7, <2>1 DEF Registra
<1>8. ASSUME NEW p \in Pedidos, GetUrl(p) PROVE Respostas'
  BY <1>8 DEF GetUrl, pedidos
<1>9. CASE Outros \/ UNCHANGED vars
  BY <1>9 DEF Outros, AdminDeChaves, GestorDeUrls, LogDeErros, vars, pedidos
<1> QED BY <1>2, <1>3, <1>4, <1>5, <1>6, <1>7, <1>8, <1>9 DEF Next, Local, Externo, Outros

Indutivo == DosDois /\ Funcoes /\ Contextos /\ Respostas

LEMMA SempreIndutivo == Spec => []Indutivo
<1>1. Init => Funcoes /\ Contextos /\ Respostas
  BY DEF Init, Funcoes, Pcs, Contextos, TokenDoPedido, Respostas, RespostaFiel,
         E!Init, E!WebhookRegistrado
<1>2. Indutivo /\ [Next]_vars => (Funcoes /\ Contextos /\ Respostas)'
  BY PassoFuncoes, PassoContextos, PassoRespostas DEF Indutivo
<1>3. (DosDois /\ Funcoes /\ Contextos /\ Respostas) <=> Indutivo
  BY DEF Indutivo
<1> QED BY <1>1, <1>2, <1>3, SempreDosDois, PTL DEF Spec

(* The token of a call is that of its own request, whatever other requests   *)
(* arrive between its awaits; app routes always use the global one.          *)
THEOREM TokenIsolado == Spec => []TokenDoPedido
<1>1. Indutivo => TokenDoPedido BY DEF Indutivo, Contextos
<1> QED BY <1>1, SempreIndutivo, PTL

(* A request that was called is answered with the status of Meta, and its    *)
(* error and those of the webhooks have their rows, or could not.            *)
THEOREM RespondeComoAMeta == Spec => []RespostaFiel
<1>1. Indutivo => RespostaFiel BY DEF Indutivo, Respostas
<1> QED BY <1>1, SempreIndutivo, PTL

(* A request that leaves the guard with neither 401 nor 500 has a key of the *)
(* hash.                                                                     *)
LEMMA PassaComChave ==
  ASSUME Funcoes, [Next]_vars, NEW p \in Pedidos,
         pc[p] = "guarda", pc'[p] # "guarda", status'[p] \notin {401, 500}
  PROVE  chave[p] \in hash
<1> USE DEF Funcoes, Vai, Responde
<1>1. ASSUME NEW q \in Pedidos, q # p, \E e \in Pcs : pc' = [pc EXCEPT ![q] = e] PROVE FALSE
  BY <1>1
<1>2. ASSUME NEW q \in Pedidos, Guarda(q) PROVE chave[p] \in hash
  <2>1. CASE q = p
    BY <1>2, <2>1 DEF Guarda, ChaveValida
  <2>2. CASE q # p
    BY <1>2, <2>2, <1>1 DEF Guarda, Encaminha, Pcs
  <2> QED BY <2>1, <2>2
<1>3. ASSUME NEW q \in Pedidos,
             Chega(q) \/ ComUrl(q) \/ Externo(q) \/ Registra(q)
      PROVE  FALSE
  <2>1. q # p
    BY <1>3 DEF Chega, ComUrl, Externo, Cliente, Meta, GravaArquivo, Publica, Registra
  <2> QED BY <1>3, <2>1, <1>1 DEF Chega, ComUrl, Encaminha, Externo, Cliente, Meta,
                                  GravaArquivo, Publica, Registra, Pcs
<1>4. ASSUME NEW q \in Pedidos, GetUrl(q) PROVE FALSE
  BY <1>4 DEF GetUrl, pedidos
<1>5. CASE Outros \/ UNCHANGED vars
  BY <1>5 DEF Outros, AdminDeChaves, GestorDeUrls, LogDeErros, vars, pedidos
<1> QED BY <1>2, <1>3, <1>4, <1>5 DEF Next, Local, Externo, Outros

(* No request passes the guard with a key whose revocation was answered 204, *)
(* but for one that a create or a start wrote to the hash afterwards.        *)
THEOREM RevogadaFicaFora == Spec => RevogadaNaoPassa
<1> DEFINE Passo == \A p \in Pedidos :
             LET passa == pc[p] = "guarda" /\ pc'[p] # "guarda" /\ status'[p] \notin {401, 500}
             IN passa /\ chave[p] \in revogadas => chave[p] \in relidas
<1>1. Indutivo /\ [Next]_vars => Passo
  BY PassaComChave DEF Indutivo, DosDois, C!Indutivo, C!RevogadaSai
<1> QED BY <1>1, SempreIndutivo, PTL DEF Spec, RevogadaNaoPassa

-----------------------------------------------------------------------------
(* The table.  Its indices are numbers, so that a request always has a first *)
(* route that matches it.                                                    *)
LEMMA DominioConcat ==
  ASSUME NEW s, NEW t
  PROVE  DOMAIN (s \o t) = 1..(Len(s) + Len(t))
OBVIOUS

LEMMA DominioNat == ASSUME NEW n PROVE 1..n \subseteq Nat
OBVIOUS

LEMMA TabelaDominio == DOMAIN Tabela \subseteq Nat
BY DominioConcat, DominioNat DEF Tabela

LEMMA Menor ==
  ASSUME NEW S, S \subseteq Nat, S # {}
  PROVE  \E j \in S : \A i \in S : j <= i
<1> DEFINE R == OpToRel(<, Nat)
<1>1. IsWellFoundedOn(R, Nat)
  BY NatLessThanWellFounded
<1>2. PICK j \in S : \A i \in S : ~(<<i, j>> \in R)
  BY <1>1, WFMin
<1>3. \A i \in S : ~(i < j)
  BY <1>2 DEF OpToRel
<1> QED BY <1>3

LEMMA AtendeTipo ==
  ASSUME NEW k \in DOMAIN Tabela
  PROVE  Atende[k] \in DOMAIN Tabela
<1>1. k \in Candidatas(k)
  BY DEF Candidatas, Casa
<1>2. Candidatas(k) \subseteq DOMAIN Tabela
  BY DEF Candidatas
<1>3. \E j \in Candidatas(k) : \A i \in Candidatas(k) : j <= i
  BY <1>1, <1>2, TabelaDominio, Menor
<1> QED BY <1>2, <1>3 DEF Atende

-----------------------------------------------------------------------------
(* The log of errors.                                                        *)
LEMMA PersisteTipo ==
  ASSUME E!TypeOK, NEW x \in E!Registraveis, E!Persiste(x)
  PROVE  /\ registros' \subseteq E!Registraveis /\ antigos' \subseteq registros'
         /\ purgados' \subseteq E!Registraveis /\ perdidos' \subseteq E!Registraveis
BY DEF E!TypeOK, E!Persiste

LEMMA LogTypeOK ==
  ASSUME cenario \in Cenarios, E!TypeOK, [Next]_vars
  PROVE  E!TypeOK'
<1> USE DEF E!TypeOK, osErros
<1>1. ASSUME NEW p \in Pedidos, Chega(p) \/ Guarda(p) \/ GetUrl(p) \/ ComUrl(p)
                                  \/ Externo(p)
      PROVE  E!TypeOK'
  BY <1>1 DEF Chega, Guarda, GetUrl, ComUrl, Externo, Cliente, Meta, GravaArquivo, Publica
<1>2. ASSUME NEW p \in Pedidos, Registra(p) PROVE E!TypeOK'
  <2>1. <<p>> \in E!Registraveis BY DEF E!Registraveis
  <2> QED BY <1>2, <2>1, PersisteTipo DEF Registra
<1>3. ASSUME NEW w \in Webhooks, E!LeWebhook(w) PROVE E!TypeOK'
  <2>1. E!Achados(w) \subseteq E!Registraveis BY DEF E!Registraveis
  <2> QED BY <1>3, <2>1 DEF E!LeWebhook
<1>4. ASSUME NEW w \in Webhooks, E!RegistraErro(w) PROVE E!TypeOK'
  <2>1. PICK x \in restam[w] : /\ E!Persiste(x)
                               /\ restam' = [restam EXCEPT ![w] = @ \ {x}]
                               /\ UNCHANGED lidos
    BY <1>4 DEF E!RegistraErro
  <2>2. x \in E!Registraveis OBVIOUS
  <2>3. restam' \in [Webhooks -> SUBSET E!Registraveis] BY <2>1
  <2> QED BY <2>1, <2>2, <2>3, PersisteTipo
<1>5. CASE E!Envelhece \/ E!Purga
  BY <1>5 DEF E!Envelhece, E!Purga
<1>6. CASE LogDeErros
  BY <1>6, <1>3, <1>4, <1>5, CenarioCabe DEF LogDeErros
<1>7. CASE AdminDeChaves \/ GestorDeUrls \/ UNCHANGED vars
  BY <1>7 DEF AdminDeChaves, GestorDeUrls, vars
<1> QED BY <1>1, <1>2, <1>6, <1>7 DEF Next, Local, Externo

-----------------------------------------------------------------------------
(* What the requests carry: routes, tokens and bodies there are, and a       *)
(* request of the scenario a body of its own route.                          *)
Carregam == /\ rota \in [Pedidos -> DOMAIN Tabela]
            /\ token \in [Pedidos -> Tokens \cup {Nulo}]
            /\ \A p \in Pedidos : \E i \in DOMAIN Tabela : corpo[p] \in Tabela[i].corpos
            /\ \A p \in cenario.pedidos : corpo[p] \in Escrita(p).corpos

LEMMA PassoCarregam == Carregam /\ [Next]_vars => Carregam'
<1>1. [Next]_vars => UNCHANGED dado
  BY DEF Next, Local, Externo, Chega, Guarda, GetUrl, ComUrl, Registra, Cliente, Meta,
         GravaArquivo, Publica, AdminDeChaves, GestorDeUrls, LogDeErros, pedidos, vars, dado
<1> QED BY <1>1 DEF Carregam, Escrita, dado

StatusDados == {0, 200, 202, 400, 401, 403, 404, 421, 500, 502, 503}

(* What the process keeps for them is of its type.                           *)
Guardado == /\ captura \in [Pedidos -> {0} \cup DOMAIN Tabela]
            /\ contexto \in [Pedidos -> Tokens \cup {Nulo}]
            /\ status \in [Pedidos -> StatusDados]

LEMMA PassoGuardado ==
  ASSUME Funcoes, Carregam, Guardado, [Next]_vars
  PROVE  Guardado'
<1> USE DEF Funcoes, Guardado, StatusDados, Vai, Responde, dado
<1>1. ASSUME NEW p \in Pedidos, Chega(p) PROVE Guardado'
  <2>1. Atende[rota[p]] \in DOMAIN Tabela BY AtendeTipo DEF Carregam
  <2>2. captura' \in [Pedidos -> {0} \cup DOMAIN Tabela] BY <1>1, <2>1 DEF Chega
  <2>3. contexto' \in [Pedidos -> Tokens \cup {Nulo}]
    BY <1>1 DEF Chega, Contexto, Carregam
  <2>4. status' \in [Pedidos -> StatusDados] BY <1>1 DEF Chega
  <2> QED BY <2>2, <2>3, <2>4
<1>2. ASSUME NEW p \in Pedidos, Guarda(p) PROVE Guardado'
  BY <1>2 DEF Guarda, Encaminha
<1>3. ASSUME NEW p \in Pedidos, GetUrl(p) PROVE Guardado'
  BY <1>3 DEF GetUrl, pedidos
<1>4. ASSUME NEW p \in Pedidos, ComUrl(p) PROVE Guardado'
  BY <1>4 DEF ComUrl, Encaminha
<1>5. ASSUME NEW p \in Pedidos, Externo(p) \/ Registra(p) PROVE Guardado'
  BY <1>5 DEF Externo, Cliente, Meta, GravaArquivo, Publica, Registra
<1>6. CASE Outros \/ UNCHANGED vars
  BY <1>6 DEF Outros, AdminDeChaves, GestorDeUrls, LogDeErros, vars, pedidos
<1> QED BY <1>1, <1>2, <1>3, <1>4, <1>5, <1>6 DEF Next, Local, Externo, Outros

-----------------------------------------------------------------------------
(* Where a request is tells what the pipes and its handler have said: a call *)
(* is the one its handler makes of an admitted request, and each refusal has *)
(* its reason.                                                               *)
Admitida(p) == Admite(Dono(p), Visto(p))

Andamento(p) ==
  /\ pc[p] # "livre" => p \in cenario.pedidos /\ captura[p] = Atende[rota[p]]
  /\ pc[p] # "fim" => status[p] = 0
  /\ pc[p] \in {"livre", "guarda", "uid", "corpo", "publica"} => enviado[p] = SemChamada
  /\ pc[p] = "guarda" => Dono(p).acao # "endpoint"
  /\ pc[p] = "uid" => /\ Dono(p).acao \in {"uid", "endpoint"}
                      /\ Dono(p).acao = "uid" => Admitida(p)
  /\ pc[p] \in {"corpo", "publica"} => Admitida(p) /\ Dono(p).acao = "fila"
  /\ enviado[p] # SemChamada =>
       /\ pc[p] # "livre"
       /\ Admitida(p) /\ Dono(p).acao # "fila"
       /\ enviado[p].chamada = Chamada(Dono(p), Escrita(p), corpo[p])
  /\ status[p] = 202 => Admitida(p) /\ Dono(p).acao = "fila"
  /\ status[p] = 400 => ~Admitida(p)
  /\ status[p] = 404 => Dono(p).acao \in {"uid", "endpoint"}

Andamentos == \A p \in Pedidos : Andamento(p)

(* A step says nothing of the requests it is not of.                         *)
LEMMA Quieto ==
  ASSUME NEW p \in Pedidos, Andamento(p), UNCHANGED dado,
         pc'[p] = pc[p], captura'[p] = captura[p],
         enviado'[p] = enviado[p], status'[p] = status[p]
  PROVE  Andamento(p)'
<1>1. Dono(p)' = Dono(p) /\ Escrita(p)' = Escrita(p) BY DEF Dono, Escrita, dado
<1>2. Visto(p)' = Visto(p) BY <1>1 DEF Visto, dado
<1>3. Admitida(p)' = Admitida(p) BY <1>1, <1>2 DEF Admitida
<1> QED BY <1>1, <1>3 DEF Andamento, dado

LEMMA ChegaAndamento ==
  ASSUME Funcoes, Andamentos, NEW p \in Pedidos, Chega(p)
  PROVE  Andamento(p)'
<1> USE DEF Funcoes, Vai, Responde, dado
<1>1. /\ pc[p] = "livre" /\ p \in cenario.pedidos
      /\ captura'[p] = Atende[rota[p]] /\ UNCHANGED <<dado, enviado>>
  BY DEF Chega
<1>2. enviado[p] = SemChamada /\ status[p] = 0
  BY <1>1 DEF Andamentos, Andamento
<1>3. \/ pc'[p] = "uid" /\ status'[p] = 0 /\ Dono(p)'.acao = "endpoint"
      \/ pc'[p] = "guarda" /\ status'[p] = 0 /\ Dono(p)'.acao # "endpoint"
      \/ pc'[p] = "fim" /\ status'[p] = 401
  BY <1>1, <1>2 DEF Chega, Dono
<1> QED BY <1>1, <1>2, <1>3 DEF Andamento

(* The call is made of a request whose handler is in captura.                *)
LEMMA EncaminhaAndamento ==
  ASSUME Funcoes, Andamentos, NEW p \in Pedidos, Encaminha(p), pc[p] # "livre",
         pc[p] # "fim", Admitida(p), Dono(p).acao # "fila", UNCHANGED <<dado, captura>>
  PROVE  Andamento(p)'
<1>1. Dono(p)' = Dono(p) /\ Escrita(p)' = Escrita(p) BY DEF Dono, Escrita, dado
<1>2. Visto(p)' = Visto(p) BY <1>1 DEF Visto, dado
<1>3. Admitida(p)' BY <1>1, <1>2 DEF Admitida
<1>4. /\ pc'[p] = "meta" /\ status'[p] = 0
      /\ enviado'[p].chamada = Chamada(Dono(p), Escrita(p), corpo[p])
  BY DEF Encaminha, Vai, Funcoes, Andamentos, Andamento
<1>5. p \in cenario'.pedidos /\ captura'[p] = Atende[rota'[p]]
  BY DEF Andamentos, Andamento, dado
<1> QED BY <1>1, <1>3, <1>4, <1>5 DEF Andamento, dado

(* An answer without a call, of a request that made none.                    *)
LEMMA RespondeAndamento ==
  ASSUME Funcoes, Andamentos, NEW p \in Pedidos, NEW s, Responde(p, s), pc[p] # "livre",
         s = 202 => Admitida(p) /\ Dono(p).acao = "fila",
         s = 400 => ~Admitida(p),
         s = 404 => Dono(p).acao \in {"uid", "endpoint"},
         UNCHANGED <<dado, captura, enviado>>
  PROVE  Andamento(p)'
<1>1. Dono(p)' = Dono(p) /\ Escrita(p)' = Escrita(p) BY DEF Dono, Escrita, dado
<1>2. Visto(p)' = Visto(p) BY <1>1 DEF Visto, dado
<1>3. Admitida(p)' = Admitida(p) BY <1>1, <1>2 DEF Admitida
<1>4. pc'[p] = "fim" /\ status'[p] = s BY DEF Responde, Funcoes
<1> QED BY <1>1, <1>3, <1>4 DEF Andamentos, Andamento, dado

(* A wait of a request that has passed the pipes, or needs none.             *)
LEMMA VaiAndamento ==
  ASSUME Funcoes, Andamentos, NEW p \in Pedidos, NEW e \in {"uid", "corpo", "publica", "cliente", "registra"},
         Vai(p, e), pc[p] \notin {"livre", "fim"},
         e = "uid" => Dono(p).acao = "uid" /\ Admitida(p) /\ enviado[p] = SemChamada,
         e \in {"corpo", "publica"} => /\ Dono(p).acao = "fila" /\ Admitida(p)
                                       /\ enviado[p] = SemChamada,
         UNCHANGED <<dado, captura, enviado>>
  PROVE  Andamento(p)'
<1>1. Dono(p)' = Dono(p) /\ Escrita(p)' = Escrita(p) BY DEF Dono, Escrita, dado
<1>2. Visto(p)' = Visto(p) BY <1>1 DEF Visto, dado
<1>3. Admitida(p)' = Admitida(p) BY <1>1, <1>2 DEF Admitida
<1>4. pc'[p] = e /\ status'[p] = status[p] BY DEF Vai, Funcoes
<1> QED BY <1>1, <1>3, <1>4 DEF Andamentos, Andamento, dado

LEMMA PassoAndamento ==
  ASSUME Funcoes, Andamentos, Respostas, [Next]_vars
  PROVE  Andamentos'
<1> USE DEF Andamentos
<1>1. ASSUME NEW p \in Pedidos, Chega(p) \/ Guarda(p) \/ GetUrl(p) \/ ComUrl(p)
                                  \/ Externo(p) \/ Registra(p),
             Andamento(p)'
      PROVE  Andamentos'
  <2> SUFFICES ASSUME NEW q \in Pedidos, q # p PROVE Andamento(q)'
    BY <1>1
  <2>1. UNCHANGED dado
    BY <1>1 DEF Chega, Guarda, GetUrl, ComUrl, Externo, Cliente, Meta, GravaArquivo, Publica,
                Registra, dado, pedidos
  <2>2. /\ pc'[q] = pc[q] /\ captura'[q] = captura[q]
        /\ enviado'[q] = enviado[q] /\ status'[q] = status[q]
    BY <1>1 DEF Chega, Guarda, GetUrl, ComUrl, Externo, Cliente, Meta, GravaArquivo, Publica,
                Registra, pedidos, Funcoes, Vai, Responde, Encaminha
  <2> QED BY <2>1, <2>2, Quieto
<1>2. ASSUME NEW p \in Pedidos, Chega(p) PROVE Andamento(p)'
  BY <1>2, ChegaAndamento
<1>3. ASSUME NEW p \in Pedidos, Guarda(p) PROVE Andamento(p)'
  <2>1. /\ pc[p] = "guarda" /\ enviado[p] = SemChamada /\ UNCHANGED <<dado, captura>>
    BY <1>3 DEF Guarda, Andamento
  <2>2. \/ \E s \in {401, 500} : Responde(p, s) /\ UNCHANGED enviado
        \/ ~Admitida(p) /\ Responde(p, 400) /\ UNCHANGED enviado
        \/ Admitida(p) /\ Dono(p).acao = "uid" /\ Vai(p, "uid") /\ UNCHANGED enviado
        \/ Admitida(p) /\ Dono(p).acao = "fila" /\ Vai(p, "corpo") /\ UNCHANGED enviado
        \/ Admitida(p) /\ Dono(p).acao \notin {"uid", "fila"} /\ Encaminha(p)
    BY <1>3 DEF Guarda, Admitida
  <2> QED BY <2>1, <2>2, RespondeAndamento, VaiAndamento, EncaminhaAndamento
<1>4. ASSUME NEW p \in Pedidos, GetUrl(p) PROVE Andamento(p)'
  BY <1>4, Quieto DEF GetUrl, pedidos, dado
<1>5. ASSUME NEW p \in Pedidos, ComUrl(p) PROVE Andamento(p)'
  <2>1. /\ pc[p] = "uid" /\ Dono(p).acao \in {"uid", "endpoint"}
        /\ Dono(p).acao = "uid" => Admitida(p)
        /\ UNCHANGED <<dado, captura>>
    BY <1>5 DEF ComUrl, Andamento
  <2>2. \/ \E s \in {404, 500, 200, 421, 503} : Responde(p, s) /\ UNCHANGED enviado
        \/ Dono(p).acao = "uid" /\ Encaminha(p)
        \/ Vai(p, "cliente") /\ UNCHANGED enviado
    BY <1>5 DEF ComUrl
  <2> QED BY <2>1, <2>2, RespondeAndamento, VaiAndamento, EncaminhaAndamento
<1>6. ASSUME NEW p \in Pedidos, Cliente(p) \/ Meta(p) \/ Registra(p) PROVE Andamento(p)'
  <2>1. /\ pc[p] \in {"cliente", "meta", "registra"}
        /\ UNCHANGED <<dado, captura, enviado>>
    BY <1>6 DEF Cliente, Meta, Registra
  <2>2. \/ \E s \in {0, 200, 403, 500, 502} : Responde(p, s)
        \/ Vai(p, "registra")
    BY <1>6 DEF Cliente, Meta, Registra, Funcoes
  <2> QED BY <2>1, <2>2, RespondeAndamento, VaiAndamento
<1>7. ASSUME NEW p \in Pedidos, GravaArquivo(p) \/ Publica(p) PROVE Andamento(p)'
  <2>1. /\ pc[p] \in {"corpo", "publica"} /\ enviado[p] = SemChamada
        /\ Admitida(p) /\ Dono(p).acao = "fila"
        /\ UNCHANGED <<dado, captura, enviado>>
    BY <1>7 DEF GravaArquivo, Publica, Andamento
  <2>2. (\E s \in {202, 500} : Responde(p, s)) \/ Vai(p, "publica")
    BY <1>7 DEF GravaArquivo, Publica
  <2> QED BY <2>1, <2>2, RespondeAndamento, VaiAndamento
<1>8. CASE Outros \/ UNCHANGED vars
  <2> SUFFICES ASSUME NEW p \in Pedidos PROVE Andamento(p)'
    OBVIOUS
  <2>1. UNCHANGED <<dado, pc, captura, enviado, status>>
    BY <1>8 DEF Outros, AdminDeChaves, GestorDeUrls, LogDeErros, vars, pedidos, dado
  <2> QED BY <2>1, Quieto
<1> QED BY <1>1, <1>2, <1>3, <1>4, <1>5, <1>6, <1>7, <1>8
        DEF Next, Local, Externo, Outros

-----------------------------------------------------------------------------
Tudo == Indutivo /\ Carregam /\ Guardado /\ Andamentos /\ E!TypeOK

LEMMA InitCarregam == Init => Carregam
<1> SUFFICES ASSUME Init PROVE Carregam
  OBVIOUS
<1>1. cenario.rotas \subseteq DOMAIN Tabela /\ cenario.tokens \subseteq Tokens \cup {Nulo}
  BY CenariosAssumption DEF Init
<1>2. rota \in [Pedidos -> DOMAIN Tabela] BY <1>1 DEF Init
<1>3. token \in [Pedidos -> Tokens \cup {Nulo}] BY <1>1 DEF Init
<1>4. ASSUME NEW p \in Pedidos PROVE \E i \in DOMAIN Tabela : corpo[p] \in Tabela[i].corpos
  <2>1. corpo[p] \in UNION {Escrita(q).corpos : q \in Pedidos} BY DEF Init
  <2>2. PICK q \in Pedidos : corpo[p] \in Escrita(q).corpos BY <2>1
  <2> QED BY <2>2, <1>2 DEF Escrita
<1> QED BY <1>2, <1>3, <1>4 DEF Init, Carregam

LEMMA SempreTudo == Spec => []Tudo
<1>1. Init => Guardado /\ E!TypeOK
  <2> SUFFICES ASSUME Init PROVE Guardado /\ E!TypeOK
    OBVIOUS
  <2>1. Guardado BY DEF Init, Guardado, StatusDados
  <2>2. E!TypeOK BY DEF Init, E!Init, E!TypeOK
  <2> QED BY <2>1, <2>2
<1>2. Init => Andamentos
  BY DEF Init, Andamentos, Andamento
<1>3. Tudo /\ [Next]_vars => (Carregam /\ Guardado /\ Andamentos /\ E!TypeOK)'
  BY PassoCarregam, PassoGuardado, PassoAndamento, LogTypeOK DEF Tudo, Indutivo, DosDois
<1>4. (Indutivo /\ Carregam /\ Guardado /\ Andamentos /\ E!TypeOK) <=> Tudo
  BY DEF Tudo
<1> QED BY <1>1, <1>2, <1>3, <1>4, InitCarregam, SempreIndutivo, PTL DEF Spec

(* Everything the process, Redis and the tables hold below /wpp has its      *)
(* type: a handler is a route of the table, a call goes out with a token,    *)
(* and an answer is one of the statuses the code gives.                      *)
THEOREM TiposDoProxy == Spec => []TypeOK
<1>1. Tudo => TypeOK
  <2> SUFFICES ASSUME Tudo PROVE TypeOK
    OBVIOUS
  <2>1. ASSUME NEW p \in Pedidos, enviado[p] # SemChamada
        PROVE  enviado[p].token \in Tokens \cup {Global}
    <3>1. enviado[p].token = IF Dono(p).app \/ token[p] = Nulo THEN Global ELSE token[p]
      BY <2>1 DEF Tudo, Indutivo, Contextos, TokenDoPedido
    <3>2. CASE token[p] = Nulo BY <3>1, <3>2, Zenon
    <3>3. CASE token[p] # Nulo
      <4>1. token[p] \in Tokens BY <3>3 DEF Tudo, Carregam
      <4> QED BY <3>1, <4>1, Zenon
    <3> QED BY <3>2, <3>3
  <2>2. C!TypeOK /\ U!TypeOK
    BY DEF Tudo, Indutivo, DosDois, C!Indutivo, U!Indutivo
  <2> QED BY <2>1, <2>2 DEF TypeOK, Tudo, Indutivo, Funcoes, Guardado, StatusDados
<1> QED BY <1>1, SempreTudo, PTL

(* What the table says of a request of the scenario.                         *)
LEMMA DaTabela ==
  ASSUME TabelaConfere, Carregam, NEW p \in Pedidos, p \in cenario.pedidos,
         captura[p] = Atende[rota[p]]
  PROVE  IF Desviada(Escrita(p))
         THEN Admitida(p) => /\ Dono(p).acao # "fila"
                             /\ Chamada(Dono(p), Escrita(p), corpo[p])
                                  # Prometida(Escrita(p), corpo[p])
         ELSE /\ Admitida(p)
              /\ Chamada(Dono(p), Escrita(p), corpo[p]) = Prometida(Escrita(p), corpo[p])
              /\ Dono(p).acao \in {"uid", "endpoint"} => TemUid(p)
<1>1. Confere(rota[p], corpo[p])
  BY DEF TabelaConfere, Carregam, Escrita
<1> QED BY <1>1 DEF Confere, Admitida, Visto, Dono, Escrita, TemUid

(* A request that is called or queued is called as the documents promise,    *)
(* exactly if its route is not one of the known deviations, which answer 400 *)
(* or 404 or lose a part of the request: given that the table says so of     *)
(* each of its routes and bodies, which has no parameter and is evaluated    *)
(* with the invariant, it is so of any number of requests, whatever was in   *)
(* the hash and in the cache when they were read.                            *)
THEOREM SoDesviamAsConhecidas ==
  ASSUME TabelaConfere
  PROVE  Spec => []Documentada
<1>1. Tudo => Documentada
  <2> SUFFICES ASSUME Tudo, NEW p \in Pedidos
               PROVE  IF Desviada(Escrita(p)) THEN ~ComoPrometida(p)
                      ELSE /\ enviado[p] = SemChamada \/ ComoPrometida(p)
                           /\ status[p] # 400
                           /\ status[p] = 404 => TemUid(p)
    BY DEF Documentada
  <2>1. Carregam /\ Andamento(p)
    BY DEF Tudo, Andamentos
  <2>2. Nulo # Prometida(Escrita(p), corpo[p])
    BY <2>1, NuloAssumption DEF Carregam, Escrita
  <2>3. CASE pc[p] = "livre"
    <3>1. status[p] = 0 /\ enviado[p] = SemChamada
      BY <2>1, <2>3 DEF Andamento
    <3>2. ~ComoPrometida(p)
      BY <3>1, <2>2 DEF ComoPrometida, SemChamada
    <3> QED BY <3>1, <3>2
  <2>4. CASE pc[p] # "livre"
    <3>1. p \in cenario.pedidos /\ captura[p] = Atende[rota[p]]
      BY <2>1, <2>4 DEF Andamento
    <3>2. CASE Desviada(Escrita(p))
      <4>1. Admitida(p) => /\ Dono(p).acao # "fila"
                           /\ Chamada(Dono(p), Escrita(p), corpo[p])
                                # Prometida(Escrita(p), corpo[p])
        BY <2>1, <3>1, <3>2, DaTabela
      <4>2. status[p] # 202
        BY <2>1, <4>1 DEF Andamento
      <4>3. enviado[p].chamada # Prometida(Escrita(p), corpo[p])
        BY <2>1, <2>2, <4>1 DEF Andamento, SemChamada
      <4> QED BY <3>2, <4>2, <4>3 DEF ComoPrometida
    <3>3. CASE ~Desviada(Escrita(p))
      <4>1. /\ Admitida(p)
            /\ Chamada(Dono(p), Escrita(p), corpo[p]) = Prometida(Escrita(p), corpo[p])
            /\ Dono(p).acao \in {"uid", "endpoint"} => TemUid(p)
        BY <2>1, <3>1, <3>3, DaTabela
      <4>2. enviado[p] = SemChamada \/ ComoPrometida(p)
        BY <2>1, <4>1 DEF Andamento, ComoPrometida
      <4>3. status[p] # 400 /\ (status[p] = 404 => TemUid(p))
        BY <2>1, <4>1 DEF Andamento
      <4> QED BY <3>3, <4>2, <4>3
    <3> QED BY <3>2, <3>3
  <2> QED BY <2>3, <2>4
<1> QED BY <1>1, SempreTudo, PTL
=============================================================================
