---------------------------- MODULE Canais_proofs ----------------------------
(***************************************************************************)
(* What holds of the registrations, the Instagram webhooks, the copies to  *)
(* redirects and the uploads, for any number of each: every component by   *)
(* itself, with the steps of the others leaving it alone but for the       *)
(* inboxes, and then the composition.                                      *)
(***************************************************************************)
EXTENDS Canais, FiniteSetTheorems, TLAPS

-----------------------------------------------------------------------------
(* Every instance counts the same way.                                       *)
LEMMA ContamIgual ==
  \A S : I!Cardinality(S) = Cardinality(S) /\ M!Cardinality(S) = Cardinality(S)
BY DEF I!Cardinality, M!Cardinality, Cardinality

-----------------------------------------------------------------------------
(* The registrations.  What an answered create promises, of one call.        *)
Cumprida(c) ==
  op[c].tipo = "create" =>
     /\ responde[c] \in {"201", "409"} =>
          "tirou" \in mexeram[c] \/ \E i \in K!Vivas : K!Do(i, op[c].pid, op[c].amb)
     /\ responde[c] = "P2002" => "tomou" \in mexeram[c]

DaChamada(c) == K!Anda(c) /\ K!Sabe(c) /\ Cumprida(c)

LEMMA IndutivoDoCadastro ==
  K!Indutivo <=> K!TypeOK /\ K!ParUnico /\ \A c \in Chamadas : DaChamada(c)
BY DEF K!Indutivo, DaChamada, Cumprida, K!CadastroCumpre

(* What a query leaves alone of the call d.                                  *)
Igual(d) == /\ op' = op /\ passo'[d] = passo[d] /\ achada'[d] = achada[d]
            /\ responde'[d] = responde[d]

(* A write of one row keeps the table, and the pairs unique if its pair is   *)
(* in no other row.                                                          *)
LEMMA EscreveTabela ==
  ASSUME K!TypeOK, NEW c \in Chamadas, NEW i \in Ids, NEW linha \in K!Linha,
         K!Escreve(c, i, linha)
  PROVE  /\ inboxes' \in [Ids -> K!Linha \cup {Nenhuma}]
         /\ mexeram' \in [Chamadas -> SUBSET {"tirou", "tomou"}]
         /\ inboxes'[i] = linha /\ inboxes'[i] # Nenhuma
         /\ \A j \in Ids \ {i} : inboxes'[j] = inboxes[j]
         /\ mexeram'[c] = mexeram[c]
BY ConstantesAssumption DEF K!TypeOK, K!Escreve

LEMMA EscreveUnico ==
  ASSUME K!TypeOK, K!ParUnico, NEW c \in Chamadas, NEW i \in Ids, NEW linha \in K!Linha,
         K!Escreve(c, i, linha),
         \A j \in Ids \ {i} : ~K!Do(j, linha.pid, linha.amb)
  PROVE  K!ParUnico'
BY EscreveTabela DEF K!TypeOK, K!ParUnico, K!Do

(* A write of c is seen by a create d of a pair that it moves, deletes,      *)
(* revives or makes.                                                         *)
LEMMA EscreveVista ==
  ASSUME K!TypeOK, NEW c \in Chamadas, NEW i \in Ids, NEW linha \in K!Linha,
         K!Escreve(c, i, linha), inboxes[i] # Nenhuma \/ ~linha.del,
         NEW d \in Chamadas \ {c}, passo[d] # "livre"
  PROVE  /\ mexeram[d] \subseteq mexeram'[d]
         /\ K!Do(i, op[d].pid, op[d].amb)
              /\ (linha.del \/ <<linha.pid, linha.amb>> # <<op[d].pid, op[d].amb>>)
            => "tirou" \in mexeram'[d]
         /\ /\ <<linha.pid, linha.amb>> = <<op[d].pid, op[d].amb>>
            /\ ~linha.del \/ ~K!Do(i, op[d].pid, op[d].amb)
            => "tomou" \in mexeram'[d]
<1> USE DEF K!TypeOK, K!Par, K!Do
<1> DEFINE deAntes == IF inboxes[i] = Nenhuma THEN Nenhuma
                      ELSE <<inboxes[i].pid, inboxes[i].amb>>
           agora == <<linha.pid, linha.amb>>
           tirou == IF deAntes # agora \/ linha.del THEN {deAntes} ELSE {}
           tomou == IF deAntes # agora \/ ~linha.del THEN {agora} ELSE {}
<1>1. mexeram'[d] = mexeram[d] \cup {m \in {"tirou", "tomou"} :
                        <<op[d].pid, op[d].amb>> \in (IF m = "tirou" THEN tirou ELSE tomou)}
  BY DEF K!Escreve
<1> QED BY <1>1

(* So what another call knows of its pair, or was answered, outlives the     *)
(* write of c: either the pair is as it was or the write was noted.          *)
LEMMA EscreveOutra ==
  ASSUME K!Indutivo, NEW c \in Chamadas, NEW i \in Ids, NEW linha \in K!Linha,
         K!Escreve(c, i, linha), inboxes[i] # Nenhuma \/ ~linha.del,
         NEW d \in Chamadas \ {c}, Igual(d)
  PROVE  DaChamada(d)'
<1>1. K!TypeOK /\ DaChamada(d)
  BY IndutivoDoCadastro
<1>2. /\ inboxes' \in [Ids -> K!Linha \cup {Nenhuma}]
      /\ inboxes'[i] = linha /\ inboxes'[i] # Nenhuma
      /\ \A j \in Ids \ {i} : inboxes'[j] = inboxes[j]
  BY <1>1, EscreveTabela
<1>3. K!Anda(d)'
  BY <1>1, <1>2 DEF K!TypeOK, DaChamada, K!Anda, Igual
<1>4. CASE passo[d] = "livre"
  BY <1>1, <1>3, <1>4 DEF DaChamada, Cumprida, K!Anda, K!Sabe, Igual
<1>5. CASE passo[d] # "livre"
  <2> DEFINE Par == <<op[d].pid, op[d].amb>>
             Dela(j) == K!Do(j, op[d].pid, op[d].amb)
  <2>1. /\ mexeram[d] \subseteq mexeram'[d]
        /\ Dela(i) /\ (linha.del \/ <<linha.pid, linha.amb>> # Par) => "tirou" \in mexeram'[d]
        /\ /\ <<linha.pid, linha.amb>> = Par
           /\ ~linha.del \/ ~Dela(i)
           => "tomou" \in mexeram'[d]
    BY <1>1, <1>5, EscreveVista
  <2> USE <1>1, <1>2, <1>5, <2>1 DEF K!TypeOK, DaChamada, K!Anda, K!Do, Igual
  <2>2. K!Sabe(d)'
    <3>1. ASSUME op[d].tipo = "create", passo[d] \in {"ambiente", "grava"}, achada[d] # Nenhuma
          PROVE  "tirou" \in mexeram'[d] \/ Dela(achada[d])'
      BY <3>1 DEF K!Sabe
    <3>2. ASSUME op[d].tipo = "create",
                 passo[d] = "apagada" \/ (passo[d] \in {"ambiente", "grava"} /\ achada[d] = Nenhuma),
                 "tomou" \notin mexeram'[d], NEW j \in Ids, Dela(j)'
          PROVE  passo[d] = "apagada" /\ inboxes'[j].del
      BY <3>2 DEF K!Sabe
    <3> QED BY <3>1, <3>2 DEF K!Sabe
  <2>3. Cumprida(d)'
    BY DEF Cumprida, K!Vivas
  <2> QED BY <1>3, <2>2, <2>3
<1> QED BY <1>4, <1>5

(* A query that writes nothing disturbs no other call.                       *)
LEMMA LeituraOutra ==
  ASSUME K!Indutivo, UNCHANGED <<inboxes, mexeram>>, NEW d \in Chamadas, Igual(d)
  PROVE  DaChamada(d)'
<1>1. DaChamada(d)
  BY IndutivoDoCadastro
<1> QED BY <1>1 DEF DaChamada, Cumprida, K!Anda, K!Sabe, K!Vivas, K!Do, Igual

(* The queries of one call that only read.                                   *)
LEMMA LeituraIndutivo ==
  ASSUME K!Indutivo, NEW c \in Chamadas,
         K!FindByPidEAmbiente(c) \/ K!FindApagada(c) \/ K!FindAmbiente(c) \/ K!FindById(c)
           \/ K!Excecao(c)
  PROVE  K!Indutivo'
<1> USE DEF K!Vai, K!Responde, K!TypeOK
<1>1. K!TypeOK /\ K!ParUnico /\ DaChamada(c)
  BY IndutivoDoCadastro
<1>2. UNCHANGED <<inboxes, op, mexeram>>
  BY DEF K!FindByPidEAmbiente, K!FindApagada, K!FindAmbiente, K!FindById, K!Excecao
<1>3. K!TypeOK' /\ \A d \in Chamadas \ {c} : Igual(d)
  BY <1>1 DEF K!FindByPidEAmbiente, K!FindApagada, K!FindAmbiente, K!FindById, K!Excecao,
              K!Vivas, K!Do, Igual, K!Operacao
<1>4. K!ParUnico'
  BY <1>1, <1>2 DEF K!ParUnico
<1>5. DaChamada(c)'
  <2> USE <1>1, <1>2 DEF DaChamada, Cumprida, K!Anda, K!Sabe, K!Vivas, K!Do
  <2>1. CASE K!FindByPidEAmbiente(c) BY <2>1 DEF K!FindByPidEAmbiente
  <2>2. CASE K!FindApagada(c)
    <3>1. K!Anda(c)' BY <2>2 DEF K!FindApagada
    <3>2. K!Sabe(c)' BY <2>2, ConstantesAssumption DEF K!FindApagada
    <3>3. Cumprida(c)' BY <2>2 DEF K!FindApagada
    <3> QED BY <3>1, <3>2, <3>3
  <2>3. CASE K!FindAmbiente(c) BY <2>3 DEF K!FindAmbiente
  <2>4. CASE K!FindById(c) BY <2>4, ConstantesAssumption DEF K!FindById
  <2>5. CASE K!Excecao(c) BY <2>5 DEF K!Excecao
  <2> QED BY <2>1, <2>2, <2>3, <2>4, <2>5
<1>6. \A d \in Chamadas : DaChamada(d)'
  BY <1>2, <1>3, <1>5, LeituraOutra
<1> QED BY <1>3, <1>4, <1>6 DEF K!Indutivo, K!CadastroCumpre, DaChamada, Cumprida

(* A call that is about to write has a row of its own to write.              *)
LEMMA TemAchada ==
  ASSUME K!Indutivo, NEW c \in Chamadas, passo[c] = "grava", achada[c] # Nenhuma
  PROVE  achada[c] \in Ids /\ inboxes[achada[c]] \in K!Linha
BY IndutivoDoCadastro DEF DaChamada, K!Anda, K!TypeOK

(* The queries that write.                                                   *)
LEMMA EscritaIndutivo ==
  ASSUME K!Indutivo, NEW c \in Chamadas, NEW i \in Ids, NEW linha \in K!Linha,
         K!Escreve(c, i, linha), inboxes[i] # Nenhuma \/ ~linha.del,
         \A j \in Ids \ {i} : ~K!Do(j, linha.pid, linha.amb),
         op' = op, passo' = [passo EXCEPT ![c] = "fim"],
         achada' \in {achada, [achada EXCEPT ![c] = i]},
         NEW s \in {"200", "201"}, responde' = [responde EXCEPT ![c] = s],
         s = "201" => \/ K!Do(i, op[c].pid, op[c].amb)' /\ ~linha.del
                      \/ "tirou" \in mexeram[c]
  PROVE  K!Indutivo'
<1>1. K!TypeOK /\ K!ParUnico /\ DaChamada(c)
  BY IndutivoDoCadastro
<1>2. /\ inboxes' \in [Ids -> K!Linha \cup {Nenhuma}]
      /\ mexeram' \in [Chamadas -> SUBSET {"tirou", "tomou"}]
      /\ inboxes'[i] = linha /\ inboxes'[i] # Nenhuma
      /\ \A j \in Ids \ {i} : inboxes'[j] = inboxes[j]
      /\ mexeram'[c] = mexeram[c]
  BY <1>1, EscreveTabela
<1>3. K!TypeOK'
  BY <1>1, <1>2 DEF K!TypeOK
<1>4. K!ParUnico'
  BY <1>1, EscreveUnico
<1>5. \A d \in Chamadas \ {c} : Igual(d)
  BY <1>1 DEF Igual, K!TypeOK
<1>6. DaChamada(c)'
  <2>1. passo'[c] = "fim" /\ responde'[c] = s /\ op'[c] = op[c]
    BY <1>1 DEF K!TypeOK
  <2>2. K!Anda(c)' /\ K!Sabe(c)'
    BY <1>1, <1>2, <2>1 DEF K!TypeOK, DaChamada, K!Anda, K!Sabe
  <2>3. Cumprida(c)'
    BY <1>2, <2>1 DEF Cumprida, K!Vivas
  <2> QED BY <2>2, <2>3 DEF DaChamada
<1>7. \A d \in Chamadas : DaChamada(d)'
  BY <1>5, <1>6, EscreveOutra
<1> QED BY <1>3, <1>4, <1>7 DEF K!Indutivo, K!CadastroCumpre, DaChamada, Cumprida

LEMMA ReviveIndutivo ==
  ASSUME K!Indutivo, NEW c \in Chamadas, K!Revive(c)
  PROVE  K!Indutivo'
<1>1. PICK i \in Ids : i = achada[c] /\ inboxes[i] \in K!Linha /\ inboxes[i] # Nenhuma
  BY TemAchada, ConstantesAssumption DEF K!Revive
<1> DEFINE linha == [inboxes[i] EXCEPT !.del = FALSE]
<1>2. linha \in K!Linha /\ linha.pid = inboxes[i].pid /\ linha.amb = inboxes[i].amb /\ ~linha.del
  BY <1>1 DEF K!Linha
<1>3. \A j \in Ids \ {i} : ~K!Do(j, linha.pid, linha.amb)
  BY <1>1, <1>2, IndutivoDoCadastro DEF K!ParUnico, K!Do
<1>4. /\ K!Escreve(c, i, linha) /\ op' = op /\ achada' = achada
      /\ passo' = [passo EXCEPT ![c] = "fim"] /\ responde' = [responde EXCEPT ![c] = "201"]
  BY <1>1 DEF K!Revive, K!Responde
<1>5. inboxes'[i] = linha /\ inboxes'[i] # Nenhuma
  BY <1>1, <1>2, <1>4, EscreveTabela, IndutivoDoCadastro
<1>6. "tirou" \in mexeram[c] \/ K!Do(i, op[c].pid, op[c].amb)
  BY <1>1, IndutivoDoCadastro DEF K!Revive, DaChamada, K!Sabe
<1>7. K!Do(i, op[c].pid, op[c].amb)' \/ "tirou" \in mexeram[c]
  BY <1>2, <1>4, <1>5, <1>6 DEF K!Do
<1> HIDE DEF linha
<1> QED BY <1>1, <1>2, <1>3, <1>4, <1>7, EscritaIndutivo

(* The unique index refuses an insert only if the pair was taken after the   *)
(* call had looked for it twice.                                             *)
LEMMA InsereIndutivo ==
  ASSUME K!Indutivo, NEW c \in Chamadas, K!Insere(c)
  PROVE  K!Indutivo'
<1> DEFINE linha == [pid |-> op[c].pid, amb |-> op[c].amb, del |-> FALSE]
<1>1. K!TypeOK /\ K!ParUnico /\ DaChamada(c)
  BY IndutivoDoCadastro
<1>2. CASE \E i \in Ids : K!Do(i, op[c].pid, op[c].amb)
  <2>1. UNCHANGED <<inboxes, achada, mexeram, op>> /\ K!Responde(c, "P2002")
    BY <1>2 DEF K!Insere
  <2>2. K!TypeOK' /\ K!ParUnico' /\ \A d \in Chamadas \ {c} : Igual(d)
    BY <1>1, <2>1 DEF K!TypeOK, K!ParUnico, K!Responde, Igual
  <2>3. "tomou" \in mexeram[c]
    BY <1>1, <1>2 DEF K!Insere, DaChamada, K!Sabe
  <2>4. DaChamada(c)'
    BY <1>1, <2>1, <2>3 DEF K!TypeOK, DaChamada, K!Anda, K!Sabe, Cumprida, K!Responde
  <2>5. \A d \in Chamadas : DaChamada(d)'
    BY <2>1, <2>2, <2>4, LeituraOutra
  <2> QED BY <2>2, <2>5 DEF K!Indutivo, K!CadastroCumpre, DaChamada, Cumprida
<1>3. ASSUME NEW i \in Ids, inboxes[i] = Nenhuma, K!Escreve(c, i, linha),
             achada' = [achada EXCEPT ![c] = i], K!Responde(c, "201"), op' = op,
             \A j \in Ids : ~K!Do(j, op[c].pid, op[c].amb)
      PROVE  K!Indutivo'
  <2>1. linha \in K!Linha /\ linha.pid = op[c].pid /\ linha.amb = op[c].amb /\ ~linha.del
    BY <1>1 DEF K!TypeOK, K!Linha, K!Operacao
  <2>2. inboxes'[i] = linha /\ inboxes'[i] # Nenhuma
    BY <1>1, <1>3, <2>1, EscreveTabela
  <2>3. K!Do(i, op[c].pid, op[c].amb)'
    BY <1>3, <2>1, <2>2 DEF K!Do
  <2> HIDE DEF linha
  <2> QED BY <1>3, <2>1, <2>3, EscritaIndutivo DEF K!Responde
<1> QED BY <1>2, <1>3 DEF K!Insere

LEMMA UpdateIndutivo ==
  ASSUME K!Indutivo, NEW c \in Chamadas, K!Update(c)
  PROVE  K!Indutivo'
<1> DEFINE i == achada[c]
           linha == [inboxes[i] EXCEPT !.amb = op[c].amb]
<1>1. K!TypeOK /\ K!ParUnico /\ DaChamada(c)
  BY IndutivoDoCadastro
<1>2. i # Nenhuma /\ i \in Ids /\ inboxes[i] \in K!Linha /\ inboxes[i] # Nenhuma
  BY <1>1, TemAchada, ConstantesAssumption DEF K!Update, DaChamada, K!Anda
<1>3. linha \in K!Linha /\ linha.pid = inboxes[i].pid /\ linha.amb = op[c].amb
  BY <1>1, <1>2 DEF K!TypeOK, K!Linha, K!Operacao
<1>4. CASE \E j \in Ids \ {i} : K!Do(j, inboxes[i].pid, op[c].amb)
  <2>1. UNCHANGED <<inboxes, achada, mexeram, op>> /\ K!Responde(c, "P2002")
    BY <1>4 DEF K!Update
  <2>2. K!TypeOK' /\ K!ParUnico' /\ \A d \in Chamadas \ {c} : Igual(d)
    BY <1>1, <2>1 DEF K!TypeOK, K!ParUnico, K!Responde, Igual
  <2>3. DaChamada(c)'
    BY <1>1, <2>1 DEF K!Update, K!TypeOK, DaChamada, K!Anda, K!Sabe, Cumprida, K!Responde
  <2>4. \A d \in Chamadas : DaChamada(d)'
    BY <2>1, <2>2, <2>3, LeituraOutra
  <2> QED BY <2>2, <2>4 DEF K!Indutivo, K!CadastroCumpre, DaChamada, Cumprida
<1>5. CASE \A j \in Ids \ {i} : ~K!Do(j, inboxes[i].pid, op[c].amb)
  <2>1. /\ K!Escreve(c, i, linha) /\ op' = op /\ achada' = achada
        /\ passo' = [passo EXCEPT ![c] = "fim"] /\ responde' = [responde EXCEPT ![c] = "200"]
    BY <1>5 DEF K!Update, K!Responde
  <2>2. \A j \in Ids \ {i} : ~K!Do(j, linha.pid, linha.amb)
    BY <1>3, <1>5
  <2> HIDE DEF i, linha
  <2> QED BY <1>2, <1>3, <2>1, <2>2, EscritaIndutivo
<1> QED BY <1>4, <1>5

LEMMA SoftDeleteIndutivo ==
  ASSUME K!Indutivo, NEW c \in Chamadas, K!SoftDelete(c)
  PROVE  K!Indutivo'
<1> DEFINE i == achada[c]
           linha == [inboxes[i] EXCEPT !.del = TRUE]
<1>1. K!TypeOK /\ K!ParUnico /\ DaChamada(c)
  BY IndutivoDoCadastro
<1>2. i # Nenhuma /\ i \in Ids /\ inboxes[i] \in K!Linha /\ inboxes[i] # Nenhuma
  BY <1>1, TemAchada, ConstantesAssumption DEF K!SoftDelete, DaChamada, K!Anda
<1>3. linha \in K!Linha /\ linha.pid = inboxes[i].pid /\ linha.amb = inboxes[i].amb
  BY <1>2 DEF K!Linha
<1>4. \A j \in Ids \ {i} : ~K!Do(j, linha.pid, linha.amb)
  BY <1>1, <1>2, <1>3 DEF K!ParUnico, K!Do
<1>5. /\ K!Escreve(c, i, linha) /\ op' = op /\ achada' = achada
      /\ passo' = [passo EXCEPT ![c] = "fim"] /\ responde' = [responde EXCEPT ![c] = "200"]
  BY DEF K!SoftDelete, K!Responde
<1> HIDE DEF i, linha
<1> QED BY <1>2, <1>3, <1>4, <1>5, EscritaIndutivo

(* Every step of the component, the death of the process among them.         *)
PassoDoCadastro == \/ \E c \in Chamadas : K!Chamada(c)
                   \/ \E a \in Ambientes : K!ApagaAmbiente(a)
                   \/ K!Queda

LEMMA CadastroIndutivo ==
  ASSUME K!Indutivo, PassoDoCadastro
  PROVE  K!Indutivo'
<1>1. ASSUME NEW c \in Chamadas, K!Chamada(c) PROVE K!Indutivo'
  BY <1>1, LeituraIndutivo, ReviveIndutivo, InsereIndutivo, UpdateIndutivo, SoftDeleteIndutivo
     DEF K!Chamada
<1>2. ASSUME NEW a \in Ambientes, K!ApagaAmbiente(a) PROVE K!Indutivo'
  BY <1>2 DEF K!ApagaAmbiente, K!Indutivo, K!TypeOK, K!ParUnico, K!Anda, K!Sabe, K!Do, K!Vivas,
              K!CadastroCumpre
<1>3. CASE K!Queda
  <2>1. UNCHANGED <<inboxes, op, achada, responde, mexeram>>
    BY <1>3 DEF K!Queda
  <2>2. K!TypeOK' /\ \A c \in Chamadas : passo'[c] \in {passo[c], "fim"}
                                         /\ (passo[c] = "livre" => passo'[c] = "livre")
    BY <1>3 DEF K!Queda, K!Indutivo, K!TypeOK
  <2> QED BY <2>1, <2>2 DEF K!Indutivo, K!ParUnico, K!Anda, K!Sabe, K!Do, K!Vivas,
                            K!CadastroCumpre
<1> QED BY <1>1, <1>2, <1>3 DEF PassoDoCadastro

-----------------------------------------------------------------------------
(* The webhooks of Instagram.                                                *)
DoEvento(e) == I!Percurso(e) /\ I!Contagem(e)

(* What a step of another event leaves alone of e.                           *)
MesmoEvento(e) == /\ ev'[e] = ev[e] /\ achados'[e] = achados[e] /\ restam'[e] = restam[e]
                  /\ atual'[e] = atual[e] /\ desfechos'[e] = desfechos[e]

LEMMA EventoIgual ==
  ASSUME NEW e \in Eventos, DoEvento(e), MesmoEvento(e)
  PROVE  DoEvento(e)'
BY DEF DoEvento, MesmoEvento, I!Percurso, I!Contagem, I!EmCurso, I!DesfechosDe

(* The inboxes of a pid are places of the table, one for each id.            *)
LEMMA InboxesDoPid ==
  ASSUME K!TypeOK, NEW p
  PROVE  /\ I!FindAllByPid(p) \subseteq Ambientes \X Ids
         /\ \A x, y \in I!FindAllByPid(p) : x[2] = y[2] => x = y
BY DEF K!TypeOK, K!Linha, I!FindAllByPid

LEMMA EventoTipo ==
  ASSUME K!TypeOK, I!TypeOK, NEW e \in Eventos, I!Evento(e)
  PROVE  I!TypeOK' /\ \A f \in Eventos \ {e} : MesmoEvento(f)
<1> USE DEF I!TypeOK, I!Vai, I!VaiParaDlq, I!Acaba, MesmoEvento
<1>1. CASE I!Recebe(e) BY <1>1 DEF I!Recebe
<1>2. CASE I!FindInboxes(e)
  <2>1. I!FindAllByPid(pidDe[e]) \in SUBSET (Ambientes \X Ids)
    BY InboxesDoPid
  <2> QED BY <1>2, <2>1 DEF I!FindInboxes
<1>3. CASE I!Proxima(e) BY <1>3 DEF I!Proxima
<1>4. CASE I!Termina(e) BY <1>4 DEF I!Termina
<1>5. CASE I!GetAmbiente(e) BY <1>5 DEF I!GetAmbiente
<1>6. CASE I!Post(e) BY <1>6 DEF I!Post
<1>7. CASE I!SendToQueue(e) BY <1>7 DEF I!SendToQueue
<1>8. CASE I!Excecao(e) BY <1>8 DEF I!Excecao
<1> QED BY <1>1, <1>2, <1>3, <1>4, <1>5, <1>6, <1>7, <1>8 DEF I!Evento

(* An outcome ends the forward of an inbox that had none, or the event that  *)
(* found no inbox.                                                           *)
LEMMA AcabaEvento ==
  ASSUME I!TypeOK, NEW e \in Eventos, DoEvento(e), NEW s, I!Acaba(e, s),
         ev[e] \in {"busca", "ambiente", "post", "carta"},
         UNCHANGED <<achados, restam, atual>>
  PROVE  DoEvento(e)'
<1> USE DEF DoEvento, I!TypeOK
<1>1. /\ desfechos'[e] = desfechos[e] \cup {<<atual[e][2], s>>}
      /\ ev'[e] = IF atual[e] = I!Ninguem THEN "fim" ELSE "proxima"
  BY DEF I!Acaba, I!Vai
<1>2. CASE atual[e] = I!Ninguem
  <2>1. achados[e] = {} /\ atual[e][2] = Nenhuma /\ ev'[e] = "fim" /\ ev[e] # "fim"
    BY <1>1, <1>2, ConstantesAssumption DEF I!Percurso, I!Ninguem
  <2>2. desfechos[e] = {}
    BY <2>1 DEF I!Contagem, I!DesfechosDe
  <2>3. desfechos'[e] = {<<Nenhuma, s>>}
    BY <1>1, <2>1, <2>2
  <2>4. {d \in desfechos'[e] : d[1] = Nenhuma} = {<<Nenhuma, s>>}
    BY <2>3
  <2>5. I!Um({d \in desfechos'[e] : d[1] = Nenhuma})
    BY <2>4 DEF I!Um
  <2> QED BY <2>1, <2>3, <2>5 DEF I!Percurso, I!Contagem, I!DesfechosDe
<1>3. CASE atual[e] # I!Ninguem
  <2> DEFINE x == atual[e]
  <2>1. /\ ev[e] \in {"ambiente", "post", "carta"} /\ ev'[e] = "proxima"
        /\ x \in achados[e] \ restam[e] /\ x[2] \in Ids /\ x[2] # Nenhuma
    BY <1>1, <1>3, ConstantesAssumption DEF I!Percurso
  <2>2. I!DesfechosDe(e, x[2]) = {} /\ I!DesfechosDe(e, Nenhuma) = {}
    BY <2>1 DEF I!Contagem, I!EmCurso
  <2>3. {d \in desfechos'[e] : d[1] = x[2]} = {<<x[2], s>>}
    BY <1>1, <2>2 DEF I!DesfechosDe
  <2>4. ASSUME NEW y \in achados[e] \ {x}
        PROVE  {d \in desfechos'[e] : d[1] = y[2]} = I!DesfechosDe(e, y[2])
    BY <1>1, <2>1, <2>4 DEF I!Percurso, I!DesfechosDe
  <2>5. {d \in desfechos'[e] : d[1] = Nenhuma} = {}
    BY <1>1, <2>1, <2>2 DEF I!DesfechosDe
  <2>6. I!Percurso(e)'
    BY <2>1 DEF I!Percurso
  <2>7. ASSUME NEW y \in achados[e]
        PROVE  IF y \in restam[e] THEN {d \in desfechos'[e] : d[1] = y[2]} = {}
                                  ELSE I!Um({d \in desfechos'[e] : d[1] = y[2]})
    <3>1. CASE y = x
      BY <2>1, <2>3, <3>1 DEF I!Um
    <3>2. CASE y # x
      <4>1. {d \in desfechos'[e] : d[1] = y[2]} = I!DesfechosDe(e, y[2])
        BY <2>4, <3>2
      <4>2. IF y \in restam[e] THEN I!DesfechosDe(e, y[2]) = {} ELSE I!Um(I!DesfechosDe(e, y[2]))
        BY <2>1, <3>2 DEF I!Contagem, I!EmCurso
      <4> QED BY <4>1, <4>2
    <3> QED BY <3>1, <3>2
  <2>8. \A d \in desfechos'[e] : d[1] = Nenhuma \/ \E y \in achados[e] : d[1] = y[2]
    BY <1>1, <2>1 DEF I!Contagem
  <2>9. I!Contagem(e)'
    BY <2>1, <2>5, <2>7, <2>8 DEF I!Contagem, I!EmCurso, I!DesfechosDe
  <2> QED BY <2>6, <2>9
<1> QED BY <1>2, <1>3

(* An event is silent only if it has no attempt to make.                     *)
LEMMA EventoSemSilencio ==
  ASSUME I!TypeOK, NEW e \in Eventos, I!Evento(e), \A f \in Eventos : I!SemSilencio(f)
  PROVE  \A f \in Eventos : I!SemSilencio(f)'
<1> USE DEF I!TypeOK, I!SemSilencio, I!Vai, I!VaiParaDlq
<1>1. CASE UNCHANGED desfechos /\ \E s \in {"INBOX_NAO_REGISTRADA", "AMBIENTE_INDISPONIVEL",
                                            "FALHA_ENVIO"} : I!VaiParaDlq(e, s)
  BY <1>1
<1>2. CASE UNCHANGED <<desfechos, letra>> /\ (ev' = ev \/ \E p : I!Vai(e, p) /\ p # "carta")
  BY <1>2
<1>3. ASSUME NEW s, I!Acaba(e, s), s = "silencio" => MaxRetries = 0, UNCHANGED letra
      PROVE  \A f \in Eventos : I!SemSilencio(f)'
  <2>1. /\ desfechos' = [desfechos EXCEPT ![e] = @ \cup {<<atual[e][2], s>>}]
        /\ ev'[e] # "carta" /\ \A f \in Eventos \ {e} : ev'[f] = ev[f]
    BY <1>3 DEF I!Acaba
  <2>2. \A d \in desfechos'[e] : d[2] = "silencio" => MaxRetries = 0
    BY <1>3, <2>1
  <2> QED BY <1>3, <2>1, <2>2
<1>4. CASE I!Recebe(e) BY <1>1, <1>2, <1>4 DEF I!Recebe
<1>5. CASE I!FindInboxes(e) BY <1>1, <1>2, <1>5 DEF I!FindInboxes
<1>6. CASE I!Proxima(e) BY <1>2, <1>6 DEF I!Proxima
<1>7. CASE I!Termina(e) BY <1>2, <1>7 DEF I!Termina
<1>8. CASE I!GetAmbiente(e)
  <2>1. ~(MaxRetries > 0) => MaxRetries = 0
    BY ConstantesAssumption
  <2> QED BY <1>1, <1>2, <1>3, <1>8, <2>1 DEF I!GetAmbiente
<1>9. CASE I!Post(e) BY <1>1, <1>2, <1>3, <1>9 DEF I!Post
<1>10. CASE I!SendToQueue(e)
  <2>1. letra[e] # "silencio"
    BY <1>10 DEF I!SendToQueue
  <2> QED BY <1>3, <1>10, <2>1 DEF I!SendToQueue
<1>11. CASE I!Excecao(e) BY <1>3, <1>11 DEF I!Excecao
<1> QED BY <1>4, <1>5, <1>6, <1>7, <1>8, <1>9, <1>10, <1>11 DEF I!Evento

LEMMA EventoIndutivo ==
  ASSUME K!TypeOK, I!Indutivo, NEW e \in Eventos, I!Evento(e)
  PROVE  I!Indutivo'
<1>1. I!TypeOK /\ DoEvento(e)
  BY DEF I!Indutivo, DoEvento
<1>2. I!TypeOK' /\ \A f \in Eventos \ {e} : MesmoEvento(f)
  BY <1>1, EventoTipo
<1>3. DoEvento(e)'
  <2> USE <1>1 DEF DoEvento, I!TypeOK, I!Vai, I!VaiParaDlq, I!DesfechosDe, I!EmCurso
  <2>1. CASE I!Recebe(e) BY <2>1 DEF I!Recebe, I!Percurso, I!Contagem
  <2>2. CASE I!FindInboxes(e)
    <3> DEFINE A == I!FindAllByPid(pidDe[e])
    <3>1. /\ A \subseteq Ambientes \X Ids
          /\ \A x, y \in A : x[2] = y[2] => x = y
      BY InboxesDoPid
    <3>2. /\ achados'[e] = A /\ restam'[e] = A /\ atual'[e] = I!Ninguem
          /\ desfechos'[e] = {} /\ ev'[e] = IF A = {} THEN "carta" ELSE "proxima"
      BY <2>2 DEF I!FindInboxes, I!Percurso
    <3> HIDE DEF A
    <3> QED BY <3>1, <3>2 DEF I!Percurso, I!Contagem
  <2>3. CASE I!Proxima(e)
    <3>1. PICK x \in restam[e] : atual'[e] = x /\ restam'[e] = restam[e] \ {x}
      BY <2>3 DEF I!Proxima
    <3>2. ev[e] = "proxima" /\ ev'[e] = "ambiente" /\ UNCHANGED <<achados, desfechos>>
      BY <2>3 DEF I!Proxima
    <3>3. x \in achados[e]
      BY <3>1 DEF I!Percurso
    <3>4. I!Percurso(e)'
      BY <3>1, <3>2, <3>3 DEF I!Percurso
    <3>5. restam'[e] \cup {atual'[e]} = restam[e]
      BY <3>1
    <3>6. I!Contagem(e)'
      BY <3>2, <3>5 DEF I!Contagem
    <3> QED BY <3>4, <3>6
  <2>4. CASE I!Termina(e) BY <2>4 DEF I!Termina, I!Percurso, I!Contagem
  <2>5. CASE I!GetAmbiente(e)
    <3>1. CASE I!VaiParaDlq(e, "AMBIENTE_INDISPONIVEL") /\ UNCHANGED desfechos
      BY <2>5, <3>1 DEF I!GetAmbiente, I!Percurso, I!Contagem
    <3>2. CASE MaxRetries > 0 /\ I!Vai(e, "post") /\ UNCHANGED <<letra, desfechos>>
      BY <2>5, <3>2 DEF I!GetAmbiente, I!Percurso, I!Contagem
    <3>3. CASE ~(MaxRetries > 0) /\ I!Acaba(e, "silencio")
      <4>1. ev[e] = "ambiente" /\ UNCHANGED <<achados, restam, atual>>
        BY <2>5 DEF I!GetAmbiente
      <4> QED BY <3>3, <4>1, AcabaEvento
    <3> QED BY <2>5, <3>1, <3>2, <3>3 DEF I!GetAmbiente
  <2>6. CASE I!Post(e)
    <3>1. CASE I!Acaba(e, "entregue") BY <2>6, <3>1, AcabaEvento DEF I!Post
    <3>2. CASE ~I!Acaba(e, "entregue") BY <2>6, <3>2 DEF I!Post, I!Percurso, I!Contagem
    <3> QED BY <3>1, <3>2
  <2>7. CASE I!SendToQueue(e) BY <2>7, AcabaEvento DEF I!SendToQueue
  <2>8. CASE I!Excecao(e) BY <2>8, AcabaEvento DEF I!Excecao
  <2> QED BY <2>1, <2>2, <2>3, <2>4, <2>5, <2>6, <2>7, <2>8 DEF I!Evento
<1>4. \A f \in Eventos : I!SemSilencio(f)'
  BY EventoSemSilencio DEF I!Indutivo
<1> QED BY <1>1, <1>2, <1>3, <1>4, EventoIgual DEF I!Indutivo, DoEvento

(* A crash loses the events that run, and owes them nothing.                 *)
LEMMA EventosPerdidos ==
  ASSUME I!Indutivo, I!Queda
  PROVE  I!Indutivo'
<1>1. UNCHANGED <<achados, restam, atual, letra, desfechos>> /\ I!TypeOK'
  BY DEF I!Indutivo, I!Queda, I!TypeOK
<1>2. ASSUME NEW e \in Eventos
      PROVE  /\ ev'[e] = ev[e] \/ (ev'[e] = "perdido" /\ ev[e] # "livre")
             /\ I!Percurso(e) /\ I!Contagem(e) /\ I!SemSilencio(e)
  BY DEF I!Indutivo, I!Queda
<1>3. ASSUME NEW e \in Eventos PROVE I!Percurso(e)' /\ I!Contagem(e)' /\ I!SemSilencio(e)'
  <2>1. I!Percurso(e)'
    BY <1>1, <1>2 DEF I!Percurso
  <2>2. I!Contagem(e)'
    BY <1>1, <1>2 DEF I!Contagem, I!EmCurso, I!DesfechosDe
  <2>3. I!SemSilencio(e)'
    BY <1>1, <1>2 DEF I!SemSilencio
  <2> QED BY <2>1, <2>2, <2>3
<1> QED BY <1>1, <1>3 DEF I!Indutivo

(* The invariant counts what the property counts.                            *)
LEMMA IndutivoNaoPerde == I!Indutivo => I!InstagramNaoPerde
<1> SUFFICES ASSUME I!Indutivo PROVE I!InstagramNaoPerde
  OBVIOUS
<1>1. Cardinality({}) = 0 /\ \A S : I!Um(S) => Cardinality(S) = 1
  BY FS_EmptySet, FS_Singleton DEF I!Um
<1>2. ASSUME NEW e \in Eventos, ev[e] # "perdido", NEW x \in achados[e]
      PROVE  Cardinality(I!DesfechosDe(e, x[2])) = IF x \in restam[e] \cup I!EmCurso(e) THEN 0 ELSE 1
  <2>1. IF x \in restam[e] \cup I!EmCurso(e) THEN I!DesfechosDe(e, x[2]) = {}
                                            ELSE I!Um(I!DesfechosDe(e, x[2]))
    BY <1>2 DEF I!Indutivo, I!Contagem
  <2> QED BY <1>1, <2>1
<1>3. ASSUME NEW e \in Eventos, ev[e] = "fim"
      PROVE  Cardinality(I!DesfechosDe(e, Nenhuma)) = IF achados[e] = {} THEN 1 ELSE 0
  <2>1. IF achados[e] = {} THEN I!Um(I!DesfechosDe(e, Nenhuma)) ELSE I!DesfechosDe(e, Nenhuma) = {}
    BY <1>3 DEF I!Indutivo, I!Contagem
  <2> QED BY <1>1, <2>1
<1>4. ASSUME NEW e \in Eventos
      PROVE  \A d \in desfechos[e] : d[1] = Nenhuma \/ \E x \in achados[e] : d[1] = x[2]
  BY DEF I!Indutivo, I!Contagem
<1>5. ASSUME NEW e \in Eventos
      PROVE  \A d \in desfechos[e] : d[2] = "silencio" => MaxRetries = 0
  BY DEF I!Indutivo, I!SemSilencio
<1> QED BY <1>2, <1>3, <1>4, <1>5, ContamIgual DEF I!InstagramNaoPerde

-----------------------------------------------------------------------------
(* The copies to redirects.                                                  *)
Exata(d) ==
  /\ fase[d] \in {"envia", "fim"} =>
       /\ sempre[d] \subseteq copias[d]
       /\ \A x \in copias[d] : {<<"ambiente", x[2]>>, <<"ativo", x>>} \subseteq vistos[d]
  /\ fase[d] = "fim" => \A x \in copias[d] : x \in entregues[d] \/ tentou[d][x] = RetriesDaCopia

DoEnvio(d) == R!LeTudo(d) /\ Exata(d)

LEMMA AmbientesTipo ==
  ASSUME K!TypeOK, NEW p
  PROVE  R!AmbientesDe(p) \subseteq Ambientes
BY DEF K!TypeOK, K!Linha, R!AmbientesDe

LEMMA AtivosTipo ==
  ASSUME NEW a
  PROVE  \A x \in R!Ativos(a) : x[2] = a /\ x = <<x[1], a>> /\ x[1] \in Reds
BY DEF R!Ativos

(* What is due is of an ambiente of the pid, and the redirects active for it.*)
LEMMA DevidasDe ==
  ASSUME NEW d \in Envios
  PROVE  \A x : x \in R!Devidas(d) <=> x[2] \in R!AmbientesDe(payload[d]) /\ x \in R!Ativos(x[2])
BY AtivosTipo DEF R!Devidas

(* Whatever others do to the inboxes and the redirects, a call that does not *)
(* move keeps what it knows: the histories shrink and grow with the tables.  *)
LEMMA EnvioParado ==
  ASSUME NEW d \in Envios, DoEnvio(d), R!Observa, fase'[d] = fase[d], faltam'[d] = faltam[d],
         copias'[d] = copias[d], tentou'[d] = tentou[d], entregues'[d] = entregues[d]
  PROVE  DoEnvio(d)'
<1>1. /\ fase[d] = "consulta" => /\ sempre'[d] = sempre[d] \cap R!Devidas(d)'
                                /\ vistos'[d] = vistos[d] \cup R!Vistas(d)'
      /\ fase[d] # "consulta" => sempre'[d] = sempre[d] /\ vistos'[d] = vistos[d]
  BY DEF R!Observa
<1> QED BY <1>1 DEF DoEnvio, R!LeTudo, Exata

(* The first read fixes the ambientes, and nothing changes in that step.     *)
LEMMA EnvioComeca ==
  ASSUME K!TypeOK, R!TypeOK, NEW d \in Envios, DoEnvio(d), R!Observa, R!FindAllByPid(d)
  PROVE  DoEnvio(d)'
<1>1. /\ fase[d] = "livre" /\ fase'[d] = IF faltam'[d] = {} THEN "fim" ELSE "consulta"
      /\ faltam'[d] = R!AmbientesDe(payload[d])
      /\ UNCHANGED <<inboxes, reds, payload, copias>>
  BY DEF R!FindAllByPid, R!Vai, R!TypeOK, R!escritas
<1>2. sempre'[d] = R!Devidas(d) /\ vistos'[d] = R!Vistas(d)
  BY <1>1 DEF R!Observa
<1>3. R!Devidas(d)' = R!Devidas(d) /\ R!Vistas(d)' = R!Vistas(d)
  BY <1>1 DEF R!Devidas, R!Vistas, R!AmbientesDe, R!Ativos, R!Existe
<1>4. copias[d] = {}
  BY <1>1 DEF DoEnvio, R!LeTudo
<1>5. \A x \in sempre'[d] : x[2] \in faltam'[d]
  BY <1>1, <1>2, DevidasDe
<1>6. \A a \in faltam'[d] : <<"ambiente", a>> \in vistos'[d]
  BY <1>1, <1>2 DEF R!Vistas
<1>7. R!LeTudo(d)'
  BY <1>1, <1>2, <1>3, <1>4, <1>5, <1>6 DEF R!LeTudo
<1>8. Exata(d)'
  BY <1>1, <1>4, <1>5 DEF Exata
<1> QED BY <1>7, <1>8 DEF DoEnvio

(* A query returns every copy that has been due all the time for its         *)
(* ambiente, and only redirects that are active and have been seen so.       *)
LEMMA EnvioConsulta ==
  ASSUME K!TypeOK, R!TypeOK, NEW d \in Envios, DoEnvio(d), R!Observa, R!FindActiveByAmbiente(d)
  PROVE  DoEnvio(d)'
<1>1. PICK a \in faltam[d] : /\ faltam'[d] = faltam[d] \ {a}
                             /\ copias'[d] = copias[d] \cup R!Ativos(a)
  BY DEF R!FindActiveByAmbiente, R!TypeOK
<1>2. /\ fase[d] = "consulta" /\ fase'[d] = IF faltam'[d] # {} THEN "consulta" ELSE "envia"
      /\ UNCHANGED <<inboxes, reds, payload>>
  BY DEF R!FindActiveByAmbiente, R!Vai, R!TypeOK, R!escritas
<1>3. R!Devidas(d)' = R!Devidas(d) /\ R!Vistas(d)' = R!Vistas(d)
  BY <1>2 DEF R!Devidas, R!Vistas, R!AmbientesDe, R!Ativos, R!Existe
<1>4. /\ sempre[d] \subseteq R!Devidas(d) /\ R!Vistas(d) \subseteq vistos[d]
      /\ \A b \in faltam[d] : <<"ambiente", b>> \in vistos[d]
      /\ \A x \in sempre[d] : x[2] \in faltam[d] \/ x \in copias[d]
      /\ \A x \in copias[d] : {<<"ambiente", x[2]>>, <<"ativo", x>>} \subseteq vistos[d]
  BY <1>2 DEF DoEnvio, R!LeTudo
<1>5. sempre'[d] = sempre[d] /\ vistos'[d] = vistos[d]
  BY <1>2, <1>3, <1>4 DEF R!Observa
<1>6. \A x \in sempre[d] : x[2] \in faltam'[d] \/ x \in copias'[d]
  BY <1>1, <1>4, DevidasDe
<1>7. a \in Ambientes
  BY DEF R!TypeOK
<1>8. \A x \in R!Ativos(a) : <<"ativo", x>> \in vistos[d] /\ <<"ambiente", x[2]>> \in vistos[d]
  <2> SUFFICES ASSUME NEW x \in R!Ativos(a)
               PROVE  <<"ativo", x>> \in R!Vistas(d) /\ x[2] = a
    BY <1>4
  <2>1. x \in UNION {R!Ativos(b) : b \in Ambientes}
    BY <1>7
  <2> QED BY <2>1, AtivosTipo DEF R!Vistas
<1>9. \A x \in copias'[d] : {<<"ambiente", x[2]>>, <<"ativo", x>>} \subseteq vistos[d]
  BY <1>1, <1>4, <1>8
<1>10. R!LeTudo(d)'
  BY <1>1, <1>2, <1>3, <1>4, <1>5, <1>6, <1>9 DEF R!LeTudo
<1>11. Exata(d)'
  BY <1>1, <1>2, <1>5, <1>6, <1>9 DEF Exata
<1> QED BY <1>10, <1>11 DEF DoEnvio

(* The steps that read no table: a failed query, an attempt, the end.        *)
LEMMA EnvioEnvia ==
  ASSUME R!TypeOK, NEW d \in Envios, DoEnvio(d), R!Observa,
         R!ConsultaFalha(d) \/ R!SendWithRetry(d) \/ R!Dispatched(d)
  PROVE  DoEnvio(d)'
<1> USE DEF R!TypeOK, R!Vai, DoEnvio, R!LeTudo, Exata
<1>1. CASE R!ConsultaFalha(d)
  BY <1>1 DEF R!ConsultaFalha
<1>2. CASE R!SendWithRetry(d)
  BY <1>2 DEF R!SendWithRetry, R!Observa
<1>3. CASE R!Dispatched(d)
  <2>1. fase[d] = "envia" /\ fase'[d] = "fim" /\ UNCHANGED <<copias, tentou, entregues>>
        /\ sempre'[d] = sempre[d] /\ vistos'[d] = vistos[d]
    BY <1>3 DEF R!Dispatched, R!Observa
  <2>2. ASSUME NEW x \in copias[d], x \notin entregues[d] PROVE tentou[d][x] = RetriesDaCopia
    <3>1. tentou[d][x] \in 0..RetriesDaCopia
      OBVIOUS
    <3>2. ~(tentou[d][x] < RetriesDaCopia)
      BY <1>3, <2>2 DEF R!Dispatched, R!Tentavel
    <3>3. RetriesDaCopia \in Nat
      BY ConstantesAssumption
    <3> HIDE DEF R!TypeOK, R!Vai, DoEnvio, R!LeTudo, Exata
    <3> QED BY <3>1, <3>2, <3>3
  <2> QED BY <2>1, <2>2
<1> QED BY <1>1, <1>2, <1>3

LEMMA EnvioTipo ==
  ASSUME K!TypeOK, R!TypeOK, NEW d \in Envios, R!Envio(d)
  PROVE  /\ R!TypeOK'
         /\ \A e \in Envios \ {d} : /\ fase'[e] = fase[e] /\ faltam'[e] = faltam[e]
                                    /\ copias'[e] = copias[e] /\ tentou'[e] = tentou[e]
                                    /\ entregues'[e] = entregues[e]
<1> USE DEF R!TypeOK, R!Vai
<1>1. CASE R!FindAllByPid(d)
  BY <1>1, AmbientesTipo DEF R!FindAllByPid
<1>2. CASE R!FindActiveByAmbiente(d)
  <2>1. PICK a \in faltam[d] : /\ faltam' = [faltam EXCEPT ![d] = @ \ {a}]
                               /\ copias' = [copias EXCEPT ![d] = @ \cup R!Ativos(a)]
    BY <1>2 DEF R!FindActiveByAmbiente
  <2>2. R!Ativos(a) \subseteq R!Copias
    BY AtivosTipo DEF R!Copias
  <2> QED BY <1>2, <2>1, <2>2 DEF R!FindActiveByAmbiente
<1>3. CASE R!ConsultaFalha(d) \/ R!Dispatched(d)
  BY <1>3 DEF R!ConsultaFalha, R!Dispatched
<1>4. CASE R!SendWithRetry(d)
  <2>1. PICK x \in R!Tentavel(d) :
           \/ entregues' = [entregues EXCEPT ![d] = @ \cup {x}] /\ UNCHANGED tentou
           \/ tentou' = [tentou EXCEPT ![d][x] = @ + 1] /\ UNCHANGED entregues
    BY <1>4 DEF R!SendWithRetry
  <2>2. x \in R!Copias /\ tentou[d][x] + 1 \in 0..RetriesDaCopia
    BY ConstantesAssumption DEF R!Tentavel
  <2>3. UNCHANGED <<inboxes, reds, fase, faltam, copias>>
    BY <1>4 DEF R!SendWithRetry, R!escritas
  <2>4. CASE entregues' = [entregues EXCEPT ![d] = @ \cup {x}] /\ UNCHANGED tentou
    BY <2>2, <2>3, <2>4
  <2>5. CASE tentou' = [tentou EXCEPT ![d][x] = @ + 1] /\ UNCHANGED entregues
    BY <2>2, <2>3, <2>5
  <2> QED BY <2>1, <2>4, <2>5
<1> QED BY <1>1, <1>2, <1>3, <1>4 DEF R!Envio

LEMMA EnvioIndutivo ==
  ASSUME K!TypeOK, R!Indutivo, R!Observa, NEW d \in Envios, R!Envio(d)
  PROVE  R!Indutivo'
<1>1. R!TypeOK /\ \A e \in Envios : DoEnvio(e)
  BY DEF R!Indutivo, R!RedirecionaExato, DoEnvio, Exata
<1>2. R!TypeOK'
  BY <1>1, EnvioTipo
<1>3. \A e \in Envios \ {d} : DoEnvio(e)'
  BY <1>1, EnvioTipo, EnvioParado
<1>4. DoEnvio(d)'
  BY <1>1, EnvioComeca, EnvioConsulta, EnvioEnvia DEF R!Envio
<1>5. \A e \in Envios : DoEnvio(e)'
  BY <1>3, <1>4
<1> QED BY <1>2, <1>5 DEF R!Indutivo, R!RedirecionaExato, DoEnvio, Exata

(* Everything else that happens, to the inboxes and the redirects or not.    *)
LEMMA EnviosParados ==
  ASSUME R!Indutivo, R!Observa, UNCHANGED <<fase, faltam, copias, tentou, entregues>>
  PROVE  R!Indutivo'
<1>1. R!TypeOK'
  BY DEF R!Indutivo, R!TypeOK
<1>2. \A e \in Envios : DoEnvio(e)'
  BY EnvioParado DEF R!Indutivo, R!RedirecionaExato, DoEnvio, Exata
<1> QED BY <1>1, <1>2 DEF R!Indutivo, R!RedirecionaExato, DoEnvio, Exata

LEMMA EnviosPerdidos ==
  ASSUME R!Indutivo, R!Observa, R!Queda
  PROVE  R!Indutivo'
<1>1. /\ R!TypeOK' /\ UNCHANGED <<faltam, copias, tentou, entregues>>
      /\ \A d \in Envios : fase'[d] = IF fase[d] \in {"consulta", "envia"} THEN "perdido"
                                                                         ELSE fase[d]
  BY DEF R!Indutivo, R!TypeOK, R!Queda
<1>2. \A d \in Envios : DoEnvio(d)
  BY DEF R!Indutivo, R!RedirecionaExato, DoEnvio, Exata
<1>3. ASSUME NEW d \in Envios PROVE DoEnvio(d)'
  <2>1. CASE fase'[d] = "perdido"
    BY <2>1 DEF DoEnvio, R!LeTudo, Exata
  <2>2. CASE fase'[d] = fase[d]
    BY <1>1, <1>2, <2>2, EnvioParado
  <2> QED BY <1>1, <2>1, <2>2
<1> QED BY <1>1, <1>3 DEF R!Indutivo, R!RedirecionaExato, DoEnvio, Exata

-----------------------------------------------------------------------------
(* The uploads.                                                              *)
DoJob(j) == M!Acompanha(j) /\ \A b \in Bracos : M!Cumpre(j, b)

(* What a step of another job leaves alone of k.                             *)
MesmoJob(k) == /\ etapa'[k] = etapa[k] /\ fila'[k] = fila[k] /\ exec'[k] = exec[k]
               /\ feito'[k] = feito[k] /\ pedido' = pedido /\ (k \in arquivo' <=> k \in arquivo)

LEMMA JobIgual ==
  ASSUME NEW k \in Jobs, DoJob(k), MesmoJob(k)
  PROVE  DoJob(k)'
BY DEF DoJob, MesmoJob, M!Acompanha, M!Cumpre, M!Em, M!Pendente, M!Apagou, M!Resolvido

LEMMA JobsIndutivo ==
  ASSUME M!Indutivo, M!TypeOK', NEW j \in Jobs, DoJob(j)', \A k \in Jobs \ {j} : MesmoJob(k)
  PROVE  M!Indutivo'
<1>1. \A k \in Jobs : DoJob(k)
  BY DEF M!Indutivo, DoJob
<1>2. \A k \in Jobs : DoJob(k)'
  BY <1>1, JobIgual
<1> QED BY <1>2 DEF M!Indutivo, DoJob

(* What became of a job only grows, and a job that is settled stays so.      *)
LEMMA FicaResolvido ==
  ASSUME NEW j \in Jobs, feito[j] \subseteq feito'[j], pedido' = pedido, M!Resolvido(j)
  PROVE  M!Resolvido(j)'
BY DEF M!Resolvido

(* The request of a job.                                                     *)
LEMMA UploadIndutivo ==
  ASSUME M!Indutivo, NEW j \in Jobs, M!Upload(j)
  PROVE  M!Indutivo'
<1>1. M!TypeOK /\ DoJob(j)
  BY DEF M!Indutivo, DoJob
<1>2. UNCHANGED <<pedido, exec, feito>> /\ \A k \in Jobs \ {j} : k \in arquivo' <=> k \in arquivo
  BY DEF M!Upload, M!Recebe, M!CorpoFim, M!CorpoFalha, M!Escreve, M!Confirma, M!PublicaFalha
<1>3. M!TypeOK' /\ \A k \in Jobs \ {j} : MesmoJob(k)
  <2> USE <1>1, <1>2 DEF M!TypeOK, M!Vai, MesmoJob
  <2>1. CASE M!Recebe(j) BY <2>1 DEF M!Recebe
  <2>2. CASE M!Escreve(j) BY <2>2 DEF M!Escreve
  <2>3. CASE M!CorpoFim(j) \/ M!CorpoFalha(j) \/ M!Confirma(j) \/ M!PublicaFalha(j)
    BY <2>3 DEF M!CorpoFim, M!CorpoFalha, M!Confirma, M!PublicaFalha
  <2> QED BY <2>1, <2>2, <2>3 DEF M!Upload
<1>4. (M!Pendente(j) <=> M!Pendente(j)') /\ (M!Resolvido(j) <=> M!Resolvido(j)')
  BY <1>2 DEF M!Pendente, M!Apagou, M!Resolvido
<1>5. M!Acompanha(j)'
  <2> USE <1>1, <1>2, <1>4 DEF M!TypeOK, M!Vai, DoJob, M!Acompanha, M!Em
  <2>1. CASE M!Recebe(j) BY <2>1 DEF M!Recebe
  <2>2. CASE M!Escreve(j) BY <2>2 DEF M!Escreve
  <2>3. CASE M!CorpoFim(j) \/ M!CorpoFalha(j) BY <2>3 DEF M!CorpoFim, M!CorpoFalha
  <2>4. CASE M!Confirma(j) \/ M!PublicaFalha(j) BY <2>4 DEF M!Confirma, M!PublicaFalha
  <2> QED BY <2>1, <2>2, <2>3, <2>4 DEF M!Upload
<1>6. ASSUME NEW b \in Bracos PROVE M!Cumpre(j, b)'
  <2>1. M!Cumpre(j, b)
    BY <1>1 DEF DoJob
  <2>2. exec[j][b].em # "livre" => (j \notin arquivo => j \notin arquivo')
    BY <1>1 DEF DoJob, M!Acompanha, M!Em, M!Upload, M!Recebe, M!CorpoFim, M!CorpoFalha,
                M!Escreve, M!Confirma, M!PublicaFalha
  <2> QED BY <1>2, <2>1, <2>2 DEF M!Cumpre
<1> QED BY <1>3, <1>5, <1>6, JobsIndutivo DEF DoJob

(* A step of a handler, in general: it keeps what the job rests on or hands  *)
(* it over, and ends well.                                                   *)
LEMMA BracoAnda ==
  ASSUME M!TypeOK, NEW j \in Jobs, DoJob(j), NEW b \in Bracos, NEW h \in M!Braco,
         exec' = [exec EXCEPT ![j][b] = h], exec[j][b].em # "livre",
         UNCHANGED <<pedido, etapa, fila>>, feito[j] \subseteq feito'[j],
         j \in arquivo' => j \in arquivo,
         M!Cumpre(j, b)',
         exec[j][b].presa => h.presa \/ M!Pendente(j)' \/ M!Resolvido(j)',
         M!Apagou(j, b) /\ exec[j][b].res # "semArquivo" => M!Pendente(j)' \/ M!Resolvido(j)',
         j \in arquivo /\ j \notin arquivo' => M!Pendente(j)' \/ M!Resolvido(j)'
  PROVE  DoJob(j)'
<1>1. exec'[j][b] = h /\ \A c \in Bracos \ {b} : exec'[j][c] = exec[j][c]
  BY DEF M!TypeOK
<1>2. etapa[j] \notin {"livre", "recusado"}
  BY DEF DoJob, M!Acompanha, M!Em
<1>3. M!Pendente(j) => M!Pendente(j)' \/ M!Resolvido(j)'
  BY <1>1 DEF M!Pendente, M!Apagou
<1>4. (\E c \in Bracos : exec[j][c].presa)
        => (\E c \in Bracos : exec'[j][c].presa) \/ M!Pendente(j)' \/ M!Resolvido(j)'
  BY <1>1
<1>5. M!Resolvido(j) => M!Resolvido(j)'
  BY FicaResolvido
<1>6. M!Acompanha(j)'
  BY <1>2, <1>3, <1>4, <1>5 DEF DoJob, M!Acompanha
<1>7. ASSUME NEW c \in Bracos \ {b} PROVE M!Cumpre(j, c)'
  BY <1>1 DEF DoJob, M!Cumpre
<1> QED BY <1>6, <1>7 DEF DoJob

(* A handler writes its own place, and nothing of another job.               *)
LEMMA MoveTipo ==
  ASSUME M!TypeOK, NEW j \in Jobs, NEW b \in Bracos, NEW h \in M!Braco, M!Move(j, b, h)
  PROVE  /\ exec' \in [Jobs -> [Bracos -> M!Braco]] /\ exec'[j][b] = h
         /\ \A k \in Jobs \ {j} : exec'[k] = exec[k]
BY DEF M!TypeOK, M!Move

(* Where it may go, and how its forward may end.                             *)
LEMMA PassaTipo ==
  ASSUME M!TypeOK, NEW j \in Jobs, NEW b \in Bracos,
         NEW lugar \in {"livre", "abre", "meta", "registra", "limpa", "segue", "callback",
                        "registraCallback"},
         NEW r \in {"nenhuma", "ok", "recusa", "transporte", "semArquivo"}
  PROVE  /\ exec[j][b] \in M!Braco /\ M!Parado \in M!Braco
         /\ [exec[j][b] EXCEPT !.em = lugar] \in M!Braco
         /\ [exec[j][b] EXCEPT !.em = lugar, !.res = r] \in M!Braco
         /\ [exec[j][b] EXCEPT !.tent = @ + 1] \in M!Braco
<1>1. exec[j][b] \in M!Braco
  BY DEF M!TypeOK
<1>2. M!Parado \in M!Braco
  BY DEF M!Parado, M!Braco
<1>3. [exec[j][b] EXCEPT !.em = lugar] \in M!Braco
  BY <1>1 DEF M!Braco
<1>4. [exec[j][b] EXCEPT !.em = lugar, !.res = r] \in M!Braco
  BY <1>1 DEF M!Braco
<1>5. [exec[j][b] EXCEPT !.tent = @ + 1] \in M!Braco
  BY <1>1 DEF M!Braco
<1> QED BY <1>1, <1>2, <1>3, <1>4, <1>5

LEMMA BracoMove ==
  ASSUME M!TypeOK, NEW j \in Jobs, NEW b \in Bracos, M!HandleJob(j, b)
  PROVE  \E h \in M!Braco : M!Move(j, b, h)
<1> USE PassaTipo DEF M!Passa, M!Meio
<1>1. CASE M!Abre(j, b) BY <1>1 DEF M!Abre
<1>2. CASE M!Meta(j, b) BY <1>2 DEF M!Meta
<1>3. CASE M!Registra(j, b) BY <1>3 DEF M!Registra
<1>4. CASE M!Unlink(j, b) BY <1>4 DEF M!Unlink
<1>5. CASE M!Segue(j, b) BY <1>5 DEF M!Segue
<1>6. CASE M!FireWebhook(j, b) BY <1>6 DEF M!FireWebhook
<1>7. CASE M!RegistraCallback(j, b) BY <1>7 DEF M!RegistraCallback
<1> QED BY <1>1, <1>2, <1>3, <1>4, <1>5, <1>6, <1>7 DEF M!HandleJob

(* It adds to what became of its job at most, and deletes at most its file.  *)
LEMMA BracoResto ==
  ASSUME M!TypeOK, NEW j \in Jobs, NEW b \in Bracos, M!HandleJob(j, b)
  PROVE  /\ UNCHANGED <<pedido, etapa, fila>> /\ feito[j] \subseteq feito'[j]
         /\ feito' = [k \in Jobs |-> feito'[k]] /\ arquivo' \in {arquivo, arquivo \ {j}}
         /\ \A k \in Jobs \ {j} : feito'[k] = feito[k]
<1> USE DEF M!TypeOK, M!Anota, M!Persiste
<1>1. CASE M!Abre(j, b) BY <1>1 DEF M!Abre
<1>2. CASE M!Meta(j, b) BY <1>2 DEF M!Meta
<1>3. CASE M!Registra(j, b) BY <1>3 DEF M!Registra
<1>4. CASE M!Unlink(j, b) BY <1>4 DEF M!Unlink
<1>5. CASE M!Segue(j, b) BY <1>5 DEF M!Segue
<1>6. CASE M!FireWebhook(j, b) BY <1>6 DEF M!FireWebhook
<1>7. CASE M!RegistraCallback(j, b) BY <1>7 DEF M!RegistraCallback
<1> QED BY <1>1, <1>2, <1>3, <1>4, <1>5, <1>6, <1>7 DEF M!HandleJob

LEMMA BracoTipo ==
  ASSUME M!TypeOK, NEW j \in Jobs, NEW b \in Bracos, M!HandleJob(j, b)
  PROVE  /\ M!TypeOK' /\ \A k \in Jobs \ {j} : MesmoJob(k)
         /\ exec'[j][b] \in M!Braco
         /\ exec' = [exec EXCEPT ![j][b] = exec'[j][b]]
<1>1. PICK h \in M!Braco : M!Move(j, b, h)
  BY BracoMove
<1>2. /\ exec' \in [Jobs -> [Bracos -> M!Braco]] /\ exec'[j][b] = h
      /\ \A k \in Jobs \ {j} : exec'[k] = exec[k]
  BY <1>1, MoveTipo
<1>3. M!TypeOK'
  BY <1>2, BracoResto DEF M!TypeOK
<1>4. \A k \in Jobs \ {j} : MesmoJob(k)
  BY <1>2, BracoResto DEF MesmoJob
<1> QED BY <1>1, <1>2, <1>3, <1>4 DEF M!Move

LEMMA BracoIndutivo ==
  ASSUME M!Indutivo, NEW j \in Jobs, NEW b \in Bracos, M!HandleJob(j, b)
  PROVE  M!Indutivo'
<1>1. M!TypeOK /\ DoJob(j)
  BY DEF M!Indutivo, DoJob
<1>2. /\ M!TypeOK' /\ \A k \in Jobs \ {j} : MesmoJob(k)
      /\ UNCHANGED <<pedido, etapa, fila>> /\ feito[j] \subseteq feito'[j]
      /\ exec'[j][b] \in M!Braco
      /\ exec' = [exec EXCEPT ![j][b] = exec'[j][b]]
  BY <1>1, BracoTipo, BracoResto
<1> DEFINE antes == exec[j][b]
           agora == exec'[j][b]
           Firme == M!Pendente(j)' \/ M!Resolvido(j)'
           Bom == /\ antes.em # "livre" /\ M!Cumpre(j, b)' /\ (j \in arquivo' => j \in arquivo)
                  /\ antes.presa => agora.presa \/ Firme
                  /\ M!Apagou(j, b) /\ antes.res # "semArquivo" => Firme
                  /\ j \in arquivo /\ j \notin arquivo' => Firme
<1>3. ASSUME M!Apagou(j, b)', agora.res # "semArquivo" PROVE Firme
  BY <1>3 DEF M!Pendente
<1>4. M!Cumpre(j, b) /\ M!Acompanha(j)
  BY <1>1 DEF DoJob
<1>5. \A e : M!Move(j, b, e) => agora = e
  BY <1>1 DEF M!Move, M!TypeOK
<1>6. antes \in M!Braco
  BY <1>1 DEF M!TypeOK
<1>7. ASSUME M!Abre(j, b) PROVE Bom
  <2>1. /\ antes.em = "abre" /\ UNCHANGED <<arquivo, feito>>
        /\ \/ agora = [antes EXCEPT !.em = "meta"]
           \/ j \notin arquivo /\ agora = [antes EXCEPT !.em = "limpa", !.res = "semArquivo"]
    BY <1>5, <1>7 DEF M!Abre, M!Em, M!Passa, M!Meio
  <2> QED BY <1>6, <2>1 DEF M!Braco, M!Cumpre, M!Apagou
<1>8. ASSUME M!Meta(j, b) PROVE Bom
  <2>1. /\ antes.em = "meta" /\ UNCHANGED arquivo
        /\ \/ agora = [antes EXCEPT !.em = "limpa", !.res = "ok"] /\ "sucesso" \in feito'[j]
           \/ \E r \in {"recusa", "transporte"} : agora = [antes EXCEPT !.em = "registra", !.res = r]
    BY <1>1, <1>5, <1>8 DEF M!Meta, M!Em, M!Meio, M!Anota, M!TypeOK
  <2> QED BY <1>6, <2>1 DEF M!Braco, M!Cumpre, M!Apagou
<1>9. ASSUME M!Registra(j, b) PROVE Bom
  <2>1. /\ antes.em = "registra" /\ UNCHANGED arquivo
        /\ agora = [antes EXCEPT !.em = "limpa"] /\ feito'[j] \cap {"rastro", "perda"} # {}
    BY <1>1, <1>5, <1>9 DEF M!Registra, M!Em, M!Passa, M!Persiste, M!Anota, M!TypeOK
  <2> QED BY <1>4, <1>6, <2>1 DEF M!Braco, M!Cumpre, M!Apagou
<1>10. ASSUME M!Unlink(j, b) PROVE Bom
  <2>1. /\ antes.em = "limpa" /\ arquivo' = arquivo \ {j} /\ UNCHANGED feito
        /\ agora = [antes EXCEPT !.em = "segue"]
    BY <1>5, <1>10 DEF M!Unlink, M!Em, M!Passa
  <2>2. M!Cumpre(j, b)' /\ ~M!Apagou(j, b)
    BY <1>4, <1>6, <2>1 DEF M!Braco, M!Cumpre, M!Apagou
  <2>3. CASE antes.res = "semArquivo"
    BY <1>4, <1>6, <2>1, <2>2, <2>3 DEF M!Braco, M!Cumpre
  <2>4. CASE antes.res # "semArquivo"
    BY <1>3, <1>6, <2>1, <2>2, <2>4 DEF M!Braco, M!Apagou
  <2> QED BY <2>3, <2>4
<1>11. ASSUME M!Segue(j, b) PROVE Bom
  <2>1. UNCHANGED <<arquivo, feito>> /\ antes.em = "segue"
    BY <1>11 DEF M!Segue, M!Em
  <2>2. CASE antes.res \in {"transporte", "semArquivo"} \/ ~pedido[j].callback
    <3>1. agora = M!Parado
      BY <1>5, <1>11, <2>2 DEF M!Segue
    <3>2. M!Cumpre(j, b)'
      BY <3>1 DEF M!Parado, M!Cumpre
    <3>3. antes.res # "semArquivo" => M!Resolvido(j)'
      BY <1>2, <1>4, <1>6, <2>1, <2>2 DEF M!Resolvido, M!Braco, M!Cumpre
    <3>4. ASSUME antes.res = "semArquivo" PROVE Firme
      <4>1. etapa[j] \notin {"livre", "recusado"} /\ j \notin arquivo
        BY <1>4, <2>1, <3>4 DEF M!Acompanha, M!Cumpre, M!Em
      <4>2. M!Pendente(j) \/ M!Resolvido(j)
        BY <1>4, <4>1 DEF M!Acompanha
      <4>3. M!Pendente(j) => M!Pendente(j)'
        BY <1>1, <1>2, <3>4 DEF M!Pendente, M!Apagou, M!TypeOK
      <4> QED BY <1>2, <4>2, <4>3, FicaResolvido
    <3> QED BY <2>1, <3>2, <3>3, <3>4
  <2>3. CASE antes.res \notin {"transporte", "semArquivo"} /\ pedido[j].callback
    <3>1. agora = [antes EXCEPT !.em = "callback"]
      BY <1>5, <1>11, <2>3 DEF M!Segue, M!Passa
    <3>2. M!Cumpre(j, b)' /\ M!Apagou(j, b)' /\ agora.res # "semArquivo"
          /\ agora.presa = antes.presa
      BY <1>4, <1>6, <2>1, <2>3, <3>1 DEF M!Braco, M!Cumpre, M!Apagou
    <3> QED BY <1>3, <2>1, <3>2
  <2> QED BY <2>2, <2>3
<1>12. ASSUME M!FireWebhook(j, b) PROVE Bom
  <2>1. antes.em = "callback" /\ UNCHANGED arquivo
    BY <1>12 DEF M!FireWebhook, M!Em
  <2>2. CASE M!Anota(j, "rastro") /\ agora = M!Parado
    <3>1. M!Resolvido(j)'
      BY <1>1, <2>2 DEF M!Anota, M!Resolvido, M!TypeOK
    <3>2. M!Cumpre(j, b)'
      BY <2>2 DEF M!Parado, M!Cumpre
    <3> QED BY <2>1, <3>1, <3>2
  <2>3. CASE /\ UNCHANGED feito
             /\ agora \in {[antes EXCEPT !.tent = @ + 1], [antes EXCEPT !.em = "registraCallback"]}
    <3>1. M!Cumpre(j, b)' /\ M!Apagou(j, b)' /\ agora.res # "semArquivo"
          /\ agora.presa = antes.presa
      BY <1>4, <1>6, <2>1, <2>3 DEF M!Braco, M!Cumpre, M!Apagou
    <3> QED BY <1>3, <2>1, <3>1
  <2> QED BY <1>5, <1>12, <2>2, <2>3 DEF M!FireWebhook, M!Passa
<1>13. ASSUME M!RegistraCallback(j, b) PROVE Bom
  <2>1. antes.em = "registraCallback" /\ UNCHANGED arquivo /\ agora = M!Parado
    BY <1>5, <1>13 DEF M!RegistraCallback, M!Em
  <2>2. M!Resolvido(j)'
    BY <1>1, <1>13 DEF M!RegistraCallback, M!Persiste, M!Anota, M!Resolvido, M!TypeOK
  <2>3. M!Cumpre(j, b)'
    BY <2>1 DEF M!Parado, M!Cumpre
  <2> QED BY <2>1, <2>2, <2>3
<1>14. Bom
  BY <1>7, <1>8, <1>9, <1>10, <1>11, <1>12, <1>13 DEF M!HandleJob
<1>15. DoJob(j)'
  BY <1>1, <1>2, <1>14, BracoAnda
<1> QED BY <1>2, <1>15, JobsIndutivo

(* A copy of the queue is taken by a handler that holds it unsettled.        *)
LEMMA ConsomeIndutivo ==
  ASSUME M!Indutivo, NEW j \in Jobs, M!Consome(j)
  PROVE  M!Indutivo'
<1>1. M!TypeOK /\ DoJob(j)
  BY DEF M!Indutivo, DoJob
<1> DEFINE h == [M!Parado EXCEPT !.em = "abre", !.presa = TRUE]
<1>2. PICK b \in Bracos : M!Em(j, b, "livre") /\ M!Move(j, b, h)
  BY DEF M!Consome
<1>3. h \in M!Braco /\ h.em = "abre" /\ h.presa
  BY DEF M!Parado, M!Braco
<1> HIDE DEF h
<1>4. /\ exec' \in [Jobs -> [Bracos -> M!Braco]] /\ exec'[j][b] = h
      /\ \A k \in Jobs \ {j} : exec'[k] = exec[k]
  BY <1>1, <1>2, <1>3, MoveTipo
<1>5. /\ UNCHANGED <<pedido, etapa, arquivo, feito>> /\ fila[j] > 0
      /\ fila' = [fila EXCEPT ![j] = @ - 1]
  BY DEF M!Consome
<1>6. M!TypeOK' /\ \A k \in Jobs \ {j} : MesmoJob(k)
  BY <1>1, <1>4, <1>5 DEF M!TypeOK, MesmoJob
<1>7. \A c \in Bracos \ {b} : exec'[j][c] = exec[j][c]
  BY <1>1, <1>2 DEF M!Move, M!TypeOK
<1>8. M!Pendente(j) => M!Pendente(j)'
  BY <1>2, <1>7 DEF M!Pendente, M!Apagou, M!Em
<1>9. M!Acompanha(j)'
  BY <1>1, <1>3, <1>4, <1>5, <1>8 DEF DoJob, M!Acompanha, M!Resolvido, M!TypeOK
<1>10. \A c \in Bracos : M!Cumpre(j, c)'
  BY <1>1, <1>3, <1>4, <1>5, <1>7 DEF DoJob, M!Cumpre
<1> QED BY <1>6, <1>9, <1>10, JobsIndutivo DEF DoJob

(* The cron, which leaves a cause of its own.                                *)
LEMMA TempoIndutivo ==
  ASSUME M!Indutivo, NEW j \in Jobs, M!Tempo(j)
  PROVE  M!Indutivo'
<1>1. M!TypeOK /\ DoJob(j)
  BY DEF M!Indutivo, DoJob
<1>2. M!TypeOK' /\ \A k \in Jobs \ {j} : MesmoJob(k)
  BY <1>1 DEF M!Tempo, M!Envelhece, M!LimpaVelho, M!Anota, M!TypeOK, MesmoJob
<1>3. CASE M!Envelhece(j)
  <2>1. MesmoJob(j)
    BY <1>3 DEF M!Envelhece, MesmoJob
  <2> QED BY <1>1, <1>2, <2>1, JobIgual, JobsIndutivo
<1>4. CASE M!LimpaVelho(j)
  <2>1. /\ UNCHANGED <<pedido, etapa, fila, exec>> /\ "perda" \in feito'[j]
        /\ feito[j] \subseteq feito'[j] /\ j \notin arquivo'
    BY <1>1, <1>4 DEF M!LimpaVelho, M!Anota, M!TypeOK
  <2>2. DoJob(j)'
    BY <1>1, <2>1 DEF DoJob, M!Acompanha, M!Cumpre, M!Em, M!Resolvido
  <2> QED BY <1>2, <2>2, JobsIndutivo
<1> QED BY <1>3, <1>4 DEF M!Tempo

(* The deliveries that are unsettled are requeued, all of them.              *)
LEMMA PresasConta ==
  ASSUME M!TypeOK, NEW j \in Jobs
  PROVE  /\ M!Presas(j) \in Nat
         /\ (\E b \in Bracos : exec[j][b].presa) => M!Presas(j) > 0
<1> DEFINE S == {b \in Bracos : exec[j][b].presa}
<1>1. IsFiniteSet(S) /\ M!Presas(j) = Cardinality(S)
  BY ConstantesAssumption, FS_Subset, ContamIgual DEF M!Presas
<1>2. Cardinality(S) \in Nat /\ (Cardinality(S) = 0 <=> S = {})
  BY <1>1, FS_CardinalityType, FS_EmptySet
<1> QED BY <1>1, <1>2

(* The handlers go on without their deliveries.                              *)
LEMMA SoltasTipo ==
  ASSUME M!TypeOK, exec' = [j \in Jobs |-> M!Soltas(j)]
  PROVE  /\ exec' \in [Jobs -> [Bracos -> M!Braco]]
         /\ \A j \in Jobs, b \in Bracos :
              /\ exec'[j][b].em = exec[j][b].em /\ exec'[j][b].res = exec[j][b].res
              /\ ~exec'[j][b].presa
<1>1. ASSUME NEW j \in Jobs, NEW b \in Bracos
      PROVE  /\ [exec[j][b] EXCEPT !.presa = FALSE] \in M!Braco
             /\ [exec[j][b] EXCEPT !.presa = FALSE].em = exec[j][b].em
             /\ [exec[j][b] EXCEPT !.presa = FALSE].res = exec[j][b].res
             /\ ~[exec[j][b] EXCEPT !.presa = FALSE].presa
  <2>1. exec[j][b] \in M!Braco
    BY DEF M!TypeOK
  <2> QED BY <2>1 DEF M!Braco
<1> QED BY <1>1 DEF M!Soltas

(* What of a job does not depend on its deliveries survives a rupture.       *)
LEMMA RupturaJob ==
  ASSUME M!TypeOK, NEW j \in Jobs, DoJob(j), exec' = [k \in Jobs |-> M!Soltas(k)],
         UNCHANGED <<pedido, arquivo>>, feito[j] \subseteq feito'[j],
         etapa'[j] = IF etapa[j] = "escrito" THEN "publica" ELSE etapa[j],
         etapa[j] \in {"livre", "recusado"} => fila'[j] = 0,
         etapa'[j] \in {"escrito", "aceito"} /\ (fila[j] > 0 \/ \E b \in Bracos : exec[j][b].presa)
           => fila'[j] > 0 \/ M!Resolvido(j)'
  PROVE  DoJob(j)'
<1>1. \A b \in Bracos : /\ exec'[j][b].em = exec[j][b].em /\ exec'[j][b].res = exec[j][b].res
                        /\ ~exec'[j][b].presa
  BY SoltasTipo
<1>2. M!Pendente(j) => M!Pendente(j)'
  BY <1>1 DEF M!Pendente, M!Apagou
<1>3. M!Resolvido(j) => M!Resolvido(j)'
  BY FicaResolvido
<1>4. M!Acompanha(j)'
  BY <1>1, <1>2, <1>3 DEF DoJob, M!Acompanha, M!Em
<1>5. \A b \in Bracos : M!Cumpre(j, b)'
  BY <1>1 DEF DoJob, M!Cumpre
<1> QED BY <1>4, <1>5 DEF DoJob

LEMMA RompeIndutivo ==
  ASSUME M!Indutivo, M!Rompe
  PROVE  M!Indutivo'
<1>1. M!TypeOK /\ \A j \in Jobs : DoJob(j)
  BY DEF M!Indutivo, DoJob
<1>2. /\ exec' = [j \in Jobs |-> M!Soltas(j)] /\ UNCHANGED <<pedido, arquivo, feito>>
      /\ fila' = [j \in Jobs |-> fila[j] + M!Presas(j)]
      /\ etapa' = [j \in Jobs |-> IF etapa[j] = "escrito" THEN "publica" ELSE etapa[j]]
  BY DEF M!Rompe
<1>3. M!TypeOK'
  <2>1. fila' \in [Jobs -> Nat]
    BY <1>1, <1>2, PresasConta DEF M!TypeOK
  <2> QED BY <1>1, <1>2, <2>1, SoltasTipo DEF M!TypeOK
<1>4. ASSUME NEW j \in Jobs PROVE DoJob(j)'
  <2>1. M!Presas(j) \in Nat /\ fila[j] \in Nat /\ fila'[j] = fila[j] + M!Presas(j)
    BY <1>1, <1>2, PresasConta DEF M!TypeOK
  <2>2. (fila[j] > 0 \/ \E b \in Bracos : exec[j][b].presa) => fila'[j] > 0
    BY <1>1, <2>1, PresasConta
  <2>3. ASSUME etapa[j] \in {"livre", "recusado"} PROVE fila'[j] = 0
    <3>1. fila[j] = 0 /\ {b \in Bracos : exec[j][b].presa} = {}
      BY <1>1, <2>3 DEF DoJob, M!Acompanha, M!Cumpre, M!Em
    <3>2. M!Presas(j) = 0
      BY <3>1, ContamIgual, FS_EmptySet DEF M!Presas
    <3> QED BY <2>1, <3>1, <3>2
  <2> QED BY <1>1, <1>2, <2>2, <2>3, RupturaJob
<1> QED BY <1>3, <1>4 DEF M!Indutivo, DoJob

LEMMA ReiniciaBrokerIndutivo ==
  ASSUME M!Indutivo, M!ReiniciaBroker
  PROVE  M!Indutivo'
<1>1. M!TypeOK /\ \A j \in Jobs : DoJob(j)
  BY DEF M!Indutivo, DoJob
<1>2. /\ exec' = [j \in Jobs |-> M!Soltas(j)] /\ UNCHANGED <<pedido, arquivo>>
      /\ fila' = [j \in Jobs |-> 0]
      /\ feito' = [j \in Jobs |-> IF fila[j] + M!Presas(j) = 0 THEN feito[j]
                                  ELSE feito[j] \cup {"perda"}]
      /\ etapa' = [j \in Jobs |-> IF etapa[j] = "escrito" THEN "publica" ELSE etapa[j]]
  BY DEF M!ReiniciaBroker
<1>3. M!TypeOK'
  BY <1>1, <1>2, SoltasTipo DEF M!TypeOK
<1>4. ASSUME NEW j \in Jobs PROVE DoJob(j)'
  <2>1. M!Presas(j) \in Nat /\ fila[j] \in Nat
    BY <1>1, PresasConta DEF M!TypeOK
  <2>2. ASSUME fila[j] > 0 \/ \E b \in Bracos : exec[j][b].presa PROVE M!Resolvido(j)'
    <3>1. fila[j] + M!Presas(j) # 0
      BY <1>1, <2>1, <2>2, PresasConta
    <3> QED BY <1>2, <3>1 DEF M!Resolvido
  <2> QED BY <1>1, <1>2, <2>2, RupturaJob
<1> QED BY <1>3, <1>4 DEF M!Indutivo, DoJob

(* A crash between the deletion of the file and the callback is noted, and   *)
(* everything else is requeued.                                              *)
LEMMA QuedaDosJobs ==
  ASSUME M!Indutivo, M!Queda
  PROVE  M!Indutivo'
<1>1. M!TypeOK /\ \A j \in Jobs : DoJob(j)
  BY DEF M!Indutivo, DoJob
<1>2. /\ exec' = [j \in Jobs |-> [b \in Bracos |-> M!Parado]] /\ UNCHANGED <<pedido, arquivo>>
      /\ fila' = [j \in Jobs |-> fila[j] + M!Presas(j)]
      /\ feito' = [j \in Jobs |-> IF \E b \in Bracos : M!Apagou(j, b)
                                  THEN feito[j] \cup {"perda"} ELSE feito[j]]
      /\ etapa' = [j \in Jobs |-> IF etapa[j] \in {"corpo", "pendurado", "publica", "escrito"}
                                  THEN "perdido" ELSE etapa[j]]
  BY DEF M!Queda
<1>3. M!TypeOK'
  <2>1. fila' \in [Jobs -> Nat]
    BY <1>1, <1>2, PresasConta DEF M!TypeOK
  <2>2. M!Parado \in M!Braco
    BY DEF M!Parado, M!Braco
  <2> QED BY <1>1, <1>2, <2>1, <2>2 DEF M!TypeOK
<1>4. ASSUME NEW j \in Jobs PROVE DoJob(j)'
  <2>1. M!Presas(j) \in Nat /\ fila[j] \in Nat /\ fila'[j] = fila[j] + M!Presas(j)
    BY <1>1, <1>2, PresasConta DEF M!TypeOK
  <2>2. \A b \in Bracos : exec'[j][b].em = "livre" /\ ~exec'[j][b].presa
    BY <1>2 DEF M!Parado
  <2>3. M!Pendente(j) \/ M!Resolvido(j) => M!Resolvido(j)'
    BY <1>2 DEF M!Pendente, M!Resolvido
  <2>4. (fila[j] > 0 \/ \E b \in Bracos : exec[j][b].presa) => fila'[j] > 0
    BY <1>1, <2>1, PresasConta
  <2>5. ASSUME etapa[j] \in {"livre", "recusado"} PROVE fila'[j] = 0
    <3>1. fila[j] = 0 /\ {b \in Bracos : exec[j][b].presa} = {}
      BY <1>1, <2>5 DEF DoJob, M!Acompanha, M!Cumpre, M!Em
    <3>2. M!Presas(j) = 0
      BY <3>1, ContamIgual, FS_EmptySet DEF M!Presas
    <3> QED BY <2>1, <3>1, <3>2
  <2>6. M!Acompanha(j)'
    BY <1>1, <1>2, <2>2, <2>3, <2>4, <2>5 DEF DoJob, M!Acompanha, M!Em
  <2>7. \A b \in Bracos : M!Cumpre(j, b)'
    BY <2>2 DEF M!Cumpre
  <2> QED BY <2>6, <2>7 DEF DoJob
<1> QED BY <1>3, <1>4 DEF M!Indutivo, DoJob

(* A job without a copy or a handler rests on being settled.                 *)
LEMMA IndutivoDeixaRastro == M!Indutivo => M!JobDeixaRastro
BY DEF M!Indutivo, M!JobDeixaRastro, M!Acompanha, M!Cumpre, M!Em, M!Pendente, M!Apagou,
       M!Resolvido, M!TypeOK

-----------------------------------------------------------------------------
(* The composition.  A scenario makes calls that there are.                  *)
LEMMA CenarioCabe ==
  ASSUME cenario \in Cenarios
  PROVE  /\ cenario.chamadas \subseteq Chamadas /\ cenario.apagam \subseteq Ambientes
         /\ cenario.eventos \subseteq Eventos /\ cenario.envios \subseteq Envios
         /\ cenario.jobs \subseteq Jobs
BY CenariosAssumption DEF Cenario

Indutivo == /\ cenario \in Cenarios
            /\ K!Indutivo /\ I!Indutivo /\ R!Indutivo /\ M!Indutivo

LEMMA InitIndutivo == Init => Indutivo
<1> SUFFICES ASSUME Init PROVE Indutivo
  OBVIOUS
<1>1. K!Indutivo
  <2>1. op \in [Chamadas -> K!Operacao]
    BY ConstantesAssumption DEF Init, Entradas
  <2> QED BY <2>1 DEF Init, K!Init, K!Indutivo, K!TypeOK, K!ParUnico, K!Anda, K!Sabe,
                      K!CadastroCumpre
<1>2. I!Indutivo
  BY DEF Init, I!Init, I!Indutivo, I!TypeOK, I!Percurso, I!Contagem, I!SemSilencio, I!EmCurso,
         I!DesfechosDe
<1>3. R!Indutivo
  <2>1. 0 \in 0..RetriesDaCopia
    BY ConstantesAssumption
  <2> QED BY <2>1 DEF Init, R!Init, R!Indutivo, R!TypeOK, R!LeTudo, R!RedirecionaExato
<1>4. M!Indutivo
  <2>1. M!Parado \in M!Braco
    BY DEF M!Parado, M!Braco
  <2>2. M!TypeOK
    BY <2>1 DEF Init, M!Init, M!TypeOK
  <2>3. \A j \in Jobs : M!Acompanha(j) /\ \A b \in Bracos : M!Cumpre(j, b)
    BY DEF Init, M!Init, M!Acompanha, M!Cumpre, M!Em, M!Parado
  <2> QED BY <2>2, <2>3 DEF M!Indutivo
<1> QED BY <1>1, <1>2, <1>3, <1>4 DEF Init, Indutivo

(* What the invariant of each component depends on, besides its own steps.   *)
LEMMA CadastroParado ==
  ASSUME K!Indutivo, UNCHANGED <<inboxes, cadastro>>
  PROVE  K!Indutivo'
BY DEF cadastro, K!Indutivo, K!TypeOK, K!ParUnico, K!Anda, K!Sabe, K!Do, K!Vivas,
       K!CadastroCumpre

LEMMA EventosParados ==
  ASSUME I!Indutivo, UNCHANGED evento
  PROVE  I!Indutivo'
<1>1. I!TypeOK'
  BY DEF evento, I!Indutivo, I!TypeOK
<1>2. \A e \in Eventos : DoEvento(e) /\ MesmoEvento(e)
  BY DEF evento, I!Indutivo, DoEvento, MesmoEvento
<1>3. \A e \in Eventos : DoEvento(e)'
  BY <1>2, EventoIgual
<1>4. \A e \in Eventos : I!SemSilencio(e)'
  BY DEF evento, I!Indutivo, I!SemSilencio
<1> QED BY <1>1, <1>3, <1>4 DEF I!Indutivo, DoEvento

LEMMA JobsParados ==
  ASSUME M!Indutivo, UNCHANGED midia
  PROVE  M!Indutivo'
BY DEF midia, M!Indutivo, M!TypeOK, M!Acompanha, M!Cumpre, M!Em, M!Pendente, M!Apagou, M!Resolvido

LEMMA PassoIndutivo == Indutivo /\ [Next]_vars => Indutivo'
<1> SUFFICES ASSUME Indutivo, [Next]_vars PROVE Indutivo'
  OBVIOUS
<1>1. K!TypeOK
  BY DEF Indutivo, K!Indutivo
<1>2. ASSUME Cadastra, R!Observa, UNCHANGED cenario PROVE Indutivo'
  <2>1. PassoDoCadastro /\ UNCHANGED <<evento, envio, midia>>
    BY <1>2, CenarioCabe DEF Indutivo, Cadastra, PassoDoCadastro
  <2>2. UNCHANGED <<fase, faltam, copias, tentou, entregues>>
    BY <2>1 DEF envio
  <2> QED BY <1>2, <2>1, <2>2, CadastroIndutivo, EventosParados, EnviosParados, JobsParados
          DEF Indutivo
<1>3. ASSUME Encaminha, R!Observa, UNCHANGED cenario PROVE Indutivo'
  <2>1. PICK e \in Eventos : I!Evento(e)
    BY <1>3, CenarioCabe DEF Indutivo, Encaminha
  <2>2. UNCHANGED <<inboxes, cadastro, envio, midia>>
    BY <1>3 DEF Encaminha
  <2>3. UNCHANGED <<fase, faltam, copias, tentou, entregues>>
    BY <2>2 DEF envio
  <2> QED BY <1>1, <1>3, <2>1, <2>2, <2>3, CadastroParado, EventoIndutivo, EnviosParados,
             JobsParados DEF Indutivo
<1>4. ASSUME Redireciona, R!Observa, UNCHANGED cenario PROVE Indutivo'
  <2>1. UNCHANGED <<inboxes, cadastro, evento, midia>>
    BY <1>4 DEF Redireciona, R!Envio, R!FindAllByPid, R!FindActiveByAmbiente, R!ConsultaFalha,
                R!SendWithRetry, R!Dispatched, R!Gestor, R!Create, R!FindByUid, R!Update,
                R!Remove, R!Vence
  <2>2. \/ \E d \in Envios : R!Envio(d)
        \/ UNCHANGED <<fase, faltam, copias, tentou, entregues>>
    BY <1>4, CenarioCabe DEF Indutivo, Redireciona, R!Gestor, R!Create, R!FindByUid, R!Update,
                             R!Remove, R!Vence, R!envio
  <2>3. R!Indutivo'
    BY <1>1, <1>4, <2>2, EnvioIndutivo, EnviosParados DEF Indutivo
  <2> QED BY <1>4, <2>1, <2>3, CadastroParado, EventosParados, JobsParados DEF Indutivo
<1>5. ASSUME Publica, R!Observa, UNCHANGED cenario PROVE Indutivo'
  <2>1. UNCHANGED <<inboxes, cadastro, evento, envio>>
    BY <1>5 DEF Publica
  <2>2. UNCHANGED <<fase, faltam, copias, tentou, entregues>>
    BY <2>1 DEF envio
  <2>3. \/ \E j \in Jobs : \/ M!Upload(j) \/ M!Consome(j) \/ M!Tempo(j)
                           \/ \E b \in Bracos : M!HandleJob(j, b)
        \/ M!Rompe \/ M!ReiniciaBroker
    BY <1>5, CenarioCabe DEF Indutivo, Publica, Trata
  <2>4. M!Indutivo'
    BY <2>3, UploadIndutivo, ConsomeIndutivo, TempoIndutivo, BracoIndutivo, RompeIndutivo,
       ReiniciaBrokerIndutivo DEF Indutivo
  <2> QED BY <1>5, <2>1, <2>2, <2>4, CadastroParado, EventosParados, EnviosParados DEF Indutivo
<1>6. ASSUME Queda, R!Observa, UNCHANGED cenario PROVE Indutivo'
  <2>1. PassoDoCadastro /\ I!Queda /\ R!Queda /\ M!Queda
    BY <1>6 DEF Queda, PassoDoCadastro
  <2> QED BY <1>6, <2>1, CadastroIndutivo, EventosPerdidos, EnviosPerdidos, QuedaDosJobs
          DEF Indutivo
<1>7. CASE UNCHANGED vars
  <2>1. R!Indutivo'
    BY <1>7 DEF Indutivo, vars, envio, R!Indutivo, R!TypeOK, R!LeTudo, R!RedirecionaExato,
                R!Devidas, R!Vistas, R!AmbientesDe, R!Ativos, R!Existe
  <2> QED BY <1>7, <2>1, CadastroParado, EventosParados, JobsParados DEF Indutivo, vars
<1> QED BY <1>2, <1>3, <1>4, <1>5, <1>6, <1>7 DEF Next

LEMMA SempreIndutivo == Spec => []Indutivo
BY InitIndutivo, PassoIndutivo, PTL DEF Spec

(* A create that was answered has its pair in the table unless another call  *)
(* took it away, and fails on the unique index only if another took the pair *)
(* while it ran, whatever registrations, edits and deletions run beside it.  *)
THEOREM CreateCumpre == Spec => []CadastroCumpre
<1>1. Indutivo => CadastroCumpre BY DEF Indutivo, K!Indutivo, CadastroCumpre
<1> QED BY <1>1, SempreIndutivo, PTL

(* An Instagram event answered 200 has, until a crash, one outcome for each  *)
(* inbox it resolved to, and one of its own if it resolved to none, for any  *)
(* number of attempts: with none configured the outcome may be silence, and  *)
(* otherwise it never is.                                                    *)
THEOREM EventoTemDesfecho == Spec => []InstagramNaoPerde
<1>1. Indutivo => InstagramNaoPerde BY IndutivoNaoPerde DEF Indutivo, InstagramNaoPerde
<1> QED BY <1>1, SempreIndutivo, PTL

(* A webhook is copied to exactly the redirects due while it read them, each *)
(* until it is answered or the attempts are over, with the tables edited     *)
(* between its queries.                                                      *)
THEOREM CopiasDevidas == Spec => []RedirecionaExato
<1>1. Indutivo => RedirecionaExato BY DEF Indutivo, R!Indutivo, RedirecionaExato
<1> QED BY <1>1, SempreIndutivo, PTL

(* An upload that was accepted is queued, handled, settled at its caller or  *)
(* in a row, or lost for one of the named causes.                            *)
THEOREM UploadDeixaRastro == Spec => []JobDeixaRastro
<1>1. Indutivo => JobDeixaRastro BY IndutivoDeixaRastro DEF Indutivo, JobDeixaRastro
<1> QED BY <1>1, SempreIndutivo, PTL

-----------------------------------------------------------------------------
(* Every write of a call is an edit of one row.                              *)
LEMMA EscreveEdita ==
  ASSUME K!TypeOK, K!ParUnico', NEW c \in Chamadas, NEW i \in Ids, NEW linha \in K!Linha,
         K!Escreve(c, i, linha), inboxes[i] # Nenhuma => linha.pid = inboxes[i].pid
  PROVE  \E k \in Ids : Edita(k)
BY EscreveTabela DEF Edita

LEMMA ChamadaEdita ==
  ASSUME K!Indutivo, K!ParUnico', NEW c \in Chamadas, K!Chamada(c)
  PROVE  UNCHANGED inboxes \/ \E i \in Ids : Edita(i)
<1>1. K!TypeOK /\ DaChamada(c)
  BY IndutivoDoCadastro
<1> DEFINE i == achada[c]
<1>2. ASSUME passo[c] = "grava", i # Nenhuma
      PROVE  i \in Ids /\ inboxes[i] \in K!Linha
  BY <1>2, TemAchada
<1>3. CASE K!Revive(c)
  <2> DEFINE linha == [inboxes[i] EXCEPT !.del = FALSE]
  <2>1. i \in Ids /\ linha \in K!Linha /\ linha.pid = inboxes[i].pid /\ K!Escreve(c, i, linha)
    BY <1>2, <1>3 DEF K!Revive, K!Linha
  <2> HIDE DEF i, linha
  <2> QED BY <1>1, <2>1, EscreveEdita
<1>4. CASE K!Insere(c)
  <2> DEFINE linha == [pid |-> op[c].pid, amb |-> op[c].amb, del |-> FALSE]
  <2>1. linha \in K!Linha
    BY <1>1 DEF K!TypeOK, K!Linha, K!Operacao
  <2>2. UNCHANGED inboxes \/ \E k \in Ids : inboxes[k] = Nenhuma /\ K!Escreve(c, k, linha)
    BY <1>4 DEF K!Insere
  <2> HIDE DEF linha
  <2> QED BY <1>1, <2>1, <2>2, EscreveEdita
<1>5. CASE K!Update(c)
  <2> DEFINE linha == [inboxes[i] EXCEPT !.amb = op[c].amb]
  <2>1. i # Nenhuma
    BY <1>1, <1>5 DEF K!Update, DaChamada, K!Anda
  <2>2. i \in Ids /\ linha \in K!Linha /\ linha.pid = inboxes[i].pid
    BY <1>1, <1>2, <1>5, <2>1 DEF K!Update, K!TypeOK, K!Linha, K!Operacao
  <2>3. UNCHANGED inboxes \/ K!Escreve(c, i, linha)
    BY <1>5 DEF K!Update
  <2> HIDE DEF i, linha
  <2> QED BY <1>1, <2>2, <2>3, EscreveEdita
<1>6. CASE K!SoftDelete(c)
  <2> DEFINE linha == [inboxes[i] EXCEPT !.del = TRUE]
  <2>1. i # Nenhuma
    BY <1>1, <1>6 DEF K!SoftDelete, DaChamada, K!Anda
  <2>2. i \in Ids /\ linha \in K!Linha /\ linha.pid = inboxes[i].pid /\ K!Escreve(c, i, linha)
    BY <1>2, <1>6, <2>1 DEF K!SoftDelete, K!Linha
  <2> HIDE DEF i, linha
  <2> QED BY <1>1, <2>2, EscreveEdita
<1>7. CASE K!FindByPidEAmbiente(c) \/ K!FindApagada(c) \/ K!FindAmbiente(c) \/ K!FindById(c)
             \/ K!Excecao(c)
  BY <1>7 DEF K!FindByPidEAmbiente, K!FindApagada, K!FindAmbiente, K!FindById, K!Excecao
<1> QED BY <1>3, <1>4, <1>5, <1>6, <1>7 DEF K!Chamada

(* However the queries of registrations, edits and deletions interleave, and *)
(* wherever the process dies between them, what every reader of the table    *)
(* sees is a sequence of edits of one row each: no pid ever changes and no   *)
(* pair is ever in two rows.                                                 *)
THEOREM SoSeEditaUmaLinha == Spec => SoEdita
<1>1. Indutivo /\ Indutivo' /\ [Next]_vars => [\E i \in Ids : Edita(i)]_inboxes
  <2> SUFFICES ASSUME Indutivo, Indutivo', [Next]_vars
               PROVE  UNCHANGED inboxes \/ \E i \in Ids : Edita(i)
    OBVIOUS
  <2>1. K!Indutivo /\ K!ParUnico'
    BY DEF Indutivo, K!Indutivo
  <2>2. CASE Cadastra
    <3>1. ASSUME NEW c \in cenario.chamadas, K!Chamada(c)
          PROVE  UNCHANGED inboxes \/ \E i \in Ids : Edita(i)
      BY <2>1, <3>1, CenarioCabe, ChamadaEdita DEF Indutivo
    <3>2. ASSUME NEW a \in cenario.apagam, K!ApagaAmbiente(a) PROVE UNCHANGED inboxes
      BY <3>2 DEF K!ApagaAmbiente
    <3> QED BY <2>2, <3>1, <3>2 DEF Cadastra
  <2>3. CASE Encaminha \/ Publica
    BY <2>3 DEF Encaminha, Publica
  <2>4. CASE Redireciona
    BY <2>4 DEF Redireciona, R!Envio, R!FindAllByPid, R!FindActiveByAmbiente, R!ConsultaFalha,
                R!SendWithRetry, R!Dispatched, R!Gestor, R!Create, R!FindByUid, R!Update,
                R!Remove, R!Vence, R!envio
  <2>5. CASE Queda
    BY <2>5 DEF Queda, K!Queda
  <2>6. CASE UNCHANGED vars
    BY <2>6 DEF vars
  <2> QED BY <2>2, <2>3, <2>4, <2>5, <2>6 DEF Next
<1> QED BY <1>1, SempreIndutivo, PTL DEF Spec, SoEdita
=============================================================================
