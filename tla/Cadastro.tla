------------------------------ MODULE Cadastro -------------------------------
(***************************************************************************)
(* The table inboxes under concurrent registrations, edits and deletions.  *)
(* A pair (pid, ambiente) has one row, deleted ones included: create looks *)
(* for a live row, then for a deleted one to revive, and inserts only when *)
(* it found neither; every step is a query of its own.  update and         *)
(* softDelete find a live row and then write it by id alone.               *)
(***************************************************************************)
CONSTANTS Pids, Ambientes,
          Ids,         \* ids of rows; create draws one never used before
          Nenhuma,     \* no row, hence none of Ids
          Chamadas,    \* calls of the API of inboxes
          Operacoes,   \* bound: what they may ask for, see Operacao
          Falhas       \* faults of this instance: "banco"

Linha == [pid : Pids, amb : Ambientes, del : BOOLEAN]
Operacao == [tipo : {"create"}, pid : Pids, amb : Ambientes, id : {Nenhuma}]
              \cup [tipo : {"update", "softDelete"}, pid : Pids, amb : Ambientes, id : Ids]

VARIABLES inboxes,     \* the table: Nenhuma, or a Linha
          ativos,      \* ambientes that are not deleted
          op,          \* per call: its operation
          passo,       \* per call: "livre", "apagada", "ambiente", "grava", "fim"
          achada,      \* per call: the row it has found or written
          responde,    \* per call: its answer; a 500 of the unique index is "P2002"
          mexeram      \* history, per create: what others did to its pair

vars == <<inboxes, ativos, op, passo, achada, responde, mexeram>>

Vivas == {i \in Ids : inboxes[i] # Nenhuma /\ ~inboxes[i].del}
Do(i, p, a) == inboxes[i] # Nenhuma /\ inboxes[i].pid = p /\ inboxes[i].amb = a
Par(c) == <<op[c].pid, op[c].amb>>

(* The rows a pid resolves to, by findAllByPid. *)
FindAllByPid(p) == {i \in Vivas : inboxes[i].pid = p}

Init == /\ inboxes \in [Ids -> Linha \cup {Nenhuma}]
        /\ \A i, j \in Ids : inboxes[i] # Nenhuma /\ inboxes[j] # Nenhuma /\ i # j =>
              <<inboxes[i].pid, inboxes[i].amb>> # <<inboxes[j].pid, inboxes[j].amb>>
        /\ ativos = Ambientes
        /\ op \in [Chamadas -> Operacoes]
        /\ passo = [c \in Chamadas |-> "livre"]
        /\ achada = [c \in Chamadas |-> Nenhuma]
        /\ responde = [c \in Chamadas |-> "nenhuma"]
        /\ mexeram = [c \in Chamadas |-> {}]

-----------------------------------------------------------------------------
Vai(c, p) == passo' = [passo EXCEPT ![c] = p] /\ UNCHANGED responde
Responde(c, s) == /\ passo' = [passo EXCEPT ![c] = "fim"]
                  /\ responde' = [responde EXCEPT ![c] = s]

(* The call c writes the row i.  The creates of the pair it had see it     *)
(* taken away if it was moved or deleted; those of the pair it gets see it *)
(* taken.                                                                  *)
Escreve(c, i, linha) ==
  LET deAntes == IF inboxes[i] = Nenhuma THEN Nenhuma
                 ELSE <<inboxes[i].pid, inboxes[i].amb>>
      agora == <<linha.pid, linha.amb>>
      tirou == IF deAntes # agora \/ linha.del THEN {deAntes} ELSE {}
      tomou == IF deAntes # agora \/ ~linha.del THEN {agora} ELSE {}
  IN /\ inboxes' = [inboxes EXCEPT ![i] = linha]
     /\ mexeram' = [d \in Chamadas |->
          IF d = c \/ passo[d] = "livre" THEN mexeram[d]
          ELSE mexeram[d] \cup {m \in {"tirou", "tomou"} :
                                  Par(d) \in (IF m = "tirou" THEN tirou ELSE tomou)}]

(* create: 409 if the pair has a live row. *)
FindByPidEAmbiente(c) ==
  /\ passo[c] = "livre" /\ op[c].tipo = "create"
  /\ IF \E i \in Vivas : Do(i, op[c].pid, op[c].amb) THEN Responde(c, "409") ELSE Vai(c, "apagada")
  /\ UNCHANGED <<inboxes, ativos, op, achada, mexeram>>

(* Mutant: the deleted row is looked for by pid alone. *)
FindApagadaDoPid(c) ==
  /\ passo[c] = "apagada"
  /\ LET apagadas == {i \in Ids : inboxes[i] # Nenhuma /\ inboxes[i].pid = op[c].pid
                                   /\ inboxes[i].del}
     IN \/ apagadas = {} /\ UNCHANGED achada
        \/ \E i \in apagadas : achada' = [achada EXCEPT ![c] = i]
  /\ Vai(c, "ambiente")
  /\ UNCHANGED <<inboxes, ativos, op, mexeram>>

(* reviveByPidEAmbiente: a deleted row of the pair, or none. *)
FindApagada(c) ==
  /\ passo[c] = "apagada"
  /\ LET apagadas == {i \in Ids : Do(i, op[c].pid, op[c].amb) /\ inboxes[i].del}
     IN \/ apagadas = {} /\ UNCHANGED achada
        \/ \E i \in apagadas : achada' = [achada EXCEPT ![c] = i]
  /\ Vai(c, "ambiente")
  /\ UNCHANGED <<inboxes, ativos, op, mexeram>>

(* Both ways ask for a live ambiente. *)
FindAmbiente(c) ==
  /\ passo[c] = "ambiente"
  /\ IF op[c].amb \in ativos THEN Vai(c, "grava") ELSE Responde(c, "400")
  /\ UNCHANGED <<inboxes, ativos, op, achada, mexeram>>

(* By id alone, wherever the row is by now. *)
Revive(c) ==
  /\ passo[c] = "grava" /\ op[c].tipo = "create" /\ achada[c] # Nenhuma
  /\ Escreve(c, achada[c], [inboxes[achada[c]] EXCEPT !.del = FALSE])
  /\ Responde(c, "201")
  /\ UNCHANGED <<ativos, op, achada>>

(* Mutant: the unique index is a partial one, of the rows that are not deleted. *)
InsereIndiceParcial(c) ==
  /\ passo[c] = "grava" /\ op[c].tipo = "create" /\ achada[c] = Nenhuma
  /\ IF \E i \in Vivas : Do(i, op[c].pid, op[c].amb)
     THEN Responde(c, "P2002") /\ UNCHANGED <<inboxes, achada, mexeram>>
     ELSE \E i \in Ids :
            /\ inboxes[i] = Nenhuma
            /\ Escreve(c, i, [pid |-> op[c].pid, amb |-> op[c].amb, del |-> FALSE])
            /\ achada' = [achada EXCEPT ![c] = i]
            /\ Responde(c, "201")
  /\ UNCHANGED <<ativos, op>>

(* The unique index may answer P2002. *)
Insere(c) ==
  /\ passo[c] = "grava" /\ op[c].tipo = "create" /\ achada[c] = Nenhuma
  /\ IF \E i \in Ids : Do(i, op[c].pid, op[c].amb)
     THEN Responde(c, "P2002") /\ UNCHANGED <<inboxes, achada, mexeram>>
     ELSE \E i \in Ids :
            /\ inboxes[i] = Nenhuma
            /\ Escreve(c, i, [pid |-> op[c].pid, amb |-> op[c].amb, del |-> FALSE])
            /\ achada' = [achada EXCEPT ![c] = i]
            /\ Responde(c, "201")
  /\ UNCHANGED <<ativos, op>>

(* update and softDelete: 404 if the row is not live. *)
FindById(c) ==
  /\ passo[c] = "livre" /\ op[c].tipo # "create"
  /\ IF op[c].id \in Vivas
     THEN Vai(c, "grava") /\ achada' = [achada EXCEPT ![c] = op[c].id]
     ELSE Responde(c, "404") /\ UNCHANGED achada
  /\ UNCHANGED <<inboxes, ativos, op, mexeram>>

Update(c) ==
  /\ passo[c] = "grava" /\ op[c].tipo = "update"
  /\ IF \E i \in Ids \ {achada[c]} : Do(i, inboxes[achada[c]].pid, op[c].amb)
     THEN Responde(c, "P2002") /\ UNCHANGED <<inboxes, mexeram>>
     ELSE /\ Escreve(c, achada[c], [inboxes[achada[c]] EXCEPT !.amb = op[c].amb])
          /\ Responde(c, "200")
  /\ UNCHANGED <<ativos, op, achada>>

SoftDelete(c) ==
  /\ passo[c] = "grava" /\ op[c].tipo = "softDelete"
  /\ Escreve(c, achada[c], [inboxes[achada[c]] EXCEPT !.del = TRUE])
  /\ Responde(c, "200")
  /\ UNCHANGED <<ativos, op, achada>>

(* A query that fails ends the call; every call writes in its last query. *)
Excecao(c) == /\ "banco" \in Falhas
              /\ passo[c] \notin {"livre", "fim"}
              /\ Responde(c, "500")
              /\ UNCHANGED <<inboxes, ativos, op, achada, mexeram>>

(* An administrator deletes an ambiente. *)
ApagaAmbiente(a) == /\ a \in ativos
                    /\ ativos' = ativos \ {a}
                    /\ UNCHANGED <<inboxes, op, passo, achada, responde, mexeram>>

(* The process dies: its calls are never answered. *)
Queda == /\ passo' = [c \in Chamadas |-> IF passo[c] = "livre" THEN "livre" ELSE "fim"]
         /\ UNCHANGED <<inboxes, ativos, op, achada, responde, mexeram>>

Chamada(c) == \/ FindByPidEAmbiente(c) \/ FindApagada(c) \/ FindAmbiente(c) \/ Revive(c)
              \/ Insere(c) \/ FindById(c) \/ Update(c) \/ SoftDelete(c) \/ Excecao(c)

-----------------------------------------------------------------------------
(* What an answer to a create means while others write: after a 201 or a   *)
(* 409 the pair it asked for has a live row, unless another call took it   *)
(* away; and it is answered 500 only if another took the pair meanwhile.   *)
CadastroCumpre ==
  \A c \in Chamadas : op[c].tipo = "create" =>
     /\ responde[c] \in {"201", "409"} =>
          "tirou" \in mexeram[c] \/ \E i \in Vivas : Do(i, op[c].pid, op[c].amb)
     /\ responde[c] = "P2002" => "tomou" \in mexeram[c]

-----------------------------------------------------------------------------
(* The inductive invariant.  A row never vanishes, so the one a call has   *)
(* found is there, and no two are of one pair; a create still has the pair *)
(* as it looked, or others have touched it.                                *)
TypeOK == /\ inboxes \in [Ids -> Linha \cup {Nenhuma}]
          /\ op \in [Chamadas -> Operacao]
          /\ passo \in [Chamadas -> {"livre", "apagada", "ambiente", "grava", "fim"}]
          /\ achada \in [Chamadas -> Ids \cup {Nenhuma}]
          /\ responde \in [Chamadas -> {"nenhuma", "200", "201", "400", "404", "409", "500", "P2002"}]
          /\ mexeram \in [Chamadas -> SUBSET {"tirou", "tomou"}]

ParUnico == \A i, j \in Ids : inboxes[i] # Nenhuma /\ inboxes[j] # Nenhuma /\ i # j =>
              <<inboxes[i].pid, inboxes[i].amb>> # <<inboxes[j].pid, inboxes[j].amb>>

Anda(c) ==
  /\ passo[c] \in {"livre", "apagada"} => achada[c] = Nenhuma
  /\ passo[c] \in {"apagada", "ambiente"} => op[c].tipo = "create"
  /\ passo[c] = "grava" /\ op[c].tipo # "create" => achada[c] # Nenhuma
  /\ achada[c] # Nenhuma => inboxes[achada[c]] # Nenhuma
  /\ passo[c] # "fim" => responde[c] = "nenhuma"

(* What a create knows of its pair between its queries. *)
Sabe(c) ==
  op[c].tipo = "create" =>
     /\ passo[c] \in {"ambiente", "grava"} /\ achada[c] # Nenhuma =>
          "tirou" \in mexeram[c] \/ Do(achada[c], op[c].pid, op[c].amb)
     /\ \/ passo[c] = "apagada"
        \/ passo[c] \in {"ambiente", "grava"} /\ achada[c] = Nenhuma
        => \/ "tomou" \in mexeram[c]
           \/ \A i \in Ids : Do(i, op[c].pid, op[c].amb) => passo[c] = "apagada" /\ inboxes[i].del

Indutivo == TypeOK /\ ParUnico /\ (\A c \in Chamadas : Anda(c) /\ Sabe(c)) /\ CadastroCumpre
=============================================================================
