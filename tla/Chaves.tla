------------------------------- MODULE Chaves --------------------------------
(***************************************************************************)
(* API keys: the table api_keys and the hash apikeys:valid in Redis, which *)
(* is all that ApiKeyGuard reads and which nothing ever clears.  create    *)
(* and revoke write the table first and the hash after an await; every     *)
(* instance that starts copies the live rows into the hash.                *)
(***************************************************************************)
CONSTANTS Chaves,      \* uids of keys; create draws one never used before
          Admins,      \* calls of create and revoke
          Instancias,  \* starts of an instance
          Falhas       \* faults of this instance, a subset of TiposDeFalha

TiposDeFalha == {"banco", "redis"}

VARIABLES linha,       \* table api_keys: no row, live or soft-deleted
          hash,        \* the fields of apikeys:valid
          etapa,       \* per call of an administrator: where it is
          alvo,        \* per call: the key it is about
          copia,       \* per start: rows read and not yet written to the hash
          partiu,      \* starts that have begun
          revogadas,   \* history: keys whose revocation was answered 204
          presas,      \* history: keys deleted by a revoke that failed before hdel
          relidas      \* history: keys written to the hash after their deletion

tabela == <<linha, hash>>
chamadas == <<etapa, alvo>>
partidas == <<copia, partiu>>
historia == <<revogadas, presas, relidas>>
vars == <<tabela, chamadas, partidas, historia>>

Etapas == {"livre", "criou", "achou", "apagou", "feito", "erro"}

Init == /\ linha \in [Chaves -> {"nenhuma", "viva"}]
        /\ hash = {k \in Chaves : linha[k] = "viva"}
        /\ etapa = [a \in Admins |-> "livre"]
        /\ alvo \in [Admins -> Chaves]
        /\ copia = [i \in Instancias |-> {}]
        /\ partiu = {}
        /\ revogadas = {} /\ presas = {} /\ relidas = {}

-----------------------------------------------------------------------------
Vai(a, e) == etapa' = [etapa EXCEPT ![a] = e]

Apagada(k) == linha[k] = "apagada"

(* hset by one that knows the row from before an await. *)
Hset(k) == /\ hash' = hash \cup {k}
           /\ relidas' = IF Apagada(k) THEN relidas \cup {k} ELSE relidas
           /\ UNCHANGED linha

(* create: the row, then the field of the hash. *)
Cria(a) == /\ etapa[a] = "livre" /\ linha[alvo[a]] = "nenhuma"
           /\ linha' = [linha EXCEPT ![alvo[a]] = "viva"]
           /\ Vai(a, "criou")
           /\ UNCHANGED <<hash, alvo, partidas, historia>>

CriaGrava(a) == /\ etapa[a] = "criou"
                /\ Hset(alvo[a])
                /\ Vai(a, "feito")
                /\ UNCHANGED <<alvo, partidas, revogadas, presas>>

(* revoke: find a live row (404 otherwise), delete it by uid, hdel. *)
Acha(a) == /\ etapa[a] = "livre" /\ linha[alvo[a]] = "viva"
           /\ Vai(a, "achou")
           /\ UNCHANGED <<tabela, alvo, partidas, historia>>

NaoAcha(a) == /\ etapa[a] = "livre" /\ Apagada(alvo[a])
              /\ Vai(a, "erro")
              /\ UNCHANGED <<tabela, alvo, partidas, historia>>

(* Mutant: a revocation leaves the key in the hash. *)
SoftDeleteSemHdel(a) == /\ etapa[a] = "achou"
                        /\ linha' = [linha EXCEPT ![alvo[a]] = "apagada"]
                        /\ revogadas' = revogadas \cup {alvo[a]}
                        /\ Vai(a, "feito")
                        /\ UNCHANGED <<hash, alvo, partidas, presas, relidas>>

SoftDelete(a) == /\ etapa[a] = "achou"
                 /\ linha' = [linha EXCEPT ![alvo[a]] = "apagada"]
                 /\ Vai(a, "apagou")
                 /\ UNCHANGED <<hash, alvo, partidas, historia>>

Hdel(a) == /\ etapa[a] = "apagou"
           /\ hash' = hash \ {alvo[a]}
           /\ revogadas' = revogadas \cup {alvo[a]}
           /\ presas' = presas \ {alvo[a]} /\ relidas' = relidas \ {alvo[a]}
           /\ Vai(a, "feito")
           /\ UNCHANGED <<linha, alvo, partidas>>

(* An await that throws answers 500 and leaves what was done before it. *)
Excecao(a) == /\ \/ etapa[a] = "achou" /\ "banco" \in Falhas
                 \/ etapa[a] \in {"criou", "apagou"} /\ "redis" \in Falhas
              /\ presas' = IF etapa[a] = "apagou" THEN presas \cup {alvo[a]} ELSE presas
              /\ Vai(a, "erro")
              /\ UNCHANGED <<tabela, alvo, partidas, revogadas, relidas>>

(* onModuleInit: the live rows in one query, then one hset each.  It fails *)
(* the start of the instance if Redis does.                                *)
Parte(i) == /\ i \notin partiu
            /\ partiu' = partiu \cup {i}
            /\ copia' = [copia EXCEPT ![i] = {k \in Chaves : linha[k] = "viva"}]
            /\ UNCHANGED <<tabela, chamadas, historia>>

ParteGrava(i) == \E k \in copia[i] :
                    /\ Hset(k)
                    /\ copia' = [copia EXCEPT ![i] = @ \ {k}]
                    /\ UNCHANGED <<chamadas, partiu, revogadas, presas>>

ParteFalha(i) == /\ "redis" \in Falhas /\ copia[i] # {}
                 /\ copia' = [copia EXCEPT ![i] = {}]
                 /\ UNCHANGED <<tabela, chamadas, partiu, historia>>

Admin(a) == \/ Cria(a) \/ CriaGrava(a) \/ Acha(a) \/ NaoAcha(a) \/ SoftDelete(a)
            \/ Hdel(a) \/ Excecao(a)
Instancia(i) == Parte(i) \/ ParteGrava(i) \/ ParteFalha(i)

Next == \/ \E a \in Admins : Admin(a)
        \/ \E i \in Instancias : Instancia(i)

Spec == Init /\ [][Next]_vars

-----------------------------------------------------------------------------
TypeOK == /\ linha \in [Chaves -> {"nenhuma", "viva", "apagada"}]
          /\ hash \subseteq Chaves
          /\ etapa \in [Admins -> Etapas]
          /\ alvo \in [Admins -> Chaves]
          /\ copia \in [Instancias -> SUBSET Chaves]
          /\ partiu \subseteq Instancias
          /\ revogadas \subseteq Chaves /\ presas \subseteq Chaves /\ relidas \subseteq Chaves

(* A deleted key authenticates only while the revoke that deleted it is    *)
(* about to take it out of the hash, if that revoke failed half-way, or if *)
(* a create or a start that had read the row earlier wrote it again.       *)
MortaTemCausa ==
  \A k \in hash : Apagada(k) =>
     k \in presas \cup relidas \/ \E a \in Admins : alvo[a] = k /\ etapa[a] = "apagou"

(* What makes it inductive: whoever holds a key has a row for it.          *)
TemLinha ==
  /\ \A a \in Admins : etapa[a] \in {"criou", "achou"} => linha[alvo[a]] # "nenhuma"
  /\ \A a \in Admins : etapa[a] = "apagou" => Apagada(alvo[a])
  /\ \A k \in revogadas : Apagada(k)

(* A key whose revocation was answered 204 is out of the hash, unless a    *)
(* create or a start that had read its row before wrote it again.          *)
RevogadaSai == \A k \in revogadas : k \in hash => k \in relidas

Indutivo == TypeOK /\ TemLinha /\ MortaTemCausa /\ RevogadaSai
=============================================================================
