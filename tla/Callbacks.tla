------------------------------ MODULE Callbacks ------------------------------
(***************************************************************************)
(* The urls of flow callbacks: the table flow_callbacks_urls and a cache   *)
(* in Redis that getUrl fills with a TTL and that update and remove empty  *)
(* after they have written the row.  A cached url is answered whatever the *)
(* row has become.                                                         *)
(***************************************************************************)
CONSTANTS Uids,        \* uids of callbacks; create draws one never used before
          Urls,        \* the urls the clients register
          Nulo,        \* no url, hence none of Urls
          Leitores,    \* calls of getUrl
          Gestores,    \* calls of create, update and remove
          Falhas       \* faults of this instance, a subset of TiposDeFalha

TiposDeFalha == {"banco", "redis"}

VARIABLES url,         \* table: the url of the row; Nulo if there is no row
          del,         \* table: the rows that are soft-deleted
          cache,       \* Redis: the url under flow_cb:uid, Nulo if none
          le,          \* per call of getUrl: where it is
          uidDe,       \* per call of getUrl: its uid
          obtida,      \* per call of getUrl: the url it has read
          gere,        \* per call that writes: where it is
          uidGerido,   \* per call that writes: its uid
          tardias      \* history: uids whose key a failed del or a late write left stale

linhas == <<url, del>>
leituras == <<le, uidDe, obtida>>
escritas == <<gere, uidGerido>>
vars == <<linhas, cache, leituras, escritas, tardias>>

Leituras == {"livre", "busca", "grava", "tem", "nenhuma", "erro"}
Escritas == {"livre", "achou", "escreveu", "feito", "erro"}

Viva(u) == url[u] # Nulo /\ u \notin del
Vigente(u) == IF Viva(u) THEN url[u] ELSE Nulo

(* A key that answers something else than the row would. *)
Velha(u) == cache[u] # Nulo /\ cache[u] # Vigente(u)

Init == /\ url \in [Uids -> Urls \cup {Nulo}]
        /\ del = {}
        /\ cache = [u \in Uids |-> Nulo]
        /\ le = [l \in Leitores |-> "livre"]
        /\ uidDe \in [Leitores -> Uids]
        /\ obtida = [l \in Leitores |-> Nulo]
        /\ gere = [g \in Gestores |-> "livre"]
        /\ uidGerido \in [Gestores -> Uids]
        /\ tardias = {}

-----------------------------------------------------------------------------
(* getUrl.  A Redis that does not answer is a miss.                        *)
Consulta(l) ==
  /\ le[l] = "livre"
  /\ \/ /\ cache[uidDe[l]] # Nulo
        /\ obtida' = [obtida EXCEPT ![l] = cache[uidDe[l]]]
        /\ le' = [le EXCEPT ![l] = "tem"]
     \/ /\ cache[uidDe[l]] = Nulo \/ "redis" \in Falhas
        /\ le' = [le EXCEPT ![l] = "busca"]
        /\ UNCHANGED obtida
  /\ UNCHANGED <<linhas, cache, uidDe, escritas, tardias>>

FindByUid(l) ==
  /\ le[l] = "busca"
  /\ le' = [le EXCEPT ![l] = IF Viva(uidDe[l]) THEN "grava" ELSE "nenhuma"]
  /\ obtida' = [obtida EXCEPT ![l] = Vigente(uidDe[l])]
  /\ UNCHANGED <<linhas, cache, uidDe, escritas, tardias>>

(* set with the TTL, of a url read before an await. *)
GravaCache(l) ==
  /\ le[l] = "grava"
  /\ le' = [le EXCEPT ![l] = "tem"]
  /\ cache' = [cache EXCEPT ![uidDe[l]] = obtida[l]]
  /\ tardias' = IF obtida[l] # Vigente(uidDe[l]) THEN tardias \cup {uidDe[l]}
                                                  ELSE tardias \ {uidDe[l]}
  /\ UNCHANGED <<linhas, uidDe, obtida, escritas>>

(* A set that fails is only logged; a query that fails throws. *)
LeituraFalha(l) ==
  /\ \/ /\ le[l] = "grava" /\ "redis" \in Falhas
        /\ le' = [le EXCEPT ![l] = "tem"]
     \/ /\ le[l] = "busca" /\ "banco" \in Falhas
        /\ le' = [le EXCEPT ![l] = "erro"]
  /\ UNCHANGED <<linhas, cache, uidDe, obtida, escritas, tardias>>

-----------------------------------------------------------------------------
(* create touches no cache. *)
Cria(g) == /\ gere[g] = "livre" /\ url[uidGerido[g]] = Nulo
           /\ \E x \in Urls : url' = [url EXCEPT ![uidGerido[g]] = x]
           /\ gere' = [gere EXCEPT ![g] = "feito"]
           /\ UNCHANGED <<del, cache, leituras, uidGerido, tardias>>

(* update and remove: find a live row (404 otherwise), write it by uid,    *)
(* then del.                                                               *)
Acha(g) == /\ gere[g] = "livre" /\ url[uidGerido[g]] # Nulo
           /\ gere' = [gere EXCEPT ![g] = IF Viva(uidGerido[g]) THEN "achou" ELSE "erro"]
           /\ UNCHANGED <<linhas, cache, leituras, uidGerido, tardias>>

(* Mutant: the key is deleted before the row is written. *)
DelAntes(g) ==
  /\ gere[g] = "achou"
  /\ \/ \E x \in Urls : url' = [url EXCEPT ![uidGerido[g]] = x] /\ UNCHANGED del
     \/ del' = del \cup {uidGerido[g]} /\ UNCHANGED url
  /\ gere' = [gere EXCEPT ![g] = "feito"]
  /\ UNCHANGED <<cache, leituras, uidGerido, tardias>>

Escreve(g) ==
  /\ gere[g] = "achou"
  /\ \/ \E x \in Urls : url' = [url EXCEPT ![uidGerido[g]] = x] /\ UNCHANGED del
     \/ del' = del \cup {uidGerido[g]} /\ UNCHANGED url
  /\ gere' = [gere EXCEPT ![g] = "escreveu"]
  /\ UNCHANGED <<cache, leituras, uidGerido, tardias>>

Invalida(g) ==
  /\ gere[g] = "escreveu"
  /\ cache' = [cache EXCEPT ![uidGerido[g]] = Nulo]
  /\ tardias' = tardias \ {uidGerido[g]}
  /\ gere' = [gere EXCEPT ![g] = "feito"]
  /\ UNCHANGED <<linhas, leituras, uidGerido>>

EscritaFalha(g) ==
  /\ \/ gere[g] = "achou" /\ "banco" \in Falhas
     \/ gere[g] = "escreveu" /\ "redis" \in Falhas
  /\ tardias' = IF gere[g] = "escreveu" THEN tardias \cup {uidGerido[g]} ELSE tardias
  /\ gere' = [gere EXCEPT ![g] = "erro"]
  /\ UNCHANGED <<linhas, cache, leituras, uidGerido>>

(* Redis drops the key at its TTL. *)
Expira(u) == /\ cache[u] # Nulo
             /\ cache' = [cache EXCEPT ![u] = Nulo]
             /\ tardias' = tardias \ {u}
             /\ UNCHANGED <<linhas, leituras, escritas>>

Leitor(l) == Consulta(l) \/ FindByUid(l) \/ GravaCache(l) \/ LeituraFalha(l)
Gestor(g) == Cria(g) \/ Acha(g) \/ Escreve(g) \/ Invalida(g) \/ EscritaFalha(g)

Next == \/ \E l \in Leitores : Leitor(l)
        \/ \E g \in Gestores : Gestor(g)
        \/ \E u \in Uids : Expira(u)

Spec == Init /\ [][Next]_vars

-----------------------------------------------------------------------------
TypeOK == /\ url \in [Uids -> Urls \cup {Nulo}]
          /\ del \subseteq Uids
          /\ cache \in [Uids -> Urls \cup {Nulo}]
          /\ le \in [Leitores -> Leituras]
          /\ uidDe \in [Leitores -> Uids]
          /\ obtida \in [Leitores -> Urls \cup {Nulo}]
          /\ gere \in [Gestores -> Escritas]
          /\ uidGerido \in [Gestores -> Uids]
          /\ tardias \subseteq Uids

(* A key that disagrees with its row is about to be deleted by the call    *)
(* that wrote the row, or that deletion failed, or a reader wrote a url    *)
(* older than the row.  Reading the row after the miss and deleting the    *)
(* key after the write are what leaves no other way.                       *)
UrlVelhaTemCausa ==
  \A u \in Uids : Velha(u) =>
     u \in tardias \/ \E g \in Gestores : uidGerido[g] = u /\ gere[g] = "escreveu"

(* What makes it inductive. *)
GestorTemLinha ==
  \A g \in Gestores : gere[g] \in {"achou", "escreveu"} => url[uidGerido[g]] # Nulo

Indutivo == TypeOK /\ UrlVelhaTemCausa /\ GestorTemLinha
=============================================================================
