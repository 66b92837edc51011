------------------------- MODULE AmbienteCache_proofs -------------------------
(***************************************************************************)
(* AmbienteCache for any number of rows, readers, administrators and       *)
(* writes: typing, the provenance of every copy, and the two causes of a   *)
(* stale key.                                                              *)
(***************************************************************************)
EXTENDS AmbienteCache, TLAPS

(* A row that was never written is SemDoc, which is what idle requests     *)
(* hold; with it the provenance of copies is inductive.                    *)
NuncaEscrita == \A id \in Ambientes : linha[id].v = 0 => linha[id] = SemDoc

Indutivo == TypeOK /\ CopiasSaoDeLinhas /\ NuncaEscrita

EstadosL == [pc : {"livre", "busca", "grava"}, id : Ambientes, doc : Docs]
EstadosA == [pc : {"livre", "grava", "cache"}, op : Ops, id : Ambientes, doc : Docs]

LEMMA SemDocTipo == SemDoc \in Docs
  BY MaxVersaoAssumption DEF SemDoc, Docs

(* Nothing is older than a row that was never written. *)
LEMMA SemDocECopia ==
  ASSUME Indutivo, NEW id \in Ambientes PROVE CopiaDe(id, SemDoc)
  BY DEF Indutivo, TypeOK, NuncaEscrita, CopiaDe, SemDoc, Docs

LEMMA LivreTipo ==
  ASSUME NEW id \in Ambientes
  PROVE  /\ LeitorLivre(id) \in EstadosL
         /\ AdminLivre(id) \in EstadosA
  BY SemDocTipo DEF LeitorLivre, AdminLivre, EstadosL, EstadosA, Ops

LEMMA InitIndutivo == Init => Indutivo
<1> SUFFICES ASSUME Init PROVE Indutivo
  OBVIOUS
<1>0. SemDoc \in Docs /\ [v |-> 1, del |-> FALSE] \in Docs
  BY SemDocTipo, MaxVersaoAssumption DEF Docs
<1>1. linha \in [Ambientes -> Docs] /\ cache \in [Ambientes -> Docs] /\ aquece \in [Ambientes -> Docs]
  BY <1>0 DEF Init
<1>2. \A r \in Leitores : \E id \in Ambientes : leitor[r] = LeitorLivre(id)
  BY DEF Init
<1>3. \A a \in Admins : \E id \in Ambientes : admin[a] = AdminLivre(id)
  BY DEF Init
<1>4. leitor \in [Leitores -> EstadosL]
  BY <1>2, LivreTipo DEF Init
<1>5. admin \in [Admins -> EstadosA]
  BY <1>3, LivreTipo DEF Init
<1>6. TypeOK
  BY <1>1, <1>4, <1>5 DEF Init, TypeOK, EstadosL, EstadosA
<1>7. NuncaEscrita
  BY DEF Init, NuncaEscrita
<1>8. \A id \in Ambientes : CopiaDe(id, SemDoc)
  BY DEF Init, CopiaDe, SemDoc
<1>9. CopiasSaoDeLinhas
  BY <1>2, <1>3, <1>8 DEF Init, CopiasSaoDeLinhas, LeitorLivre, AdminLivre
<1> QED
  BY <1>6, <1>7, <1>9 DEF Indutivo

-----------------------------------------------------------------------------
(* A step that leaves the rows alone keeps the invariant if whatever it    *)
(* writes is typed and is a copy of its row.                               *)
LEMMA SoCopias ==
  ASSUME Indutivo, UNCHANGED linha,
         cache' \in [Ambientes -> Docs], aquece' \in [Ambientes -> Docs],
         comTtl' \subseteq Ambientes,
         leitor' \in [Leitores -> EstadosL], admin' \in [Admins -> EstadosA],
         \A id \in Ambientes : CopiaDe(id, cache'[id]) /\ CopiaDe(id, aquece'[id]),
         \A r \in Leitores : CopiaDe(leitor'[r].id, leitor'[r].doc),
         \A a \in Admins : CopiaDe(admin'[a].id, admin'[a].doc)
  PROVE  Indutivo'
<1>1. TypeOK'
  BY DEF Indutivo, TypeOK, EstadosL, EstadosA
<1>2. CopiasSaoDeLinhas'
  BY DEF CopiasSaoDeLinhas, CopiaDe
<1>3. NuncaEscrita'
  BY DEF Indutivo, NuncaEscrita
<1> QED
  BY <1>1, <1>2, <1>3 DEF Indutivo

(* The facts of the invariant that the action proofs use. *)
LEMMA Fatos ==
  ASSUME Indutivo
  PROVE  /\ linha \in [Ambientes -> Docs]
         /\ cache \in [Ambientes -> Docs]
         /\ aquece \in [Ambientes -> Docs]
         /\ comTtl \subseteq Ambientes
         /\ leitor \in [Leitores -> EstadosL]
         /\ admin \in [Admins -> EstadosA]
         /\ \A id \in Ambientes : CopiaDe(id, cache[id]) /\ CopiaDe(id, aquece[id])
         /\ \A r \in Leitores : CopiaDe(leitor[r].id, leitor[r].doc)
         /\ \A a \in Admins : CopiaDe(admin[a].id, admin[a].doc)
  BY DEF Indutivo, TypeOK, CopiasSaoDeLinhas, EstadosL, EstadosA

LEMMA LinhaECopia ==
  ASSUME Indutivo, NEW id \in Ambientes PROVE CopiaDe(id, linha[id])
  BY DEF Indutivo, TypeOK, CopiaDe, Docs

LEMMA PassoLeitor ==
  ASSUME Indutivo, NEW r \in Leitores, NEW novo \in EstadosL,
         CopiaDe(novo.id, novo.doc),
         leitor' = [leitor EXCEPT ![r] = novo],
         UNCHANGED <<linha, cache, comTtl, admin, aquece>>
  PROVE  Indutivo'
  BY Fatos, SoCopias

LEMMA PassoAdmin ==
  ASSUME Indutivo, NEW a \in Admins, NEW novo \in EstadosA,
         CopiaDe(novo.id, novo.doc),
         admin' = [admin EXCEPT ![a] = novo],
         UNCHANGED <<linha, cache, comTtl, leitor, aquece>>
  PROVE  Indutivo'
  BY Fatos, SoCopias

(* Writing a row makes every other copy of it older, and the request that  *)
(* wrote it holds the new row.                                             *)
LEMMA NovaVersao ==
  ASSUME Indutivo, NEW a \in Admins, NEW id \in Ambientes, NEW op \in Ops, NEW d \in Docs,
         d.v = linha[id].v + 1,
         linha' = [linha EXCEPT ![id] = d],
         admin' = [admin EXCEPT ![a] = [pc |-> "cache", op |-> op, id |-> id, doc |-> d]],
         UNCHANGED <<cache, comTtl, leitor, aquece>>
  PROVE  Indutivo'
<1>1. TypeOK'
  BY Fatos DEF TypeOK, EstadosA, EstadosL
<1>2. ASSUME NEW i \in Ambientes, NEW c \in Docs, CopiaDe(i, c) PROVE CopiaDe(i, c)'
  BY <1>2, Fatos DEF CopiaDe, Docs
<1>3. CopiaDe(id, d)'
  BY Fatos DEF CopiaDe, Docs
<1>4. \A i \in Ambientes : CopiaDe(i, cache[i])' /\ CopiaDe(i, aquece[i])'
  BY <1>2, Fatos
<1>5. ASSUME NEW r \in Leitores PROVE CopiaDe(leitor[r].id, leitor[r].doc)'
  BY <1>2, Fatos DEF EstadosL
<1>6. ASSUME NEW b \in Admins PROVE CopiaDe(admin[b].id, admin[b].doc)'
  <2>1. CASE b = a
    BY <2>1, <1>3, Fatos
  <2>2. CASE b # a
    BY <2>2, <1>2, Fatos DEF EstadosA
  <2> QED
    BY <2>1, <2>2
<1>7. CopiasSaoDeLinhas'
  BY <1>4, <1>5, <1>6 DEF CopiasSaoDeLinhas
<1>8. NuncaEscrita'
  BY Fatos DEF Indutivo, NuncaEscrita, Docs
<1> QED
  BY <1>1, <1>7, <1>8 DEF Indutivo

LEMMA PassoLinha ==
  ASSUME Indutivo, NEW a \in Admins, GravaLinha(a)
  PROVE  Indutivo'
<1>0. admin[a].id \in Ambientes /\ admin[a].op \in Ops /\ linha[admin[a].id] \in Docs
  BY Fatos DEF EstadosA
<1>1. PICK id \in Ambientes, op \in Ops : id = admin[a].id /\ op = admin[a].op
  BY <1>0
<1>2. CASE admin' = [admin EXCEPT ![a] = AdminLivre(id)] /\ UNCHANGED linha
  <2>1. AdminLivre(id) \in EstadosA /\ CopiaDe(AdminLivre(id).id, AdminLivre(id).doc)
    BY LivreTipo, SemDocECopia DEF AdminLivre
  <2> QED
    BY <1>2, <2>1, PassoAdmin DEF GravaLinha
<1>3. CASE /\ linha[id].v < MaxVersao
           /\ linha' = [linha EXCEPT ![id] = NovaLinha(op, @)]
           /\ admin' = [admin EXCEPT ![a] = [pc |-> "cache", op |-> op, id |-> id,
                                              doc |-> NovaLinha(op, linha[id])]]
  <2>1. linha[id].v + 1 \in 0 .. MaxVersao
    BY <1>0, <1>1, <1>3, MaxVersaoAssumption DEF Docs
  <2>2. (op = "softDelete" \/ (op = "update" /\ linha[id].del)) \in BOOLEAN
    BY Zenon
  <2>3. NovaLinha(op, linha[id]) \in Docs /\ NovaLinha(op, linha[id]).v = linha[id].v + 1
    BY <2>1, <2>2 DEF NovaLinha, Docs
  <2> HIDE DEF NovaLinha
  <2>4. linha' = [linha EXCEPT ![id] = NovaLinha(op, linha[id])]
    BY <1>3
  <2>5. UNCHANGED <<cache, comTtl, leitor, aquece>>
    BY DEF GravaLinha
  <2> QED
    BY <1>3, <2>3, <2>4, <2>5, NovaVersao
<1> QED
  BY <1>1, <1>2, <1>3 DEF GravaLinha

-----------------------------------------------------------------------------
LEMMA PassoIndutivo == Indutivo /\ [Next]_vars => Indutivo'
<1> SUFFICES ASSUME Indutivo, [Next]_vars PROVE Indutivo'
  OBVIOUS
<1>0. SemDoc \in Docs /\ \A id \in Ambientes : CopiaDe(id, SemDoc)
  BY SemDocTipo, SemDocECopia
<1>1. ASSUME NEW r \in Leitores, NEW id \in Ambientes, Get(r, id) PROVE Indutivo'
  <2> DEFINE novo == [pc |-> "busca", id |-> id, doc |-> SemDoc]
  <2>1. novo \in EstadosL /\ CopiaDe(novo.id, novo.doc)
    BY <1>0 DEF EstadosL
  <2> QED
    BY <1>1, <2>1, PassoLeitor DEF Get
<1>2. ASSUME NEW r \in Leitores, Busca(r) PROVE Indutivo'
  <2>1. leitor[r] \in EstadosL
    BY Fatos
  <2>2. PICK id \in Ambientes : id = leitor[r].id
    BY <2>1 DEF EstadosL
  <2>3. CASE Viva(id)
    <3> DEFINE novo == [leitor[r] EXCEPT !.pc = "grava", !.doc = linha[id]]
    <3>1. novo \in EstadosL /\ novo.id = id /\ novo.doc = linha[id]
      BY <2>1, <2>2, Fatos DEF EstadosL
    <3>2. leitor' = [leitor EXCEPT ![r] = novo]
      BY <1>2, <2>2, <2>3 DEF Busca
    <3> HIDE DEF novo
    <3> QED
      BY <1>2, <3>1, <3>2, LinhaECopia, PassoLeitor DEF Busca
  <2>4. CASE ~Viva(id)
    <3>1. LeitorLivre(id) \in EstadosL /\ CopiaDe(LeitorLivre(id).id, LeitorLivre(id).doc)
      BY LivreTipo, <1>0 DEF LeitorLivre
    <3> QED
      BY <1>2, <2>2, <2>4, <3>1, PassoLeitor DEF Busca
  <2> QED
    BY <2>3, <2>4
<1>3. ASSUME NEW r \in Leitores, GravaCache(r) PROVE Indutivo'
  <2>1. PICK id \in Ambientes, d \in Docs : id = leitor[r].id /\ d = leitor[r].doc
    BY Fatos DEF EstadosL
  <2>2. LeitorLivre(id) \in EstadosL /\ LeitorLivre(id).id = id /\ LeitorLivre(id).doc = SemDoc
    BY LivreTipo DEF LeitorLivre
  <2>3. leitor' = [leitor EXCEPT ![r] = LeitorLivre(id)]
    BY <1>3, <2>1 DEF GravaCache
  <2>4. cache' = [cache EXCEPT ![id] = d] /\ comTtl' = comTtl \cup {id}
    BY <1>3, <2>1 DEF GravaCache, RedisSet
  <2>5. UNCHANGED <<linha, admin, aquece>>
    BY <1>3 DEF GravaCache
  <2> QED
    BY <1>0, <2>1, <2>2, <2>3, <2>4, <2>5, Fatos, SoCopias
<1>4. ASSUME NEW a \in Admins, NEW op \in Ops, NEW id \in Ambientes, Confere(a, op, id)
      PROVE  Indutivo'
  <2> DEFINE novo == [pc |-> "grava", op |-> op, id |-> id, doc |-> SemDoc]
  <2>1. novo \in EstadosA /\ CopiaDe(novo.id, novo.doc)
    BY <1>0 DEF EstadosA
  <2> QED
    BY <1>4, <2>1, PassoAdmin DEF Confere
<1>5. ASSUME NEW a \in Admins, GravaLinha(a) PROVE Indutivo'
  BY <1>5, PassoLinha
<1>6. ASSUME NEW a \in Admins, Sincroniza(a) PROVE Indutivo'
  <2>1. PICK id \in Ambientes, d \in Docs : id = admin[a].id /\ d = admin[a].doc
    BY Fatos DEF EstadosA
  <2>2. AdminLivre(id) \in EstadosA /\ AdminLivre(id).id = id /\ AdminLivre(id).doc = SemDoc
    BY LivreTipo DEF AdminLivre
  <2>3. admin' = [admin EXCEPT ![a] = AdminLivre(id)]
    BY <1>6, <2>1 DEF Sincroniza
  <2>4. UNCHANGED <<linha, leitor, aquece>>
    BY <1>6 DEF Sincroniza
  <2>5. CASE cache' = [cache EXCEPT ![id] = d] /\ comTtl' = comTtl \cup {id}
    BY <1>0, <2>1, <2>2, <2>3, <2>4, <2>5, Fatos, SoCopias
  <2>6. CASE cache' = [cache EXCEPT ![id] = SemDoc] /\ comTtl' = comTtl \ {id}
    BY <1>0, <2>1, <2>2, <2>3, <2>4, <2>6, Fatos, SoCopias
  <2> QED
    BY <1>6, <2>1, <2>5, <2>6 DEF Sincroniza, RedisSet, RedisDel
<1>7. ASSUME Aquece PROVE Indutivo'
  <2>1. UNCHANGED <<linha, cache, comTtl, leitor, admin>>
    BY <1>7 DEF Aquece
  <2>2. aquece' = [id \in Ambientes |-> IF Viva(id) THEN linha[id] ELSE SemDoc]
    BY <1>7 DEF Aquece
  <2>3. \A id \in Ambientes : CopiaDe(id, linha[id])
    BY LinhaECopia
  <2> QED
    BY <1>0, <2>1, <2>2, <2>3, Fatos, SoCopias
<1>8. ASSUME NEW id \in Ambientes, AqueceGrava(id) PROVE Indutivo'
  BY <1>0, <1>8, Fatos, SoCopias DEF AqueceGrava, RedisSet
<1>9. ASSUME NEW id \in Ambientes, Expira(id) PROVE Indutivo'
  BY <1>0, <1>9, Fatos, SoCopias DEF Expira, RedisDel
<1>10. ASSUME NEW r \in Leitores, LeitorFalha(r) PROVE Indutivo'
  <2>1. PICK id \in Ambientes : id = leitor[r].id
    BY Fatos DEF EstadosL
  <2>2. LeitorLivre(id) \in EstadosL /\ CopiaDe(LeitorLivre(id).id, LeitorLivre(id).doc)
    BY LivreTipo, <1>0 DEF LeitorLivre
  <2> QED
    BY <1>10, <2>1, <2>2, PassoLeitor DEF LeitorFalha
<1>11. ASSUME NEW a \in Admins, AdminFalha(a) PROVE Indutivo'
  <2>1. PICK id \in Ambientes : id = admin[a].id
    BY Fatos DEF EstadosA
  <2>2. AdminLivre(id) \in EstadosA /\ CopiaDe(AdminLivre(id).id, AdminLivre(id).doc)
    BY LivreTipo, <1>0 DEF AdminLivre
  <2> QED
    BY <1>11, <2>1, <2>2, PassoAdmin DEF AdminFalha
<1>12. ASSUME NEW id \in Ambientes, AqueceFalha(id) PROVE Indutivo'
  BY <1>0, <1>12, Fatos, SoCopias DEF AqueceFalha
<1>13. CASE UNCHANGED vars
  BY <1>13, Fatos, SoCopias DEF vars
<1> QED
  BY <1>1, <1>2, <1>3, <1>4, <1>5, <1>6, <1>7, <1>8, <1>9, <1>10, <1>11, <1>12, <1>13
     DEF Next, Le, Escreve, Continua, Falha

LEMMA Indutividade == Spec => []Indutivo
<1>1. Init => Indutivo
  BY InitIndutivo
<1>2. Indutivo /\ [Next]_vars => Indutivo'
  BY PassoIndutivo
<1> QED
  BY <1>1, <1>2, PTL DEF Spec

(* Type correctness, for any number of rows, readers and administrators.   *)
THEOREM Tipos == Spec => []TypeOK
<1>1. Indutivo => TypeOK
  BY DEF Indutivo
<1> QED
  BY <1>1, Indutividade, PTL

(* Every cached or in-flight document is a version its row has had, and a  *)
(* copy of the current version is the current row.                         *)
THEOREM Proveniencia == Spec => []CopiasSaoDeLinhas
<1>1. Indutivo => CopiasSaoDeLinhas
  BY DEF Indutivo
<1> QED
  BY <1>1, Indutividade, PTL

-----------------------------------------------------------------------------
(* A step that touches neither the rows nor the keys breaks no agreement.  *)
LEMMA SemEfeito ==
  ASSUME UNCHANGED <<linha, cache>> PROVE PerdeCoerenciaComCausa
  BY DEF PerdeCoerenciaComCausa, Coerente

LEMMA PassoCausa == Indutivo /\ [Next]_vars => [PerdeCoerenciaComCausa]_vars
<1> SUFFICES ASSUME Indutivo, Next PROVE PerdeCoerenciaComCausa
  OBVIOUS
<1>1. ASSUME NEW r \in Leitores, GravaCache(r) PROVE PerdeCoerenciaComCausa
  BY <1>1, Fatos DEF GravaCache, RedisSet, PerdeCoerenciaComCausa, Coerente, SeguraCopiaVelha
<1>2. ASSUME NEW a \in Admins, GravaLinha(a) PROVE PerdeCoerenciaComCausa
  <2> SUFFICES ASSUME NEW id \in Ambientes, Coerente(id), ~Coerente(id)'
               PROVE  VaiSincronizar(id)'
    BY DEF PerdeCoerenciaComCausa
  <2>1. linha'[id] # linha[id]
    BY <1>2 DEF GravaLinha, Coerente
  <2>2. id = admin[a].id
    BY <1>2, <2>1, Fatos DEF GravaLinha
  <2>3. admin'[a].pc = "cache" /\ admin'[a].id = id
    BY <1>2, <2>1, <2>2, Fatos DEF GravaLinha
  <2> QED
    BY <2>3 DEF VaiSincronizar
<1>3. ASSUME NEW a \in Admins, Sincroniza(a) PROVE PerdeCoerenciaComCausa
  BY <1>3, Fatos DEF Sincroniza, RedisSet, RedisDel, PerdeCoerenciaComCausa, Coerente,
     SeguraCopiaVelha
<1>4. ASSUME NEW id \in Ambientes, AqueceGrava(id) PROVE PerdeCoerenciaComCausa
  BY <1>4, Fatos DEF AqueceGrava, RedisSet, PerdeCoerenciaComCausa, Coerente, SeguraCopiaVelha
<1>5. ASSUME NEW id \in Ambientes, Expira(id) PROVE PerdeCoerenciaComCausa
  BY <1>5, Fatos DEF Expira, RedisDel, PerdeCoerenciaComCausa, Coerente
<1>6. CASE Le \/ Escreve \/ Aquece \/ Falha \/ \E r \in Leitores : Busca(r)
  <2>1. UNCHANGED <<linha, cache>>
    BY <1>6 DEF Le, Get, Escreve, Confere, Aquece, Falha, LeitorFalha, AdminFalha, AqueceFalha, Busca
  <2> QED
    BY <2>1, SemEfeito
<1> QED
  BY <1>1, <1>2, <1>3, <1>4, <1>5, <1>6 DEF Next, Continua

(* Only the two causes named there ever make a key disagree with its row,  *)
(* for any number of readers, administrators and starting instances.       *)
THEOREM CausaDaIncoerencia == Spec => IncoerenciaTemCausa
<1>1. Indutivo /\ [Next]_vars => [PerdeCoerenciaComCausa]_vars
  BY PassoCausa
<1> QED
  BY <1>1, Indutividade, PTL DEF Spec, IncoerenciaTemCausa
=============================================================================
