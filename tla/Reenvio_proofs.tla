---------------------------- MODULE Reenvio_proofs ----------------------------
(***************************************************************************)
(* Reenvio for any number of rows, batches and single calls: no message is *)
(* forgotten by re-sending it, and the counts of every batch add up.       *)
(***************************************************************************)
EXTENDS Reenvio, FiniteSetTheorems, TLAPS

(* A non-empty set of numbers has a least element. *)
LEMMA Menor ==
  ASSUME NEW T \in SUBSET Nat, T # {}
  PROVE  \E x \in T : \A y \in T : x <= y
<1>1. \E x \in T : \A y \in T : ~(<<y, x>> \in OpToRel(<, Nat))
  BY WFMin, NatLessThanWellFounded, Zenon
<1>2. ASSUME NEW x \in Nat, NEW y \in Nat, x < y PROVE <<x, y>> \in OpToRel(<, Nat)
  <2> DEFINE ss == <<x, y>>
  <2>1. ss \in Nat \X Nat /\ ss[1] < ss[2]
    BY <1>2
  <2> HIDE DEF ss
  <2> QED
    BY <2>1, Zenon DEF OpToRel, ss
<1>3. \A x, y \in Nat : ~(<<y, x>> \in OpToRel(<, Nat)) => ~(y < x)
  BY <1>2, Zenon
<1>4. PICK x \in T : \A y \in T : ~(y < x)
  BY <1>1, <1>3, Zenon
<1> QED
  BY <1>4

LEMMA IdsFinito == \A Q \in SUBSET Ids : IsFiniteSet(Q) /\ Cardinality(Q) \in Nat
<1>1. IsFiniteSet(Ids)
  BY LinhasAssumption, FS_Interval DEF Ids
<1> QED
  BY <1>1, FS_Subset, FS_CardinalityType

(* A page has at most Limite rows: those above its least row are fewer,    *)
(* by the condition that put that row on the page.                         *)
LEMMA PaginaCabe ==
  ASSUME NEW Q \in SUBSET Ids
  PROVE  Cardinality(Pagina(Q)) <= Limite
<1> DEFINE P == Pagina(Q)
<1>a. P \subseteq Q
  BY Zenon DEF Pagina
<1>b. Ids \subseteq Nat
  BY LinhasAssumption DEF Ids
<1> HIDE DEF P
<1>0. P \subseteq Q /\ P \in SUBSET Ids /\ P \in SUBSET Nat
  BY <1>a, <1>b
<1>1. CASE P = {}
  BY <1>1, FS_EmptySet, LimiteAssumption DEF P
<1>2. CASE P # {}
  <2>1. PICK x \in P : \A y \in P : x <= y
    BY <1>0, <1>2, Menor
  <2> DEFINE A == {k \in Q : k > x}
  <2>2. Cardinality(A) < Limite
    BY <2>1, Zenon DEF P, Pagina
  <2>3. IsFiniteSet(A) /\ Cardinality(A) \in Nat
    <3>1. A \in SUBSET Ids
      OBVIOUS
    <3> QED
      BY <3>1, IdsFinito
  <2>4. P \subseteq A \cup {x} /\ x \notin A
    BY <2>1, <1>0
  <2> HIDE DEF A
  <2>5. IsFiniteSet(A \cup {x}) /\ Cardinality(A \cup {x}) = Cardinality(A) + 1
    BY <2>3, <2>4, FS_AddElement
  <2>6. Cardinality(P) <= Cardinality(A \cup {x})
    BY <2>4, <2>5, FS_Subset
  <2>7. Cardinality(P) \in Nat
    BY <1>0, IdsFinito
  <2> QED
    BY <2>2, <2>3, <2>5, <2>6, <2>7, LimiteAssumption DEF P
<1> QED
  BY <1>1, <1>2

-----------------------------------------------------------------------------
LEMMA InitIndutivo == Init => Indutivo
<1> SUFFICES ASSUME Init PROVE Indutivo
  OBVIOUS
<1>1. \A m \in Mensagens : Nova(m) \in Linhas /\ ~Nova(m).reenviado
  BY DEF Nova, Linhas
<1>2. linha \in [1 .. n -> Linhas] /\ \A l \in 1 .. n : ~linha[l].reenviado
  BY <1>1 DEF Init
<1>3. LoteLivre \in LotesOK
  BY DEF LoteLivre, LotesOK
<1>4. TypeOK
  BY <1>2, <1>3 DEF Init, TypeOK, AvulsosOK
<1>5. TemSucessora
  BY <1>2 DEF Init, TemSucessora, RowsDe, AMarcar, LoteLivre
<1>6. ChamadasCoerentes
  BY DEF Init, ChamadasCoerentes, LoteLivre
<1>7. ContagemFecha
  <2>1. Cardinality({}) = 0
    BY FS_EmptySet
  <2>2. /\ LoteLivre.total = 0
        /\ LoteLivre.reenviadas = 0
        /\ LoteLivre.falhas = 0
        /\ LoteLivre.cand = {}
    BY DEF LoteLivre
  <2>3. \A b \in Lotes : lote[b] = LoteLivre
    BY DEF Init
  <2> HIDE DEF LoteLivre
  <2> QED
    BY <2>1, <2>2, <2>3, LimiteAssumption DEF ContagemFecha
<1> QED
  BY <1>4, <1>5, <1>6, <1>7 DEF Indutivo

-----------------------------------------------------------------------------
(* The loop of a batch takes one row off its list and counts it once.      *)
LEMMA ContaEfeito ==
  ASSUME Indutivo, NEW b \in Lotes, NEW l \in lote[b].cand,
         NEW r \in {0, 1}, NEW f \in {0, 1}, r + f = 1, Conta(b, l, r, f)
  PROVE  /\ lote' \in [Lotes -> LotesOK]
         /\ \A c \in Lotes : c # b => lote'[c] = lote[c]
         /\ lote'[b].pc = "despacha"
         /\ lote'[b].cand \subseteq lote[b].cand
         /\ ContagemFecha'
<1> DEFINE velho == lote[b]
           novo == [pc |-> "despacha", cand |-> velho.cand \ {l}, id |-> 0,
                    total |-> velho.total,
                    reenviadas |-> velho.reenviadas + r, falhas |-> velho.falhas + f]
<1>1. velho \in LotesOK /\ lote \in [Lotes -> LotesOK]
  BY DEF Indutivo, TypeOK
<1>2. lote' = [lote EXCEPT ![b] = novo]
  BY DEF Conta
<1>3. /\ novo \in LotesOK
      /\ novo.pc = "despacha"
      /\ novo.cand = velho.cand \ {l}
      /\ novo.total = velho.total
      /\ novo.reenviadas = velho.reenviadas + r
      /\ novo.falhas = velho.falhas + f
  BY <1>1 DEF LotesOK
<1>4. /\ velho.total \in Nat /\ velho.reenviadas \in Nat /\ velho.falhas \in Nat
      /\ velho.cand \in SUBSET Ids
  BY <1>1 DEF LotesOK
<1>5. velho.total = velho.reenviadas + velho.falhas + Cardinality(velho.cand) /\ velho.total <= Limite
  BY DEF Indutivo, ContagemFecha
<1>6. IsFiniteSet(velho.cand) /\ Cardinality(velho.cand) \in Nat
  BY <1>4, IdsFinito
<1>7. Cardinality(velho.cand \ {l}) = Cardinality(velho.cand) - 1
  BY <1>6, FS_RemoveElement
<1> HIDE DEF novo
<1>8. lote' \in [Lotes -> LotesOK] /\ lote'[b] = novo /\ \A c \in Lotes : c # b => lote'[c] = lote[c]
  BY <1>1, <1>2, <1>3
<1>9. /\ novo.total = novo.reenviadas + novo.falhas + Cardinality(novo.cand)
      /\ novo.total <= Limite
  <2>1. Cardinality(novo.cand) = Cardinality(velho.cand) - 1
    BY <1>3, <1>7
  <2>2. novo.reenviadas + novo.falhas = velho.reenviadas + velho.falhas + 1
    BY <1>3, <1>4
  <2>3. novo.reenviadas \in Nat /\ novo.falhas \in Nat /\ novo.total = velho.total
    BY <1>3, <1>4
  <2> HIDE DEF velho
  <2> QED
    BY <1>4, <1>5, <1>6, <2>1, <2>2, <2>3
<1>10. ASSUME NEW c \in Lotes
       PROVE  /\ lote'[c].total = lote'[c].reenviadas + lote'[c].falhas + Cardinality(lote'[c].cand)
              /\ lote'[c].total <= Limite
  <2>1. CASE c = b
    BY <2>1, <1>8, <1>9
  <2>2. CASE c # b
    BY <2>2, <1>8 DEF Indutivo, ContagemFecha
  <2> QED
    BY <2>1, <2>2
<1> QED
  BY <1>3, <1>8, <1>10 DEF ContagemFecha

(* Selecting rows: at most a page of them, all counted. *)
LEMMA SelecionaEfeito ==
  ASSUME Indutivo, NEW b \in Lotes, NEW S, NEW periodo \in SUBSET (1 .. n), NEW forcar \in BOOLEAN,
         Seleciona(b, S, periodo, forcar)
  PROVE  /\ lote' \in [Lotes -> LotesOK]
         /\ \A c \in Lotes : c # b => lote'[c] = lote[c]
         /\ lote'[b].pc = "despacha"
         /\ lote'[b].cand \subseteq 1 .. n
         /\ ContagemFecha'
<1> DEFINE Q == Consulta(S, periodo, forcar)
           cand == DoPid(S, Pagina(Q))
           novo == [pc |-> "despacha", cand |-> cand, id |-> 0,
                    total |-> Cardinality(cand), reenviadas |-> 0, falhas |-> 0]
<1>1. lote \in [Lotes -> LotesOK] /\ n \in 0 .. MaxLinhas
  BY DEF Indutivo, TypeOK
<1>2. 1 .. n \subseteq Ids
  BY <1>1, LinhasAssumption DEF Ids
<1>3. Q \subseteq periodo /\ Pagina(Q) \subseteq Q /\ cand \subseteq Pagina(Q)
  BY Zenon DEF Consulta, Pagina, DoPid
<1>4. lote' = [lote EXCEPT ![b] = novo]
  BY DEF Seleciona
<1> HIDE DEF Q, cand
<1>6. Q \in SUBSET Ids /\ Pagina(Q) \in SUBSET Ids /\ cand \in SUBSET Ids /\ cand \subseteq 1 .. n
  BY <1>2, <1>3
<1>7. Cardinality(Pagina(Q)) <= Limite
  BY <1>6, PaginaCabe
<1>8. IsFiniteSet(Pagina(Q)) /\ Cardinality(Pagina(Q)) \in Nat /\ Cardinality(cand) \in Nat
  BY <1>6, IdsFinito
<1>9. Cardinality(cand) <= Cardinality(Pagina(Q))
  BY <1>3, <1>8, FS_Subset
<1>10. Cardinality(cand) <= Limite
  BY <1>7, <1>8, <1>9, LimiteAssumption
<1>11. /\ novo \in LotesOK
       /\ novo.pc = "despacha"
       /\ novo.cand = cand
       /\ novo.total = novo.reenviadas + novo.falhas + Cardinality(novo.cand)
       /\ novo.total <= Limite
  BY <1>6, <1>8, <1>10 DEF LotesOK
<1> HIDE DEF novo
<1>12. lote' \in [Lotes -> LotesOK] /\ lote'[b] = novo /\ \A c \in Lotes : c # b => lote'[c] = lote[c]
  BY <1>1, <1>4, <1>11
<1>13. ContagemFecha'
  BY <1>11, <1>12 DEF Indutivo, ContagemFecha
<1> QED
  BY <1>6, <1>11, <1>12, <1>13

-----------------------------------------------------------------------------
LEMMA Fatos ==
  ASSUME Indutivo
  PROVE  /\ n \in 0 .. MaxLinhas
         /\ linha \in [1 .. n -> Linhas]
         /\ fila \in [Mensagens -> Nat]
         /\ perdidas \subseteq Mensagens
         /\ envios \in [Ids -> Nat]
         /\ lote \in [Lotes -> LotesOK]
         /\ avulso \in [Avulsos -> AvulsosOK]
         /\ 1 .. n \subseteq Ids
         /\ \A b \in Lotes : lote[b].cand \subseteq 1 .. n
         /\ ContagemFecha /\ ChamadasCoerentes /\ TemSucessora
  BY LinhasAssumption DEF Indutivo, TypeOK, ChamadasCoerentes, Ids

(* A step of one batch that marks nothing keeps a successor of every       *)
(* message, if the batch is not about to mark one afterwards.              *)
LEMMA PassoDeLote ==
  ASSUME Indutivo, NEW b \in Lotes,
         UNCHANGED <<n, linha, fila, perdidas, envios, avulso>>,
         lote' \in [Lotes -> LotesOK],
         \A c \in Lotes : c # b => lote'[c] = lote[c],
         lote'[b].pc # "marca",
         lote'[b].cand \subseteq 1 .. n,
         ContagemFecha'
  PROVE  Indutivo'
<1>1. TypeOK'
  BY Fatos DEF TypeOK
<1>2. ChamadasCoerentes'
  BY Fatos DEF ChamadasCoerentes
<1>3. \A l : AMarcar(l)' => AMarcar(l)
  BY DEF AMarcar
<1>4. TemSucessora'
  BY <1>3, Fatos DEF TemSucessora, RowsDe
<1> QED
  BY <1>1, <1>2, <1>4 DEF Indutivo

(* A step that leaves the batches alone. *)
LEMMA ForaDosLotes ==
  ASSUME Indutivo, UNCHANGED lote, TypeOK', n <= n',
         \A a \in Avulsos : /\ avulso'[a].pc \in {"envia", "marca"} => avulso'[a].id \in 1 .. n
                            /\ avulso'[a].pc = "marca" => envios'[avulso'[a].id] > 0,
         TemSucessora'
  PROVE  Indutivo'
<1>1. 1 .. n \subseteq 1 .. n'
  BY Fatos DEF TypeOK
<1>2. ChamadasCoerentes'
  <2>1. \A b \in Lotes : /\ lote[b].cand \subseteq 1 .. n'
                         /\ lote[b].pc = "marca" => lote[b].id \in lote[b].cand
    BY <1>1, Fatos DEF ChamadasCoerentes
  <2>2. ASSUME NEW a \in Avulsos
        PROVE  /\ avulso'[a].pc \in {"envia", "marca"} => avulso'[a].id \in 1 .. n'
               /\ avulso'[a].pc = "marca" => envios'[avulso'[a].id] > 0
    BY <1>1
  <2>3. \A b \in Lotes : /\ lote'[b].cand \subseteq 1 .. n'
                         /\ lote'[b].pc = "marca" => lote'[b].id \in lote'[b].cand
    BY <2>1
  <2> QED
    BY <2>2, <2>3 DEF ChamadasCoerentes
<1>3. ContagemFecha'
  BY Fatos DEF ContagemFecha
<1> QED
  BY <1>2, <1>3 DEF Indutivo

LEMMA PassoSeleciona ==
  ASSUME Indutivo, NEW b \in Lotes, PedeLote(b) PROVE Indutivo'
<1>0. /\ (SUBSET Inboxes) \cup {Todas} \subseteq SUBSET Todas
      /\ Periodos \subseteq SUBSET (1 .. n)
  <2>1. (SUBSET Inboxes) \cup {Todas} \subseteq SUBSET Todas
    <3>1. Inboxes \subseteq Todas
      BY DEF Todas
    <3> QED
      BY <3>1
  <2>2. \A i, j \in 1 .. n : i .. j \subseteq 1 .. n
    BY Fatos
  <2>3. ASSUME NEW Q \in Periodos PROVE Q \subseteq 1 .. n
    <3>1. Q = 1 .. n \/ \E i, j \in 1 .. n : Q = i .. j
      BY DEF Periodos
    <3> QED
      BY <2>2, <3>1
  <2> QED
    BY <2>1, <2>3
<1>1. PICK S \in SUBSET Todas, periodo \in SUBSET (1 .. n), forcar \in BOOLEAN :
         Seleciona(b, S, periodo, forcar)
  BY <1>0 DEF PedeLote
<1>2. UNCHANGED <<n, linha, fila, perdidas, envios, avulso>>
  BY <1>1 DEF Seleciona
<1>3. /\ lote' \in [Lotes -> LotesOK]
      /\ \A c \in Lotes : c # b => lote'[c] = lote[c]
      /\ lote'[b].pc = "despacha"
      /\ lote'[b].cand \subseteq 1 .. n
      /\ ContagemFecha'
  BY <1>1, SelecionaEfeito
<1> QED
  BY <1>2, <1>3, PassoDeLote

LEMMA PassoPula ==
  ASSUME Indutivo, NEW b \in Lotes, PulaSemInbox(b) PROVE Indutivo'
<1>1. PICK l \in lote[b].cand : Conta(b, l, 0, 1)
  BY DEF PulaSemInbox, Primeira
<1>2. UNCHANGED <<n, linha, fila, perdidas, envios, avulso>>
  BY DEF PulaSemInbox
<1>3. /\ lote' \in [Lotes -> LotesOK]
      /\ \A c \in Lotes : c # b => lote'[c] = lote[c]
      /\ lote'[b].pc = "despacha"
      /\ lote'[b].cand \subseteq lote[b].cand
      /\ ContagemFecha'
  BY <1>1, ContaEfeito
<1> QED
  BY <1>2, <1>3, Fatos, PassoDeLote

LEMMA PassoResponde ==
  ASSUME Indutivo, NEW b \in Lotes, Responde(b) PROVE Indutivo'
<1> DEFINE novo == [LoteLivre EXCEPT !.pc = "fim"]
<1>1. lote' = [lote EXCEPT ![b] = novo]
  BY DEF Responde
<1>2. /\ novo \in LotesOK /\ novo.pc = "fim" /\ novo.cand = {}
      /\ novo.total = 0 /\ novo.reenviadas = 0 /\ novo.falhas = 0
  BY DEF LotesOK, LoteLivre
<1> HIDE DEF novo
<1>3. lote' \in [Lotes -> LotesOK] /\ lote'[b] = novo /\ \A c \in Lotes : c # b => lote'[c] = lote[c]
  BY <1>1, <1>2, Fatos
<1>4. ContagemFecha'
  <2>1. Cardinality(novo.cand) = 0
    BY <1>2, FS_EmptySet
  <2>2. /\ novo.total = novo.reenviadas + novo.falhas + Cardinality(novo.cand)
        /\ novo.total <= Limite
    BY <1>2, <2>1, LimiteAssumption
  <2> QED
    BY <1>3, <2>2, Fatos DEF ContagemFecha
<1> QED
  BY <1>2, <1>3, <1>4, Fatos, PassoDeLote DEF Responde

(* handle() leaves the message of the row delivered or with an envelope.   *)
LEMMA PassoHandle ==
  ASSUME Indutivo, NEW b \in Lotes, Handle(b) PROVE Indutivo'
<1>1. PICK l \in Primeira(b) :
        /\ \/ /\ envios' = [envios EXCEPT ![l] = @ + 1]
              /\ UNCHANGED <<fila, perdidas>>
           \/ /\ fila' = [fila EXCEPT ![linha[l].msg] = @ + 1]
              /\ UNCHANGED <<perdidas, envios>>
           \/ /\ perdidas' = perdidas \cup {linha[l].msg}
              /\ UNCHANGED <<fila, envios>>
        /\ lote' = [lote EXCEPT ![b] = [@ EXCEPT !.pc = "marca", !.id = l]]
  BY DEF Handle
<1>2. UNCHANGED <<n, linha, avulso>>
  BY DEF Handle
<1>3. l \in lote[b].cand /\ l \in 1 .. n /\ l \in Ids /\ linha[l] \in Linhas
  BY Fatos DEF Primeira
<1>4. PICK q \in Mensagens : q = linha[l].msg
  BY <1>3 DEF Linhas
<1> DEFINE velho == lote[b]
           novo == [velho EXCEPT !.pc = "marca", !.id = l]
<1>5. velho \in LotesOK
  BY Fatos
<1>6. lote' = [lote EXCEPT ![b] = novo]
  BY <1>1
<1> HIDE DEF velho
<1>7. /\ novo \in LotesOK
      /\ novo.pc = "marca" /\ novo.cand = velho.cand /\ novo.id = l
      /\ novo.total = velho.total /\ novo.reenviadas = velho.reenviadas
      /\ novo.falhas = velho.falhas
  BY <1>3, <1>5 DEF LotesOK
<1> HIDE DEF novo
<1>8. lote' \in [Lotes -> LotesOK] /\ lote'[b] = novo /\ \A c \in Lotes : c # b => lote'[c] = lote[c]
  BY <1>6, <1>7, Fatos
<1>9. /\ fila' \in [Mensagens -> Nat] /\ envios' \in [Ids -> Nat]
      /\ \A m \in Mensagens : fila[m] > 0 => fila'[m] > 0
      /\ \A k \in Ids : envios[k] > 0 => envios'[k] > 0
      /\ perdidas \subseteq perdidas' /\ perdidas' \subseteq Mensagens
      /\ fila'[q] > 0 \/ envios'[l] > 0 \/ q \in perdidas'
  <2>1. CASE envios' = [envios EXCEPT ![l] = @ + 1] /\ fila' = fila /\ perdidas' = perdidas
    BY <2>1, <1>3, Fatos
  <2>2. CASE fila' = [fila EXCEPT ![q] = @ + 1] /\ envios' = envios /\ perdidas' = perdidas
    BY <2>2, Fatos
  <2>3. CASE perdidas' = perdidas \cup {q} /\ fila' = fila /\ envios' = envios
    BY <2>3, Fatos
  <2> QED
    BY <1>1, <1>4, <2>1, <2>2, <2>3
<1>10. TypeOK'
  BY <1>2, <1>8, <1>9, Fatos DEF TypeOK
<1>12. ChamadasCoerentes'
  <2>1. ASSUME NEW c \in Lotes
        PROVE  /\ lote'[c].cand \subseteq 1 .. n'
               /\ lote'[c].pc = "marca" => lote'[c].id \in lote'[c].cand
    BY <1>2, <1>3, <1>7, <1>8, Fatos DEF ChamadasCoerentes, velho
  <2>2. ASSUME NEW a \in Avulsos
        PROVE  /\ avulso'[a].pc \in {"envia", "marca"} => avulso'[a].id \in 1 .. n'
               /\ avulso'[a].pc = "marca" => envios'[avulso'[a].id] > 0
    BY <1>2, <1>9, Fatos DEF ChamadasCoerentes
  <2> QED
    BY <2>1, <2>2 DEF ChamadasCoerentes
<1>13. TemSucessora'
  <2>1. ASSUME NEW k, k # l, AMarcar(k)' PROVE AMarcar(k)
    BY <2>1, <1>7, <1>8 DEF AMarcar
  <2> SUFFICES ASSUME NEW m \in Mensagens, m \notin perdidas'
               PROVE  \/ fila'[m] > 0
                      \/ \E k \in RowsDe(m)' : envios'[k] > 0 \/ (~linha'[k].reenviado /\ ~AMarcar(k)')
    BY DEF TemSucessora
  <2>2. CASE m = q
    <3>1. l \in RowsDe(m)'
      BY <2>2, <1>2, <1>3, <1>4 DEF RowsDe
    <3> QED
      BY <2>2, <3>1, <1>9
  <2>3. CASE m # q
    <3>1. CASE fila[m] > 0
      BY <3>1, <1>9
    <3>2. CASE ~(fila[m] > 0)
      <4>1. PICK k \in RowsDe(m) : envios[k] > 0 \/ (~linha[k].reenviado /\ ~AMarcar(k))
        BY <3>2, <1>9, Fatos DEF TemSucessora
      <4>2. k # l /\ k \in Ids /\ k \in RowsDe(m)'
        BY <4>1, <2>3, <1>2, <1>4, Fatos DEF RowsDe
      <4> QED
        BY <4>1, <4>2, <2>1, <1>2, <1>9
    <3> QED
      BY <3>1, <3>2
  <2> QED
    BY <2>2, <2>3
<1>14. ContagemFecha'
  BY <1>7, <1>8, Fatos DEF ContagemFecha, velho
<1> QED
  BY <1>10, <1>12, <1>13, <1>14 DEF Indutivo

(* The row a batch marks was never the successor of its message. *)
LEMMA PassoMarca ==
  ASSUME Indutivo, NEW b \in Lotes, MarcaReenviado(b) PROVE Indutivo'
<1> DEFINE l == lote[b].id
<1>1. lote[b].pc = "marca" /\ UNCHANGED <<n, fila, perdidas, envios, avulso>>
  BY DEF MarcaReenviado
<1>2. l \in lote[b].cand /\ l \in 1 .. n
  BY <1>1, Fatos DEF ChamadasCoerentes
<1>3. AMarcar(l)
  BY <1>1 DEF AMarcar
<1>4. (linha' = linha) \/ Marca(l)
  BY DEF MarcaReenviado
<1>5. /\ lote' \in [Lotes -> LotesOK]
      /\ \A c \in Lotes : c # b => lote'[c] = lote[c]
      /\ lote'[b].pc = "despacha"
      /\ lote'[b].cand \subseteq lote[b].cand
      /\ ContagemFecha'
  <2>1. Conta(b, l, 1, 0) \/ Conta(b, l, 0, 1)
    BY DEF MarcaReenviado
  <2> HIDE DEF l
  <2>2. CASE Conta(b, l, 1, 0)
    BY <2>2, <1>2, ContaEfeito
  <2>3. CASE Conta(b, l, 0, 1)
    BY <2>3, <1>2, ContaEfeito
  <2> QED
    BY <2>1, <2>2, <2>3
<1> HIDE DEF l
<1>6. /\ linha' \in [1 .. n -> Linhas]
      /\ \A k \in 1 .. n : linha'[k].msg = linha[k].msg
      /\ \A k \in 1 .. n : k # l => linha'[k] = linha[k]
  <2>1. CASE linha' = linha
    BY <2>1, Fatos
  <2>2. CASE Marca(l)
    <3> DEFINE nova == [linha[l] EXCEPT !.reenviado = TRUE]
    <3>1. linha[l] \in Linhas
      BY <1>2, Fatos
    <3>2. nova \in Linhas /\ nova.msg = linha[l].msg
      BY <3>1 DEF Linhas
    <3>3. linha' = [linha EXCEPT ![l] = nova]
      BY <2>2 DEF Marca
    <3> HIDE DEF nova
    <3> QED
      BY <1>2, <3>2, <3>3, Fatos
  <2> QED
    BY <1>4, <2>1, <2>2
<1>7. TypeOK'
  BY <1>1, <1>5, <1>6, Fatos DEF TypeOK
<1>8. ChamadasCoerentes'
  BY <1>1, <1>5, Fatos DEF ChamadasCoerentes
<1>9. TemSucessora'
  <2>1. ASSUME NEW k, AMarcar(k)' PROVE AMarcar(k)
    BY <2>1, <1>5 DEF AMarcar
  <2> SUFFICES ASSUME NEW m \in Mensagens, m \notin perdidas, ~(fila[m] > 0)
               PROVE  \E k \in RowsDe(m)' : envios'[k] > 0 \/ (~linha'[k].reenviado /\ ~AMarcar(k)')
    BY <1>1 DEF TemSucessora
  <2>2. PICK k \in RowsDe(m) : envios[k] > 0 \/ (~linha[k].reenviado /\ ~AMarcar(k))
    BY Fatos DEF TemSucessora
  <2>3. k \in 1 .. n /\ k \in RowsDe(m)'
    BY <1>1, <1>6 DEF RowsDe
  <2>4. CASE envios[k] > 0
    BY <2>3, <2>4, <1>1
  <2>5. CASE ~linha[k].reenviado /\ ~AMarcar(k)
    BY <2>1, <2>3, <2>5, <1>3, <1>6
  <2> QED
    BY <2>2, <2>4, <2>5
<1> QED
  BY <1>5, <1>7, <1>8, <1>9 DEF Indutivo

-----------------------------------------------------------------------------
(* Outside the batches a row is only marked after a delivery of its own,   *)
(* and an envelope only disappears into a new row.                         *)
LEMMA Mantem ==
  ASSUME Indutivo, UNCHANGED <<lote, perdidas>>, n' \in 0 .. MaxLinhas, n <= n',
         \A k \in 1 .. n : /\ linha'[k].msg = linha[k].msg
                           /\ envios[k] > 0 => envios'[k] > 0
                           /\ linha'[k].reenviado => linha[k].reenviado \/ envios'[k] > 0,
         \A m \in Mensagens :
            \/ fila[m] > 0 => fila'[m] > 0
            \/ \E k \in 1 .. n' : linha'[k].msg = m /\ ~linha'[k].reenviado /\ ~AMarcar(k)
  PROVE  TemSucessora'
<1>1. \A k : AMarcar(k)' <=> AMarcar(k)
  BY DEF AMarcar
<1>2. 1 .. n \subseteq 1 .. n'
  BY Fatos
<1> SUFFICES ASSUME NEW m \in Mensagens, m \notin perdidas, ~(fila'[m] > 0)
             PROVE  \E k \in RowsDe(m)' : envios'[k] > 0 \/ (~linha'[k].reenviado /\ ~AMarcar(k)')
  BY DEF TemSucessora
<1>3. CASE fila[m] > 0
  BY <1>1, <1>3 DEF RowsDe
<1>4. CASE ~(fila[m] > 0)
  <2>1. PICK k \in RowsDe(m) : envios[k] > 0 \/ (~linha[k].reenviado /\ ~AMarcar(k))
    BY <1>4, Fatos DEF TemSucessora
  <2>2. k \in 1 .. n /\ k \in RowsDe(m)'
    BY <2>1, <1>2 DEF RowsDe
  <2> QED
    BY <1>1, <2>1, <2>2
<1> QED
  BY <1>3, <1>4

LEMMA PassoAvulso ==
  ASSUME Indutivo, NEW a \in Avulsos,
         Post(a) \/ Recusa(a) \/ \E l \in 1 .. n : Confere(a, l)
  PROVE  Indutivo'
<1>1. UNCHANGED <<n, linha, fila, perdidas, lote>>
  BY DEF Post, Recusa, Confere
<1>2. avulso[a] \in AvulsosOK
  BY Fatos
<1>3. /\ avulso' \in [Avulsos -> AvulsosOK]
      /\ envios' \in [Ids -> Nat]
      /\ \A k \in Ids : envios[k] > 0 => envios'[k] > 0
      /\ \A c \in Avulsos : /\ avulso'[c].pc \in {"envia", "marca"} => avulso'[c].id \in 1 .. n
                            /\ avulso'[c].pc = "marca" => envios'[avulso'[c].id] > 0
  <2>1. ASSUME NEW l \in 1 .. n, Confere(a, l) PROVE <1>3!:
    <3>1. avulso' = [avulso EXCEPT ![a] = [pc |-> "envia", id |-> l]] /\ UNCHANGED envios
      BY <2>1 DEF Confere
    <3>2. [pc |-> "envia", id |-> l] \in AvulsosOK
      BY Fatos DEF AvulsosOK
    <3> QED
      BY <3>1, <3>2, Fatos DEF ChamadasCoerentes
  <2>2. CASE Post(a)
    <3> DEFINE novo == [avulso[a] EXCEPT !.pc = "marca"]
    <3>1. avulso' = [avulso EXCEPT ![a] = novo] /\ avulso[a].pc = "envia"
      BY <2>2 DEF Post
    <3>2. novo \in AvulsosOK /\ novo.pc = "marca" /\ novo.id = avulso[a].id
      BY <1>2 DEF AvulsosOK
    <3>3. PICK l \in 1 .. n : l = avulso[a].id
      BY <3>1, Fatos DEF ChamadasCoerentes
    <3>4. envios' = [envios EXCEPT ![l] = @ + 1]
      BY <2>2, <3>3 DEF Post
    <3> HIDE DEF novo
    <3>5. envios' \in [Ids -> Nat] /\ envios'[l] > 0 /\ \A k \in Ids : envios[k] > 0 => envios'[k] > 0
      BY <3>4, Fatos
    <3>6. avulso' \in [Avulsos -> AvulsosOK] /\ avulso'[a] = novo /\ \A c \in Avulsos : c # a => avulso'[c] = avulso[c]
      BY <3>1, <3>2, Fatos
    <3> QED
      BY <3>2, <3>3, <3>5, <3>6, Fatos DEF ChamadasCoerentes
  <2>3. CASE Recusa(a)
    <3> DEFINE novo == [pc |-> "fim", id |-> 0]
    <3>1. avulso' = [avulso EXCEPT ![a] = novo] /\ UNCHANGED envios
      BY <2>3 DEF Recusa
    <3>2. novo \in AvulsosOK /\ novo.pc = "fim"
      BY <1>2 DEF AvulsosOK
    <3> HIDE DEF novo
    <3> QED
      BY <3>1, <3>2, Fatos DEF ChamadasCoerentes
  <2> QED
    BY <2>1, <2>2, <2>3
<1>4. TypeOK'
  BY <1>1, <1>3, Fatos DEF TypeOK
<1>5. TemSucessora'
  <2>1. n' \in 0 .. MaxLinhas /\ n <= n'
    BY <1>1, Fatos
  <2>2. \A k \in 1 .. n : /\ linha'[k].msg = linha[k].msg
                          /\ envios[k] > 0 => envios'[k] > 0
                          /\ linha'[k].reenviado => linha[k].reenviado \/ envios'[k] > 0
    BY <1>1, <1>3, Fatos
  <2>3. \A m \in Mensagens : fila[m] > 0 => fila'[m] > 0
    BY <1>1
  <2> QED
    BY <1>1, <2>1, <2>2, <2>3, Mantem
<1> QED
  BY <1>1, <1>3, <1>4, <1>5, Fatos, ForaDosLotes

(* Every update of rows in place, seen from outside. *)
LEMMA PassoLinhas ==
  ASSUME Indutivo, UNCHANGED <<n, fila, perdidas, envios, lote>>,
         avulso' \in [Avulsos -> AvulsosOK],
         \A c \in Avulsos : avulso'[c] = avulso[c] \/ avulso'[c].pc = "fim",
         linha' \in [1 .. n -> Linhas],
         \A k \in 1 .. n : /\ linha'[k].msg = linha[k].msg
                           /\ linha'[k].reenviado => linha[k].reenviado \/ envios[k] > 0
  PROVE  Indutivo'
<1>1. TypeOK'
  BY Fatos DEF TypeOK
<1>2. TemSucessora'
  BY Fatos, Mantem
<1>3. \A c \in Avulsos : /\ avulso'[c].pc \in {"envia", "marca"} => avulso'[c].id \in 1 .. n
                         /\ avulso'[c].pc = "marca" => envios'[avulso'[c].id] > 0
  BY Fatos DEF ChamadasCoerentes
<1> QED
  BY <1>1, <1>2, <1>3, Fatos, ForaDosLotes

LEMMA PassoMarcaAvulso ==
  ASSUME Indutivo, NEW a \in Avulsos, MarcaAvulso(a) PROVE Indutivo'
<1>1. UNCHANGED <<n, fila, perdidas, envios, lote>> /\ avulso[a].pc = "marca"
  BY DEF MarcaAvulso
<1>2. PICK l \in 1 .. n : l = avulso[a].id /\ envios[l] > 0
  BY <1>1, Fatos DEF ChamadasCoerentes
<1>3. linha' = linha \/ linha' = [linha EXCEPT ![l].reenviado = TRUE]
  BY <1>2 DEF MarcaAvulso, Marca
<1>4. /\ linha' \in [1 .. n -> Linhas]
      /\ \A k \in 1 .. n : /\ linha'[k].msg = linha[k].msg
                           /\ linha'[k].reenviado => linha[k].reenviado \/ envios[k] > 0
  <2> DEFINE nova == [linha[l] EXCEPT !.reenviado = TRUE]
  <2>1. linha[l] \in Linhas
    BY Fatos
  <2>2. nova \in Linhas /\ nova.msg = linha[l].msg
    BY <2>1 DEF Linhas
  <2>3. linha' = linha \/ linha' = [linha EXCEPT ![l] = nova]
    BY <1>3
  <2> HIDE DEF nova
  <2> QED
    BY <1>2, <2>2, <2>3, Fatos
<1>5. /\ avulso' \in [Avulsos -> AvulsosOK]
      /\ \A c \in Avulsos : avulso'[c] = avulso[c] \/ avulso'[c].pc = "fim"
  <2> DEFINE novo == [pc |-> "fim", id |-> 0]
  <2>1. avulso' = [avulso EXCEPT ![a] = novo]
    BY DEF MarcaAvulso
  <2>2. avulso[a] \in AvulsosOK
    BY Fatos
  <2>3. novo \in AvulsosOK /\ novo.pc = "fim"
    BY <2>2 DEF AvulsosOK
  <2> HIDE DEF novo
  <2> QED
    BY <2>1, <2>3, Fatos
<1> QED
  BY <1>1, <1>4, <1>5, PassoLinhas

LEMMA PassoApaga ==
  ASSUME Indutivo, NEW l \in 1 .. n, SoftDelete(l) \/ HardDeleteOlderThan(l) PROVE Indutivo'
<1>1. UNCHANGED <<n, fila, perdidas, envios, lote, avulso>>
  BY DEF SoftDelete, HardDeleteOlderThan
<1>2. /\ linha' \in [1 .. n -> Linhas]
      /\ \A k \in 1 .. n : linha'[k].msg = linha[k].msg /\ linha'[k].reenviado = linha[k].reenviado
  <2>1. CASE SoftDelete(l)
    <3> DEFINE nova == [linha[l] EXCEPT !.estado = "apagada"]
    <3>1. linha[l] \in Linhas
      BY Fatos
    <3>2. nova \in Linhas /\ nova.msg = linha[l].msg /\ nova.reenviado = linha[l].reenviado
      BY <3>1 DEF Linhas
    <3>3. linha' = [linha EXCEPT ![l] = nova]
      BY <2>1 DEF SoftDelete
    <3> HIDE DEF nova
    <3> QED
      BY <3>2, <3>3, Fatos
  <2>2. CASE HardDeleteOlderThan(l)
    <3> DEFINE nova(k) == IF k <= l THEN [linha[k] EXCEPT !.estado = "purgada"] ELSE linha[k]
    <3>1. \A k \in 1 .. n : linha[k] \in Linhas
      BY Fatos
    <3>2. ASSUME NEW k \in 1 .. n
          PROVE  nova(k) \in Linhas /\ nova(k).msg = linha[k].msg /\ nova(k).reenviado = linha[k].reenviado
      BY <3>1 DEF Linhas
    <3>3. linha' = [k \in 1 .. n |-> nova(k)]
      BY <2>2 DEF HardDeleteOlderThan
    <3> HIDE DEF nova
    <3> QED
      BY <3>2, <3>3
  <2> QED
    BY <2>1, <2>2
<1> QED
  BY <1>1, <1>2, Fatos, PassoLinhas

(* The consumer turns an envelope into a row no batch has selected. *)
LEMMA PassoRegistra ==
  ASSUME Indutivo, NEW m \in Mensagens, Registra(m) PROVE Indutivo'
<1>1. fila[m] > 0 /\ n < MaxLinhas /\ n' = n + 1 /\ UNCHANGED <<perdidas, envios, lote, avulso>>
  BY DEF Registra
<1>2. n' \in 0 .. MaxLinhas /\ n <= n' /\ n + 1 \notin 1 .. n /\ 1 .. n \subseteq 1 .. n'
      /\ n + 1 \in 1 .. n'
  BY <1>1, Fatos, LinhasAssumption
<1>3. Nova(m) \in Linhas /\ Nova(m).msg = m /\ ~Nova(m).reenviado
  BY DEF Nova, Linhas
<1>4. linha' = [k \in 1 .. n' |-> IF k = n' THEN Nova(m) ELSE linha[k]]
  BY <1>1 DEF Registra
<1>5. /\ linha' \in [1 .. n' -> Linhas]
      /\ linha'[n'] = Nova(m)
      /\ \A k \in 1 .. n : linha'[k] = linha[k]
  <2>1. \A k \in 1 .. n' : k # n' => k \in 1 .. n
    BY <1>1, Fatos
  <2> HIDE DEF Nova
  <2> QED
    BY <1>1, <1>2, <1>3, <1>4, <2>1, Fatos
<1>6. fila' = [fila EXCEPT ![m] = @ - 1]
  BY DEF Registra
<1>7. fila' \in [Mensagens -> Nat] /\ \A q \in Mensagens : q # m => fila'[q] = fila[q]
  BY <1>1, <1>6, Fatos
<1>8. TypeOK'
  BY <1>1, <1>2, <1>5, <1>7, Fatos DEF TypeOK
<1>9. ~AMarcar(n')
  BY <1>1, <1>2, Fatos DEF AMarcar, ChamadasCoerentes
<1>10. TemSucessora'
  <2>1. linha'[n'].msg = m /\ ~linha'[n'].reenviado /\ n' \in 1 .. n'
    BY <1>1, <1>2, <1>3, <1>5
  <2>2. \A q \in Mensagens :
            \/ fila[q] > 0 => fila'[q] > 0
            \/ \E k \in 1 .. n' : linha'[k].msg = q /\ ~linha'[k].reenviado /\ ~AMarcar(k)
    BY <1>7, <1>9, <2>1
  <2> QED
    BY <1>1, <1>2, <1>5, <2>2, Mantem
<1> QED
  BY <1>1, <1>2, <1>8, <1>10, Fatos, ForaDosLotes DEF ChamadasCoerentes

LEMMA PassoParado == ASSUME Indutivo, UNCHANGED vars PROVE Indutivo'
<1>1. UNCHANGED <<n, linha, fila, perdidas, envios, lote, avulso>>
  BY DEF vars
<1>2. TypeOK'
  BY <1>1, Fatos DEF TypeOK
<1>3. TemSucessora'
  BY <1>1, Fatos, Mantem
<1> QED
  BY <1>1, <1>2, <1>3, Fatos, ForaDosLotes DEF ChamadasCoerentes

-----------------------------------------------------------------------------
LEMMA PassoIndutivo == Indutivo /\ [Next]_vars => Indutivo'
<1> SUFFICES ASSUME Indutivo, [Next]_vars PROVE Indutivo'
  OBVIOUS
<1>1. ASSUME NEW b \in Lotes, PedeLote(b) PROVE Indutivo'
  BY <1>1, PassoSeleciona
<1>2. ASSUME NEW b \in Lotes, Reenvia(b) PROVE Indutivo'
  BY <1>2, PassoPula, PassoHandle, PassoMarca, PassoResponde DEF Reenvia
<1>3. ASSUME NEW a \in Avulsos, Post(a) \/ Recusa(a) \/ \E l \in 1 .. n : Confere(a, l)
      PROVE  Indutivo'
  BY <1>3, PassoAvulso
<1>4. ASSUME NEW a \in Avulsos, MarcaAvulso(a) PROVE Indutivo'
  BY <1>4, PassoMarcaAvulso
<1>5. ASSUME NEW m \in Mensagens, Registra(m) PROVE Indutivo'
  BY <1>5, PassoRegistra
<1>6. ASSUME NEW l \in 1 .. n, SoftDelete(l) \/ HardDeleteOlderThan(l) PROVE Indutivo'
  BY <1>6, PassoApaga
<1>7. CASE UNCHANGED vars
  BY <1>7, PassoParado
<1> QED
  BY <1>1, <1>2, <1>3, <1>4, <1>5, <1>6, <1>7 DEF Next

THEOREM Indutividade == Spec => []Indutivo
<1> QED
  BY InitIndutivo, PassoIndutivo, PTL DEF Spec

(* The types of the rows, the queue and the calls in progress.             *)
THEOREM Tipos == Spec => []TypeOK
<1>1. Indutivo => TypeOK
  BY DEF Indutivo
<1> QED
  BY <1>1, Indutividade, PTL

(* However many batches, single calls, deletions and purges interleave, a  *)
(* message is delivered, still has a row to re-send or is on its way to a  *)
(* new row, unless handle() swallowed an exception.                        *)
THEOREM NaoEsquece == Spec => []NenhumaEsquecida
<1>1. Indutivo => NenhumaEsquecida
  BY DEF Indutivo, TemSucessora, NenhumaEsquecida
<1> QED
  BY <1>1, Indutividade, PTL

(* A batch selects at most a page, and counts each row of it once.         *)
THEOREM Contagem == Spec => []ContagemFecha
<1>1. Indutivo => ContagemFecha
  BY DEF Indutivo
<1> QED
  BY <1>1, Indutividade, PTL
=============================================================================
