--------------------------- MODULE Dispatch_proofs ---------------------------
(***************************************************************************)
(* Dispatch for every number of calls, inboxes, ambientes and retries: its *)
(* inductive invariant, the safety properties it implies and the proof     *)
(* that handle() implements Entrega.                                       *)
(***************************************************************************)
EXTENDS Dispatch, TLAPS

USE DEF locais, externas

LEMMA InitIndutivo == Init => Indutivo
  BY RetriesAssumption DEF Init, Indutivo, TypeOK, PcCoerente, LetrasSaoDasMortas,
     StatusExplicaFalha, PerdaTemCausa, Pcs, Status, Desfechos, Linhas

(* Typing is preserved by every step from a state of the invariant. *)
LEMMA PassoTypeOK == Indutivo /\ [Next]_vars => TypeOK'
<1> SUFFICES ASSUME Indutivo, [Next]_vars PROVE TypeOK'
  OBVIOUS
<1> USE RetriesAssumption DEF Indutivo, TypeOK, PcCoerente, Pcs, Status, Desfechos, Erros, Letras
<1>1. ASSUME NEW T \in SUBSET Tarefas, NEW c \in [T -> Inboxes], Handle(T, c)
      PROVE  TypeOK'
  BY <1>1 DEF Handle
<1>2. ASSUME NEW t \in Tarefas, FindInbox(t) PROVE TypeOK'
  BY <1>2 DEF FindInbox, VaiParaDlq, Linhas
<1>3. ASSUME NEW t \in Tarefas, GetAmbiente(t) PROVE TypeOK'
  BY <1>3 DEF GetAmbiente, VaiParaDlq, Termina
<1>4. ASSUME NEW t \in Tarefas, Envia(t) PROVE TypeOK'
  BY <1>4 DEF Envia
<1>5. ASSUME NEW t \in Tarefas, Backoff(t) PROVE TypeOK'
  BY <1>5 DEF Backoff
<1>6. ASSUME NEW t \in Tarefas, EnviarParaDlq(t) PROVE TypeOK'
  BY <1>6 DEF EnviarParaDlq, Termina, Letra
<1>7. ASSUME NEW t \in Tarefas, Resposta2xx(t) PROVE TypeOK'
  BY <1>7 DEF Resposta2xx, Termina
<1>8. ASSUME NEW t \in Tarefas, NEW e \in Erros, TentativaFalha(t, e) PROVE TypeOK'
  BY <1>8 DEF TentativaFalha, VaiParaDlq, StatusDe
<1>9. ASSUME NEW t \in Tarefas, Excecao(t) PROVE TypeOK'
  BY <1>9 DEF Excecao, Termina
<1>10. ASSUME Queda PROVE TypeOK'
  BY <1>10 DEF Queda
<1>11. ASSUME Ambiente PROVE TypeOK'
  BY <1>11 DEF Ambiente, EditaInbox, MudaVista
<1>12. CASE UNCHANGED vars
  BY <1>12 DEF vars
<1> QED
  BY <1>1, <1>2, <1>3, <1>4, <1>5, <1>6, <1>7, <1>8, <1>9, <1>10, <1>11, <1>12
     DEF Next, Passo, Responde

-----------------------------------------------------------------------------
(* The remaining conjuncts, action by action. *)
LEMMA PassoIndutivo == Indutivo /\ [Next]_vars => Indutivo'
<1> SUFFICES ASSUME Indutivo, [Next]_vars PROVE Indutivo'
  OBVIOUS
<1>0. TypeOK'
  BY PassoTypeOK
<1> USE RetriesAssumption DEF Pcs, Status, Desfechos, Erros, Letras
<1>1. ASSUME NEW T \in SUBSET Tarefas, NEW c \in [T -> Inboxes], Handle(T, c)
      PROVE  Indutivo'
  <2> USE <1>1 DEF Handle
  <2>1. PcCoerente'
    BY DEF Indutivo, TypeOK, PcCoerente, Explica
  <2>2. LetrasSaoDasMortas'
    BY DEF Indutivo, TypeOK, PcCoerente, LetrasSaoDasMortas, Letra
  <2>3. StatusExplicaFalha'
    BY DEF Indutivo, TypeOK, PcCoerente, LetrasSaoDasMortas, StatusExplicaFalha, Explica, Letra
  <2>4. PerdaTemCausa'
    BY DEF Indutivo, TypeOK, PcCoerente, PerdaTemCausa
  <2> QED
    BY <1>0, <2>1, <2>2, <2>3, <2>4 DEF Indutivo
<1>2. ASSUME NEW t \in Tarefas, FindInbox(t)
      PROVE  Indutivo'
  <2> USE <1>2 DEF FindInbox, VaiParaDlq, Linhas
  <2>1. PcCoerente'
    BY DEF Indutivo, TypeOK, PcCoerente, Explica
  <2>2. LetrasSaoDasMortas'
    BY DEF Indutivo, TypeOK, PcCoerente, LetrasSaoDasMortas, Letra
  <2>3. StatusExplicaFalha'
    BY DEF Indutivo, TypeOK, PcCoerente, LetrasSaoDasMortas, StatusExplicaFalha, Explica, Letra
  <2>4. PerdaTemCausa'
    BY DEF Indutivo, TypeOK, PcCoerente, PerdaTemCausa
  <2> QED
    BY <1>0, <2>1, <2>2, <2>3, <2>4 DEF Indutivo
<1>3. ASSUME NEW t \in Tarefas, GetAmbiente(t)
      PROVE  Indutivo'
  <2> USE <1>3 DEF GetAmbiente, VaiParaDlq, Termina
  <2>1. PcCoerente'
    BY DEF Indutivo, TypeOK, PcCoerente, Explica
  <2>2. LetrasSaoDasMortas'
    BY DEF Indutivo, TypeOK, PcCoerente, LetrasSaoDasMortas, Letra
  <2>3. StatusExplicaFalha'
    BY DEF Indutivo, TypeOK, PcCoerente, LetrasSaoDasMortas, StatusExplicaFalha, Explica, Letra
  <2>4. PerdaTemCausa'
    BY DEF Indutivo, TypeOK, PcCoerente, PerdaTemCausa
  <2> QED
    BY <1>0, <2>1, <2>2, <2>3, <2>4 DEF Indutivo
<1>4. ASSUME NEW t \in Tarefas, Envia(t)
      PROVE  Indutivo'
  <2> USE <1>4 DEF Envia
  <2>1. PcCoerente'
    BY DEF Indutivo, TypeOK, PcCoerente, Explica
  <2>2. LetrasSaoDasMortas'
    BY DEF Indutivo, TypeOK, PcCoerente, LetrasSaoDasMortas, Letra
  <2>3. StatusExplicaFalha'
    BY DEF Indutivo, TypeOK, PcCoerente, LetrasSaoDasMortas, StatusExplicaFalha, Explica, Letra
  <2>4. PerdaTemCausa'
    BY DEF Indutivo, TypeOK, PcCoerente, PerdaTemCausa
  <2> QED
    BY <1>0, <2>1, <2>2, <2>3, <2>4 DEF Indutivo
<1>5. ASSUME NEW t \in Tarefas, Backoff(t)
      PROVE  Indutivo'
  <2> USE <1>5 DEF Backoff
  <2>1. PcCoerente'
    BY DEF Indutivo, TypeOK, PcCoerente, Explica
  <2>2. LetrasSaoDasMortas'
    BY DEF Indutivo, TypeOK, PcCoerente, LetrasSaoDasMortas, Letra
  <2>3. StatusExplicaFalha'
    BY DEF Indutivo, TypeOK, PcCoerente, LetrasSaoDasMortas, StatusExplicaFalha, Explica, Letra
  <2>4. PerdaTemCausa'
    BY DEF Indutivo, TypeOK, PcCoerente, PerdaTemCausa
  <2> QED
    BY <1>0, <2>1, <2>2, <2>3, <2>4 DEF Indutivo
<1>6. ASSUME NEW t \in Tarefas, EnviarParaDlq(t)
      PROVE  Indutivo'
  <2> USE <1>6 DEF EnviarParaDlq, Termina, Letra
  <2>1. PcCoerente'
    BY DEF Indutivo, TypeOK, PcCoerente, Explica
  <2>2. LetrasSaoDasMortas'
    BY DEF Indutivo, TypeOK, PcCoerente, LetrasSaoDasMortas, Letra
  <2>3. StatusExplicaFalha'
    BY DEF Indutivo, TypeOK, PcCoerente, LetrasSaoDasMortas, StatusExplicaFalha, Explica, Letra
  <2>4. PerdaTemCausa'
    BY DEF Indutivo, TypeOK, PcCoerente, PerdaTemCausa
  <2> QED
    BY <1>0, <2>1, <2>2, <2>3, <2>4 DEF Indutivo
<1>7. ASSUME NEW t \in Tarefas, Resposta2xx(t)
      PROVE  Indutivo'
  <2> USE <1>7 DEF Resposta2xx, Termina
  <2>1. PcCoerente'
    BY DEF Indutivo, TypeOK, PcCoerente, Explica
  <2>2. LetrasSaoDasMortas'
    BY DEF Indutivo, TypeOK, PcCoerente, LetrasSaoDasMortas, Letra
  <2>3. StatusExplicaFalha'
    BY DEF Indutivo, TypeOK, PcCoerente, LetrasSaoDasMortas, StatusExplicaFalha, Explica, Letra
  <2>4. PerdaTemCausa'
    BY DEF Indutivo, TypeOK, PcCoerente, PerdaTemCausa
  <2> QED
    BY <1>0, <2>1, <2>2, <2>3, <2>4 DEF Indutivo
<1>8. ASSUME NEW t \in Tarefas, NEW e \in Erros, TentativaFalha(t, e)
      PROVE  Indutivo'
  <2> USE <1>8 DEF TentativaFalha, VaiParaDlq, StatusDe
  <2>1. PcCoerente'
    BY DEF Indutivo, TypeOK, PcCoerente, Explica
  <2>2. LetrasSaoDasMortas'
    BY DEF Indutivo, TypeOK, PcCoerente, LetrasSaoDasMortas, Letra
  <2>3. StatusExplicaFalha'
    BY DEF Indutivo, TypeOK, PcCoerente, LetrasSaoDasMortas, StatusExplicaFalha, Explica, Letra
  <2>4. PerdaTemCausa'
    BY DEF Indutivo, TypeOK, PcCoerente, PerdaTemCausa
  <2> QED
    BY <1>0, <2>1, <2>2, <2>3, <2>4 DEF Indutivo
<1>9. ASSUME NEW t \in Tarefas, Excecao(t)
      PROVE  Indutivo'
  <2> USE <1>9 DEF Excecao, Termina
  <2>1. PcCoerente'
    BY DEF Indutivo, TypeOK, PcCoerente, Explica
  <2>2. LetrasSaoDasMortas'
    BY DEF Indutivo, TypeOK, PcCoerente, LetrasSaoDasMortas, Letra
  <2>3. StatusExplicaFalha'
    BY DEF Indutivo, TypeOK, PcCoerente, LetrasSaoDasMortas, StatusExplicaFalha, Explica, Letra
  <2>4. PerdaTemCausa'
    BY DEF Indutivo, TypeOK, PcCoerente, PerdaTemCausa
  <2> QED
    BY <1>0, <2>1, <2>2, <2>3, <2>4 DEF Indutivo
<1>10. ASSUME Queda
      PROVE  Indutivo'
  <2> USE <1>10 DEF Queda, EmCurso
  <2>1. PcCoerente'
    BY DEF Indutivo, TypeOK, PcCoerente, Explica
  <2>2. LetrasSaoDasMortas'
    BY DEF Indutivo, TypeOK, PcCoerente, LetrasSaoDasMortas, Letra
  <2>3. StatusExplicaFalha'
    BY DEF Indutivo, TypeOK, PcCoerente, LetrasSaoDasMortas, StatusExplicaFalha, Explica, Letra
  <2>4. PerdaTemCausa'
    BY DEF Indutivo, TypeOK, PcCoerente, PerdaTemCausa
  <2> QED
    BY <1>0, <2>1, <2>2, <2>3, <2>4 DEF Indutivo
<1>11. ASSUME Ambiente
      PROVE  Indutivo'
  <2> USE <1>11 DEF Ambiente, EditaInbox, MudaVista
  <2>1. PcCoerente'
    BY DEF Indutivo, TypeOK, PcCoerente, Explica
  <2>2. LetrasSaoDasMortas'
    BY DEF Indutivo, TypeOK, PcCoerente, LetrasSaoDasMortas, Letra
  <2>3. StatusExplicaFalha'
    BY DEF Indutivo, TypeOK, PcCoerente, LetrasSaoDasMortas, StatusExplicaFalha, Explica, Letra
  <2>4. PerdaTemCausa'
    BY DEF Indutivo, TypeOK, PcCoerente, PerdaTemCausa
  <2> QED
    BY <1>0, <2>1, <2>2, <2>3, <2>4 DEF Indutivo
<1>12. CASE UNCHANGED vars
  BY <1>0, <1>12 DEF vars, Indutivo, PcCoerente, LetrasSaoDasMortas, StatusExplicaFalha,
     PerdaTemCausa, Explica, Letra
<1> QED
  BY <1>1, <1>2, <1>3, <1>4, <1>5, <1>6, <1>7, <1>8, <1>9, <1>10, <1>11, <1>12
     DEF Next, Passo, Responde
-----------------------------------------------------------------------------
(* Every reachable state satisfies the inductive invariant. *)
THEOREM Indutividade == Spec => []Indutivo
<1>1. Init => Indutivo
  BY InitIndutivo
<1>2. Indutivo /\ [Next]_vars => Indutivo'
  BY PassoIndutivo
<1> QED
  BY <1>1, <1>2, PTL DEF Spec

(* Type correctness, for any number of calls, inboxes and retries. *)
THEOREM Tipos == Spec => []TypeOK
<1>1. Indutivo => TypeOK
  BY DEF Indutivo
<1> QED
  BY <1>1, Indutividade, PTL

(* A delivered call never publishes a dead letter, a dead one publishes    *)
(* exactly one, and it is for the inbox of the call.                       *)
THEOREM DesfechoUnico == Spec => []UmDesfecho
<1>1. Indutivo => UmDesfecho
  <2> SUFFICES ASSUME Indutivo, NEW t \in Tarefas
               PROVE  /\ desfecho[t] = "morta" <=> LetrasDe(t) # {}
                      /\ \A k, l \in LetrasDe(t) : k = l
                      /\ \A l \in LetrasDe(t) : l.inbox = caixa[t]
    BY DEF UmDesfecho
  <2>1. \A l \in LetrasDe(t) : l = Letra(t) /\ desfecho[t] = "morta"
    BY DEF Indutivo, LetrasSaoDasMortas, LetrasDe
  <2>2. desfecho[t] = "morta" => Letra(t) \in LetrasDe(t)
    BY DEF Indutivo, LetrasSaoDasMortas, LetrasDe, Letra
  <2>3. Letra(t).inbox = caixa[t]
    BY DEF Letra
  <2> HIDE DEF Letra
  <2> QED
    BY <2>1, <2>2, <2>3
<1> QED
  BY <1>1, Indutividade, PTL

(* The status of every dead letter agrees with the history of its call. *)
THEOREM StatusCorreto == Spec => []StatusExplicaFalha
<1>1. Indutivo => StatusExplicaFalha
  BY DEF Indutivo
<1> QED
  BY <1>1, Indutividade, PTL

(* Without infrastructure faults no call is lost, whatever the             *)
(* destinations answer and the administrators change meanwhile.            *)
THEOREM NadaSePerde == Spec => []SemPerdaSilenciosa
<1>1. Indutivo => SemPerdaSilenciosa
  BY RetriesAssumption DEF Indutivo, TypeOK, PcCoerente, PerdaTemCausa, SemPerdaSilenciosa, Desfechos
<1> QED
  BY <1>1, Indutividade, PTL

-----------------------------------------------------------------------------
LEMMA InitEntrega == Init => E!Init
  BY DEF Init, E!Init, Estado

LEMMA PassoEntrega == Indutivo /\ [Next]_vars => [E!Next]_(E!vars)
<1> SUFFICES ASSUME Indutivo, [Next]_vars PROVE [E!Next]_(E!vars)
  OBVIOUS
<1> USE RetriesAssumption DEF Indutivo, TypeOK, Pcs
<1> DEFINE Parado == UNCHANGED <<Estado, caixa, publicadas>>
<1>0. Parado => UNCHANGED E!vars
  BY DEF E!vars
<1>1. ASSUME NEW T \in SUBSET Tarefas, NEW c \in [T -> Inboxes], Handle(T, c)
      PROVE  E!Aceita
  <2>1. \A x \in T : Estado[x] = "ociosa"
    BY <1>1 DEF Handle, Estado
  <2>2. Estado' = [x \in Tarefas |-> IF x \in T THEN "pendente" ELSE Estado[x]]
    BY <1>1 DEF Handle, Estado
  <2>3. caixa' = [x \in Tarefas |-> IF x \in T THEN c[x] ELSE caixa[x]]
    BY <1>1 DEF Handle
  <2>4. UNCHANGED publicadas
    BY <1>1 DEF Handle
  <2> QED
    BY <2>1, <2>2, <2>3, <2>4 DEF E!Aceita
<1>2. ASSUME NEW t \in Tarefas, FindInbox(t) PROVE Parado
  BY <1>2 DEF FindInbox, VaiParaDlq, Estado
<1>3. ASSUME NEW t \in Tarefas, GetAmbiente(t) PROVE Parado \/ E!Perde
  <2>1. CASE vista[amb[t]] # Nulo /\ MaxRetries = 0
    <3>1. {t} \in SUBSET Tarefas /\ \A x \in {t} : Estado[x] = "pendente"
      BY <1>3 DEF GetAmbiente, Estado
    <3>2. Estado' = [x \in Tarefas |-> IF x \in {t} THEN "perdida" ELSE Estado[x]]
      BY <1>3, <2>1 DEF GetAmbiente, Termina, Estado
    <3>3. UNCHANGED <<caixa, publicadas>>
      BY <1>3 DEF GetAmbiente
    <3> QED
      BY <2>1, <3>1, <3>2, <3>3 DEF E!Perde
  <2>2. CASE ~(vista[amb[t]] # Nulo /\ MaxRetries = 0)
    BY <1>3, <2>2 DEF GetAmbiente, VaiParaDlq, Estado
  <2> QED
    BY <2>1, <2>2
<1>4. ASSUME NEW t \in Tarefas, Envia(t) PROVE Parado
  BY <1>4 DEF Envia, Estado
<1>5. ASSUME NEW t \in Tarefas, Backoff(t) PROVE Parado
  BY <1>5 DEF Backoff, Estado
<1>6. ASSUME NEW t \in Tarefas, EnviarParaDlq(t) PROVE E!Mata(t)
  BY <1>6 DEF EnviarParaDlq, Termina, Letra, Estado, E!Mata, E!Letra
<1>7. ASSUME NEW t \in Tarefas, Resposta2xx(t) PROVE E!Conclui(t)
  BY <1>7 DEF Resposta2xx, Termina, Estado, E!Conclui
<1>8. ASSUME NEW t \in Tarefas, NEW e \in Erros, TentativaFalha(t, e) PROVE Parado
  BY <1>8 DEF TentativaFalha, VaiParaDlq, Estado
<1>9. ASSUME NEW t \in Tarefas, Excecao(t) PROVE E!Perde
  <2>1. {t} \in SUBSET Tarefas /\ \A x \in {t} : Estado[x] = "pendente"
    BY <1>9 DEF Excecao, Estado
  <2>2. Estado' = [x \in Tarefas |-> IF x \in {t} THEN "perdida" ELSE Estado[x]]
    BY <1>9 DEF Excecao, Termina, Estado
  <2>3. UNCHANGED <<caixa, publicadas>> /\ Falhas # {}
    BY <1>9 DEF Excecao
  <2> QED
    BY <2>1, <2>2, <2>3 DEF E!Perde
<1>10. ASSUME Queda PROVE E!Perde
  <2> DEFINE V == {x \in Tarefas : EmCurso(x)}
  <2>1. V \in SUBSET Tarefas /\ \A x \in V : Estado[x] = "pendente"
    BY DEF EmCurso, Estado
  <2>2. Estado' = [x \in Tarefas |-> IF x \in V THEN "perdida" ELSE Estado[x]]
    BY <1>10 DEF Queda, EmCurso, Estado
  <2>3. UNCHANGED <<caixa, publicadas>> /\ Falhas # {}
    BY <1>10 DEF Queda
  <2> HIDE DEF V
  <2> QED
    BY <2>1, <2>2, <2>3 DEF E!Perde
<1>11. ASSUME Ambiente PROVE Parado
  BY <1>11 DEF Ambiente, EditaInbox, MudaVista, Estado
<1>12. CASE UNCHANGED vars
  BY <1>0, <1>12 DEF vars, Estado
<1> QED
  BY <1>0, <1>1, <1>2, <1>3, <1>4, <1>5, <1>6, <1>7, <1>8, <1>9, <1>10, <1>11, <1>12
     DEF Next, Passo, Responde, E!Next

(* handle() implements the abstract obligation, for every instance. *)
THEOREM Refina == Spec => CumpreEntrega
<1>1. Init => E!Init
  BY InitEntrega
<1>2. Indutivo /\ [Next]_vars => [E!Next]_(E!vars)
  BY PassoEntrega
<1> QED
  BY <1>1, <1>2, Indutividade, PTL DEF Spec, CumpreEntrega, E!Spec
=============================================================================
