------------------------------- MODULE Entrega -------------------------------
(***************************************************************************)
(* What a call of IDispatchHandler.handle promises, with no retries, no    *)
(* cache and no queue in sight: an accepted obligation (one payload for    *)
(* one inbox) stays pending until exactly one of three things happens.     *)
(* It is delivered (a 2xx was seen), it dies (one dead letter is           *)
(* published for it), or, only where PodePerder allows, it is lost.        *)
(* Dispatch is shown to implement this module; Reenvio relies on it.       *)
(***************************************************************************)
EXTENDS FiniteSets

CONSTANTS Tarefas,     \* the calls of handle()
          Inboxes,     \* ids of rows of the table inboxes
          Nulo,        \* no inbox yet
          Status,      \* the values of StatusFalhaMensagem a dispatch may use
          PodePerder   \* whether the instance has a fault that loses a call

VARIABLES estado,      \* per call: what became of the obligation
          caixa,       \* per call: the inbox it is for
          publicadas   \* every dead letter ever published

vars == <<estado, caixa, publicadas>>

Letra(t, s) == [tarefa |-> t, inbox |-> caixa[t], status |-> s]

Init == /\ estado = [t \in Tarefas |-> "ociosa"]
        /\ caixa = [t \in Tarefas |-> Nulo]
        /\ publicadas = {}

Aceita == \E T \in SUBSET Tarefas : \E c \in [T -> Inboxes] :
             /\ \A t \in T : estado[t] = "ociosa"
             /\ estado' = [t \in Tarefas |-> IF t \in T THEN "pendente" ELSE estado[t]]
             /\ caixa' = [t \in Tarefas |-> IF t \in T THEN c[t] ELSE caixa[t]]
             /\ UNCHANGED publicadas

Conclui(t) == /\ estado[t] = "pendente"
              /\ estado' = [estado EXCEPT ![t] = "entregue"]
              /\ UNCHANGED <<caixa, publicadas>>

Mata(t) == /\ estado[t] = "pendente"
           /\ estado' = [estado EXCEPT ![t] = "morta"]
           /\ \E s \in Status : publicadas' = publicadas \cup {Letra(t, s)}
           /\ UNCHANGED caixa

Perde == /\ PodePerder
         /\ \E T \in SUBSET Tarefas :
               /\ \A t \in T : estado[t] = "pendente"
               /\ estado' = [t \in Tarefas |-> IF t \in T THEN "perdida" ELSE estado[t]]
         /\ UNCHANGED <<caixa, publicadas>>

Next == \/ Aceita
        \/ Perde
        \/ \E t \in Tarefas : Conclui(t) \/ Mata(t)

Spec == Init /\ [][Next]_vars

=============================================================================
