------------------------------- MODULE Reenvio -------------------------------
(***************************************************************************)
(* Re-sending dead letters: ResendService.resend (a batch that re-uses     *)
(* handle()), DeadLetterService.resend (one row, posted directly),         *)
(* DELETE of a row and the daily purge, all over fila_mensagens_mortas.    *)
(*                                                                         *)
(* A call of handle() is one step with the outcomes of Entrega: delivered, *)
(* dead (an envelope that will become a new row) or lost.  Rows are        *)
(* numbered in the order of their `data`.                                  *)
(***************************************************************************)
EXTENDS Naturals, FiniteSets

CONSTANTS Inboxes,     \* ids of inboxes
          SemInbox,    \* id_inbox = null
          Mensagens,   \* the payloads that died
          Caixa,       \* per message: the id_inbox of its dead letters
          MaxLinhas,   \* bound: rows ever created
          Limite,      \* filter.limit ?? 50
          Lotes,       \* calls of POST /messages/resend
          Avulsos      \* calls of POST /dead-letters/:id/resend

ASSUME SemInboxAssumption == SemInbox \notin Inboxes
ASSUME CaixaAssumption == Caixa \in [Mensagens -> Inboxes \cup {SemInbox}]
ASSUME LinhasAssumption == MaxLinhas \in Nat
ASSUME LimiteAssumption == Limite \in Nat \ {0}

VARIABLES n,          \* rows created so far
          linha,      \* the rows 1 .. n
          fila,       \* per message: envelopes waiting in the DLQ
          perdidas,   \* history: messages a call of handle() ended in silence for
          envios,     \* history: deliveries made from each row
          lote,       \* per batch call: where it is
          avulso      \* per single call: where it is

vars == <<n, linha, fila, perdidas, envios, lote, avulso>>

Ids == 1 .. MaxLinhas
Linhas == [msg : Mensagens, reenviado : BOOLEAN, estado : {"ativa", "apagada", "purgada"}]
LotesOK == [pc : {"livre", "despacha", "marca", "fim"}, cand : SUBSET Ids, id : Ids \cup {0},
            total : Nat, reenviadas : Nat, falhas : Nat]
AvulsosOK == [pc : {"livre", "envia", "marca", "fim"}, id : Ids \cup {0}]

(* `estado` is the flag del, until the row itself is gone. *)
Nova(m) == [msg |-> m, reenviado |-> FALSE, estado |-> "ativa"]

InboxDe(l) == Caixa[linha[l].msg]

LoteLivre == [pc |-> "livre", cand |-> {}, id |-> 0, total |-> 0, reenviadas |-> 0, falhas |-> 0]

(* Every message has one row, which nobody has touched yet. *)
Init == /\ n \in 0 .. MaxLinhas
        /\ linha \in [1 .. n -> {Nova(m) : m \in Mensagens}]
        /\ \A m \in Mensagens : \E l \in 1 .. n :
              linha[l].msg = m /\ \A k \in 1 .. n : linha[k].msg = m => k = l
        /\ fila = [m \in Mensagens |-> 0]
        /\ perdidas = {}
        /\ envios = [l \in Ids |-> 0]
        /\ lote = [b \in Lotes |-> LoteLivre]
        /\ avulso = [a \in Avulsos |-> [pc |-> "livre", id |-> 0]]

Existe(l) == l \in 1 .. n /\ linha[l].estado # "purgada"

-----------------------------------------------------------------------------
(* The batch.  findAllByPid and findMany are one step, for which inboxes   *)
(* a pid resolves to is not part of this module: S is any set of inboxes,  *)
(* or everything when the call gives no pid.                               *)
Todas == Inboxes \cup {SemInbox}

(* With one inbox the query filters by it; with several the page is taken  *)
(* first and filtered afterwards.                                          *)
Consulta(S, periodo, forcar) ==
  {l \in periodo : /\ linha[l].estado = "ativa"
                   /\ forcar \/ ~linha[l].reenviado
                   /\ Cardinality(S) = 1 => InboxDe(l) \in S}

Pagina(Q) == {l \in Q : Cardinality({k \in Q : k > l}) < Limite}

DoPid(S, Q) == {l \in Q : InboxDe(l) \in S}

Seleciona(b, S, periodo, forcar) ==
  /\ lote[b].pc = "livre"
  /\ LET cand == DoPid(S, Pagina(Consulta(S, periodo, forcar)))
     IN lote' = [lote EXCEPT ![b] = [pc |-> "despacha", cand |-> cand, id |-> 0,
                                     total |-> Cardinality(cand), reenviadas |-> 0, falhas |-> 0]]
  /\ UNCHANGED <<n, linha, fila, perdidas, envios, avulso>>

(* orderBy data desc: the row the loop takes next, if any. *)
Primeira(b) == {l \in lote[b].cand : \A k \in lote[b].cand : k <= l}

Conta(b, l, reenviadas, falhas) ==
  LET v == lote[b] IN
  lote' = [lote EXCEPT ![b] = [pc |-> "despacha", cand |-> v.cand \ {l}, id |-> 0,
                               total |-> v.total,
                               reenviadas |-> v.reenviadas + reenviadas,
                               falhas |-> v.falhas + falhas]]

PulaSemInbox(b) == /\ lote[b].pc = "despacha"
                   /\ \E l \in Primeira(b) : InboxDe(l) = SemInbox /\ Conta(b, l, 0, 1)
                   /\ UNCHANGED <<n, linha, fila, perdidas, envios, avulso>>

(* handle() never throws, whatever became of the message.                  *)
Handle(b) ==
  /\ lote[b].pc = "despacha"
  /\ \E l \in Primeira(b) :
        /\ InboxDe(l) # SemInbox
        /\ \/ /\ envios' = [envios EXCEPT ![l] = @ + 1]
              /\ UNCHANGED <<fila, perdidas>>
           \/ /\ fila' = [fila EXCEPT ![linha[l].msg] = @ + 1]
              /\ UNCHANGED <<perdidas, envios>>
           \/ /\ perdidas' = perdidas \cup {linha[l].msg}
              /\ UNCHANGED <<fila, envios>>
        /\ lote' = [lote EXCEPT ![b] = [@ EXCEPT !.pc = "marca", !.id = l]]
  /\ UNCHANGED <<n, linha, avulso>>

Marca(l) == linha' = [linha EXCEPT ![l].reenviado = TRUE]

(* Mutant: a row is counted as re-sent before its update can throw. *)
MarcaContaAntes(b) ==
  /\ lote[b].pc = "marca"
  /\ LET l == lote[b].id IN
     \/ /\ Existe(l)
        /\ Marca(l)
        /\ Conta(b, l, 1, 0)
     \/ Conta(b, l, 1, 1) /\ UNCHANGED linha
  /\ UNCHANGED <<n, fila, perdidas, envios, avulso>>

(* The update throws when the purge has taken the row meanwhile, or the    *)
(* database fails.                                                         *)
MarcaReenviado(b) ==
  /\ lote[b].pc = "marca"
  /\ LET l == lote[b].id IN
     \/ /\ Existe(l)
        /\ Marca(l)
        /\ Conta(b, l, 1, 0)
     \/ Conta(b, l, 0, 1) /\ UNCHANGED linha
  /\ UNCHANGED <<n, fila, perdidas, envios, avulso>>

Responde(b) == /\ lote[b].pc = "despacha"
               /\ lote[b].cand = {}
               /\ lote' = [lote EXCEPT ![b] = [LoteLivre EXCEPT !.pc = "fim"]]
               /\ UNCHANGED <<n, linha, fila, perdidas, envios, avulso>>

-----------------------------------------------------------------------------
(* The single resend does not look at del or reenviado.  A missing row or  *)
(* inbox, an inbox or ambiente that is gone and a POST that fails all end  *)
(* the request with the row as it was.                                     *)
Confere(a, l) == /\ avulso[a].pc = "livre"
                 /\ avulso' = [avulso EXCEPT ![a] = [pc |-> "envia", id |-> l]]
                 /\ Existe(l)
                 /\ InboxDe(l) # SemInbox
                 /\ UNCHANGED <<n, linha, fila, perdidas, envios, lote>>

Post(a) == /\ avulso[a].pc = "envia"
           /\ avulso' = [avulso EXCEPT ![a].pc = "marca"]
           /\ envios' = [envios EXCEPT ![avulso[a].id] = @ + 1]
           /\ UNCHANGED <<n, linha, fila, perdidas, lote>>

(* Mutant: the row is marked in a finally. *)
RecusaEMarca(a) == /\ avulso[a].pc = "envia"
                   /\ Existe(avulso[a].id)
                   /\ Marca(avulso[a].id)
                   /\ avulso' = [avulso EXCEPT ![a] = [pc |-> "fim", id |-> 0]]
                   /\ UNCHANGED <<n, fila, perdidas, envios, lote>>

Recusa(a) == /\ avulso[a].pc \in {"livre", "envia"}
             /\ avulso' = [avulso EXCEPT ![a] = [pc |-> "fim", id |-> 0]]
             /\ UNCHANGED <<n, linha, fila, perdidas, envios, lote>>

MarcaAvulso(a) == /\ avulso[a].pc = "marca"
                  /\ \/ /\ Existe(avulso[a].id)
                        /\ Marca(avulso[a].id)
                     \/ UNCHANGED linha
                  /\ avulso' = [avulso EXCEPT ![a] = [pc |-> "fim", id |-> 0]]
                  /\ UNCHANGED <<n, fila, perdidas, envios, lote>>

-----------------------------------------------------------------------------
(* The rest of the table's life: the DLQ consumer (bound: up to MaxLinhas  *)
(* rows), DELETE, and the purge of everything older than a date.           *)
(* Mutant: a row is stored without one of its columns. *)
RegistraSemEstado(m) == /\ fila[m] > 0
                     /\ n < MaxLinhas
                     /\ fila' = [fila EXCEPT ![m] = @ - 1]
                     /\ n' = n + 1
                     /\ linha' = [l \in 1 .. n + 1 |->
                                    IF l = n + 1 THEN [msg |-> m, reenviado |-> FALSE] ELSE linha[l]]
                     /\ UNCHANGED <<perdidas, envios, lote, avulso>>

Registra(m) == /\ fila[m] > 0
               /\ n < MaxLinhas
               /\ fila' = [fila EXCEPT ![m] = @ - 1]
               /\ n' = n + 1
               /\ linha' = [l \in 1 .. n + 1 |-> IF l = n + 1 THEN Nova(m) ELSE linha[l]]
               /\ UNCHANGED <<perdidas, envios, lote, avulso>>

SoftDelete(l) == /\ linha[l].estado = "ativa"
                 /\ linha' = [linha EXCEPT ![l].estado = "apagada"]
                 /\ UNCHANGED <<n, fila, perdidas, envios, lote, avulso>>

HardDeleteOlderThan(k) ==
  /\ Existe(k)
  /\ linha' = [l \in 1 .. n |-> IF l <= k THEN [linha[l] EXCEPT !.estado = "purgada"] ELSE linha[l]]
  /\ UNCHANGED <<n, fila, perdidas, envios, lote, avulso>>

Reenvia(b) == PulaSemInbox(b) \/ Handle(b) \/ MarcaReenviado(b) \/ Responde(b)

(* dataInicio and dataFim: both, one beside a pid, or none; the last set   *)
(* is there for an empty table.                                            *)
Periodos == {i .. j : i, j \in 1 .. n} \cup {1 .. n}

(* A pid, a period of rows or both. *)
PedeLote(b) == \E S \in (SUBSET Inboxes) \cup {Todas}, periodo \in Periodos, forcar \in BOOLEAN :
                  Seleciona(b, S, periodo, forcar)

Next == \/ \E b \in Lotes : PedeLote(b) \/ Reenvia(b)
        \/ \E a \in Avulsos : \/ \E l \in 1 .. n : Confere(a, l)
                               \/ Post(a) \/ Recusa(a) \/ MarcaAvulso(a)
        \/ \E m \in Mensagens : Registra(m)
        \/ \E l \in 1 .. n : SoftDelete(l) \/ HardDeleteOlderThan(l)

Spec == Init /\ [][Next]_vars

-----------------------------------------------------------------------------
TypeOK == /\ n \in 0 .. MaxLinhas
          /\ linha \in [1 .. n -> Linhas]
          /\ fila \in [Mensagens -> Nat]
          /\ perdidas \subseteq Mensagens
          /\ envios \in [Ids -> Nat]
          /\ lote \in [Lotes -> LotesOK]
          /\ avulso \in [Avulsos -> AvulsosOK]

RowsDe(m) == {l \in 1 .. n : linha[l].msg = m}

(* Re-sending never forgets a message: unless handle() loses it, it was    *)
(* delivered, or some row of it still counts as not re-sent, or an         *)
(* envelope for a new row is in the DLQ.  A batch that marks the row of a  *)
(* message that died again relies on the new row.                          *)
NenhumaEsquecida ==
  \A m \in Mensagens \ perdidas : \/ fila[m] > 0
                                  \/ \E l \in RowsDe(m) : envios[l] > 0 \/ ~linha[l].reenviado

(* What makes it inductive: a batch about to mark a row has already sent   *)
(* it on or caused an envelope, so a message that was not delivered keeps  *)
(* a row that no batch is about to mark.                                   *)
AMarcar(l) == \E b \in Lotes : lote[b].pc = "marca" /\ lote[b].id = l

TemSucessora ==
  \A m \in Mensagens \ perdidas :
     \/ fila[m] > 0
     \/ \E l \in RowsDe(m) : envios[l] > 0 \/ (~linha[l].reenviado /\ ~AMarcar(l))

ChamadasCoerentes ==
  /\ \A b \in Lotes : /\ lote[b].cand \subseteq 1 .. n
                      /\ lote[b].pc = "marca" => lote[b].id \in lote[b].cand
  /\ \A a \in Avulsos : /\ avulso[a].pc \in {"envia", "marca"} => avulso[a].id \in 1 .. n
                        /\ avulso[a].pc = "marca" => envios[avulso[a].id] > 0

(* The answer of a batch adds up at every moment: what was selected is     *)
(* re-sent, failed or still to come, and never more than a page.  A row    *)
(* that disappears, loses its inbox or fails does not stop the others      *)
(* (NFR-1) nor is it counted twice.                                        *)
ContagemFecha ==
  \A b \in Lotes :
     /\ lote[b].total = lote[b].reenviadas + lote[b].falhas + Cardinality(lote[b].cand)
     /\ lote[b].total <= Limite

Indutivo == TypeOK /\ TemSucessora /\ ChamadasCoerentes /\ ContagemFecha
=============================================================================
