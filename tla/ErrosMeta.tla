------------------------------ MODULE ErrosMeta ------------------------------
(***************************************************************************)
(* The table logs_erros_meta: a row for every error Meta answers a call    *)
(* with and for every error inside a webhook it delivers, written by calls *)
(* that never throw; a cron deletes the rows older than 14 days.           *)
(***************************************************************************)
EXTENDS Naturals, Sequences

CONSTANTS Chamadas,    \* calls to Meta that may fail
          Webhooks,    \* POSTs /webhook, whose errors are looked for
          Payload,     \* per webhook: its entries, see Erros
          MaxNos,      \* bound: children of a node of a payload
          Falhas       \* "banco": a row cannot be created or deleted

VARIABLES registros,   \* the rows, by the error they are about
          antigos,     \* those older than 14 days
          purgados,    \* history: errors whose row the cron has deleted
          perdidos,    \* history: errors whose row could not be created
          restam,      \* per webhook: errors found and not yet written
          lidos        \* webhooks whose errors have been looked for

vars == <<registros, antigos, purgados, perdidos, restam, lidos>>

(* extrairErrosDeWebhook.  A payload is a sequence of entries, an entry    *)
(* one of changes; a change has its own errors and those of each of its    *)
(* statuses.  A node that is not of the expected form has no children.     *)
Contem(mudanca, s) == IF s = 0 THEN mudanca.proprios
                      ELSE IF s \in DOMAIN mudanca.statuses THEN mudanca.statuses[s] ELSE 0

Caminhos == (1..MaxNos) \X (1..MaxNos) \X (0..MaxNos) \X (1..MaxNos)

Erros(w) ==
  {x \in Caminhos : /\ x[1] \in DOMAIN Payload[w]
                    /\ x[2] \in DOMAIN Payload[w][x[1]]
                    /\ x[4] <= Contem(Payload[w][x[1]][x[2]], x[3])}

Achados(w) == {<<w, x>> : x \in Erros(w)}
Registraveis == {<<c>> : c \in Chamadas} \cup UNION {Achados(w) : w \in Webhooks}

Init == /\ registros = {} /\ antigos = {} /\ purgados = {} /\ perdidos = {}
        /\ restam = [w \in Webhooks |-> {}]
        /\ lidos = {}

(* persistir: the key is drawn before the row is created, and a row that   *)
(* cannot be created is only logged.                                       *)
Persiste(x) == /\ \/ registros' = registros \cup {x} /\ UNCHANGED perdidos
                  \/ /\ "banco" \in Falhas
                     /\ perdidos' = perdidos \cup {x}
                     /\ UNCHANGED registros
               /\ UNCHANGED <<antigos, purgados>>

(* persistirErrosDeWebhook, which the ingestion does not wait for.         *)
LeWebhook(w) == /\ w \notin lidos
                /\ lidos' = lidos \cup {w}
                /\ restam' = [restam EXCEPT ![w] = Achados(w)]
                /\ UNCHANGED <<registros, antigos, purgados, perdidos>>

RegistraErro(w) == \E x \in restam[w] : /\ Persiste(x)
                                        /\ restam' = [restam EXCEPT ![w] = @ \ {x}]
                                        /\ UNCHANGED lidos

Envelhece == /\ antigos # registros
             /\ antigos' = registros
             /\ UNCHANGED <<registros, purgados, perdidos, restam, lidos>>

(* A purge that fails is logged and tried the next night. *)
Purga == /\ antigos # {}
         /\ registros' = registros \ antigos
         /\ purgados' = purgados \cup antigos
         /\ antigos' = {}
         /\ UNCHANGED <<perdidos, restam, lidos>>

-----------------------------------------------------------------------------
TypeOK == /\ registros \subseteq Registraveis /\ antigos \subseteq registros
          /\ purgados \subseteq Registraveis /\ perdidos \subseteq Registraveis
          /\ restam \in [Webhooks -> SUBSET Registraveis]
          /\ lidos \subseteq Webhooks

(* Every error of a webhook that was looked at has its row, is still to be *)
(* written, or is one whose row could not be created: a row that fails     *)
(* takes no other with it.                                                 *)
Registrado(x) == x \in registros \cup purgados \cup perdidos

WebhookRegistrado == \A w \in lidos : \A x \in Achados(w) : x \in restam[w] \/ Registrado(x)
=============================================================================
