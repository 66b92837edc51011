----------------------------- MODULE AmbienteCache -----------------------------
(***************************************************************************)
(* The table ambiente and its copy in Redis, keys `ambiente:<id>`.         *)
(* AmbienteService writes the row and then the key; getAmbiente (of the    *)
(* dispatch handler and of the Instagram forwarder) reads the key, then    *)
(* the row, then writes the key; onModuleInit of a starting instance       *)
(* copies every live row.  Each await ends a step.                         *)
(*                                                                         *)
(* A row is abstracted to its version, that every write increments, and    *)
(* its `del` flag; a cached document is a copy of a row.                   *)
(***************************************************************************)
EXTENDS Naturals, FiniteSets

CONSTANTS Ambientes,   \* ids of the table ambiente
          Leitores,    \* concurrent calls of getAmbiente
          Admins,      \* concurrent requests of the administration API
          MaxVersao,   \* bound: writes per row
          Eventos      \* what may befall this deployment, see below

(* "falha": Redis or the process fails half-way through a request;         *)
(* "instancia": another instance of the gateway starts meanwhile.          *)
TiposDeEvento == {"falha", "instancia"}

ASSUME MaxVersaoAssumption == MaxVersao \in Nat \ {0}
ASSUME EventosAssumption == Eventos \subseteq TiposDeEvento

VARIABLES linha,     \* per id: the row
          cache,     \* per id: the document under the key, SemDoc when absent
          comTtl,    \* keys that carry an expiry
          leitor,    \* per call of getAmbiente: where it is
          admin,     \* per request: where it is
          aquece     \* per id: the copy the warm-up still has to write

vars == <<linha, cache, comTtl, leitor, admin, aquece>>

Docs == [v : 0 .. MaxVersao, del : BOOLEAN]
SemDoc == [v |-> 0, del |-> TRUE]
Ops == {"create", "update", "softDelete"}

(* findById filters del = false *)
Viva(id) == ~linha[id].del

LeitorLivre(id) == [pc |-> "livre", id |-> id, doc |-> SemDoc]
AdminLivre(id) == [pc |-> "livre", op |-> "update", id |-> id, doc |-> SemDoc]

Init == /\ linha \in [Ambientes -> {SemDoc, [v |-> 1, del |-> FALSE]}]
        /\ cache = [id \in Ambientes |-> SemDoc]
        /\ comTtl = {}
        /\ leitor \in [Leitores -> {LeitorLivre(id) : id \in Ambientes}]
        /\ admin \in [Admins -> {AdminLivre(id) : id \in Ambientes}]
        /\ aquece = [id \in Ambientes |-> SemDoc]

-----------------------------------------------------------------------------
(* Mutant: a key without EX. *)
SetSemTtl(id, d) == /\ cache' = [cache EXCEPT ![id] = d]
                    /\ comTtl' = comTtl \ {id}

RedisSet(id, d) == /\ cache' = [cache EXCEPT ![id] = d]
                   /\ comTtl' = comTtl \cup {id}

RedisDel(id) == /\ cache' = [cache EXCEPT ![id] = SemDoc]
                /\ comTtl' = comTtl \ {id}

Expira(id) == /\ id \in comTtl
              /\ RedisDel(id)
              /\ UNCHANGED <<linha, leitor, admin, aquece>>

-----------------------------------------------------------------------------
(* getAmbiente: a hit answers with the document and changes nothing. *)
Get(r, id) == /\ leitor[r].pc = "livre"
              /\ cache[id] = SemDoc
              /\ leitor' = [leitor EXCEPT ![r] = [pc |-> "busca", id |-> id, doc |-> SemDoc]]
              /\ UNCHANGED <<linha, cache, comTtl, admin, aquece>>

Busca(r) == /\ leitor[r].pc = "busca"
            /\ LET id == leitor[r].id IN
               leitor' = [leitor EXCEPT ![r] =
                            IF Viva(id) THEN [@ EXCEPT !.pc = "grava", !.doc = linha[id]]
                                        ELSE LeitorLivre(id)]
            /\ UNCHANGED <<linha, cache, comTtl, admin, aquece>>

GravaCache(r) == /\ leitor[r].pc = "grava"
                 /\ RedisSet(leitor[r].id, leitor[r].doc)
                 /\ leitor' = [leitor EXCEPT ![r] = LeitorLivre(@.id)]
                 /\ UNCHANGED <<linha, admin, aquece>>

-----------------------------------------------------------------------------
(* create, update and softDelete: check, write the row, write the key.     *)
(* The check of create wants no live row, that of the others a live one.   *)
Confere(a, op, id) ==
  /\ admin[a].pc = "livre"
  /\ Viva(id) <=> op # "create"
  /\ admin' = [admin EXCEPT ![a] = [pc |-> "grava", op |-> op, id |-> id, doc |-> SemDoc]]
  /\ UNCHANGED <<linha, cache, comTtl, leitor, aquece>>

(* The id of a soft-deleted row is still taken, so create fails on it;     *)
(* update and softDelete select by id alone, so they also write a row that *)
(* was soft-deleted after the check.                                       *)
(* Mutant: the write keeps the fields of the request only. *)
LinhaParcial(op, d) == [v |-> d.v + 1]

NovaLinha(op, d) == [v |-> d.v + 1, del |-> op = "softDelete" \/ (op = "update" /\ d.del)]

(* Mutant: the request ends once the row is written. *)
GravaSemCache(a) ==
  /\ admin[a].pc = "grava"
  /\ LET id == admin[a].id
         op == admin[a].op
     IN /\ op = "create" => linha[id].v = 0
        /\ linha[id].v < MaxVersao
        /\ linha' = [linha EXCEPT ![id] = NovaLinha(op, @)]
        /\ admin' = [admin EXCEPT ![a] = AdminLivre(id)]
  /\ UNCHANGED <<cache, comTtl, leitor, aquece>>

GravaLinha(a) ==
  /\ admin[a].pc = "grava"
  /\ LET id == admin[a].id
         op == admin[a].op
     IN \/ /\ op = "create" /\ linha[id].v > 0
           /\ admin' = [admin EXCEPT ![a] = AdminLivre(id)]
           /\ UNCHANGED linha
        \/ /\ op = "create" => linha[id].v = 0
           /\ linha[id].v < MaxVersao
           /\ linha' = [linha EXCEPT ![id] = NovaLinha(op, @)]
           /\ admin' = [admin EXCEPT ![a] = [pc |-> "cache", op |-> op, id |-> id,
                                             doc |-> NovaLinha(op, linha[id])]]
  /\ UNCHANGED <<cache, comTtl, leitor, aquece>>

(* Mutant: what is cached is the request, not the row the write returned. *)
SincronizaPedido(a) ==
  /\ admin[a].pc = "cache"
  /\ RedisSet(admin[a].id, [admin[a].doc EXCEPT !.del = FALSE])
  /\ admin' = [admin EXCEPT ![a] = AdminLivre(@.id)]
  /\ UNCHANGED <<linha, leitor, aquece>>

Sincroniza(a) ==
  /\ admin[a].pc = "cache"
  /\ \/ /\ admin[a].op = "softDelete"
        /\ RedisDel(admin[a].id)
     \/ /\ admin[a].op # "softDelete"
        /\ RedisSet(admin[a].id, admin[a].doc)
  /\ admin' = [admin EXCEPT ![a] = AdminLivre(@.id)]
  /\ UNCHANGED <<linha, leitor, aquece>>

-----------------------------------------------------------------------------
(* onModuleInit of an instance that starts: findAll, then one set per row, *)
(* all in flight together.                                                 *)
Aquece == /\ "instancia" \in Eventos
          /\ \A id \in Ambientes : aquece[id] = SemDoc
          /\ aquece' = [id \in Ambientes |-> IF Viva(id) THEN linha[id] ELSE SemDoc]
          /\ UNCHANGED <<linha, cache, comTtl, leitor, admin>>

AqueceGrava(id) == /\ aquece[id] # SemDoc
                   /\ RedisSet(id, aquece[id])
                   /\ aquece' = [aquece EXCEPT ![id] = SemDoc]
                   /\ UNCHANGED <<linha, leitor, admin>>

-----------------------------------------------------------------------------
(* Redis refuses a command, or the process stops: getAmbiente throws, the administrator gets a   *)
(* 500 with the row already written, the warm-up logs and goes on.         *)
LeitorFalha(r) == /\ leitor[r].pc # "livre"
                  /\ leitor' = [leitor EXCEPT ![r] = LeitorLivre(@.id)]
                  /\ UNCHANGED <<linha, cache, comTtl, admin, aquece>>

AdminFalha(a) == /\ admin[a].pc # "livre"
                 /\ admin' = [admin EXCEPT ![a] = AdminLivre(@.id)]
                 /\ UNCHANGED <<linha, cache, comTtl, leitor, aquece>>

AqueceFalha(id) == /\ aquece[id] # SemDoc
                   /\ aquece' = [aquece EXCEPT ![id] = SemDoc]
                   /\ UNCHANGED <<linha, cache, comTtl, leitor, admin>>

Falha == /\ "falha" \in Eventos
         /\ \/ \E r \in Leitores : LeitorFalha(r)
            \/ \E a \in Admins : AdminFalha(a)
            \/ \E id \in Ambientes : AqueceFalha(id)

Le == \E r \in Leitores, id \in Ambientes : Get(r, id)

Escreve == \E a \in Admins, op \in Ops, id \in Ambientes : Confere(a, op, id)

Continua == \/ \E r \in Leitores : Busca(r) \/ GravaCache(r)
            \/ \E a \in Admins : GravaLinha(a) \/ Sincroniza(a)
            \/ \E id \in Ambientes : AqueceGrava(id)

Next == Le \/ Escreve \/ Aquece \/ Continua \/ Falha
        \/ \E id \in Ambientes : Expira(id)

Spec == Init /\ [][Next]_vars

(* Redis expires every key that carries a TTL, and a request or warm-up    *)
(* that was started does not stop half-way without failing.                *)
SpecJusta == /\ Spec
             /\ \A id \in Ambientes : WF_vars(Expira(id)) /\ WF_vars(AqueceGrava(id))
             /\ \A r \in Leitores : WF_vars(Busca(r) \/ GravaCache(r))
             /\ \A a \in Admins : WF_vars(GravaLinha(a) \/ Sincroniza(a))

-----------------------------------------------------------------------------
TypeOK == /\ linha \in [Ambientes -> Docs]
          /\ cache \in [Ambientes -> Docs]
          /\ comTtl \subseteq Ambientes
          /\ leitor \in [Leitores -> [pc : {"livre", "busca", "grava"}, id : Ambientes, doc : Docs]]
          /\ admin \in [Admins -> [pc : {"livre", "grava", "cache"}, op : Ops,
                                   id : Ambientes, doc : Docs]]
          /\ aquece \in [Ambientes -> Docs]

(* d is a copy of some version of row id, the current one only if equal. *)
CopiaDe(id, d) == d.v <= linha[id].v /\ (d.v = linha[id].v => d = linha[id])

(* No copy, cached or in flight, is of a version its row has not had, and  *)
(* a copy of the current version is the current row: whoever compares      *)
(* versions knows whether a copy is stale.  A document under another id,   *)
(* or one that was neither read from nor written to the table, breaks it.  *)
CopiasSaoDeLinhas ==
  /\ \A id \in Ambientes : CopiaDe(id, cache[id]) /\ CopiaDe(id, aquece[id])
  /\ \A r \in Leitores : CopiaDe(leitor[r].id, leitor[r].doc)
  /\ \A a \in Admins : CopiaDe(admin[a].id, admin[a].doc)

Coerente(id) == cache[id] \in {SemDoc, linha[id]}

(* Some request, read or warm-up in flight still holds an old copy. *)
SeguraCopiaVelha(id) ==
  \/ \E r \in Leitores : leitor[r].pc = "grava" /\ leitor[r].id = id /\ leitor[r].doc # linha[id]
  \/ \E a \in Admins : /\ admin[a].pc = "cache" /\ admin[a].op # "softDelete"
                       /\ admin[a].id = id /\ admin[a].doc # linha[id]
  \/ aquece[id] \notin {SemDoc, linha[id]}

VaiSincronizar(id) == \E a \in Admins : admin[a].pc = "cache" /\ admin[a].id = id

(* A key stops agreeing with its row in two ways only: the row was just    *)
(* written and the request that wrote it is about to write the key, or an  *)
(* old copy, read before the last write, was in flight.  No other step of  *)
(* a reader, an administrator, a warm-up or Redis makes a key stale.       *)
PerdeCoerenciaComCausa ==
  \A id \in Ambientes : Coerente(id) /\ ~Coerente(id)' =>
     VaiSincronizar(id)' \/ SeguraCopiaVelha(id)

IncoerenciaTemCausa == [][PerdeCoerenciaComCausa]_vars

(* The TTL puts an end to every disagreement once the writes stop, however *)
(* it arose: no stale document outlives its key for ever.                  *)
TtlEncerraIncoerencia == \A id \in Ambientes : <>[]Coerente(id)
=============================================================================
