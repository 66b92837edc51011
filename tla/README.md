# whiz-gateway in TLA+

The gateway receives webhooks from Meta, finds the inboxes a payload belongs to,
posts it to the ambiente of each one with retries, and keeps what could not be
delivered in a dead-letter queue and table from which it can be re-sent. Beside
that it proxies the Graph API below `/wpp`, forwards the events of Instagram and
Messenger, copies webhooks to redirects and uploads media. This directory holds
a model of all of these, TLC runs that check it on small instances and TLAPS
proofs of their safety for every instance.

Names of the source are kept (in Portuguese); comments are in English. Paths
below are relative to the root of the repository.

## 1. Inventory

| component | source | state | operations | status |
|---|---|---|---|---|
| Webhook ingestion | `src/webhook` | requests in progress | `POST /webhook`: guard, resolution by pid then by WABA, dead letter, answer | `Webhook` |
| Dispatch | `src/dispatch` | calls in flight, in memory | `handle(inboxId, payload)` | `Dispatch`, promise in `Entrega` |
| Ambientes and cache | `src/ambiente`, `src/redis` | table `ambiente`, keys `ambiente:<id>` | create, update, softDelete, warm-up, `getAmbiente` | `AmbienteCache` |
| Inboxes | `src/inbox` | table `inboxes` | create or revive, update, softDelete, lookups | `Cadastro`; lookups also in `Webhook`, `Dispatch` |
| RabbitMQ adapter | `src/rabbitmq` | connection, channel, consumer tags | sendToQueue, startConsuming | `FilaMorta`, `Midia` |
| Dead letters | `src/dead-letter` | DLQ, table `fila_mensagens_mortas` | consume, list, softDelete, purge, resend | `FilaMorta`, `Reenvio` |
| Resend | `src/resend` | none of its own | `POST /messages/resend` | `Reenvio` |
| Instagram and Messenger | `src/instagram-webhook` | events in flight | 3 passthrough webhooks, one forward after the other | `Instagram` |
| Redirecionamentos | `src/redirecionamentos-webhooks` | table | create, update, remove, dispatch with retries | `Redirecionamentos` |
| Media upload | `src/wpp-media-business-profiles` | queue `media.upload`, temporary files | upload, job, callback, cleanup | `Midia` |
| Flow callbacks, flows endpoint | `src/wpp-flow-callbacks`, `src/wpp-flows` | table, keys `flow_cb:<uid>` | create, update, remove, `getUrl`; endpoint | `Callbacks`, `Proxy` |
| API keys | `src/api-keys` | table, Redis hash | create, revoke, start of an instance, guard | `Chaves`, `Proxy` |
| Meta error logs | `src/meta-error-logs` | table | persist, extract from a webhook, purge | `ErrosMeta`, `Proxy` |
| WhatsApp passthrough, meta token | `src/wpp*`, `src/meta-token` | the token of a request | every route below `/wpp` | `Rotas`, `Proxy` |
| Sentry and metrics | `src/sentry` | counters | | not modelled: nothing reads them |
| Health, configuration, logger, Prisma | `src/health`, `src/config`, ... | none | | not modelled: pure I/O |
| Administration UI | `src/ui` | none | | not modelled: a static page |

How they interact. A POST is answered once its payload is either dead-lettered
(awaited) or handed to `handle()` (not awaited), one call per inbox. The calls
share the tables and the cache with the administrators and with the batch
resend, which calls the same `handle()`. `handle()`, the ingestion and the guard
publish to `inbox.dead-letter`; its consumer, in the same process, writes the
table that the resend reads and marks and a daily cron purges. Instagram events
and redirects look a pid up in the table the administrators edit. A request
below `/wpp` passes the middleware of the token, the guard of the keys, whatever
route Express finds first, perhaps the url of a callback, and Meta, whose error
becomes a row. Everything runs on one event loop: a step of the models runs from
one `await` to the next.

What is hard here: the interleavings between awaits; failures that are swallowed
half-way; a crash that takes calls already answered 200; redelivery by Meta and
by the broker; a cache filled with a row read before a write; flags read before
a loop and set after it; parametric routes of several modules in one namespace.
`PROJECT.json` lists each hazard at its line with the
properties that cover it, or the reason none does.

## 2. Modules

### `Entrega`: what `handle()` promises

An accepted obligation stays pending until exactly one thing happens to it: it
is delivered, it dies with one dead letter, or, only where `PodePerder` says so,
it is lost. `Reenvio` calls `handle()` with just these outcomes.

### `Dispatch`: `DispatchHandlerService.handle`

Per call: `pc` (the await it is at), `caixa` (inboxId), `amb`, `url`,
`tentativa` (attempt), `status`, `desfecho` (how it ended) and the history
`vistos` (the kinds of failure its attempts met). `publicadas` are the dead
letters sent, `inbox` the table and `vista` what `getAmbiente` would answer now.

| code | action |
|---|---|
| start of a call; the callers start one per inbox together | `Handle` |
| `inboxRepo.findById`, NACK_RECEBIDO | `FindInbox` |
| `getAmbiente`, AMBIENTE_INDISPONIVEL, entry of the loop | `GetAmbiente` |
| `http.post` and its outcome | `Envia`, `Resposta2xx`, `TentativaFalha` |
| `sleep` | `Backoff` |
| `enviarParaDlq`, which awaits the broker | `EnviarParaDlq` |
| outer `catch` | `Excecao` |
| crash | `Queda` |

Abstracted: the payload (a call stands for one), headers, metrics, the length of
a backoff, the fan-out to redirecionamentos (fire-and-forget, shares nothing).
`vista` moves freely, so what is shown holds for whatever the cache does.

### `AmbienteCache`: table, keys, TTL

`linha` is a row (version and `del`), `cache` the document under its key,
`comTtl` the keys with an expiry, `leitor`, `admin` and `aquece` the requests
half-way through. A version that grows with every write tells copies apart.
`Get`/`Busca`/`GravaCache` are `getAmbiente`; `Confere`/`GravaLinha`/`Sincroniza`
the mutations of `AmbienteService`; `Aquece`/`AqueceGrava` the warm-up.
`update` and `softDelete` select by id alone after a check for a live row, so
they may write a row deleted meanwhile; `NovaLinha` keeps that.

### `FilaMorta`: from `sendToQueue` to the row

Copies of an envelope are counted where they can be: in the publisher's buffer
or written (`envio`), in the queue (`fila`), in a handler before and after the
row is committed (`criando`, `criadas`), in a handler that outlived its channel
(`orfas`), in the table (`linhas`), discarded by a nack (`descartes`). The
broker and amqp-connection-manager are external and modelled as the code relies
on them: at-least-once delivery, requeue of what was not acknowledged, rewrite
of what was not confirmed, setup functions run again on each channel. The
queue is durable and its messages are not persistent, so a broker restart keeps
only what the publisher still has to see confirmed (`DepoisDoReinicio`); an
envelope that dies with the process or the broker is `"perdido"`.

### `Reenvio`: over `fila_mensagens_mortas`

Rows are numbered in the order of `data`. A batch (`lote`) selects its
candidates once, by a pid, a period of `data` or both (`PedeLote`), and then
takes them one by one: `handle()` in one step with the outcomes of `Entrega`,
then `markReenviado`. Nothing says that a batch ends: it awaits `handle()`, and
that the destination and the broker. A single resend (`avulso`) looks at
neither `del` nor `reenviado`. `estado` is `del` until the purge takes the row;
`perdidas` (the messages a call lost in silence) and `envios` are history.
`Registra` is the consumer of the DLQ, `HardDeleteOlderThan` the purge,
`SoftDelete` the DELETE route.

### `Webhook`: `POST /webhook`

Per POST: where it is, the event it reports, its answer, and whether Meta saw
it. An event is the outcome of its signature and the ids of
`entry[0].changes[0]`, the only entry the code reads. `Post` is the guard,
`ResolvePid` and `ResolveWaba` the two queries of `resolverInboxes`, each with
the loop that starts the calls; `SendToQueue`/`Confirma` the awaited dead
letter, `Excecao` a 500, `PersistToDeadLetter` the letter behind a 401. Meta
delivers an event again until it sees a 200 (`MetaInsiste`, external).

### `Gateway`: the composition

One instance of `Webhook` and one of `Dispatch` over the same table and memory.
A resolution and the start of its calls are one step; a crash takes both.
`ChamadasDosAlvos` and `AmbientesDosAlvos` relate the two states.

### `Rotas`: what a request is, and who gets it

Pure operators over a table of the routes below `/wpp`, in the order in which
they are registered (`Tabela`): the DTO of each, the parts of the request its
handler passes on, its token. `Atende` is the choice of Express, `Admite` the
pipes, `Chamada` the call made to Meta and `Prometida` the one the documents
promise. Only requests the documents describe are in the table (`corpos`).
`Desviada` names the requests for which the two calls differ.

### `Chaves`, `Callbacks`, `ErrosMeta`: what a request reads and leaves

`Chaves`: `linha` is the table, `hash` the Redis hash; create and revoke write
one and, after an `await`, the other (`Cria`/`CriaGrava`, `SoftDelete`/`Hdel`);
a start copies the live rows (`Parte`/`ParteGrava`). `Callbacks`: `getUrl` is
`Consulta`/`FindByUid`/`GravaCache`, update and remove are
`Acha`/`Escreve`/`Invalida`. `ErrosMeta`: `Erros` are the paths to the errors of
a payload, `Persiste` the row that may fail, `Purga` the cron. Histories record
causes: `presas` (a revoke failed half-way), `relidas` (written to the hash
after the deletion), `tardias` (a failed del or a late fill left a key stale),
`perdidos` (a row could not be created).

### `Proxy`: a request below `/wpp`

Composes these four. `Chega` is the router, the middleware of the token and the
guard up to its first `await`; `Guarda` the hash, the pipes and the handler, one
step, for what is read after the hash is the request's own; `GetUrl`/`ComUrl`
the routes of flows that need a url; `GravaArquivo` and `Publica` the uploads,
which wait for the body and the broker; `Meta`, `Cliente` the outside;
`Registra` the row of an error and the answer. `enviado` keeps the call
made. Signatures and ciphers of the flows endpoint are outcomes. A scenario
(`Cenarios`) says which requests and administrators a behaviour has.

### `Cadastro`: registrations

`create` as its queries: a live row (`FindByPidEAmbiente`), a deleted one
(`FindApagada`), the ambiente (`FindAmbiente`), `Revive` or `Insere`; `update`
and `softDelete` find a live row and write it by id. The history `mexeram` says,
for a create half-way, whether another call took its pair away (`"tirou"`) or
took the pair (`"tomou"`).

### `Instagram`: one forward after the other

`Recebe` is the immediate 200; `Proxima` the loop; `GetAmbiente`, `Post`,
`SendToQueue` a forward; `Excecao` the two `try`. `desfechos` is history. The
wait of a destination that never answers has no bound. `DISPATCH_MAX_RETRIES`
may be 0 (`config.validation.ts:34`; negative numbers do the same): the loop of
`forward` never runs and the outcome is `"silencio"`.

### `Redirecionamentos`: copies

`FindAllByPid` and one `FindActiveByAmbiente` per ambiente, in any order, then
`SendWithRetry` for all the copies side by side, while `Gestor` edits the table.
`Observa` keeps two histories for a call: `sempre`, the copies due at every
moment of its reads, and `vistos`, what was true at some moment of them.

### `Midia`: uploads

Per job: the request (`etapa`; an id of a session that cannot be read, or
headers without a multipart body, end it before there is a file), the file
(`arquivo`, `velhos`), copies of the message in the queue (`fila`) and the
handlers at work on it (`exec`), several after a lost connection: the old one
goes on and its ack settles nothing. `Rompe` is the loss of a connection and its
reconnection in one step; `ReiniciaBroker` drops what is queued, for messages
are transient; `Queda` keeps only the files. `feito` says what became of a job.

### `Canais`: the composition of these four

`Cadastro`, `Instagram` and `Redirecionamentos` share the table of inboxes;
`Midia` shares the process and its crashes. Scenarios again say which actors
meet. The types are those of its components. The attempts of an event and those
of a copy are two constants, as in the code. `SoEdita` is the promise of
`Cadastro` to all who read the table.

## 3. Runs

`MC<module>.tla` gives the constants small values; one `.cfg` per question.

| run | question | bounds |
|---|---|---|
| `Dispatch_falhas` | one outcome per call, statuses that tell what happened, `Entrega` implemented, nothing but a pending POST or an absent broker holds a call up | 2 calls, 2 inboxes, 1 ambiente, 2 attempts, every fault, destinations may never answer |
| `AmbienteCache_seguro` | copies are of rows that existed, staleness has a cause and an end | 2 keys, 1 reader, 2 administrators, a warm-up, versions up to 2 |
| `FilaMorta_seguro` | an envelope is always somewhere and ends as a row or a nack | 1 envelope, up to 3 losses of the connection, every fault |
| `Reenvio_seguro` | no message is forgotten, the answer of a batch adds up | 2 messages (one without inbox), up to 3 rows, 2 batches, 1 single resend, pages of 2 |
| `Webhook_seguro` | honest answers, one effect per event, one call per ambiente, who waits for a broker that is down | 2 POSTs, 5 kinds of event, 2 inboxes of 2 pids, 2 ambientes, every fault |
| `Gateway_seguro` | answered 200 means kept | 1 POST of a WABA event, 2 inboxes, 2 ambientes, edits, answers lost |
| `Gateway_compoe` | one delivery per ambiente, a POST waits for no destination | 2 POSTs of 2 kinds of event, 2 inboxes of 1 ambiente, every fault but edits |
| `Proxy_seguro` | every documented request is authenticated, called and answered as promised, or is a known deviation; stale keys and urls have a cause; tokens do not mix; only Meta, clients, a body that does not end and the broker hold a request | 2 requests, 1 key, 2 administrators and a start, 1 url with 2 values and 2 editors, 2 tokens, a webhook with 3 errors |
| `Canais_seguro` | what a registration, an Instagram event, a redirect and an upload promise their callers, and what edits the readers of the table see | 1 pid, 2 ambientes, 3 registrations, 1 event, 1 dispatch of 1 redirect with 2 editors, 1 upload of 5 kinds, 2 handlers, 2 losses, 2 attempts of each kind |

Why these are enough: every hazard found takes the overlap of two actors, so
there are two of each kind that can overlap with its own kind. Envelopes of
`FilaMorta` share only the connection, so one of them with three losses, which
let it be written, handled and redelivered again, shows more than two with one.
A page of two rows is full before the third row; with two attempts the last is
told from the others; two versions tell a stale copy from the current one. A
third POST of an event adds nothing to `Webhook`: an event is accepted once at
most among the POSTs whose answer Meta saw. `Gateway_seguro` has one POST
because the POSTs of `NadaSePerde` meet only in the table, which `edicao`
already changes at will.

`Proxy_seguro` takes five scenarios: every route of `Tabela` with every body of
its documents, and one for each hazard that takes two actors. Requests share the
hash, the cache and the log only, so one of each kind is beside the editors
there, and two where tokens or urls could mix. `Canais_seguro` takes five more:
registrations among themselves, under an event, under a dispatch, redirects
under two editors, and an upload. A pid in two ambientes has two rows at most,
by the unique index, so two ids are all there are. Two attempts tell the last
from the others; the code has 5 for a redirect and 6 for a callback. Two losses
let a job be delivered again, and a third handler would only repeat what the
second does. Calls a scenario leaves out have one arbitrary input, so as not to
multiply the initial states.

Bounds in guards and inputs: `MaxVersao`, `MaxRupturas`, `MaxLinhas`, `MaxNos`,
`Bracos`, `Operacoes`, `Pedidos` and `Cenarios`. `CHECK_DEADLOCK
FALSE` is in the runs where the POSTs, calls, envelopes, rows or losses of the
instance run out and the system really stops.

### Where the code and its documents disagree

Each of these runs checks one statement of a document and TLC refutes it.

| run | statement | what the code does |
|---|---|---|
| `Dispatch_readme` | `README.md:5`: any failure ends in the dead letters | the outer `catch` only logs |
| `FilaMorta_nfr1` | fila NFR-1: a persistence failure loses nothing | nack without requeue |
| `Proxy_sombra` | misc FR-13 and the routes of the other specs: a documented request reaches Meta as described | routes registered earlier capture it, a DTO without decorators refuses it, a file is dropped |

Other statements were met while modelling that the code does not keep; they are
read off the code and have no run of their own: a mutation of an ambiente does
not synchronise the cache for good, for a late fill may undo it (cache NFR-2); a
resend whose delivery failed is marked as re-sent, for `handle()` never rejects
(reenvio FR-6, AC-4); there is no timeout per request (despacho NFR-5), nor for
the letter of a deleted inbox while the broker is away, which is to be sent
without being held indefinitely (despacho FR-10), and no redelivery of the calls
a crash takes (despacho §10, the `Queda` of `Dispatch`); two batches may re-send
one row, for the flag is read before the loop (reenvio NFR-2); with several
inboxes the page is cut before the filter (reenvio AC-2); only the first entry
of a payload is read (ingestão FR-4) and a refused letter answers 500 (ingestão
FR-8); the WABA lookup gives the oldest inbox of every ambiente and not one
(WABA FR-5). `POST /redirecionamentos-webhooks/dispatch` answers after all its
sends (redirecionamentos NFR-3 says before), and `handle()` calls it once per
inbox, so a pid in several ambientes multiplies the copies. Uploads are not
handled one at a time, for no prefetch is set (media FR-9, NFR-2); an upload
that fails in the transport calls no callback (media FR-11, AC-4) and its dead
letter makes no row (media §12, line 367), which leaves the row of the error. A
revocation that failed at Redis cannot be tried again: the key no longer has a
live row and the answer is 404.

### Mutants

Operators under a comment that starts with "Mutant" are altered forms of the
definition that follows, as a plausible bug would have it: a dropped return, a
swapped order, a missing await. Each checked property fails under one of them.

## 4. Fairness

Weak fairness of a step means that a settled promise is eventually resumed,
which the event loop gives. Nothing is assumed of an actor that may decline.
`SpecSemTimeout` of `Dispatch` and `SpecSemDestino` of `Gateway` let a
destination leave a POST open for ever, which no timeout of the code ends, and
that of `Dispatch` the broker a dead letter, for `sendToQueue` waits for the
connection as long as it takes (`rabbitmq.service.ts:106`);
`SpecSemBroker` of `Webhook` lets the broker never confirm; administrators,
Meta and faults are never obliged to act. `AmbienteCache` assumes that Redis
expires a key that has a TTL. `FilaMorta` assumes that the manager reconnects,
writes and consumes again and again, and that a create ends, well or badly.
`SpecJusta` of `Proxy` is fairness of the process, Redis and the database; Meta,
the clients of flows, whoever sends the body of an upload and the broker owe
nothing, and neither do the editors. `SpecJusta` of
`Canais` assumes only that time passes and the cron runs, which is all that
`ArquivoSome` needs: no request, job or broker has to finish.
`Reenvio` has no fairness and no liveness: what its batches wait for, none of it
has to come.

## 5. Proofs

`<module>_proofs.tla` proves, with TLAPS and for every value of the constants
that meets the named assumptions of the module:

| module | theorems | inductive invariant |
|---|---|---|
| `Dispatch_proofs` | type correctness, `UmDesfecho`, `StatusExplicaFalha`, `SemPerdaSilenciosa`, implements `Entrega` | where a call is fixes how much of it has happened (`PcCoerente`); letters are those of the dead calls (`LetrasSaoDasMortas`); losses have a cause |
| `AmbienteCache_proofs` | type correctness, `CopiasSaoDeLinhas`, `IncoerenciaTemCausa` | every copy is of a version its row has had; a copy of the current version is the row |
| `FilaMorta_proofs` | type correctness, `NadaEvapora`, `UmaLinhaPorEnvelope` | both with types, and that no handler is orphaned before a loss |
| `Reenvio_proofs` | type correctness, `NenhumaEsquecida`, `ContagemFecha` | an undelivered message keeps a row no batch is about to mark (`TemSucessora`); candidates are rows |
| `Webhook_proofs` | type correctness, `RespostaHonesta`, `SemEfeitoDobrado`, `UmaPorAmbiente` | an effect and an answer belong to one stage each (`EtapaCoerente`); one unrefused POST per event (`UmAceito`); the unique index |
| `Gateway_proofs` | `NadaSePerde`, `UmEnvioPorAmbiente` | those of its components, by instantiating their proofs (its steps are theirs by construction: lemmas `SoPedidos` and `SoChamadas`), and what links them: the calls that started are those of the inboxes resolved to (`ChamadasDosAlvos`), in different ambientes (`AmbientesDosAlvos`) |
| `Proxy_proofs` | type correctness, `MortaTemCausa`, `RevogadaNaoPassa`, `UrlVelhaTemCausa`, `TokenDoPedido`, `RespostaFiel`, `Documentada` | of the keys: whoever is about to write one has a row for it (`TemLinha`), and a revoked one is out of the hash or was written again (`RevogadaSai`); of the urls: `GestorTemLinha`; of the requests: each has its own token in its context once it has begun (`Contextos`), no status of Meta before its answer (`Respostas`), and where it is tells what the pipes and its handler have said of it (`Andamento`). A step of `Proxy` is shown to be one of `Chaves` and of `Callbacks`, or to leave them alone |
| `Canais_proofs` | `CadastroCumpre`, `InstagramNaoPerde`, `RedirecionaExato`, `JobDeixaRastro`, `SoEdita`: the table changes as `EditaInbox` of `Webhook` and `Dispatch` says | that of each component, which the steps of the others keep although they write the same table. Registrations: a create still has the pair as its last query saw it, or others have touched it (`Sabe`), under the unique index (`ParUnico`). Instagram: an inbox has one outcome once the loop is past it and none before (`Contagem`), two inboxes found have two ids (`Percurso`), and only a forward without attempts is silent (`SemSilencio`). Redirects: what was due all the time is due now, and is copied or of an ambiente still to be asked for (`LeTudo`). Uploads: a handler past its forward has left what its way of ending leaves (`Cumpre`), and a job is queued, held by a handler that may be requeued, settled soon, or settled (`Acompanha`) |

Each `THEOREM` follows one argument: the initial states satisfy the invariant,
each action preserves it (one step per action), and it implies the property.

The theorem on `Documentada` has a hypothesis, its first conjunct
`TabelaConfere`: of each route and each of its bodies, that the handler Express
gives it to admits it and calls Meta as promised, or that it is one of the known
deviations. It speaks of the table of `Rotas` alone, which has no parameter, so
that TLC, which evaluates it in full, settles it for good; the proof carries it
from the table to the requests, any number of them at any moment, which takes
the invariant `Andamento` and no bound. `TokenDoPedido` and `RespostaFiel` do
not need it.

The assumptions are those the modules name: constants that stand for "none" are
none of the values; at least one attempt of a copy and of a callback in
`Canais`, which the code fixes at 5 and 6; scenarios within the constants. Two
are for the proofs of `Canais`: `Nenhuma` is not a row, and the handlers of a
job (`Bracos`) are finitely many, without which a lost connection would requeue
no definite number of copies.

Every safety invariant and action property that a run checks is stated by a
theorem. Only model-checked: liveness (`SoParaNoPostOuNoBroker`,
`TtlEncerraIncoerencia`, `TodaCartaRegistrada`, `SoEsperaOBroker`,
`RespondeSemEsperar`, `SoEsperaForaDoProcesso`, `ArquivoSome`), which is beyond
the prover, and `TabelaConfere`. Proved and not run: `SemPerdaSilenciosa`, which
`CumpreEntrega` contains, and the value 0 of `MaxRetries`.

## 6. Not modelled

Sentry, metrics, the logger, health and the page of the interface keep no state
that another component reads. Configuration is read once and is the CONSTANTS.
The GET handshakes and the lists of the administration change nothing. Values
of fields, headers and ciphers are outcomes or names of fields. Time is only the
order of events: lengths of backoffs, TTLs and crons are not there.

## 7. What is left

`Webhook` and `Dispatch` stand for the administrators by `EditaInbox`, one row
at a time under a pid that never changes and the unique index, and `SoEdita`
shows that the queries of `Cadastro` make no other edits. The two models differ
in a row not yet inserted, which is no row in `Cadastro` and a deleted one in
`Webhook`; a composition of `Gateway` with `Cadastro`, over one table with
absent rows, would carry `NadaSePerde` to the real queries.
