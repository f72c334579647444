# LakeMind: specifications, model checks and proofs

LakeMind is a multi-tenant data and cognition platform. Its server keeps all
state in PostgreSQL, hands computations to Ray and announces what happens
through an outbox and an event stream; its graphs live in Apache AGE, a
PostgreSQL extension written in C whose source the repository vendors. This
directory holds TLA+ models of the parts of both that are concurrent, may fail or are hard
to test, the TLC instances that check them, and theorems that TLAPS has checked
for every value of the constants.

Paths below are relative to the repository; `SRV` stands for
`LakeMindServer/src/lakemind_server` and `AGE` for
`LakeMindServer/docker/postgres-age/age-src/src/backend`.

## 1. Inventory of the system

| Component | State | Operations | Why it is hard |
|---|---|---|---|
| Job runtime: `SRV/services/job_service.py`, `job_sync_service.py`, `job_state_machine.py`, `plugins/compute/distributed/ray_execution_backend.py`, `app.py` | `job_runs`, `job_attempts`, `job_events`; the jobs of Ray; per process a Ray client | submit, cancel, retry; `sync_all`, `cleanup_zombies`, `check_timeouts`; `recover_on_startup` | one transaction per statement, two threads per process, several processes, crashes, Ray calls that fail before or after they took effect |
| Outbox and event stream: `SRV/outbox/worker.py`, `services/event_service.py`, `api/events.py` | `outbox`, `event_stream`, its sequence; per reader `last_seq` | enqueue, `process_batch`, emit, query, the SSE stream | processes that race for rows, crashes half-way, numbers drawn before the commit, broken connections |
| Operations and approvals: `SRV/services/operation_service.py` | `operations.status`, initiator, approver | create, approve, reject, execute, complete, cancel | status read in one transaction and written in another; some writes read nothing |
| Assets: `SRV/services/asset_service.py`, `asset_state_machine.py`, `reconciliation_service.py` | `assets`, `asset_bindings` | create, delete, bind, reconcile | DELETING before the approval; the outbox row is a second transaction |
| Configuration: `SRV/services/configuration_service.py` | `config_revisions` (active, rollout status) | create, activate, roll back | two UPDATEs move the active flag |
| Tenants, principals, tokens: `SRV/api/tenants.py`, `security/*`, `services/authorization_service.py` | memberships, `security_version`, roles | onboard, suspend, revoke; check a token | several INSERTs and UPDATEs that belong together; a token outlives the fact it states |
| Model registry and gateway: `LakeMindModelServing/.../registry.py`, `gateway.py`; `SRV/services/model_management_service.py` | `ms_models` rows and the models loaded in a router; deployments | register, update, enable, disable, delete | the table and the memory must agree; hot reload under load |
| Secrets, memory, knowledge, skills: `SRV/services/*_service.py` | versions, assets and their metadata | create, rotate, revoke, publish, ingest | check-then-insert |
| Steward: `LakeMindControlCenter/steward`, `SRV/api/steward.py` | findings | scan, upsert, acknowledge | periodic scan against manual changes |
| Meeting agent pipeline: `examples/meeting-agent/backend/app/services/pipeline_service.py` | tasks, stage runs (SQLite) | run stages, poll jobs, retry | client timeouts, idempotency keys, restarts |
| Control Center BFF, MCP servers | none | translate requests | none |
| Storage and cognitive plugins | none of their own | adapters to S3, Lance, Iceberg, DuckDB, AGE | none of protocol |
| Audit, metrics, monitoring, notifications, search | append-only rows, gauges | insert, aggregate | none |
| AGE, graphs and labels: `AGE/commands`, `AGE/catalog`, `AGE/utils/cache` | `ag_graph`, `ag_label`, the label tables, a sequence of label ids per graph; four hash tables per session | create, rename and drop graphs and labels; look up by name, id, relation | caches of two tables that are flushed by messages about other objects; ids that cycle; three ways to drop a label |
| AGE, loading and generating: `AGE/utils/load`, `graph_generation.c`, `graphid.c` | vertices and edges of a label, two id sequences, a buffer of rows per call | load files of vertices and edges, complete and barbell graphs | ids given by a file next to ids drawn from a sequence; several sessions; half-full batches |
| AGE, agtype: `AGE/utils/adt/agtype*.c` | none but the transition values of aggregates | parse, print, store, compare, hash, access, operators, casts, functions, aggregates | a packed form with offsets and lengths; limits of widths; many ways to the same part of a value |
| AGE, variable length edges: `AGE/utils/adt/age_vle.c`, `age_global_graph.c` | a loaded copy of the graph and a list of search contexts per session, both kept from one statement to the next | `age_vle`, its joins, `vertex_stats`, `graph_stats`, `delete_global_graphs` | a copy recognised by three numbers of a snapshot; contexts that are used again; cancellation at any row |
| AGE, writing clauses: `AGE/executor` | label tables, command ids of the running statement | CREATE, SET, REMOVE, DELETE, MERGE | clauses of one statement that must see each other's work; row locks of other transactions |
| AGE, parser and index support: `AGE/parser`, `agtype_gin.c` | none of their own | translate Cypher to query trees; support GIN | PostgreSQL's interfaces |

How they interact. HTTP handlers call services, services call `db.execute`, and
`db.execute` takes a connection from the pool, runs one statement and commits
it (`SRV/db.py:49`). This one fact shapes everything: no handler of the server is
a transaction, so between any two statements every other request, thread and
process may run, and a crash may fall. Services enqueue outbox rows; a thread of
every process polls them and emits entries into `event_stream`; browsers read
that table through server-sent events. Job requests are served by coroutines
that call the blocking `JobService` directly, so each process serves them one at
a time, while recovery and synchronisation run on a helper thread
(`SRV/app.py:36-75`). `UVICORN_WORKERS` processes do all of this at once.

LakeMind's graph plugin sends Cypher to PostgreSQL, where AGE runs inside the
backend processes: what it keeps between statements is memory of one backend,
what it shares are PostgreSQL's tables, sequences and locks. Its parts meet in
the id of a vertex or an edge, which carries the id of its label: the catalog
gives label ids out, loading and CREATE draw entry ids, and the search for
variable length edges works on a copy of all label tables of a graph.

What makes each component correct:

* **Job runtime.** A recorded outcome is the one Ray reached; a job has one
  attempt at work; Ray jobs stay reachable from the database; an attempt is
  handed to Ray once; what ends is announced; what hangs is stopped.
* **Outbox and stream.** A row is DONE only when its event is out; failing rows
  hold up no other; one process publishes an event once and in order; a reader
  misses nothing through broken connections.
* **Operations.** A finished operation stays finished; who approves did not
  initiate. **Assets.** What was rejected is not half deleted. **Configuration.**
  One active revision per scope. **Tokens.** After a revocation no old token is
  accepted. **Registry.** When quiet, the router holds what the table says.
* **AGE.** A cached catalog row is never stale once the messages about it are
  accepted, and labels and graphs stay consistent however they are dropped. Ids are unique,
  and the sequence is never behind them. A value prints, parses, stores and
  compares without loss, and every way to a part of it gives the same. A search gives
  each trail of the graph the statement sees exactly once, whatever was cached. What
  a statement sets is there at its end, MERGE makes what is missing once, and an
  edge has its two vertices.

## 2. Modules

| Module | Role |
|---|---|
| `JobRuntime` | the job runtime with Ray and process crashes |
| `MCJobRuntime` | TLC instances of it, and `RaceSpec`, a restriction of its next-state relation used by one run |
| `JobRuntimeProofs` | theorems about `JobRuntime`, the second part about one process that does not crash |
| `Outbox` | enqueue, `process_batch`, the event table, crashes |
| `EventLog` | the abstract specification: what the stream promises when one process publishes |
| `EventFeed` | extends `Outbox` with a reader of the stream and its connection |
| `MCOutbox`, `MCEventFeed` | TLC instances |
| `OutboxProofs`, `EventFeedProofs` | theorems about `Outbox` (with the refinement of `EventLog`) and `EventFeed` |
| `AgeCatalog`, `MCAgeCatalog` | graphs, labels and their caches in concurrent transactions |
| `AgeCatalogProofs` | theorems about `AgeCatalog` |
| `AgeLoad`, `MCAgeLoad` | loaders, generators and the id sequences in concurrent transactions |
| `AgeLoadProofs` | theorems about `AgeLoad`, the second part about what calls leave when they succeed |
| `Agtype` | values of agtype: order, packed form, iterator and builder, containment, hashing |
| `AgtypeOps`, `AgtypeText`, `AgtypeCasts`, `AgtypeFns`, `AgtypeMath` | the operators; lexer, parser and output; casts and constructors; functions of Cypher; numeric functions and aggregates |
| `AgtypeEval`, `MCAgtypeEval` | calls of all of these, one on the result of another, and their properties |
| `AgeVle`, `MCAgeVle` | variable length edges over the cached graph of one backend |
| `AgeVleProofs` | theorems about `AgeVle` |
| `AgeWrite`, `MCAgeWrite` | CREATE, SET, DELETE and MERGE in concurrent transactions |
| `AgeWriteProofs` | theorems about `AgeWrite` |
| `AgeWriteEdgeProofs` | that edges keep their vertices in `AgeWrite` |

### JobRuntime

Variables `job`, `att`, `rid`, `timeline` are the columns `job_runs.status`,
`job_attempts.status`, "`ray_job_id` is set" and the announced terminal statuses;
`ray` is Ray's own table; `api[w]` and `bg[w]` are the program counters and local
variables of the two threads of process `w`; `client[w]` says whether the
process has a Ray client. Every SQL statement and every call to Ray is one
action named for what it does (`RecordAttempt`, `FinalizeJob`, `LostStop`, ...);
`PROJECT.json` gives the lines of each. `Accept` starts a request whose first
statement passed its check, `Handle` is the rest of it; `StartPass`, `Scan` and
the actions after them are a pass of the helper thread, which works through the
rows as it read them, stale or not, exactly as the code does; `Start` and the `Recover*`
actions are `lifespan` and `recover_on_startup`.

Faults are chosen per run from `FaultKinds`: `submit_job` raises with or without
Ray having taken the job, `stop_job` or `get_job_status` raise, the client cannot
connect, an operator stops a job in Ray's dashboard, an event cannot be written
(its primary key is derived from `max(event_seq) + 1`, so two processes may
collide). Left out: admission, payloads, artifacts, logs, progress events, audit
records. A job id that `stop_job` does not know leaves Ray unchanged.

### Outbox, EventLog, EventFeed

`outbox[e]` is the row's status; `INSERTING` is the time between the evaluation
of `created_at` (PostgreSQL's `now()`, the start of the transaction) and the
commit. `Select` is the `SELECT ... FOR UPDATE SKIP LOCKED` with its row locks,
`Unlock` the commit in `db.execute` that releases them; then `Visit`, and
`Reject`, or `Emit` / `EmitCommit` and `MarkDone`, or `Raised`. `Emit` draws the
sequence number, `EmitCommit` makes the entry visible. A failed handler always ends
in `Raised`, which writes nothing: the retry UPDATE of `worker.py:73` passes a
float for a `TIMESTAMPTZ` column, PostgreSQL refuses it, and the exception
leaves `process_batch`. It follows that `retry_count` stays 0 and
`next_retry_at` NULL, so the model has neither. Event types are reduced to
having a handler or not.

`EventFeed` adds the generator of `GET /events/stream` (`cursor`, `page`), the
connection (`up`) and the browser (`last`, its `Last-Event-ID`, and `got`).
`Push` moves `cursor` before the entry is delivered, as the code does; what is
pushed into a broken connection is lost; `Resume` is the new request with the
header. The scope filter is left out: the reader may see every entry.

`EventLog` is what a reader would like to rely on: entries are appended under
growing numbers, an event at most once, and never after an event whose enqueue
began only when its own was over. `Outbox` with one process implements it
(`PublishesALog`, by `log <- LogOf`); with two processes it does not.

### AgeCatalog

`cat` holds the committed rows (graphs, labels, and the rows of label tables
reduced to the label id in their ids), `tx[s]` what the transaction of session `s`
inserted and deleted, `cache[s]` its four hash tables, `inval[s]` the
invalidation messages it has not accepted yet, `seq` the cycling sequences of
label ids, `oids` the oids given out. Each SQL function is one action; so are
BEGIN, COMMIT, ROLLBACK, accepting the messages, the reset PostgreSQL does when
the message queue overflows, `DROP TABLE` and `DROP SCHEMA` by a user, with the
object access hook behind them. A statement that would wait for another
transaction is taken to start after that transaction has ended. `Crash` is the
lookup of a label by name, graph or relation when the cache returned no entry and the code
dereferences it. A label row carries `dg`, the graph name written into the
DEFAULT expression of the id column when the label was created. Left out: inheritance between
labels, constraints, permissions. `get_new_label_id` asks `label_id_exists`, that
is, the cache `lid` first and then the table, and what it asks stays in the cache.

`hook[s]` says that the backend of session `s` has the object access hook, which
removes the rows of `ag_label` when a schema or a table goes. `_PG_init` installs it
once in a backend; `drop_age_extension` takes it out
(`object_access_hook_fini`, `AGE/catalog/ag_catalog.c:121`), and neither a ROLLBACK
nor CREATE EXTENSION puts it back, only a new backend (`Reconnect`, and the restart in `Crash`).
In `Next` a session without the hook may do everything but drop a graph, a label or a
table before it reconnects, so what `CatalogConsistent` says, and the theorems
about it, hold for clients that reconnect; `AgeUnhooked` is a client that does not.
DROP EXTENSION waits for a transaction that has made a graph, where the code holds
no lock any more and would leave that graph's schema behind: this case is left out.

### AgeLoad

`vertices` and `edges` are the committed rows of one vertex and one edge label,
a vertex being its entry id and an edge its number and its two ends; `vseq`,
`eseq` the sequences, `run[s]` the call of a session with its uncommitted rows,
its batch, its position in the file and its copy of the sequence; `generated` records
what a generator was asked for, `overlap` that two calls ever ran at once. A file is
read row by row (`process_vertex_row`, `process_edge_row`), a full batch is
inserted (`insert_batch`), the last one at the end (`finish_batch_insert`). A batch is full
with `BatchSize` rows, or earlier, when the properties of its rows fill
`MAX_BUFFERED_BYTES` (`big`, chosen freely for each row). A batch that brings an id which
another session has inserted and not committed fails at once
(`AGE/utils/load/age_load.c:543` asks the index with `noDupErr`); the single inserts of a
generator or a CREATE wait for the end of that transaction.

### Agtype

A value is `<<kind, content>>`; a string is a sequence of characters, a map a
function, a vertex, an edge and a path what `_agtype_build_vertex` and its
neighbours make of them. Widths are constants kept small: an int64 goes to `IntMax`, an
int32 to `Int32Max`, a float has `Mantissa` bits and every float and numeric is
a number of halves, so that wrapping, saturation, rounding and loss of
precision happen. The packed form is there where it can be wrong: the mixture
of lengths and offsets, the order of keys, the search by halves, the token
stream of the iterator. Text is a sequence of tokens, and a string literal of
characters. Functions of PostgreSQL and of the C library whose value depends on the platform
give a set of outcomes.
`AgtypeEval` is the executor seen from here: `value` is what the last `call`
returned, `calls` counts them, `agg` holds the transition values of all
aggregates over the same rows.

### AgeVle

One backend and one graph. `stored`, `running`, `own`, `completed` and `nextXid` are what
PostgreSQL knows: the committed graph, the running transactions with their
uncommitted change, the backend's own transaction, and the two numbers that
bound a snapshot. `context` is the loaded graph with its key (`xmin`, `xmax`,
`curcid`), `locked` the mutex, `cache` the list of search contexts, `call` the
statement that runs: `Start`, then the load of the graph (which waits for
writers with ShareLock), then the search, one action for each iteration of its loop (`BackingUp` when
the edge on top of the stack has been explored, `dfs_find_a_path` when it is followed,
`NextStart` and `NoneLeft` when the stack is empty), which ends a call of `age_vle` when it
finds a path; transactions of other backends come and go between any two of them. `CancelLoad` and
`CancelFetch` end the statement while it loads, or between two paths. `shape`, chosen at the start, says which
vertices the edges join. An edge has the properties asked for or not. A dirty context keeps
only its node and its flag. `vertex_stats` is of a vertex that exists.
With an end vertex the path function is `between` (`age_vle.c:740`) whether or not a start is
given; without a start the search then begins at the first vertex of the graph and at
no other. `next` is the list of start vertices from `next_vertex` on, which a context keeps when it
is used again. The arguments of a VLE of `Nodes` are always NULL or never.

### AgeWrite

`heap` holds the versions of the rows of all label tables, each stamped with the
transaction and the command that made it (`xmin`, `cmin`) and removed it
(`xmax`, `cmax`), as PostgreSQL keeps them; `committed` the transactions that
committed; `ids` the last id drawn; `run[s]` the transaction of session `s` and
the statement it is in. A statement has a source of driving rows (MATCH,
OPTIONAL MATCH, UNWIND) and any number of writing clauses; a row goes up through all of
them before the next is pulled, as the plan nodes pull it (`todo` is the stack of
rows that are on their way). One action is one call of a plan node for one row,
or one item of its list: `exec_cypher_create`, `process_update_list`,
`process_delete_list`, `exec_cypher_merge`; `Exhausted`, `end_cypher_clause` and
`check_for_connected_edges` are the end of the statement, from its last clause to
its first.

What a clause sees of its own statement depends on two numbers, which the model
keeps as the code does: `G` is the command id of the transaction
(`GetCurrentCommandId`, raised by `CommandCounterIncrement` if it was `used`),
and `b + k` is `es_snapshot->curcid` while clause `k` runs, because every clause
raises it once and lowers it while it pulls from the clause below. It is unsigned: lowered below
zero it is above every command id (`CidBefore`, `AGE/../include/executor/cypher_utils.h:40`). DELETE sets it
to `G`; SET does so for one scan; MERGE inserts with the `G` the statement began
with (`base`).

A lock that another transaction holds is waited for (the action is not enabled until it
ends); a version that was replaced or removed meanwhile makes the statement fail, and a
failed statement rolls the transaction back. Two things are PostgreSQL's
choice and are left open: the order of the rows of a MATCH and of the matches of a MERGE, and whether the
pattern of a MERGE above other clauses is matched once, by a hash of the whole
table, or again for each row (`fixed`). A table is taken to fit one page, so that a
scan decides what it sees once. Also left out is the rescan of
the inner side of a nested-loop join below a DELETE, which is not materialised and so reads with the
`curcid` the DELETE has moved (`AGE/executor/cypher_delete.c:348`): the driving rows are those of the start of the
statement. `Parsed` says which statements the parser lets pass: those that name
bound variables, bind new ones only to names that are free, end no path in an edge, and whose lists are not empty. Left out: labels, access rights and row security, path
variables, statements whose only clause is MERGE without a source, and CREATE on
a variable that is NULL, where the code reads an undefined value. `said` is what
the SETs of a transaction said, kept for the properties; `overlap`, that statements of two
transactions ever ran at once.

## 3. Runs

Passing runs. "Process" means an element of `Workers`.

| Run | Instance | Shows |
|---|---|---|
| `JobCrash` | 1 process, 1 job, 2 attempts, 1 crash, all faults | `SucceededIsReal`, `OutcomeIsReal` |
| `JobSteady` | 1 process, 3 attempts, no crash; submit, status and operator faults, `stop_job` works | `NoUntrackedRayJob`, `OneActiveAttempt`, `OneLiveRayJob`, `TerminalAnnounced` |
| `JobLive` | 1 process, 1 attempt, stop and status faults, fairness | `ZombiesReaped`, `RunawaysStopped` |
| `JobRace` | 2 processes, 3 attempts, submit and reply faults, `RaceSpec` | `NeverResubmitted` |
| `OutboxTwo` | 2 processes, 2 rows, 1 of them unhandled, batches of 1, emit faults, 1 crash, fairness | `DoneIsPublished`, `PublishedOncePerWorker`, `NothingStaysPending`, `PublishedUnlessFailed` |
| `FeedOne` | 1 process, 3 rows, batches of 2, pages of 1, emit faults, any number of broken connections, fairness of the reader | `NothingSkipped`, `PublishesALog`, `ReceivedInOrder`, `EventuallyReceived` |
| `AgeCatalog` | 2 sessions, 2 graph names, 2 label names beside the two defaults, 3 label ids, 5 oids, 5 steps | `TypeOK`, `CacheFresh`, `CatalogConsistent`, `ShortageIsReal` |
| `AgeLoad` | 2 sessions, 3 calls, 6 entry ids, batches of 2, generated graphs of up to 3 vertices | `UniqueIds`, `SequenceCovers`, `CompleteGraphIsComplete`, `LoadsWholeFile` |
| `AgeValues` | 2 calls, one on the result of the other, over 40 literals; aggregates over 3 rows | `TypeOK`, `TextRoundTrip`, `StoredAsBuilt`, `AccessAgrees`, `CutsRejoin`, `ContainsIsOrder`, `AggregatesAgree` |
| `AgeVle` | 1 backend, 2 transactions at a time, 2 cached contexts, cancellation while loading and searching | `TrailsExact`, `FreshGraph`, `CacheIsClean` |
| `AgeWrite` | 2 sessions, 2 statements of 13, a path of 3 vertices, 2 properties | `TypeOK`, `NoDanglingEdges`, `MergeOnce`, `SetsAreKept`, `NoLostUpdate` |

The type invariants that no run lists (of `JobRuntime`, `Outbox`, `EventFeed` and
`AgeLoad`) are theorems, for every value of the constants.

The run that finds a disagreement between the code and what the repository says of
it (a finding in `PROJECT.json`, with the quoted line):

| Run | What happens |
|---|---|
| `JobReopened` | the last UPDATE of submit overwrites SUCCEEDED with RUNNING |

### Disagreements outside the listed runs

The configurations below are kept beside the models and run in the same way;
each checks one property and TLC finds it violated.

| Configuration | Property | What happens |
|---|---|---|
| `JobCancelQueued` | `CancelledLeavesRay` | a cancel of a job that was put back to QUEUED leaves the Ray job running |
| `OutboxNotRetried` | `AtLeastOnce` | one failure of a handler and the event is never delivered: `worker.py:75` writes a float into `next_retry_at`, a TIMESTAMPTZ, PostgreSQL refuses the UPDATE, and the row stays PROCESSING, which nothing selects ("保证至少一次投递", `docs/api-spec/v0.2.0/operation-events.md:101`) |
| `OutboxTwice` | `PublishedOnce` | two processes publish one row |
| `FeedSkips` | `NothingSkipped` | with two processes, an entry commits below the reader's position and is never sent |
| `AgeRename` | `LabelNameIsCorrect` | a graph is renamed and another takes its name: the DEFAULT expression of the id column of the labels of the first still names it, so new rows carry the label ids of the second, and `_label_name` ("find the correct label name", `AGE/catalog/ag_label.c:184`) answers with another label |
| `AgeUnhooked` | `CatalogConsistent` | DROP EXTENSION takes the object access hook out of its backend, for good: the next `drop_graph` of that session, also after a ROLLBACK, drops the tables and leaves their rows in `ag_label` (`AGE/catalog/ag_catalog.c:121`) |
| `AgeVleTo` | `StartsAsDocumented` | a call of `age_vle` with an end and no start gives the paths from the first vertex only, although NULL for the start "switches the path algorithm from VLE_FUNCTION_PATHS_BETWEEN to VLE_FUNCTION_PATHS_TO" (`AGE/utils/adt/age_vle.c:1681`): line 740 switches it back. `TrailsExact` takes such a search for one from that vertex |
| `AgeVleStale` | `TrailsExact` | a search context is used again after the graph was loaded anew for another search and a property of an edge was written: it still holds the old answer to "has this edge the properties" (`AGE/utils/adt/age_vle.c:200`) |
| `AgeVleSnapshot` | `FreshGraph` | of three transactions the middle one commits: `xmin`, `xmax` and `curcid` stay, and the old graph is searched although the snapshot sees another (`age_global_graph.c:124`) |
| `AgeVleHangs` | `NeverHangs` | a statement ends with an error while it loads the graph; the mutex stays locked and the next one of the session waits for itself, although "unlock the mutex so we don't get a deadlock" (`age_global_graph.c:881`) |
| `AgeBarbell` | `BarbellIsJoined` | the bridge of a barbell graph always goes from vertex 1 to vertex 2n, which are not its vertices when the label was used before (`AGE/utils/graph_generation.c:209`) |
| `AgeWriteNull` | `NullSkipsItself` | an entity that is NULL in a SET is skipped without counting its item, so that no later item is the last one of its variable and nothing after it is stored, although "if the entity is null, we can skip this update" (`AGE/executor/cypher_set.c:430`) |
| `AgeWriteShared` | `SharedSetsKept` | an entity that stands in two rows keeps only what the second row sets: each row writes its own copy of all properties, although the last-update index is there "to correctly update an 'entity' after all other previous updates to that 'entity' have been done" (`cypher_set.c:387`) |
| `AgeWriteRows` | `RefusesOnlyDeleted` | from the third row on, `CREATE (a) CREATE (a)-[:E]->(b)` does not see the vertex it has just made, because the command id has outrun the snapshot's, and fails with "vertex assigned to variable a was deleted" (`cypher_create.c:592`) |
| `AgeWriteStale` | `NoDanglingEdges` | DELETE sets `curcid` to the current command id (`cypher_delete.c:348`), so that the clauses before it read the next row with a `curcid` below the statement's first command: a MERGE finds a vertex that an earlier statement of the transaction deleted, and so does the check of the next MERGE, "we need to scan the table to find the vertex's current status" (`cypher_merge.c:1228`), which makes an edge at it |

Other deviations that the models contain, without a run of their own: recovery
declares a job without a usable attempt LOST and writes no event
(`job_sync_service.py:119`), also when another live process is just about to
record the Ray id (`:126`); a crash right after the INSERT leaves a job
SUBMITTED, which nothing selects (`:110`); with two processes, rows are published
against the order of `created_at` (`worker.py:32`); `DEPLOYMENT_ENABLE` has no
handler and is marked FAILED (`worker.py:51`); `create_complete_graph`
computes its first vertex from the last id it drew, and joins vertices of
another session when the two overlap (`AGE/utils/graph_generation.c:182`); an
edge whose end does not exist is kept in the list of its start, although a
warning says it is ignored (`age_global_graph.c:675`); executing `()-[*]-()`
again dereferences a null pointer (`age_vle.c:564`, the crash in `Start`); with
statements of two transactions at once, one may hang an edge on a vertex the other
removes, and two MERGEs may make the same path, because nothing locks what is
not there (which is why `NoDanglingEdges` asks for `~overlap` and `MergeOnce`
looks at the view of the session alone). `MergeOnce` is about paths of at
most one edge: a pattern of two edges matches edges that were made for different rows as one
path, so that after `MATCH (a) MERGE (a)-[]->(b)-[]->(c)` there may be more matches than paths
made, which is what such a pattern means and no error. All statements of the run `AgeWrite` are `Firm`, which
`MCAgeWrite` assumes and TLC evaluates: no clause before a DELETE makes an edge at a vertex that a
MERGE bound. What happens otherwise is shown by `AgeWriteStale`.

Bounds, and why they are enough. The statements of the job runtime touch one job
each and jobs share only the thread that works on them, so one job shows all
interferences on it; two attempts are the least that retry needs, and three that
a second retry needs. Two processes are the least that race; with them `JobRace`
keeps to the time between two synchronisation passes (`RaceSpec`), because the
full product is out of TLC's reach; that outcomes are real, Ray jobs tracked and
attempts handed over once with any number of synchronising processes is what
the theorems below show. In `JobSteady` Ray obeys `stop_job`, which `OneLiveRayJob` needs;
`JobCrash` and `JobLive` have it fail. One crash
shows every place where a process may stop, as recovery reads only the database. In
`OutboxTwo` two rows and batches of one are the least that two processes race for
with a row left over; in `FeedOne` three rows and batches of
two give batches that are cut and rows that arrive while a batch is worked on;
pages of one entry are the worst case for a reader. `FeedOne` has no crash of
the publisher: to a reader it is a gap in the numbers or an aborted batch, both of which
a failing handler makes too, and the theorems include crashes. `MaxAttempts` and
`MaxCrashes` bound counters that the code leaves unbounded.

In `AgeCatalog` five steps are enough for a label id to be given out, dropped
and given out again after the sequence has cycled, and for every order of two transactions
around a drop; two names let a rename take a name another session has cached; two label names and
three ids let a graph run out of them. That the id of a label which is dropped in one session and cached in another
is never missed takes more steps, and is proved (`ShortagesAreReal`). In
`AgeLoad` six ids and batches of two give files that end in a full and in a partial
batch, that bring ids in any order, twice, at and above the limit. `AgeValues` has a value of every kind, the
limits of the widths, strings that need escapes, nested containers, and texts
with every error of the parser; depth comes from the second call. `AgeVle` has three edges that lie
in a triangle, or back and forth with a loop, which is what a search tells apart, and more statements than cached
contexts, so that the list overflows; their searches have a start and no end, both, neither, and an end alone. `AgeWrite`
has two statements, the least that race or follow one another in a transaction; among its 13 every clause
is below and above another one, returns rows or nothing, and meets several rows. `MaxOid`, `MaxSteps`, `MaxCalls`, `MaxRows`, `MaxXid`,
`MaxRunning` and `MaxStatements` bound what the code leaves unbounded.

Deadlock is not checked in `JobRace` (without synchronisation passes the two
processes come to rest), in the `Outbox*` and `Feed*` runs (the rows of the
instance run out, and an empty poll is not a step) and in the `Age*` runs (their
steps and calls are bounded, and `AgeVle` contains the hang described above). Every other run checks
it.

Symmetry of the processes or sessions is used in `JobRace`, `AgeCatalog`,
`AgeLoad` and `AgeWrite` only; no liveness run uses it.

### Fairness

* `JobRuntime`: both threads of a process go on (`ThreadFairness`): they are
  scheduled by the interpreter and the kernel, the loops catch every exception
  (`app.py:73`), and a dead container is restarted by its restart policy. Ray starts what is queued and
  ends what it was told to stop; a Ray job may run for ever, and nobody has to
  send requests. `StopFairness`: a `stop_job` that is tried at every pass
  succeeds some day. `TimeoutFairness`: `check_timeouts` gets its turn every
  `JOB_TIMEOUT_INTERVAL` seconds, and an attempt that keeps running becomes
  overdue.
* `Outbox`: an INSERT commits, and `_outbox_loop` keeps polling; nothing is assumed of
  faults or crashes.
* `EventFeed`: the browser reconnects (an `EventSource` does), and once in a while a
  connection lasts for a query and the entry it finds; hence strong fairness of `Query`
  and `Push` while `up`.

## 4. Theorems

All proofs are checked by TLAPS (SMT, Zenon, LS4) for arbitrary sets of jobs,
rows, files, sessions and processes, arbitrary bounds on attempts and crashes and arbitrary
faults. They assume only the named ASSUMEs of the modules; where a theorem
assumes more it says so in its statement.

| Theorem | Statement |
|---|---|
| `TypeCorrect` | `Spec => []TypeOK` |
| `AttemptsHandedOverOnce` | `Spec => NeverResubmitted` |
| `RayJobsTracked` | without crashes and lost replies, `Spec => []NoUntrackedRayJob` |
| `OutcomesAreReal`, `SuccessesAreReal` | `Spec => []OutcomeIsReal`, `Spec => []SucceededIsReal` |
| `FinishedJobsAnnounced` | one process, no crash, an event table that can be written: `Spec => []TerminalAnnounced` |
| `OneAttemptAtATime` | likewise, `Spec => []OneActiveAttempt` |
| `OneRayJobAtATime` | and Ray can be reached and obeys: `Spec => []OneLiveRayJob` |
| `OutboxTypeCorrect` | `Spec => []TypeOK` |
| `NoSilentLoss` | `Spec => []DoneIsPublished` |
| `OncePerWorker` | `Spec => []PublishedOncePerWorker` |
| `OneProcessIsALog` | for one process, `Spec => PublishesALog` |
| `FeedTypeCorrect` | `FeedSpec => []FeedTypeOK` |
| `ArrivesInOrder` | `FeedSpec => ReceivedInOrder`, for any number of processes |
| `NothingIsSkipped` | for one process, `FeedSpec => []NothingSkipped` |
| `CatalogType` | `Spec => []TypeOK` |
| `CachesStayFresh` | `Spec => []CacheFresh` |
| `ShortagesAreReal` | `Spec => ShortageIsReal` |
| `CatalogStaysConsistent` | `Spec => []CatalogConsistent` |
| `ViewsStayConsistent` | the same of what each session sees of the catalog inside its transaction |
| `LoadTypeCorrect` | `Spec => []TypeOK` |
| `IdsAreUnique` | `Spec => []UniqueIds` |
| `SequenceKeepsUp` | `Spec => []SequenceCovers` |
| `LoadsBringEveryRow` | `Spec => LoadsWholeFile` |
| `CompleteGraphsAreComplete` | `Spec => []CompleteGraphIsComplete` |
| `VleGraphFresh` | with at most two transactions that write at a time, `Spec => []FreshGraph` |
| `VleCacheClean` | `Spec => []CacheIsClean` |
| `WriteTypeCorrect` | `Spec => []TypeOK` of `AgeWrite`: no two open versions of an entity |
| `NoUpdateLost` | `Spec => NoLostUpdate` |
| `EdgesNeverDangle` | for statements that are `Firm`, `Spec => []NoDanglingEdges` |

**JobRuntimeProofs.** None of the properties is inductive. `TInv` adds to the
types what a program counter says about the answer the thread holds (no
unmapped answer is written). `HandInv` says who owns an attempt between its
INSERT and the call to Ray: numbers are unique because of the UNIQUE constraint,
so two requests never hold one attempt, and Ray does not have it yet; from this
`NeverResubmitted`. `Tracked` says that what Ray works on is recorded or in the
hands of the request that records it. `RealInv` follows Ray's answers: Ray's
terminal statuses never change, so an answer that was true when it was given,
and is written much later over whatever is there, is still true.

The theorems of the second part have a hypothesis, and it is the code's own:
`Steady` says that there is one process (the default of `__main__.py`;
`docker-compose.yml` sets `UVICORN_WORKERS` to 2, of which nothing is claimed
here), that it does not crash, and that events can be written. Without each of
these the properties fail: recovery, run by a second process or after a crash, gives
up jobs that a request is working on, and without an event; and when the event cannot
be written, the `except` branch of the synchroniser marks a job LOST that the
event loop may have retried in the meantime. `Booted`: recovery ran on an empty database, and
a pass visits one row at a time. `Announced`: a terminal status is in the timeline, or
the thread that set it has the event still to write. For the other two the
event loop and the background thread of the process work on the same job between each other's statements,
and neither is safe alone, so that their invariants hold each other up: `RowsInv`
says what stays true of a row after the pass has read it (it is of the job's latest
attempt, and retry does not accept the job), `ReqInv` what stays true of the
attempt a request works on, `DoneInv` that a pass ends the attempt before the job,
and `ActiveInv`, from which `OneActiveAttempt` follows,
that an active attempt is the latest one, and that a job with one is accepted by retry only
while retry itself is between its two statements. `LiveInv` says the same of the
jobs inside Ray, which needs `Obedient`: Ray can be reached, `stop_job` works, and no
reply of `submit_job` is lost (a lost one leaves a Ray job that nobody stops).

**OutboxProofs.** A row is *taken* from its first visit on and never goes back
to PENDING, because the retry UPDATE never succeeds. `TInv` adds this and the
life of a batch. `OnceInv`: what a process has selected and not yet published
was not taken when it was selected, so this process has not published it.
`DoneInv`: the process that is about to write DONE has committed the entry.
`OrderInv`, for one process, is needed by the refinement: the stamps agree with
the statuses (`Stamped`), drawn numbers are above the committed ones
(`Numbered`), and taking respects enqueue order (`Respected`): if the enqueue
of `e` was over when that of `f` began and `f` is in the batch, then `e` is
taken or in the batch too, because `IsBatch` cuts by `created_at`. `LogStep`
then maps `Enqueue` to `Begin`, `EnqueueCommit` to `End`, a committing
`EmitCommit` to `Append`, and everything else to a stutter.

**EventFeedProofs.** `Distinct`: no two entries share a number, with any number
of processes. `ReaderInv`: while the connection holds, the server's cursor is the
browser's last entry, otherwise it may only be ahead. `SkipInv`: nothing is in
the stream below the reader's position that the reader has not, or between the
cursor and an item of the page that is not in the page; it is kept because with
one process new entries appear above all others (`NewOnTop`).

**AgeCatalogProofs.** `CacheInv`: a cached row is in the session's view, or the
message that throws it out is waiting; it is `CacheFresh` of a session in the middle of a
transaction too, which is when caches are filled. `ShortageIsReal`
follows from it and from `Cycles`: within LABEL_ID_MAX values the sequence gives every
id, so the error means that `label_id_exists` found each of them (`Short`), and `CacheInv`
takes what it found from the cache to the session's view.
`CatInv` is about several transactions at once: the committed catalog and every session's view
of it are `Sound` (names and ids unique, no label without its graph), what
two open transactions change has no name, graph or label id in common
(`Separate`: the second insert waits), and a graph that a transaction
deletes is renamed by it or has all its labels deleted with it while nobody adds
one (`CleanDrop`: the locks). None of the parts is inductive without
the others: a commit makes one session's view the catalog, and what
it does to the other sessions' views is what `Separate` and `CleanDrop` say.

**AgeLoadProofs.** `TInv` adds to the types what the operation of a session
says about its position, its rows and its batch. `VertexInv`: an id is in the
table once or in the rows of one session once, because an insert looks at all
of them (the unique index) and waits or fails. `EdgeInv` does without an index:
edge numbers are drawn from a sequence and never given by a file, so all of them, stored, in rows or in a batch,
are distinct and at most `eseq`. `SeqInv`: as long as no calls overlapped, at most one session is in a call, and
the sequence, or the session's copy of it that `setval` will write, covers the table, its rows, its batch and the
file up to its position; it is needed because `SequenceCovers` says nothing of
rows that are not committed yet.
The second part is about outcomes. `CountInv`: every row of the file is still to be read,
in the batch, or inserted, for vertices by the lengths of the three, for edges by the
size of a set, hence the two other parts: an edge that a session holds is no other session's and not in the
table, and so never merges with one. That a batch which is not full is
flushed at the end is what makes `LoadsWholeFile` follow. `GraphInv`, while no
calls overlap: the vertices of a generator that runs have the ids up to the
sequence's value without a gap (`Growing`), and of its first half `Clique` holds, which
says that edges correspond one to one to the pairs below `n`; a committed graph is one clique, or two and the
bridge (`Made`). `create_complete_graph` counts back from the last id it drew, so
without `Growing` nothing could be said of its edges; `EdgeSetIsClique` and `MadeIsComplete` are the
lemmas that take the counting to the graph. That the bridge, which joins ids 1 and 2n whatever ids were drawn,
never joins a pair twice is part of `TwoCliques`.

**AgeVleProofs.** `FreshGraph` compares graphs, the code only keys: `xmin`, `xmax` and `curcid` of a
snapshot. `Fits` says what makes that enough: a key whose `xmax` and `xmin` are the current ones
stands for the committed graph or, with `curcid` 2, for what the backend's own
transaction sees, and a key they have passed does not come back (`xmin <= Xmin` as long as
`xmax` is the same). An end of a transaction must therefore change one of the two numbers. It raises `xmax` if it
is the last to complete; otherwise it must have been the oldest that runs, which is the last part of
`StoreInv`: of two transactions at most one is older than one that completed. That is where the hypothesis
`MaxRunning <= 2` is used, and `AgeVleSnapshot.cfg` shows that three break the property. `CacheIsClean` is about
the end of a search, and nothing there pops the stacks: they must be empty because the edge stack is. `Searchable` says
why, of every search in use: the path's edges lie in the edge stack in the order of the path, each
where that edge is nearest to the top (`Explored`), and the vertex stack, for searches without direction, is as
high as the edge stack. It follows that an edge on top that is in the path is always its last edge: the case
"interior edge in the path" of `dfs_find_a_path_*` never comes up, and whatever a statement's end
leaves in the cache can be used again. `Room` is the bound: while a search is in use, the cache has none of the same node and a free place.

**AgeWriteProofs.** For every set of statements that satisfies `Parsed`, with any number of
clauses, and every first graph whose ids are 1, 2, 3 and so on. `NoLostUpdate` compares a version
that appears with the committed version it stands over, and nothing in the step that writes it says how
the two are related: the copy in the row was read by an earlier action, then changed item by item, and may be of a version
that the transaction has replaced itself meanwhile. `TInv` therefore follows the copies. Whatever a
session holds of an entity, in its rows, its work, the matches and the paths of a MERGE, is in `Pool`: it differs from the
standing version, if the session's snapshot has that, only in what the session's SETs said. A version that stands but is not in
the snapshot was committed later, and then the lock fails. That it does is what `Consistent` shows.
`One`: of two versions of an entity that no committed transaction removed, one's maker removed the other, so that there is no
second version to lock. `Chain`: who has the standing version in its snapshot saw that all others were removed, so that what it
finds by id is that version or its own. `Root`: an uncommitted version is the first of its entity or its maker removed a
committed one, so that an abort brings back exactly what stood. `Own` carries the claim
about copies over to the versions that were written, because a later row reads them again. `Sound` says
that a transaction has one session, and that who removed a version saw it. All the steps of clauses come down to four kinds of change of the heap
(`Stepped`): none, new entities with ids that were just drawn, a version closed, a version closed and
a new one in its place. `StepKeeps`, `FailKeeps`, `CommitKeeps` and `StartKeeps` show that these keep `Consistent`. Mutant `LockWithoutUpdated` is where the argument
breaks: without "Updated" a session removes a second time what another one replaced, next to its successor, and `One` fails.

**AgeWriteEdgeProofs.** As long as transactions did not overlap, one is at work and sees all that was committed.
`WholeGraph` is the property; the rest of `EInv` says what holds in the middle of a statement,
where an edge may well have lost a vertex. `EdgesHeld`: then a DELETE has listed the vertex
(`Pending`), and the end of the statement, which goes from the last clause to the first, has still to
pass that clause. It looks for edges with the command id it finds there, and misses none
because of `Stamped`: nothing is stamped with a command that is still to come. `CREATE` and `MERGE` take the vertex
of an edge from a row that may be older than its removal. `RunSafe` says that what
a row binds is there or listed, `GoneHeld` that what this statement removed is listed, and `Course` follows
`curcid`: unless a DELETE has set it back it is not below the statement's first command, so that a vertex that has gone,
but is found through `curcid`, was removed by this statement and not by an earlier one. With a DELETE
above, the last step fails for what a MERGE bound, which is what `AgeWriteStale` shows; hence `Firm`, and hence
`RunSafe` says nothing of the variables of MERGE. What a MERGE of `Firm` statements hangs an edge on was bound by
another clause or made by the same MERGE. `SameEnds` is needed because a SET writes the copy of an edge that a
row holds. Each action is `Stepped`, as `AgeWriteProofs` shows, and `Upheld`, or the statement fails and its
transaction is rolled back, which leaves what was committed (`WholeGraph`).

Only model-checked: all liveness properties (`ZombiesReaped`, `RunawaysStopped`,
`NothingStaysPending`, `PublishedUnlessFailed`, `EventuallyReceived`), which are out of
the prover's reach; everything about agtype, whose values are recursive; `TrailsExact` of `AgeVle`, which is an induction
over the trails of a graph; and of `AgeWrite`, `MergeOnce`, which
counts matches of paths, and `SetsAreKept`, which compares command ids of clauses row by row.

## 5. What is not modelled

Listed with reasons in `PROJECT.json`. The Control Center BFF and the MCP
servers hold no state; the storage and cognitive plugins are adapters without a
protocol of their own; audit, metrics, monitoring, notifications and search
insert rows and aggregate them. Of Apache AGE, the parser translates Cypher to PostgreSQL's
query trees, and `agtype_gin.c` is called by GIN: what they promise is stated by PostgreSQL's planner and
index code, which is not in this repository; so are timestamps, the binary
protocol, the lookup of properties through the executor, and the row security that
`cypher_utils.c` compiles for the writing clauses. In the modelled
parts: admission of jobs, artifacts and logs, the columns that only feed a
dashboard, the relay columns of `event_stream` (`published_at`,
`publish_attempts`) and `cleanup_expired`, which nothing calls.

## 6. Plan

Done: the job runtime, outbox and stream with their theorems; AGE's catalog,
loaders, values, variable length edges and writing clauses, and the theorems about the catalog, about loading, about cached searches, about
lost updates and about edges and their vertices.
Left, in this order; each item is one module, its runs and the theorems in brackets.

1. `JobAdmission`: idempotency keys, `max_concurrent`, publishing and revoking
   of skills against submissions [at most one job per key and what the unique
   index contributes], and `JobTimeline`: numbering of events by
   `max(event_seq) + 1` from several threads [no number is used twice].
2. `Operations` composed with `Assets`: approve, reject, execute, complete,
   cancel; an asset's deletion through approval and outbox; reconciliation
   [an initiator never approves; what the state machine allows].
3. `ConfigRollout`: activation and rollback statement by statement [with one
   activation at a time at most one revision is active].
4. `TenantSecurity`: onboarding, suspension, revocation, `security_version`
   against tokens in use [no token of an older version passes after the raise].
5. `ModelRegistry`: table and router under concurrent updates [they agree when
   quiet and updates are serial].
6. `Records`: check-then-insert of secrets, memories and skills.
7. `MeetingPipeline`: a client of `JobRuntime` that polls, times out and runs
   stages again.
8. Proofs left: `SetsAreKept` of `AgeWrite`, which needs the command ids of the clauses, `b + k` and `G`,
   against each other, and `MergeOnce`; both can start from `AgeWriteProofs!Consistent` and
   `AgeWriteEdgeProofs!Course`.

## 7. Running

    tlc -config JobSteady.cfg MCJobRuntime.tla
    tlapm JobRuntimeProofs.tla

The module of a configuration is `MCJobRuntime` for `Job*`, `MCOutbox` for `Outbox*`,
`MCEventFeed` for `Feed*`, `MCAgeCatalog` for `AgeCatalog`, `AgeRename` and `AgeUnhooked`,
`MCAgeLoad` for `AgeLoad` and `AgeBarbell`, `MCAgtypeEval` for `AgeValues`,
`MCAgeVle` for `AgeVle*`, and `MCAgeWrite` for `AgeWrite*`.
