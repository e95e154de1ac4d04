# A verification project for DSQL

DSQL compiles `.dsql` documents, and dsql embedded in host files, against a
database schema into SQL and metadata artifacts, runs what it generated, and
serves editors and bundlers while their files change. This directory models it
in TLA+: the protocols, where several processes, requests or edits meet, as state
machines, and the compiler's and executor's algorithms as operators that are
compared with reference definitions. TLC checks the models on small instances, and
TLAPS proves theorems about them for all instances. Paths below are relative to
the repository; a bare file name (`publish.rs`, `build.rs`) is the one file of
that name in `crates/` or `integrations/typescript/src/`, and `build.rs` is
`crates/dsql-core/src/plan/build.rs`.

## Inventory

| Part | State it keeps | Operations | What makes it hard | What makes it correct |
|---|---|---|---|---|
| **Publication** (`publish.rs`, `native.rs`, `match_lock.rs`) | `dsql/build`: advisory lock, artifacts, `manifest.<id>.json`, pointer `manifest.json`; `dsql/dsql.lock` | `publish`, `reconcile_match_lock`, `prune`, host generator | any number of processes, process death between any two file operations, writes that fail before or after their rename, users editing the lock file | the pointer always names a complete generation; ids grow; pruning spares others |
| **Daemon session** (`session.rs`) | resident bowl, loaded configuration, last outcome, known match-lock hash | `initialize`, `compile`, `filesChanged`, `shutdown` | files change during classification, application and reload; events are late; the daemon's own writes come back as events | warm equals cold; a no-op un-reports nothing |
| **Daemon server loop** (`dsql-daemon/src/lib.rs`) | queue of lines, end-of-input flag, pending prune | reader task, request loop | end of input while a request runs | in-flight work ends, nothing is answered after |
| **Protocol** (`protocol.rs`) | none | parse, serialise | malformed requests | every request with an id gets one answer |
| **TypeScript client** (`daemon.ts`) | session, pending request, promise chain, backoff | `compile`, `filesChanged`, `shutdown`, `restart` | death, late or misnumbered answers, two reports of one failure | answers match requests; invalidation once per session; backoff climbs |
| **Vite plugin** (`vite.ts`, preflight in `node.ts`) | ready state, epoch, pending paths, active batch | compile loop, initial compile, render, transform, hot update, watch | a result overtaken by a newer epoch, concurrent initial compile, edits during a compile | no old result is swapped in; no change is lost in silence; every hook returns |
| **Language server** (`dsql-lsp/src/server.rs`) | bowl, open buffers, two mutexes | open, change, close, watched files, publish, format | handlers run concurrently | buffers follow the client's order; the last diagnostics are present |
| **Scopes and definitions** (`source.rs`, `definition.rs`, `context.rs`, `fragment_spread.rs`, `expansion.rs`) | import graph, visible names | visibility, cycles, conflicts, resolution of spreads, expansion | cycles of imports and of fragments, names used in several scopes | a name means one thing wherever it is seen; expansion ends and cuts nothing but cycles |
| **Filters and selections** (`clause.rs`, `expression.rs`, `field_selection.rs`, `aggregate.rs`, `resolution.rs`, `build.rs`, `postgres.rs`, `assemble.rs`) | none | check, plan, render, contract | three-valued logic, paths through relations, joins, aliases, groups, slices | rows are those the source means, in the promised shape |
| **Policies** (`policy.rs`, `build.rs`) | none | match, check, compile, assign, guard | order, nesting and absence of conditions | what a filter hides is hidden, nothing else |
| **Inputs** (`variable.rs`, `variable_path.rs`, `fragment_spread.rs`, `build.rs`) | none | infer, refine, contain, lift, bind | a name that fragments share, or must not | every use reads the input its fragment is given |
| **Execution** (`dsql-execute/src/lib.rs`, `runtime.ts`) | none | validate, default, replace markers, bind | two implementations; predicates and orders composed at run time | what is generated runs, alike on both, and means its source |
| **Catalog** (`catalog/`, `overlay.rs`, `dsql-introspection/src/lib.rs`) | one catalog | types, uniqueness, relations, overlays, lookup, fingerprint | several files patch one table | order of files is irrelevant; claims about rows have proofs |
| **Project loading, pipeline, CLI** (`dsql-project`, `pipeline.rs`) | configuration, documents | load, discover, assemble | conflicts of ownership | conflicts are reported |
| **Editor services, formatting, renderers, database I/O** | little or none | pure text, or I/O | - | - |

How they interact: the Vite plugin calls the client; the client sends one
request at a time over a pipe to the server loop, which calls the session; the session
loads the project, compiles the bowl, calls the publisher, runs the generator
and prunes after answering. `dsql generate`, `dsql lock` and
`dsql validate --locked` call the same publisher from other processes; only the
build tree, its advisory lock and `dsql.lock` are shared. The language
server has a bowl of its own and shares nothing but the documents. The compiler is a
chain: overlays and introspection make the catalog; definitions are looked up
through scopes and expanded; filters, policies, selections and inputs are
checked, planned and printed; the executor completes the printed statement.

`PROJECT.json` lists every component with its status, and every hazard at its line.

## Modules: the protocols

* **`GenerationStore`** - what the build tree promises to a reader of
  `manifest.json`: one complete generation, replaced in one step, under ids that
  only grow, or nothing after the pointer was spoiled.
* **`Publication`** - how processes implement it. One action for each step
  between which another process can get in or this one can die: taking the lock
  (`Acquire`, `GiveUp`), `Reconcile`, `Allocate`, `WriteArtifact`,
  `WriteManifest`, `WritePointer`, `EndGenerator`, and pruning
  (`BeginPrune`, `PruneManifest`, `PruneArtifact`...). `AtomicWrite` has the
  three outcomes of `atomic_write`: success, failure before the rename, failure
  after it. An artifact stands for its bytes, and `AddressOf` for its file name,
  a truncated hash, so collisions can happen. `Crash`, `EditMatchLock` and
  `LosePointer` are the environment. `ImplementsStore` is the refinement.
* **`DaemonSession`** - one session: an event set filled by users and by the
  daemon's own write of `dsql.lock`, a batch classified path by path against
  the bowl (`ClassifyPath`), the three plans (`Replay`, `Apply`, `BeginReload`),
  a reload in steps (`LoadProject` reads the configuration, `Discover` lists the documents,
  `ReadDocument` reads one of them, `Populate` makes the bowl), and the compile
  (`CompileErrors`, `CompileStale`, `CompilePublish`, `CompileFails`). A
  configuration says which paths no scope, one scope or two scopes own. The
  filter decisions pinned by a compile are the contents the bowl holds, so that
  they change when documents do. A lock of a newer version (`NewerLock`) is refused in
  either mode (`RefusesLock`). Publication is one step here.
* **`DaemonServer`** - the loop that feeds the session. The reader task
  (`ReadLine`, `ReadEof`) and the executor (`Receive`, `Handle`, `CheckEof`,
  `WriteResponse`, `AfterRespond`) share the queue and the end-of-input flag; the
  consumer writes, hangs up or stops reading at any moment. `Exit` has the one
  thing that is not in this repository: the runtime's blocking read of stdin.
* **`CallQueue`** - what the TypeScript client promises its callers: a fair queue of
  calls, each settled once, in order, with its own answer or an error.
* **`DaemonClient`** - how the client keeps it. `chain` is the promise chain, `stage`
  where its head is suspended, `link` the sessions with their processes, pipes
  and flags. Event handlers (`Receive`, `ExitEvent`, `ErrorEvent`, `CloseEvent`,
  `WriteError`) and the continuations of promises (`InitializeOk`, `RequestFails`,
  `Reopen`, ...) are separate actions, because one chunk of stdout can bring
  several lines before a continuation runs; otherwise an event waits until no
  continuation is due (`Quiet`). `seen` records, as history, how often each session
  was invalidated, moved the backoff ladder, and answered. Time is
  abstract: a delay or timeout ends whenever it likes. The daemon is the process seen
  from outside, with crashes, spawn failures, a closed stdout and stray lines.
* **`VitePlugin`** - the plugin above the client, which it sees as a queue of calls
  that are settled in order. A `compileBatch` in progress is a task: the
  coalescing loop has one, and every initial compile is one. Between two awaits a
  turn is one action (`BeginBatch`, `Serve`, `Restarted`, `EndRender`, `EndBatch`,
  `Settle`), and a due continuation runs before the next event. Callers are
  Vite's `transform` and hot-update hooks (`CallerStep`). The files, the
  watcher's events, the daemon's death and restarts with a new configuration are the
  environment; `born`, the epoch a result was answered in, is history. The daemon is
  `DaemonSession` in short: a request reads its paths, or everything (`Reread`), is answered
  by a compile or a replay (`Serve`), fails after it read (`ServeFails`), or is refused before
  anything is read (`Refuse`), which leaves contents and last result as they were; `missed`,
  the paths of refused batches not read since, is history.
* **`LspServer`** - the editor sends messages in order; the runtime starts `Level` handlers
  at a time in that order; each handler is a chain of actions between its awaits:
  taking the session mutex (`DidOpen`, `DidChange`, `DidClose`, `FormatRope`), and
  the publication (`ListOpen`, `ReadRope`, `ReadRows`, `Publish`, `EndPublish`)
  under the publisher mutex, or, for a closed document, outside it. A ranged change
  says which text it was made to, and leaves garbage when applied to another one.
* **`MCPublication`**, **`MCDaemonSession`** - instances of the two; the other modules need nothing
  but the constants of their `.cfg` files, so their runs check the modules themselves.
  **`PublicationProofs`**, **`DaemonSessionProofs`**, **`DaemonServerProofs`**, **`DaemonClientProofs`**,
  **`VitePluginProofs`**, **`LspServerProofs`** - their theorems.

## Modules: the compiler and the executor

Each topic has a module with what the code computes, a module with what it should
mean (stated over rows, sets or graphs, without plans, aliases or order of
composition), and an MC module with its small inputs. `MCCompiler` chooses an
input of a topic and answers it in one step (the walks along imports take theirs one by one, and expansion goes round by round);
its invariants compare the answer with the meaning. Only what the compiler's checks accept is compared; the checks
are part of the model.

| Topic | Code | Meaning | Inputs |
|---|---|---|---|
| filters | `Filters` on `SqlLogic`: the catalog it reads, the clauses the checks accept (`AcceptedWhere`), what has a plan (`Plannable`), `plan_filter_expr`, and what PostgreSQL computes from the guards `conditional_filter_expr` prints. An environment maps aliases to rows, so an alias that hides another one does so in the model | `FilterMeaning`: the rows kept when hidden rows are missing, denied columns are null and atoms of null inputs are left out | `MCFilters` |
| selections | `Selections`: single-row proofs, the queries the checks accept (`AcceptedQuery`: names, output keys, flattening, clauses), plan, joins, groups, slices, aggregation, and the contract of the result | `SelectionMeaning`: every selection answers for one parent row on its own | `MCSelections` |
| policies | `PolicyPlan`: which tables a definition matches, its checks, compilation, assignments, guards, and what is published about them | `PolicyMeaning`: an active filter hides what its rule is not true of | `MCPolicies` |
| scopes | `ImportWalk`: `visible_from` and `import_cycle` as they walk the graph, the open calls of the two recursive functions being a stack of frames; `is_generation_target` | `Scopes`: a scope sees what is in every set that has the scope and is closed under imports | `MCDefinitions` |
| definitions | `Definitions`: conflicts, resolution of spreads, occurrences with the names they have visited; `Expansion`: the rounds that find the occurrences, and the reported cycles | in `Expansion`: a name seen from a scope; fragments that lead to each other, by identity; walks along spreads | `MCDefinitions` |
| inputs | `Inputs`: inference, refinement, contained, lifted and bound variables, the contract and the paths the plan reads | in `MCInputs`: what a variable of a fragment is given, from the query inwards | `MCInputs` |
| executions | `DynamicInputs` (predicates and orders composed by the caller: exposure, contract, template), `Execution` (Rust), `TypeScriptRuntime` (the client's serialisation and the server's materialisation) | `ExecutionMeaning`: what the source and the sent values mean | `MCExecution` |
| catalogs | `Catalogs` (metadata to catalog, lookup, fingerprint, shapes of types), `Overlays` (composition of files) | `CatalogMeaning`: sets of facts, hides and edges, and the rows that may exist together | `MCOverlays` |

`MCCompiler` has the catalog that several topics share. `SqlLogicProofs` has theorems about
`SqlLogic`, `ScopeProofs` about `ImportWalk` and `Expansion`. `Definitions` and `PolicyPlan` read `Sees` and
`ImportsOf` from `Scopes` as sets: nothing they compute depends on the order in which scopes were met,
and that the walk collects this set, each scope once and the first one first, is what `ImportsFollowed` proves.

Variables that end up in no file and no field of the code are marked as history.
A few definitions are preceded by a variant under the heading "Bug:", a mistake
of the kind the code avoids; nothing uses them but the mutants of `PROJECT.json`,
which show that each property would notice.

## What the runs check

| Run | Instance | Shows |
|---|---|---|
| `publication` | 2 processes, 2 artifacts, 2 snapshots, ids to 3 | The pointer's generation is complete (`CurrentComplete`), uncommitted work and running generators are spared (`UncommittedFilesSafe`, `GeneratorSurvives`), mutual exclusion, ids grow even when `manifest.json` is lost, and `GenerationStore` is implemented |
| `publication_edits` | user edits of `dsql.lock`; both artifacts at one address; ids to 2; fair | the committed generation agrees with a lock file that users delete, reword or break (`CommitMatchesLock`), and every request ends (`EveryRequestReturns`) |
| `session` | a file, a directory with a file, 2 contents, 2 configurations, 3 lock files (absent, good, of a newer version), 3 changes, updating and `--locked` | bowl and answer converge to those of a fresh daemon, also when whole directories come and go and only their root is reported; a replayed success is never stale; a replayed error is not either, save where a refused lock was put back; own lock writes cause no compile |
| `session_replay` | 2 files, 2 changes | **violated**: a refused batch is forgotten by the next no-op |
| `client` | 3 calls of all kinds, 1 crash, spawn failure or closed stdout, 1 stray line, backoff of 2 doublings | answers match, no overlapping requests, no process left behind, not after shutdown either, one invalidation per session and in time |
| `client_queue` | the same without stray lines, fair | `CallQueue` is implemented, settlement of every call included; one rung per failing session |
| `client_reopen` | a restart and a shutdown | **violated**: the restart opens the client after the shutdown |
| `server` | 4 lines of any kind, fair | answers in order, one late request at most, maintenance after the answer, the daemon exits when its consumer is gone |
| `vite` | a host, a document and the configuration, 4 contents, 1 hook, 2 initial compiles, 2 edits, 1 fault; fair | no result of an invalidated session is active (`ReadyIsTrusted`), at rest and without a displayed error nothing is stale but paths of refused batches (`NoSilentStaleness`), rewrites join code, callsites and modules of one result, every hook returns |
| `lsp` | a document of the project, a new one, one outside, 2 handlers at once, 3 messages; fair | buffers follow the editor, open documents end with present diagnostics, formatting works on one revision, every message is handled |
| `compiler` | about 454000 inputs over eight topics | one invariant per topic: `ClausesKeepWhatIsMeant`, `QueriesReturnWhatIsMeant`, `PoliciesHideWhatIsMeant`, `ImportsAreFollowed`, `NamesReachDefinitions`, `InputsReachTheirUses`, `OperationsRunAsMeant`, `CatalogsSayWhatFilesSay` |
| `query_limits` | selections whose only slice is a variable limit | **violated**: the limit slices the one aggregated row |

The violated runs each check one sentence of a document under `docs/spec/`, of a comment
or of a test, quoted under "findings" in `PROJECT.json`.

**Bounds.** Two processes suffice for every interference in the publication
protocol: one that is held up anywhere, and one that publishes, prunes or
crashes any number of times around it. Two artifacts give pruning something
to keep and something to remove. Three ids allow a generator to be
superseded twice, its predecessor protection to lapse, and an id to be stranded
above the pointer. `MaxId` also is the counter's overflow: allocation fails above
it, as `checked_add` does at 2^64 - 1, so no behaviour is cut off by it.
`superseded` counts to two because protection lasts exactly one publication.
In the session model `MaxChanges` bounds the edits of users and their explicit
compile requests; three are an edit, its undoing and one elsewhere, at
any points of one or several requests. The properties also hold with four.
Forwarding, refusals and failures are not bounded.

For the client, three calls are one that loses its session, one that replaces it
and one that meets what is left of the first; ids, sessions and lines are
bounded by them. `TopRung` is 2 where the code has 5 doublings, which only
shortens the way to the cap. A daemon repeats its last line or prints one with an id of
no request; a line that forges the id in flight cannot be told from an
answer. For the server, four lines let one be handled, one be
late, one be dropped and one be blank or no UTF-8.

For the plugin, `MaxEdits` 2 are an edit during a compile and one during the next;
`MaxFaults` 1 is a daemon that dies, or a request that fails; a second initial compile is
what an invalidation allows while the first still runs. Four contents are two texts
with dsql, one without and one that does not compile. For the language server,
three messages at level 2 let a later message overtake an earlier one wherever the
mutexes allow it, while a third one waits for a place. `VitePluginProofs` and
`LspServerProofs` have no such bounds.

For the compiler's topics the inputs are all those of a small grammar: for filters,
clauses of two levels and existence tests inside each other, with 25 that the checks refuse (`Misfits`)
and 7 that have no plan (`Strays`), over two tables with two rows
each, three sets of policies (hidden rows and masked columns) and four sets of inputs, null
ones included; for selections, a root with up to two nested ones, joined,
grouped, ordered and sliced, and 17 that are refused, over three tables with up to three rows, three sets of
policies, with and without a row cap; for policies, four scopes (one imports the next, and one is
imported by nobody), one or two filters, and conditions of which two share a name; for scopes, all graphs of three configured scopes
and one that is not, with up to two imports each; for definitions, up to four queries, fragments and
contexts in three scopes, over two graphs; for inputs, a query, a fragment and a fragment in it; for executions, an operation of one or two inputs and the JSON values that tell
its types apart; for catalogs, 48 databases with 665 sets of overlays (pairs of patches in two
files, composed in both orders) and 19000 graphs of types, of which about a third are accepted.
Deadlock checking is off where the system may stop: a daemon, editor or
plugin without requests waits, and an input of a topic is answered once.

**Fairness.** `publication_edits` assumes weak fairness of the steps of
each process, that is, a process that works on a request keeps running and its
generator ends. Nothing is assumed of the lock: the deadline in
`with_publication_lock_deadline` is what makes the property hold. Crashes,
new requests, edits and loss of the pointer are never required. `client_queue`
assumes that promises and timers are not forgotten, that events of a process are
delivered, that a live daemon whose stdout is open answers its next request, and
that a signal ends a process; the second half is an assumption on the daemon that the
client does not enforce, since only shutdown has a timeout. `server`
assumes that both tasks are scheduled and that handling a request ends; its consumer owes
nothing. `vite` assumes that promises are not forgotten, that the client settles its calls,
which is what `client_queue` shows, and that a renderer ends. `lsp` assumes that
started handlers are polled; that the runtime starts them in order and that its
mutexes are first in, first out is part of the model, since both are promises of the libraries.

**Qualifications in the properties.** `GeneratorSurvives` promises nothing after two
later publications, or once `manifest.json` was lost: the code keeps one
predecessor. `CommitMatchesLock` excludes edits by hand between reconciliation
and commit, which no lock prevents. Convergence of a session is claimed when
no event is outstanding and no batch was refused since the last reload
(`refused`); what a refusal does is `session_replay`. `ErrorIsCurrent` excludes the refusal of a
match lock that was put back (below), and
leaves out transient failures (a failing write, a failing generator, a publication lock
held too long, a document that could not be read), which the specification says
are repeated until `compile` retries. `NoSilentStaleness` excludes two compiles that
were in progress at once (`overlap`; the initial compile is not kept apart from the loop's, so
`build-daemon.md:602`, "at most one outstanding compile", is not what the code
does), edits made before the watcher is installed, which nobody reports (`unseen`), and the paths
of a batch that the daemon refused (`missed`): the refusal leaves the daemon's last success
(`session.rs:233-236`), the next batch without a change replays it (243-247), and the plugin takes the
displayed error away, since the replay is of the active generation (`vite.ts:212-219`). It then shows no error while
the result is of the old files of that batch, which is `session_replay` seen from the plugin. Paths
read again, by an event of their own or by a full reload, are covered again.
The client does not check the members of dynamic orders or of directions that are closed
(`runtime.ts:982-990`), so `OperationsRunAsMeant` holds of what the server accepts.

**Other deviations met while modelling**, which no run keeps:

* Pruning removes a manifest stranded above the pointer by a process that died, so the next
  publication takes that id again (`publish.rs:538-545`), while
  `docs/spec/build-daemon.md:538-542` says a stranded id is "skipped, never reused". Ids
  that were current are never reused (`CommittedIdsIncrease`).
* A publication that fails may have changed the pointer: the rename was done and syncing
  the directory failed (`publish.rs:155`). `GenerationStore` allows it.
* A compile that meets a match lock it refuses does not remember it (`session.rs:272-276, 382`): one
  that was edited, in locked mode, or one of a newer version, in either mode
  (`publish.rs:268-275`). If the edit is undone before its event arrives, the event is a no-op and the error stays,
  while a fresh daemon would succeed. `ErrorIsCurrent` names exactly this exception: the documents are the
  present ones, and the lock is the one known before. A stale success does not occur (`SuccessIsCurrent`).
* A reload lists the documents of one scope after the other (`documents.rs:72-76`). A file created between two
  listings, which both scopes claim, is found by the second alone and is held as unique; its event is then a
  no-op, since what is held is relevant (`session.rs:562-571`), while a fresh daemon reports
  the conflict. `Discover` lists all at once; files are read one after the other, as in the code.
* A document replaced by a directory of the same name, or the reverse, survives in the bowl
  (`session.rs:400`); `TreeAssumption` excludes paths that are now one and now the other.
* A daemon that refuses `initialize` and then prints one more line moves the backoff
  ladder twice (`daemon.ts:349-353`, then 434-437), which the comment at 347-348
  wants to avoid: `LadderClimbsOnce` is checked without stray lines.
* After answering `shutdown` the daemon's process waits for stdin to close: its
  runtime does not end while a read of stdin is in progress (`ReadIsOver`). The spec
  (`build-daemon.md:260`) has it answer and exit. `NoLeakedDaemon` is
  about consumers that close the pipe; the TypeScript client sends a signal.
* One queued request is handled after the end of stdin is known (`dsql-daemon/src/lib.rs:53, 91`),
  and `OneLateRequest` says that it is one at most.
* The renderer writes the outputs of a result before it compares epochs (`node.ts:643`),
  while `build-daemon.md:489-491` has the comparison first: outputs of an old epoch
  are on disk until the next render, and no module is rewritten with them (`RewritesMatch`).
* `did_close` publishes without the publisher lock (`server.rs:504`), which the comment at 68-70
  has every publication take: a closed document's empty diagnostics can be overtaken by older
  ones (`NewestPublicationWins` states the comment's sentence). Open documents end right
  (`OpenShowsPresent`).
* An operator or filter-assignment input with a default that a partially bound spread leaves
  unbound is planned by `variable_path`, which keeps the fragment's native path
  (`variable_path.rs:166-168`; `build.rs:699, 2165`), against `docs/spec/variables.md:735, 783`. The
  inputs topic leaves such defaults out.
* An aggregate `min` or `max` of a masked column in a group has a contract that does not allow the null
  it can be (`assemble.rs`, around 650; `docs/spec/policies.md:378-385`). The instances mask no grouped columns.
* Two nested existence tests over one table may share an alias, so `.up.up.x == 0` reads the
  inner row twice (`context_for` in `postgres.rs`, 2163); in policies the right side of
  `.up.x == .x` compiles inside the existence test (`binary`, `wrap_relations` in `policy.rs`). The
  instances have neither.
* The checks of a `where` accept more than the planner has a place for. A path over relations
  that does not start in the current row, or stands on the right of a comparison
  (`~up.x == 1`, `.x == .up.y`), a list compared with a column, and an operator variable beside an
  aggregate pass `check_predicate_expr`; `plan_filter_path` (`build.rs:2305`) and
  `plan_filter_expr` (1847, 1988) return `None`, `clauses.filter` stays `None` (1297) and the whole
  clause filters nothing, without a diagnostic; in an existence test it is the
  predicate. `docs/spec/scoped-predicates.md:57` lists `~rel.field`, which
  `crates/dsql-core/tests/it/lints.rs:186` uses. A null test or membership over `~rel.field`
  follows the relations from the current row and reads the column of the root's. The model
  plans as the code does (`Plannable`); `ClausesKeepWhatIsMeant` is claimed `WithinReach`.
* A null comparison through an operator variable (`.x $op null`) is printed over the masked column
  without the guard of a null test (`postgres.rs`, `VariantBinary`), so `==` keeps rows whose column
  is denied, against `docs/spec/policies.md:397-401` (`WithinReach` excludes it).
* `..field` at the top of the clause of a nested selection is refused (`resolution.rs:1059`), though
  `docs/spec/scoped-predicates.md:55` has it name the immediate parent selection.
  Comparisons of two paths check enumerations only, so an integer may be compared with a text.
* In a fragment `~` resolves against the fragment's target (`resolution.rs:883-1026`), while the SQL
  reads the alias of the query's root (`postgres.rs:1281`). The instances have no such clause in a fragment.
* An `in` rule whose left side is not a column fails to compile without a diagnostic, and its
  table is silently left out of the filter's targets (`policy.rs`).
* `bind_imported_query_peers` speaks of queries that scopes "directly import"; `imports_of` is transitive (`definition.rs`).
* A field reference without a schema is looked up in the default schema only (`lookup.rs:246`), while
  `docs/spec/catalog-overlays.md` has an authored name be an ordinary unambiguous selection.
* Text that looks like a marker (`{{params.x}}`) in a string literal of the author is replaced
  with the marker's variant at run time; and the direction of one order term may be written into another one
  over the same column (`postgres.rs:266-281`). The templates of the executions topic have neither.

## What is proved

`PublicationProofs` proves, for any set of processes, artifacts and snapshots and
any `MaxId`, from the named assumptions of `Publication` (`NoWriter` is not a
process, `MaxId` is positive, snapshots consist of artifacts and decisions,
user-made lock files are lock files):

* `TypeCorrect` - type correctness, strengthened by `HasRequest`: a busy process
  has a request, and from allocation on it has an id.
* `Invariant` - the inductive invariant `IInv`. Mutual exclusion is inductive
  only as an equivalence: a process is in its critical section exactly when it is the
  holder (`LockOwner`). `CurrentComplete` needs more: the process about to
  commit has a complete set of files (`UncommittedFilesSafe`) and an id above all that
  were current (`ReadyToCommit`), and a pruning process works for the generation
  that is current now and keeps its artifacts (`PruningCurrent`). That ids grow
  even after `manifest.json` was lost needs `HighestRemembered`: the highest
  id that was ever current is in the pointer or among the immutable manifests, so the
  scan still sees it.
* `LockExcludes`, `CurrentStaysComplete`, `UncommittedStaysSafe` - the safety
  properties, as consequences.
* `IdsIncrease` and `Refinement` - the action property and the implementation of
  `GenerationStore`, from `PointerStep`, which says what any step does to
  the pointer and to the artifacts it names.

Two theorems build on `IInv`, about what others than the holder of the lock touch:

* `GeneratorsSurvive` - a running generator's generation is the pointer's or, after one
  more publication, the predecessor that publisher recorded (`GeneratorPlace`,
  `PredecessorRecorded`). Pruning belongs to the publisher of the current generation
  (`PruningCurrent`) and keeps both, artifacts included (`PruningSpares`). A commit cannot
  reuse the id of a running generator, since published ids are at most `highest` (`PublishedIds`).
* `CommitsMatchLock` - what was reconciled is what is committed, and `dsql.lock` still
  says so unless a user wrote it (`LockReconciled`), since every other writer needs the lock.

`DaemonSessionProofs` proves for any tree of paths, contents, configurations and number of edits,
from `PathAssumption`, `TreeAssumption` (a path is a document's or a directory's, nothing is below
a document, and below is an order) and `ModeAssumption`:

* `SessionInvariant` - the inductive invariant. `Follows`: the bowl and the disk agree about a path,
  or an event that covers the path is yet to be classified, or a reload is due. What classification
  has read is still there, or an event tells otherwise (`ReadIsFresh`), and so is the configuration a reload has read
  (`LoadingIsCurrent`); what a reload has read of the documents is of the disk, but for paths it has still to
  read or an event reports (`ReadingFollows`); the bowl holds only documents one scope owns (`HeldIsOwned`). The cached outcome is
  of the resident bowl, and the known lock is that of the last success (`LastIsOfBowl`, `AnswerIsLast`), so that a session
  with nothing to do has nothing to tell (`SettledIsQuiet`).
* `WarmEqualsCold`, `SuccessesStayTrue`, `ErrorsStayTrue`, `OwnWritesAreNoOps` - the properties
  `BowlConverges`, `SuccessIsCurrent`, `ErrorIsCurrent` and `NoNeedlessCompile` of the runs, as consequences.

`DaemonServerProofs` proves for any set of line kinds and any number of lines:

* `ServerInvariant` - types, and three facts about the loop. A line taken after
  the end of stdin was known is the last one, because the flag is never
  reset and the executor meets `CheckEof` before it returns to the queue
  (`LateEnds`). Pruning is due only between handling and maintenance, and
  the one way around maintenance is for lines that are no compile requests
  (`PruningIsDue`). What is maintained for was written last (`MaintainedIsWritten`).
* `AtMostOneLate`, `MaintenanceFollowsAnswer` - the properties of the run, as
  consequences.
* `AnswersFollowLines` - answers are in the order of lines and none is missing. It needs `Order`:
  the queue and then stdin hold the last lines written (`LinesWait`), the line in work
  is the last one taken (`LineIsLast`), and everything taken before it is answered while
  somebody listens (`TakenAreAnswered`).

`DaemonClientProofs` proves from `BoundsAssumption`, for any number of calls, sessions, crashes and
stray lines:

* `ClientInvariant` - the inductive invariant. `HeadWorks` ties `stage` to the head of the chain and to
  the newest session, and `Room` has each call spawn one session at most. Of every session, `Flags` says what its flags
  mean for its process and for the caller's caches; one that was given up has failed or is ending, and its process
  was sent a signal. `Numbered` and `About`: numbers of requests are used once, so
  that whatever carries the number in flight, a repeated answer included, is about the call at the head.
* `AnswersAreOwn`, `RequestsNeverOverlap`, `LostSessionsInvalidate`, `NoProcessStays`,
  `InvalidationsAreTimely` - the properties `AnswersMatch`, `NeverOverlapping`, `CachesDropped`,
  `NothingLeftBehind` and `InvalidatesInTime` of the runs, as consequences.
* `FailuresClimbOnce` - `LadderClimbsOnce`, for daemons that print nothing but answers (`MaxStrays = 0`):
  a second answer can fail a session that already moved the ladder. It needs its own invariant, `LadderInv`: a request is in
  one place of its way (`Wire`), a failed spawn is reported while its initialize is
  in flight (`Unreported`), and a session that moved the ladder has nothing left to say (`Climbs`).
* `CallsAreServedInTurn` - every step is one of `CallQueue` or a stutter: the safety half of `ImplementsQueue`.

`LspServerProofs` proves for any documents, any number of messages and any `Level`, from
`LspAssumption` (the documents of the project and those outside are documents, and `Level` is positive):

* `LspInvariant` - the inductive invariant, in four parts. `InOrder`: handlers start in the order
  of their messages, the session mutex's line holds every handler that waits for it, in that
  order, and only formatting keeps the mutex between two queries. `EditsChain`: the
  messages about a document that still wait lead from its text in the bowl to the editor's buffer, each
  made to what the one before leaves; without it "the buffer is followed when nothing waits" is not inductive. `FormatSteady`:
  while formatting holds the mutex its rope is the text. `PublishersInLine` and `PublishesPresent`: every open
  document is shown as it is, or a publisher has it before it or has read its present text, or
  a publisher waits.
* `FollowsEditor`, `FormattingIsOfOneRevision`, `ShowsPresent` - the safety properties of `lsp`.

`VitePluginProofs` proves for any hosts, documents, hooks, initial compiles, edits and faults:

* `ViteInvariant` - types; and `RendersAreDated`: a task took its epoch no later than the present
  one, and the result it renders was answered between the two, so a task whose epoch still
  holds has a result of that epoch.
* `ReadyTrusted`, `RewritesAreMatched` - two safety properties of `vite`, the first for any number of
  compiles in progress, overlapping ones included.
* `DiskIsFollowed` - the second inductive invariant, for histories in which no two compiles overlap.
  "At rest nothing is stale" says nothing of the way there, so `Follows` follows a change on it: a path on which the daemon
  and the disk differ has an event, is pending, is in the request in flight or was in a batch
  that was refused (`KnownFollows`); the
  daemon's last answer is of what it has (`LastIsKnown`); what renders under a valid epoch is that
  answer (`RenderIsLast`), and what is active is that answer or will be replaced by the task in progress, or an error is
  displayed (`ReadyIsLast`). `OneAtATime` makes "the request in flight" and "the task in progress" unique, and
  `LoopWorks` has the loop end only with nothing pending.
* `NothingIsStale` - `NoSilentStaleness`, as a consequence: what is active is the daemon's last result, hence of what it
  has, hence of the disk on every path but those of refused batches.

`SqlLogicProofs` proves that rendered filters keep three-valued meaning. A conditional filter
renders a meaning when its guard is there whenever the meaning can be gone, and its value is
the meaning's when that is not gone. `ConstructorsRender` gives the base cases and negation,
`ConjunctionRenders` and `DisjunctionRenders` the step, `ClosedRenders` the end: the condition in the
`WHERE` is true when all of the filter is gone. `FiltersRender` is the induction over conditions of any depth:
any function that obeys the equations of `conditional_filter_expr` (`ConditionalOf`) renders what the
conditions mean (`MeantOf`); were it wrong about some, it would be wrong about a smallest one. What
the atoms evaluate to is a parameter of the theorem; `ClausesKeepWhatIsMeant` checks the
atoms, and the whole, on small clauses.

`ScopeProofs` proves for any scopes and any graphs of imports, from `ConfiguredScopes` and
`GraphsOfScopes` (the configured scopes are a list of scopes, and each has a list of scopes it imports):

* `WalkInvariant` - the inductive invariant. `CollectInv`: what is visible is seen, and what a
  visible scope imports is visible too or still comes, because the scope is on the stack and only the
  imports its loop has passed are taken (`Taken`). `SearchInv`: the stack is a path along
  imports without repetition, and the visited scopes can be numbered so that each stands above all it
  imports (`Ordered`); `FinishVisit` gives the scope it is done with a number above all of them. What an import
  sees has no higher number than the import, so no visited scope is on a cycle, and forgetting their
  stacks loses none.
* `ImportsFollowed` - `ImportsAreFollowed`, as a consequence. Of the scopes that see a scope, the one with
  the highest number is a target, so without a cycle the targets cover all.

It proves for any projects whose definitions are finitely many and have ids of their own (`ProjectsAssumption`):

* `ExpansionInvariant` - the inductive invariant of expansion. An occurrence is a walk of spreads from its root
  that meets no fragment name twice, and what it met sees and leads to its target (`IsOccurrence`); what an
  occurrence met, its root has an occurrence of; an occurrence that was extended has its extensions
  and its cuts, and nothing else was cut.
* `NamesReach` - `NamesReachDefinitions`. Of the definitions of one name that a scope imports, the one with the
  least id is reported. What a definition leads to it also sees, so without a conflict a fragment
  of a name that was visited is the fragment that was visited (`NoNamesake`): a cut closes a
  cycle. Every fragment is a root and has occurrences of all it leads to, the last before it on a
  cycle among them, so every cycle is cut. And if a walk were missing, the shortest missing one would
  extend an occurrence that neither has the extension nor cut it.

Only model-checked:
liveness and the settlement half of `ImplementsQueue` (the prover has no rule for liveness under
fairness, nor for ENABLED), and the compiler's topics but scopes and definitions: filters, selections, policies, inputs, executions
and catalogs are recursive over data, and what RECURSIVE operators compute is out of the prover's reach.

## What is not modelled

Loss of power (what was written but not synced), other file systems' semantics,
partial visibility of a directory scan, and the bytes of manifests, artifacts
and lock files. A directory scan during classification is one step; an edit in the middle of it
leaves its own event, which is classified later. Requests that are malformed or
come before `initialize` change no state and are left out, and so are excluded roots and
generator outputs, which classification skips. Embedded documents are part of
their host's content. The plugin's build mode, excluded paths and messages to the browser; handlers of
the language server that only read (hover, completion, tokens). Lexing, parsing and formatting, YAML and
globs, the wording and positions of diagnostics, lints and directives, the text of artifacts and generated types, the
text of SQL beyond the tokens that are replaced in it, and the connection to the database, introspection included.

In the topics: literals in clauses are numbers and null, rows are stored in the order of their ids and groups in
one order of their own, `min` stands for the other aggregates, collisions of the 32-bit hashes in aliases are ignored, and a
null test of a masked column is not negated; a relation's policy is one per table. Accepted
inputs are acyclic, and an enumeration's values are part of its type. Operations leave
out floats written as whole numbers, corners of RFC 3339, keys that are members of every
JavaScript object, and the order of keys outside ASCII; which error comes first is not
compared. Databases are valid ones (a foreign key's target is unique); selectors are kept as tuples
of columns, so two tuples that join to one string are told apart; proofs of one name keep their order in the
fingerprint, whose collisions are ignored, and so are the types in it, which overlays do not touch.

## Plan

Done: the protocols (publication, session, server, client, plugin, language server), their refinements
and the proofs above; the compiler's topics from scopes to SQL, the executor on both sides, the catalog.

Next, in this order:

1. `DaemonSession` over `GenerationStore` instead of a publication in one step, and `VitePlugin`
   with overlapping compiles kept apart, should the code start to do so.
2. Handlers of the language server that only read, against the revision they answer for.
3. Lints and directives of the compiler; capabilities of the catalog beyond operators.
