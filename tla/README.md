# CriteriaDB in TLA+

CriteriaDB is a property graph that agents and workflows use as memory: nodes
and edges kept in two Go maps, written through to bbolt or PostgreSQL, queried
through a gRPC server, a workflow adapter, a CLI and a web page. This directory
holds specifications of its core, the TLC runs that check them, and the
theorems that TLAPS proves about them.

## The system

| Part | State | Operations | What is hard |
| --- | --- | --- | --- |
| `MemoryEngine` (`pkg/memory/engine.go`, `consolidation.go`) | `nodes`, `edges`, an RWMutex, a `Store` | `NewMemoryEngine`, `Remember`, `RememberEdge`, `Recall`, `PruneExpired`, `Consolidate`, `GetStats`, `Close` | each operation makes several store calls, each a transaction of its own; some of their errors are discarded; the process may stop between any two |
| `BBoltStore`, `PostgresStore` | buckets or tables | `SaveNode`, `DeleteNode`, `SaveEdge`, `DeleteEdge`, `LoadAll`, `Close` | a rolled back transaction; a statement given up after 5 s, which may commit later; the file lock, waited for 3 s |
| `QueryEngine` (`query.go` and the files beside it) | none | `ExecuteQuery`, `matchesFactFilter` | graph walk with a hop limit; scores of which zero means "no"; vectors that some memories lack; ties at the limit |
| `Embedder` | none | `GenerateEmbedding` | failure is silent: the node has no vector |
| `CriteriaDBAdapter` (`pkg/adapter`) | `engine` under `mu` | `OpenSession`, `Execute`, `CloseSession` | a handle used after `mu` is released; sessions share one engine |
| `Ingester` (`pkg/criteria`) | `lastEventByWorkflow` under `mu` | `IngestNDJSONEvent` | the map is ahead of the store; it is lost on restart; events of several goroutines |
| CLI (`cmd/criteriadb`) | none | `serve`, `query`, `list`, `stats`, `consolidate`, `export`, `import`, `viz` | shutdown while handlers run; a signal at any time; a backup limited to 10000 nodes, with errors discarded on the way back |
| gRPC server, web visualizer (`pkg/server`) | none | `Remember`, `Recall`, `/api/graph`, the page | callers that give up; a list of 1000 nodes with links that lead out of it |

All callers meet in the engine: gRPC handlers and the adapter's requests run on
goroutines of their own and contend for its RWMutex. The engine calls its store
only under the write lock. Nothing calls back.

What makes each part correct:

- engine and store: what clients see is a graph on which every operation is one
  step; what was acknowledged survives a restart, unless a statement on its ID was
  given up and is in doubt; nothing leaves the store
  unless it expired or was merged into a fact that is stored; readers see
  maps that hold still; the lock is always released;
- fact traversal: the answer is reachability within the hops asked for, and
  the walk ends;
- ranking: the reply has the best of the memories that match, as many as the
  limit admits, and a private memory only for those the request entitles to it;
- adapter: a request uses the engine of its time or fails, and what it was told
  is stored is found by every later request;
- ingester: the events of a workflow form one chain, in their order;
- several engines on one database: what they remove from it, by maps that may be
  stale, are not memories that were to stay;
- backup: import of an export gives back what of the graph has a JSON form, and can be
  repeated;
- server: a signal ends the process, after the handlers and not under them; what
  was acknowledged is stored, and shown to whoever asks for it later and leaves room.

## Modules

| Module | What it is |
| --- | --- |
| `MemoryData` | the data: nodes and edges reduced to what the properties tell apart, and the sets that prune, consolidate and edge removal pick |
| `MemoryGraph` | the abstract specification: the graph that clients are promised, every operation a single step; `CrashSpec` adds what a stop may leave of a removal |
| `MemoryEngine` | the engine with its maps, its store, its lock, stops and faults; the properties of the two copies of the graph |
| `MemoryEngineView` | what clients can see of the engine, as a history variable, and the refinement of `MemoryGraph` |
| `MemoryEngine_proofs`, `MemoryEngineView_proofs` | theorems about `MemoryEngine`, and that it implements `MemoryGraph` |
| `SharedStore` | several engines, in processes of their own, on one PostgreSQL database |
| `SharedStore_proofs` | theorems about it |
| `QueryScores` | the filters and scores of `ExecuteQuery` as functions |
| `FactTraversal` | `matchesFactFilter` item by item of its queue, and what its answer means |
| `QueryEngine` | `Recall` and `ExecuteQuery` on top of the two |
| `QueryEngine_proofs` | theorems about it |
| `AdapterSessions` | `CriteriaDBAdapter`: requests that share one engine handle, the store's file lock, a second process |
| `AdapterSessions_proofs` | theorems about it |
| `Ingester` | `IngestNDJSONEvent` and the command that feeds it a file |
| `Ingester_proofs` | theorems about it |
| `Backup` | the `export` and `import` commands |
| `Backup_proofs` | theorems about it |
| `Server` | the `serve` and `viz` commands with the handlers of `pkg/server` and the dashboard |
| `Server_proofs` | theorems about it |
| `MCMemoryEngine`, `MCMemoryEngineView`, `MCSharedStore`, `MCQueryEngine`, `MCAdapterSessions`, `MCIngester`, `MCBackup`, `MCServer` | the constants of the small instances |

A definition `X_y` is `X` with a plausible mistake `y` in the code. It is used by
no specification; put in the place of `X` it makes one of the runs fail, which
shows that the property would notice the mistake.

### `MemoryEngine`

`nodes` and `edges` are the maps, `diskNodes` and `diskEdges` the store; a key
without entry maps to `None`. `mu` is the caller that holds the write lock and
`readers` those that hold the read lock; `op[c]` is where in an operation caller
`c` is. A node is its project, its type and the end of its validity; labels,
vectors, scopes and properties play no part in what the engine does with it.
`None` as a project or type is also the empty string, which `Consolidate` takes
as a wildcard.

| Code | Actions |
| --- | --- |
| `Remember` | `Remember` (lock, `SaveNode`, map), then per edge `SkipEdge`, `SaveEdge`, `RejectEdge` or `SaveEdgeFails`, then `RememberReturns`; `RememberFails` if `SaveNode` fails |
| `RememberEdge` | `RememberEdge`, `RememberEdgeFails` |
| `PruneExpired` | `PruneExpired` (lock, choice of victims), `DropNode` per node, `DropEdge` per edge, `DropReturns` |
| `Consolidate` | `Consolidate` (lock, choice of victims, fact), then as above |
| `Recall`, `GetStats` | `BeginRead`, `EndRead` |
| `Close`, the end of the process, `NewMemoryEngine` | `Close`, `Crash`, `NewMemoryEngine` |

A call that has no effect is no action: an argument that is refused at once, a
prune or a consolidation that finds too little, any write on a closed engine
(bbolt and the pool answer it with an error before anything changes).
Four assumptions narrow the model: the engine has a store; only an open engine
is pruned or consolidated (the command that does both closes it last); callers do not
choose IDs of the form `fact-cons-<nanoseconds>`, with which `FactsAreKept` would not
hold; and two consolidations never mint the same one, since the clock moves on while
the write lock is held. The third does not cover `import` (`main.go:342`), which
remembers the facts of a backup under the IDs they have and may so overwrite a fact
by another version of it; `Backup` models that command.

`Faults` says how a store call can fail: `"lost"` is rolled back, `"inDoubt"` is a
PostgreSQL statement whose context expires after 5 s (`store_postgres.go:100`). Its
caller gets an error and the connection is dropped, but the server still has the
statement: it stays in `late[b]`, for a server process `b` of `Backends`, until
`LateEnds` commits it or rolls it back, which may be after later calls on the same
ID, and after the process that sent it has gone. `doubted` is history: the IDs for
which the map and the store may differ for that reason, until a later call on them
succeeds when nothing is pending for them. `Stops` says whether the process
may `"close"` the engine and open it again, and whether it may `"crash"` at any
point. A crash between a store call and the map update beside it needs no step
of its own: the map is gone in either case.

### `MemoryGraph` and `MemoryEngineView`

While an operation holds the write lock nobody can look, so `view` keeps the
graph as it was when the lock was taken and shows the new one when it is
released. When the process is down, `view` is what the next `NewMemoryEngine`
will load. `RefinesGraph` says that `view` changes only by whole operations of
`MemoryGraph`; `RefinesGraphUpToCrash` admits removals cut short besides.

### `SharedStore`

`diskNodes` and `diskEdges` are the two tables, `nodes[p]` and `edges[p]` the maps of
the engine of process `p`. `LoadNodes` and `LoadEdges` are the two `SELECT`s of `LoadAll`:
others may write between them. The operations are those of `MemoryEngine`, with one
statement and the change of the map beside it as one step; here no statement fails.
Nothing is ever loaded again, as in the code. `foreign[p]` and `written` are
history: the entries that others have written since `p` loaded its copy, and all
that has ever been stored under an ID. An ID of a fact embeds the nanosecond it was
minted in; two engines never mint the same one, which is an assumption.

### `QueryScores` and `QueryEngine`

`QueryScores` translates the scoring files: `MatchesScope`, `EvaluateTemporal`,
`EvaluateLocation`, `EvaluateLexical`, `UnpackFloats`, `CosineSimilarity` and the
weights. A score is an integer with `Unit` for 1.0, so that 0.7 of one and
0.3 of another are exact; a decay is a power of one half, and 0 past `Horizon`,
as `math.Exp` becomes 0.0 past 61 years. A text is the set of words `Tokenize` makes
of it, with `Blank` for spaces only; a vector is known by its `Cosine` with others,
`Ragged` is a byte string of no whole number of floats.

`QueryEngine` runs one request. `RecallInit` finds its vector, where
`GenerateEmbedding` may fail. Then each memory, in any order, is left out (`Skip`),
taken (`Take`), or walked from (`BeginWalk`, the steps of `FactTraversal` as `Walk`,
`EndWalk`), and `Rank` sorts and cuts. The engine's maps stand still meanwhile, which
`StableWhileRead` shows of `MemoryEngine`. `Matches` says which memories a request
is about without any zero that means "no": `ReplyIsTheBest` compares with that. Two
clauses of it are worth knowing: a memory more than the decay's horizon away from
`valid_at` is left out even if it is valid then (`Timely`), and in a query by vector
alone a memory that has no vector counts as matching (`Similar`).
`PrivateIsAskedFor` says when a private memory is in a reply, which is more often than
`criteriadb.proto` has it (`PrivateIsForItsCreator`): a request without a scope filter,
with the target `*`, or with the creator's name gets it, whoever sends it.

### `FactTraversal`

One action per outcome of an item taken from the queue: `Match` (return true),
`TooFar` (`continue`), `Expand` (its neighbours join the queue, in any order),
and `Exhausted` (return false). IDs stand for nodes and for the dangling ends of
edges. Labels and relation names are compared after trimming and change of case;
the model starts from there, keeping the blank relation, which `relation_types`
drops. The cap of ten hops is the constant `HopCap`. What the answer should be
(`VerdictIsReachability`) is stated with paths and without a walk.

### `AdapterSessions`

`engine` is `a.engine`, `amu` who holds `a.mu` from one step to the next, `call[r]`
what request `r` of the host is doing: waiting for `a.mu` to `"open"`, `"execute"` or
`"close"`, `"opening"` an engine (under `a.mu`), or `"using"` the handle it copied (after
it released `a.mu`). `cache[g]` is what engine `g` serves and `disk` what the store
holds; both are sets of memories, since one operation of the engine is one step to its
callers. `exclusive` tells a bbolt file, which one opener at a time can have, from a
PostgreSQL database. `acked` and the `known` of a request are history: what had been
acknowledged when it took its handle.

| Code | Actions |
| --- | --- |
| `OpenSession` | `JoinSession` if there is an engine; else `BeginOpen`, then `NewEngine`, `OpenFails` (no lock within 3 s, no PostgreSQL within 10 s) or `LoadFails` |
| `Execute` | `Refuse` if there is no engine; else `TakeHandle`, then `Remember` (`remember`, `remember_relation`) or `Recall` (`recall`, `fact_lookup`, and a `remember` that fails) |
| `CloseSession` | `CloseSession` |
| the process ends; another one uses the store | `Kill`; `OtherOpens`, `OtherRemembers`, `OtherCloses` |

`LoadFails` is an engine that never came to be although its store is open: nothing
closes it, and a bbolt file stays locked as long as the process lives.

### `Ingester`

`log` is the file, `read` how much of it this process has read, `last` the map
`lastEventByWorkflow`. `ReadLine` is the command's loop and the parsing, `Link` (or
`LinkNothing`, for an event of no workflow) the part under `ing.mu`, `Remember` and
`RememberFails` the call of the engine, and `Restart` the end of the process at any
point and a new one that begins with the first line. The command is a `crew` of one
worker (`IsCommand`) and the only one that is started again; a larger crew is a
program that shares an `Ingester` among goroutines, as its mutex admits. Lines that
cannot be parsed change nothing and are no part of `log`. An edge is the pair of its
ends: that a second reading stores it again under a new ID is not seen, and neither
are events whose ID is minted.

### `Backup`

`home` is the database exported, `away` the one imported into, each a graph; `file` is
the backup. `DocumentOf` is what `export` makes of the nodes it recalled: those in
`Unencodable`, which protojson cannot marshal, are passed over without a word
(`main.go:276`), and so are such edges (`:282`), while edges that touch such a node are
written. `Export` recalls and empties the file, `ExportReturns` has written it,
`ExportStops` leaves it `Unreadable`. `Import` reads it; then `ImportNode` or
`ImportNodeFails` per node and `ImportEdge` or `ImportEdgeFails` per edge, whose errors
the command discards; `ImportEnds` is its end, or that of its process at any point
before. `Remember` and `Remove` are what others do to the database between imports.

### `Server`

`main` is how far the main goroutine of `serve` or `viz` (`mode`) is, `stopper` the
goroutine that waits for the signal and calls `GracefulStop`, `web` the web server's.
`call[c]` is a gRPC call from `Send` to its answer; an `"abandoned"` one is still being
handled though its caller has given up. The engine's operation is one step, at any
time of the handler's life, since an embedding of up to ten seconds may come before
it. A node has a content, which is all that filters look at, and a `Recall` asks for
the contents it `meets`; those that it `mayMeet` match or not, as the time, the
embedding of the query or the facts around the node have it. Of what matches it gets
no more than `LimitOf` the request, by default 20. `page[t]` is a dashboard:
`OpenPage`, `Fetch` (`/api/graph`, a Recall of everything with a limit of 1000), `Draw`.

| Code | Actions |
| --- | --- |
| `runServe`, `runViz` | `Start`, `Listen`, `ListenFails`, `Notify`, `Serve`, `ServeReturns`, `VizStops`, `CloseEngine`, `Return`; `StopperReceives`, `StopperIsDone`; `WebStarts`, `WebFails` |
| signals, the end of the process | `Signal`, `EarlySignal`, `Kill` |
| the gRPC handlers | `Accept`, `Unavailable`, `Remember`, `RememberFails`, `Recall`, `GiveUp` |
| the page | `OpenPage`, `Fetch`, `FetchFails`, `Draw`, `Reload` |

What grpc-go, `net/http`, D3 and the callers do is external, and modelled as far as
the code relies on it: `GracefulStop` lets the handlers end and `Serve` returns after
it; a link to a node that is not listed makes `d3.forceLink` throw, and as the page
catches nothing it says "Loading graph..." for ever (`"stuck"`).

## Runs

| Run | Question |
| --- | --- |
| `engine_core` | Are the maps the store at every point, does nothing leave the store unjustified, are facts kept, do readers see maps that hold still, and is a removal cut short all there is to be seen of a crash, and nothing of a close and reopening? Two callers, three nodes, two facts; no faults |
| `engine_faults` | On a store whose calls fail and are rolled back, or are given up and commit late: is what a caller remembered and can recall what the store holds, unless its ID is in doubt? Is every operation one step of the graph that clients see, and is the lock always released? |
| `query` | Is the answer of the walk reachability within the hops, is the reply the best of what matches, is a private memory given only to its creator and to requests that ask for it, does Recall return? |
| `adapter` | Does a request find what was acknowledged before it took its handle, is what was acknowledged stored, is no engine left behind, is every request answered? |
| `ingest` | Do the edges of the command join neighbours of the file, all of them if nothing fails, with an end missing only after a failure? Do several goroutines make one chain of a workflow, never a fork? |
| `shared_store` | Does an engine's copy differ from the database only where another one wrote, and does no stale copy cost a memory that was to stay? A memory counts as kept if some fact is stored of a project that one of its versions had, or of all projects; that the fact was made from this memory is not asked |
| `backup` | Is after an import all there that did not fail, is of a graph within the limit all restored that has a JSON form, do nodes come before edges? |
| `server` | Is no handler cut off by a shutdown, is what was acknowledged stored, and shown by a Recall that gives less than its limit and by a page with room, is a graph that fits drawn, does a signal end the process? |
| `consolidate_lost` (violated) | Does `Consolidate` delete events whose fact was never stored? It does: the error of `SaveNode` is discarded (`consolidation.go:84`) |
| `crash_orphans` (violated) | Do edges go with their nodes? Not if the process ends between the two: the edges stay, and are loaded by the next engine, until a removal takes out the other end of one (`consolidation.go:106`) |
| `private_shown` (violated) | Is a private memory "visible only to creator adapter" (`criteriadb.proto:20`)? Not if the request has no scope filter (`scope.go:9`), as that of `fact_lookup` (`adapter.go:303`) |
| `stale_prune` (violated) | Does `PruneExpired` remove expired memories only? Not from a database that another engine writes to: an engine remembers a node with a deadline, another replaces it by one without, and the first, by its own copy (`consolidation.go:21`), deletes the new one by its ID |

Two more things the code does that a reader may not expect, without a run: the
errors of `DeleteNode` and `DeleteEdge` are discarded as well (`consolidation.go:27`,
`:91`, `:112`), so that an entry whose deletion failed is back after reopening; and the
walk never returns to its start, so that a node whose only edge of a relation is a
self-loop is not found by that relation. An export loses what has no JSON form, and
says that it was successful.

Bounds. Two callers are enough for one to hold the lock and another to want it
or to read; the lock lets no more than one write. Two nodes and two edges give a
consolidation, edges among and beside its victims, and a Remember that stops in
its batch; `engine_core` adds a third node, in no project, and a second
consolidation. `MaxTime = 1` makes a deadline of 0 pass and one of 1 not.
The batches hold an edge without ID before a good one, and a good one before one
with a blank end. Callers are symmetric where only safety
is checked. `engine_faults` checks liveness too, and has less: one content,
without a deadline (consolidation removes nodes by the same steps as pruning), one
edge with two values, a batch that ends on every path, and one server process with a
statement to be given up at a time. That is enough for a late `DELETE`
after a newer `Remember` of the same ID, and for a late save of an older value of an
edge. It neither closes nor crashes, which `RefinesGraph` could not pass over with a
store that fails; what a late statement does after reopening or a crash is covered by
the theorem `AckedIsStored` alone.

In `query`, each kind of filter has instances of its own (`MCQueries`), as the filters
are conjuncts. For the walk a ring of five nodes has a short and a long way round,
and with `HopCap = 3` a node out of reach once it is broken; every part of it is
walked, with `max_hops` 0 (taken as 1), 2, and 5 (capped). Scopes, times and places are
enumerated against one memory; three memories, with and without words and
vectors, near and far, are ranked under limits of -1, 0 (taken as `DefaultLimit` = 2)
and 1, so that ties are cut. `Unit` is 12 so that the shares of two words and the
decay over `Horizon` = 2 half-lives are whole.

In `adapter` two requests are enough for one to close, and reopen, what the other is
using; three handles are the one leaked (`MaxLeaks = 1`), the one in use and the next.
`ingest` takes every file of up to four events of two workflows or none and with
three IDs, which may come again: enough for an event that fails between two that
do not; three goroutines get four events of distinct IDs. `shared_store` has two
engines and `MaxCalls` = 3 writes: the least for one to remember, another to replace,
the first to remove. `backup` exports two of up to three nodes (`ExportLimit`), with edges
between two nodes, at one, and to a node that need not exist; any node may be of a
version without a JSON form, and one edge has none; the database imported
into is empty or has other versions. `server` starts two commands (`MaxStarts`), with
two calls, and a dashboard that lists two of three nodes (`ListLimit`); the third may come
from an earlier command. One kind of Recall has a limit of one, which cuts; the other
leaves it to `DefaultLimit` = 3, which does not, and is sure of red nodes only. No
`Remember` is of a blank node: it fails like one that the engine cannot save at all.

`CHECK_DEADLOCK FALSE` is given for `query`, whose request ends, `ingest`, whose file
does, and `server`, whose commands are bounded.

Fairness. `Fairness` of the engine is weak fairness of what a goroutine does
while it holds a lock: inside, it waits for nothing but the store, whose calls
are local or carry a deadline. Nothing is assumed of callers outside, of
stops or of the clock. In `AdapterSessions` a request
that waits for `a.mu` is treated strongly fairly: a `sync.Mutex` hands itself over to a
goroutine that has waited for a millisecond. What follows is weakly fair, since
opening a store has a deadline. Nothing is assumed of the other process, which may
keep the file for good. A query runs in one goroutine that holds the read lock and
waits for nothing (`RecallFairSpec`). In `Server` the main goroutine, the one that
waits for the signal and the handlers are weakly fair: they wait for a channel, for
one another, or for an embedding that times out after ten seconds; callers, pages,
kills and the web server are not.

## Proofs

For all values of the constants, from the assumptions named in the modules that
declare them:

| Theorem | Says |
| --- | --- |
| `TypeCorrect` | `Spec => []TypeOK` (`MemoryEngine`; likewise `AdapterSessions`) |
| `LockDiscipline` | `Spec => []LockInv` |
| `NoWriteUnderRead` | `Spec => StableWhileRead` |
| `CacheMatchesStore` | `Spec => []CacheIsDisk`, if `Faults = {}` |
| `AckedIsStored` | `Spec => []AckedIsDurable`, whatever `Faults` |
| `RollbackKeepsAcked` | the same without its exception for IDs in doubt, if `"inDoubt"` is not in `Faults` |
| `FactsStay` | `Spec => FactsAreKept` |
| `NothingIsLost` | `Spec => DeletionIsJustified`, if `Faults = {}` |
| `ReopeningKeepsGraph` | `Spec => ReopenKeepsGraph`, if `Faults = {}` |
| `EngineIsAGraph` | `ViewSpec => RefinesGraph`, if `Stops = {}` |
| `EngineIsAGraphOverReopening` | the same, if `Faults = {}` and `"crash"` is not in `Stops` |
| `EngineIsAGraphUpToCrash` | `ViewSpec => RefinesGraphUpToCrash`, if `Faults = {}` |
| `NodesGoWithTheirEdges` | `ViewSpec => NoEdgeIsOrphaned`, under the conditions of `EngineIsAGraph` or of `EngineIsAGraphOverReopening` |
| `OwnWritesAreRead` | `Spec => []ReadsOwnWrites` (`AdapterSessions`, as the next three) |
| `OthersWritesAreRead` | `Spec => []ReadsOthersWrites` |
| `AcksReachStore` | `Spec => []AckedReachStore` |
| `NoEngineIsLost` | `Spec => []OpenIsCurrent` |
| `TypeCorrect`, `EdgesFollowTheFile`, `DanglingEdgesFailed` | `TypeOK`, `EdgesAreSteps` and `DanglingMeansFailed` of `Ingester`, for every crew, file and failure |
| `CommandStoresItsFile` | `Spec => []StoreIsTheLog` (`Ingester`) |
| `WorkersDoNotFork`, `WorkersChainEachWorkflow` | `Spec => []NoFork` and `Spec => []WorkflowIsAChain` (`Ingester`), for any number of workers, if `DistinctIds` |
| `TypeCorrect`, `DriftHasACause`, `LastingMemoriesStay` | `TypeOK`, `DriftIsForeign` and `LastingMemoriesAreKept` of `SharedStore`, for any number of engines |
| `UnjustifiedMeansForeign` | a removal that `RemovalIsJustified` does not allow is of a node that another engine has written since the one that removes it loaded its copy, for any number of engines |
| `AloneRemovalsAreJustified` | `Spec => RemovalIsJustified`, if there is one engine |
| `TypeCorrect`, `PrivateWhenAskedFor` | `RecallSpec => []TypeOK` and `[]PrivateIsAskedFor` of `QueryEngine`, for every engine and request |
| `WalkDecidesReachability`, `WalkIsBreadthFirst` | `RecallSpec => []VerdictIsReachability` and `[]HopIsDistance`, for every graph, filter and cap |
| `RecallRepliesTheBest` | `RecallSpec => []ReplyIsTheBest`, for every request, set of memories and limit |
| `TypeCorrect`, `NothingIsMissing`, `BackupRestores`, `NodesAreFirst` | `TypeOK`, `MissingMeansFailed`, `HomeIsRestored` and `NodesComeFirst` of `Backup` |
| `TypeCorrect`, `ShutdownIsGraceful`, `AcknowledgedIsStored`, `ReadersSeeAcknowledged`, `GraphIsDrawn` | `TypeOK`, `NoneCutOff`, `AnsweredStands`, `ReadersAreCurrent` and `CompleteGraphIsDrawn` of `Server` |

`TypeOK` is inductive. `LockInv` (whoever is inside an operation holds `mu`, and
then nobody reads and the engine is open) is inductive on top of it and carries
the rest: the middle steps of an operation have no guard on the status or on
readers, as the code has none. `CacheIsDisk` is then inductive itself. `AckedIsDurable`
needs `PendingInv`, by which an ID with a statement still to come is `doubted`: a late
commit then touches only entries that the property leaves out, and a call that
succeeds ends the doubt only if nothing is pending (`DoubtStep`). `NothingInDoubt`
says that without such statements no ID is ever doubted. `FactsAreKept` needs `FactInv`: a
minted ID holds a node of type `consolidated_fact` without a deadline, in the map
and in the store, so that no victim is ever one. `DeletionIsJustified` needs
`DropInv` besides: while nodes are being dropped, either all victims left are
expired in the store, or a stored fact that is no victim covers them all. That
speaks of the store and the victims were chosen from the maps, which is where
`CacheIsDisk`, and with it the absence of faults, comes in; `consolidate_lost`
shows that it cannot be dispensed with.

The refinement rests on `ViewInv`: outside an operation `view` is the maps, or the
store once the process is down; inside one, the maps are what the operation has made
of `view` so far. For a Remember (`Saving`) that is its node and the first edges of
its batch; for a removal (`Dropping`) the nodes deleted so far, and after the last
of them some of the edges. `LiveStep` turns each return into a whole step of the
graph; `CrashStep` turns a stop into one, or into what `Interrupted` describes, and
needs `CacheIsDisk` for it, as the next engine loads the store and not the maps.
`NoEdgeIsOrphaned` then needs no more than the graph (`GraphKeepsEnds`): each of its
operations that takes nodes out takes out whatever touches them. That `Interrupted`
is the one step that does not is what `crash_orphans` shows.

For the adapter, `AdapterInv` says that a handle in use is `a.engine` or closed
(`HandleInv`), so that whoever can still write writes to the engine that the next
request will get; that `a.engine` knows all that was acknowledged here (`LoadedInv`);
and that an engine is made only by the holder of `a.mu`, while there is none (`MuInv`).
`FileLockInv` adds that with bbolt the other process cannot have the file while this
one has it, so that nothing is acknowledged elsewhere behind a live engine's back.

For the ingester's command, `LastInv` says that the map names the last line of each
workflow among those that went through the mutex. With one worker these are the first
lines of the file, whatever happened to their events in the store, which is why an edge
never skips one. `KnownInv` says that what the map names is stored, has failed, or is
in the worker's hands; `Restart` empties map and hands together. `CompleteInv` adds
what must not be missing if nothing failed: the events of the lines done with, and
the edges of the steps up to the last line past the mutex, in the store or in the
worker's hands. A restart goes back to the first line and takes nothing from the
store.

Several workers are kept apart by their lines (`HandsInv`). The order that counts is
the one in which they came by the mutex, and not that of the file or of the store, so
`MapInv`, `ForkInv` and `ChainInv` speak of the edges `InPlay`, which are stored or in
someone's hands: the event that the map names has no successor among them yet, and
without failures they join the events past the mutex, of each workflow, in a sequence
that ends with it. `DistinctIds` asks that no event ID comes twice in a file that
several workers share; with an ID that does, the map would name an event that has a
successor.

For several engines, `LastingInv` relates what an engine believes to what was ever
stored: whatever a table or a copy holds under a user's ID was written there, and
whatever an engine is about to delete, or is missing, may go: a version of it
had passed its deadline, or a stored fact covers one. The version
that another engine wrote in the meantime need not be that one, which is what
`stale_prune` shows and why the theorem speaks of the versions ever written.
`RemovalInv` locates the fault: each node that an engine is about to delete is gone,
or expired, or stood for by a stored fact, or `foreign` to it. It starts from
`DriftIsForeign`, as the victims are chosen from the copy, and needs `LastingInv`, by
which no fact is ever a victim. Alone, an engine has nothing that is foreign to it.

For a query, `WalkInv` types the queue of the walk and `ScopeInv` says that whatever
was found, walked from or replied has passed `MatchesScope`. What a walk answers rests
on `FrontierInv`: each item of the queue stands there with its distance from the
start, the distances do not decrease along the queue and differ by one at most, and
whatever has been visited and is no longer in the queue did not count and leads only
to what has been visited, unless it is at the limit of the hops. From that, `Frontier`
follows: what is as near to the start as everything in the queue has been visited,
since a path to something else would have to leave the visited nodes at one that is in
the queue and nearer. An item that matches is then reached within the hops; if the
queue runs out, no path within them leads to anything that counts. For the reply, `ScoresOf` shows that a memory is skipped exactly
if it fails one of the request's filters, `FactsAreBy` that all walks together say yes
exactly if the facts asked for can be reached, `ResultsInv` that the results are the
memories that match among those looked at so far, and `RankIsBest` that the sorted and
cut sequence of any such set is the best of it. `ScoresOf` needs `ResolutionAssumption`:
the code takes a score of zero for "does not match", and in the model, where scores are
multiples of 1/`Unit`, a score that is not zero in the code must not be rounded to it.
It asks that `Unit` is no less than two to the `Horizon` and than the number of words
of a memory and a request together.

For the backup,
`BackupInv` says that what is in the file, or on its way there or back, is a graph
recalled from `home`, and `BehindIt` that what the import has passed is in `away`, or
failed. For the server, `ServingInv` says that the engine is open exactly while main
has not closed it, and that there is a handler only while `Serve` has not returned;
`AnswerInv` that no call which was over before an acknowledged one touches the
store after it; `KnownInv` that the node of an acknowledged Remember has been stored
by some call ever since, whose content is among the versions that a later Recall has to
reckon with (`RecallShows`), and carries it into answers and pages; `DrawInv` says that the ends of stored edges are stored or awaited.

Every invariant and action property of the passing runs is a theorem. Model-checked
only is liveness (`LockIsReleased`, `RecallReturns`, `EveryRequestReturns`,
`SignalEnds`): it rests on fairness, and so on `ENABLED`, which is outside what the
prover handles. Three of the properties of the violated runs are theorems where they do
hold: `DeletionIsJustified` without faults, `NoEdgeIsOrphaned` without crashes,
`RemovalIsJustified` for a single engine. In place of the fourth,
`PrivateIsForItsCreator`, there is what does hold, `PrivateIsAskedFor`.

## Not modelled

- The `query`, `list`, `stats` and `consolidate` commands: each opens the engine, calls
  operations that are modelled, and formats what it got.
- Encodings: protobuf, the generated code, JSON's details, the text of the SQL
  statements. Of the stores only what a call does to an entry matters. Entries that
  cannot be decoded are left out with them.
- The embedder's HTTP request: an embedding arrives or fails.
- An engine without a store, which an empty `--db-path` gives, or
  `storage_backend=postgres` without a connection string: its calls store nothing and
  succeed, so that `AckedReachStore`, `AnsweredStands`, `AckedIsDurable` and whatever
  else speaks of a store say nothing of it. Also changes to the maps of an engine that
  has been closed.
- In `Ingester`, event IDs that are minted and edges that a second reading stores
  again under new IDs.
- What statements that commit late do to more than one engine, and store faults in
  `SharedStore` at all: its question is what stale copies do to a store that
  works.
- What the page looks like: its filters, details and layout.
