# A TLA+ model of gocrud

gocrud stores entities as rows of a versioned edge table ("subject, predicate,
object, author, time") in one of several data stores, keeps a search index in
step with the store, and answers queries over trees of entities. This directory
models the parts of it where order, failure and concurrency matter: it states
what has to hold, has TLC check it on small instances and TLAPS prove the most
important of it for all.

    tlc -workers 2 -config UpdateSql.cfg MCUpdateExecute.tla     # one run
    tlapm IndexingProofs.tla                                     # one proof module

`PROJECT.json` lists the runs, the source lines behind every definition, a
mutated definition that each checked property catches, the hazards of the code
and the places where code and documentation disagree.

## The system

| component | state | operations | talks to |
|---|---|---|---|
| updates, `store/update.go` | a tree of `Update` nodes: id, source, timestamp, edges, parent, children | `NewUpdate`, `SetSource`, `AddChild`, `Set`, `MarkDeleted`, `SetCommitTs`, `Execute` | calls `IsNew` and `Commit` of the driver, sends modified entities on `Context.Updates` |
| queries, `store/query.go` | a tree of `Query` nodes; one goroutine and one result channel per entity while it runs | `NewQuery`, `Collect`, `UptoDepth`, `AllowDeleted`, `FilterOut`, `Run` | calls `GetEntity` of the driver from every goroutine |
| drivers, `drivers/*` | the rows | `IsNew`, `Commit`, `GetEntity`, `Iterate` | a database |
| indexer, `indexer/indexer.go` | the bounded channel `Context.Updates`, worker goroutines, a `WaitGroup` | `Run`, `processUpdates`, `WaitForDone` | receives what `Execute` sends, calls the application's `Indexer`, hands documents to the search engine |
| index server, `indexer/server.go` | a bounded channel, worker goroutines, the walk's position | `LoopOnce`, `InfiniteLoop`, `regenerateAndIndex`, `Finish` | pages over the store with `Iterate`, otherwise like the indexer |
| application indexer, `examples/social` | none | `OnUpdate`: which entities a change makes dirty; `Regenerate`: the document of an entity | runs queries |
| `main` of `examples/social` | its place in its script, the channel it prints from | executes updates, queries, searches, iterates, `WaitForDone` | all of the above |
| search engines, `drivers/memsearch`, `drivers/elasticsearch` | documents, each with a timestamp | `Update`, which refuses a document that is not newer; queries with filter, order and page; `Count` | |
| context `req`, helpers `x`, `testx`, examples, presentation | constants, conversions | | |

What is hard in it, component by component, and what makes it correct:

* **Updates.** An id is checked for freshness long before the commit that uses
  it; a commit may fail at any row, or be reported as done when it failed; a
  tree can be executed again. Correct means that an execution's rows have an
  author each (a child may have one of its own) and one timestamp and hang on
  its root at every moment, that an
  acknowledged execution is stored and announced to the indexer once, and that
  `Execute` returns.
* **Versions.** An `Update` is stamped when it is made and may be executed much
  later, while others are; rows come back from the drivers in their own order.
  Correct means that a result never shows a value that was superseded before
  its update was even begun, credits the right authors, and loses no version.
* **Queries.** Each goroutine reads at its own moment while others commit; a
  goroutine can find out that its entity is discarded after it started children
  for it; errors cross goroutines. Correct means that `Run` returns, that what
  it returns lies between the tree at its start and the tree at its end, and
  that no goroutine and no error is lost.
* **leveldb.** Row keys are drawn at random and checked before they are written;
  entities are read by key prefix. Correct means that what was acknowledged is
  read back.
* **Indexer and index server.** Commits, notifications, reading the store and
  writing the index are separate steps of several goroutines; the channel is
  bounded; the process may be killed between any two steps, and a failed commit,
  a failed read of `OnUpdate` or a failed request to the engine drops an update
  without telling the indexer. Correct means that a document never falls below
  what it was sure to show, that whatever is stale has something under way that
  will repair it, but for what such a failure lost, that `WaitForDone` and `Finish` lose nothing, and that
  the server's walk skips nothing and ends.
* **Search engines.** A query object accumulates conditions, order and page in
  any order of calls; memsearch narrows it on every `Run` and `Count`, and its
  map has no lock. Correct means that `Run` returns the page asked for and
  `Count` the number of hits, and that a search during indexing finds what was
  indexed before.

## The modules

| module | models | lines of the system's code |
|---|---|---|
| `UpdateExecute` | updates and the commits of the six drivers | `store/update.go`, `IsNew`/`Commit` of `drivers/*` |
| `EntityStore` | abstract: what `Execute` promises of the store | implemented by `UpdateExecute` |
| `Columns` | versions of properties, from `Set` to `ToMap` | `store/update.go`, `store/query.go`, `x/x.go` |
| `Leveldb` | keys of the leveldb driver | `drivers/leveldb/leveldb.go` |
| `Query` | query trees and their goroutines | `store/query.go` |
| `Indexing` | from `Execute`'s notification to the search engine | `indexer/indexer.go`, `Update` of the engines, `examples/social` |
| `IndexServer` | the walk over the store, next to an application's own indexer | `indexer/server.go`, `Iterate` of leveldb and cassandra |
| `RegularIndex` | abstract: what the index promises | implemented by `Indexing` and by `IndexServer` |
| `IndexingRefines`, `ServerRefines` | history variables and refinement mappings to `RegularIndex` | |
| `SearchQuery` | the queries of both search engines | `drivers/memsearch`, `drivers/elasticsearch` |
| `Social` | a whole program: `main`, indexer, memsearch, leveldb's `Iterate` | `examples/social/social.go`, composed with `Indexing` |
| `IndexingProofs`, `IndexServerProofs` | theorems of the module so named, and that it implements `RegularIndex` | |
| `UpdateExecuteProofs`, `ColumnsProofs`, `QueryProofs`, `LeveldbProofs`, `SearchQueryProofs`, `SocialProofs` | theorems of the module so named | |
| `MC*` | instances for TLC | |

**UpdateExecute.** A client's tree is a sequence of nodes in the order
`doExecute` visits them, each with the position of its parent. Building actions
(`NewUpdate`, `AddChild`, ...) are user code and only change the tree. `Execute`
starts the visit; `VisitRoot` and `VisitChild` are one call of `doExecute` each
up to the recursion, which generates the instructions of a node and, for a
child, one draw of an id: `DrawRejected` is a draw the store refuses, with the
loop counter that ends in an error. `CommitBatch` and `InsertRow` are the
drivers' two ways to write, their `Fails` twins an error of the database, and
`Reports` says which drivers pass that error on. `Notify` sends entities on the
channel. `FatalChildId` is the `log.Fatal` of `doExecute`. The rows carry the
number of their execution as a history, so that properties can say "the rows
of one execution".

**EntityStore** is the promise behind it, in two variables: the rows, and what
became of each execution. An open execution may add rows of its own as long as
each has an author and all have one timestamp and hang together; it may answer "ok"
only when they are whole, every link with its counterpart in the same author's
name; and if the driver
writes in batches nobody sees a part. `StoreImplemented` says that
`UpdateExecute` implements it; the mapping reads the status of an execution off
`started` and `reply`, and `Atomic` off the driver.

**Columns.** Here a value is the execution that wrote it. `NewUpdate` reads the
clock, `Set` and `Execute` follow at any distance, `Insert` is the driver's row;
`Run` sorts the entity's rows with a sort that is not stable and adds them to
columns, with the `log.Fatal` of `Versions.add` as a state of its own. `Latest`
and `Oldest`, `Modifiers` and `Creators` are what `ToMap` takes from columns
that it visits in random order, so the latter two are sets of possible answers.

**Leveldb.** One action per call of `Has` (`Draw`, `HasFails`) and one for the
batch (`Write`, `WriteFails`). After the last refused draw the key stands
(`TryAgain`), as in the code, where the return that should follow is
unreachable. `GetEntity` and `IsNew` are operators on the store: an iterator
reads a snapshot and changes nothing. Ids are sequences of characters, since it
matters which id continues which; `"_"` may be in them.

**Query.** A task is a goroutine of `doRun`, named by its path of object ids
from the root. `GetEntity` reads the entity's rows and runs the loop over them
up to the wait, since nothing in the loop can block (starting a goroutine does
not). `Deliver*` and `Meet` are the rendezvous on the unbuffered channel of the
parent. An error is a result that no entity's path is in (`Err`). `Commit` is another client. A discarded task leaves its children
blocked for ever, as in the code.

**Indexing.** Rows are abstracted to a version per entity, documents to the
versions they were computed from and the time they are stamped with. `Commit`
and `Send` are the end of `Execute`; `CommitFails` is a driver that writes row
by row and fails after some: the entities up to there have new rows and
`Execute` returns the error without announcing one (`update.go:247-249`). A
worker's `Receive`, `StartRegenerate`, `ReadNext`, `ElasticUpdate` (or
`MemLookup` and `MemWrite`, memsearch's unlocked check and write) and
`WorkerExit` are `processUpdates`. `OnUpdateFails` is a `Receive` where one of
`OnUpdate`'s two reads of the store fails: the code then leaves out the parent
and tells nobody (`social.go:64-71`). `Close` and `WaitReturns` are
`WaitForDone`; a send on the closed channel is a panic. `Crash` is a kill at any
step, after which pending notifications are gone.

The code forgets an update in four ways, and `lost` is the history of them: the
pairs of a document and an entity whose last update that document may miss.
`CommitFails` adds every document computed from the entities it stored,
`OnUpdateFails` the documents it left out, `ElasticFails` the document that was
refused, with what it alone would have shown, and `Restart` what was on its way
when the process died (all, for memsearch). The next announced update of the
entity repairs them and takes its pairs out. The properties say that nothing
else is ever missed.

**IndexServer.** `Iterate` is the driver's query, a snapshot; `Send` hands over
one entity and blocks while the channel is full; `ChunkDone` starts the next
chunk or ends the cycle; the workers regenerate and update as above, and the
order of the timestamps they took is kept as a relation, `older`, between the
goroutines that have a document under way. The
`AppWorkers` are the goroutines of an indexer in an application, which
`indexer/doc.go` recommends to use next to the server; both write to one search
engine, and either process may be killed alone. With `SkewedClocks` they read
different clocks.

**RegularIndex.** The index as its readers see it: the store's versions, what
each document shows of them, and a `floor` under what it will ever show again.
A document made anew may show less than the one before (another goroutine read
later and wrote earlier) but never less than the floor, which rises, and never
more than the store has: a regular register. `IndexingRefines` and
`ServerRefines` add two history variables to the detailed modules, the versions
in the store when a goroutine stamped its document (`began`) and when the
accepted document was stamped (`floor`), without changing a step, and map
`shown` to the documents' data. `IndexImplemented` is the refinement.

**SearchQuery.** A query object is a record of filter, order, page and, for
memsearch, the documents copied by `NewQuery`; the engine is a variable, so one
run has both. memsearch's `Run` and `Count` narrow the copied documents as the
code does, `MemFails` is a filter with an empty field; elasticsearch's put the
question they generate to the service's index as it is then, and the service
(external) answers it. Sorting is an ordering that every sort of the documents
must respect; where documents are equal any order is possible.

**Social.** `main` of the example follows its script: executes, queries,
searches memsearch, iterates over leveldb through a channel that another
goroutine prints from, returns and waits for the indexer. It extends `Indexing`:
its `Execute` is that module's `Commit` and `Send`, the workers are unchanged.
`BeginSearch`, `Produce` and `EndSearch` are `NewQuery`'s range over the map,
one key at a time while workers write: Go produces every key that was there and
perhaps those added since, and may throw. `Fatal` is each `log.Fatal`.

Which module composes which: `UpdateExecute` refines what `Indexing` takes as
one `Commit` with a list of entities to send, `Leveldb` what `UpdateExecute`
takes as a set of rows written by one batch, `Query` what `Indexing` and
`IndexServer` take as reading the entities a document is computed from, and
`Columns` what `Query` takes as the content of an entity. `Social` composes the
indexer with a search engine's reader and the driver's walk; `IndexServer`
composes server and application indexer.

## The runs

Every property of a passing run is violated once a definition it depends on is
replaced by its mutant (`PROJECT.json`, "mutants").

| run | asks | bounds, and why they are enough |
|---|---|---|
| `UpdateSql` | `Execute` implements `EntityStore`; acknowledged = stored, announced once; on a store that writes row by row | one client, trees of 3 nodes (a chain and two siblings), 2 executions, 2 ids for at most 4 children, so that draws collide; retries end after 1 instead of 30 |
| `UpdateLeveldb` | `Execute` implements `EntityStore` with atomic executions; ids clash only between executions that overlap; `Execute` returns | two clients, 2 nodes each, 2 executions: overlap and succession both occur; a value that cannot be marshalled, and every failure of the store |
| `Columns` | no superseded value is shown, creator and modifier are right, no version is lost | two clients, two properties, three executions at three times: an update made first can be executed last, fail half-way or be executed twice, around a query |
| `LeveldbKeys` | what is acknowledged is read back; the inductive invariant of the proof; `Commit` returns | two clients, 3 commits of 1 or 2 rows, 2 suffixes, 2 tries, an id that continues another: the space of keys fills up, keys collide in each of the ways they can |
| `QuerySafety` | results lie between the trees at start and end, and are whole unless an error was given; leaks only below discarded entities; until `Run` has returned some goroutine can go on | all query trees of 3 nodes over a user, a post and a like, two batches of other clients, one that deletes the post at the moment it got the like (either row may come first) and one that adds a post, failing reads |
| `IndexingSafety` | what was not lost by a failure is never forgotten: stale documents have a repair, a quiescent index is fresh, `WaitForDone` loses nothing; the inductive invariant of the proof; the indexer implements `RegularIndex` | two producers, two workers, a channel of one place, three entities with dependent documents, 2 commits, one restart: two regenerations of one document overlap in every order, the channel fills, a kill falls between any two steps; any commit, any `OnUpdate` and any request to the engine may fail, and a later commit repairs what the first lost |
| `IndexingLiveness` | stale documents become fresh unless a failure lost what they lack, `WaitForDone` returns | two entities, two workers, two producers, two commits, the same failures, a kill and a restart at any step |
| `Social` | a search during indexing finds what was indexed before, up to date where nothing was pending; the program ends, with everything printed once | a user with two posts, three executes with two workers behind them, two searches and a walk; both channels have one place, so both fill |
| `ServerOnce` | `LoopOnce` and `Finish` on cassandra skip and lose nothing | three entities, one of two rows (so that a chunk of 2 rows may cut it) and one created during the walk, two workers, a channel of one place, a failure or a kill |
| `ServerForever` | each cycle of the loop ends and the index catches up; server and application together implement `RegularIndex` | two entities, a worker in each process, so that two regenerations of one entity overlap, and one failure or kill |
| `SearchPage` | `Run` returns the right page and `Count` the number of hits: memsearch the first time, elasticsearch always | three documents of one kind and one of another, with equal and missing fields, two conditions, every offset up to past the end, updates while the query is built, two calls |
| `ServerLeveldbEnds` (violated) | `LoopOnce` returns, on leveldb | two entities: each chunk starts at the last entity of the one before, so none is empty and the walk never ends |

The last one states what a comment of the repository says and is refuted by what
the code does; `PROJECT.json`, "findings", quotes the lines.

Further configurations lie beside the runs. These show other places where code
and documentation part, or what a property would need to hold, each by a
violation of the one property it names:

| configuration | what TLC finds |
|---|---|
| `UpdateSingleParent` | two overlapping `Execute`s draw the same id and both commit it: a child with two parents (`update.go:54-55`) |
| `UpdateChildId` | executing a tree again ends the process with `log.Fatal`: children keep the ids drawn first (`update.go:181-185`) |
| `UpdateAckedMongodb` | a failed commit is reported as success (`mongodb.go:52`; the same with `Driver = "cassandra"`, `cassandra.go:97`, and `"rethinkdb"`, `rethink.go:74`) |
| `ColumnsSetReplaces` | `Set` does not replace the value there was if the `Update` was made before that value's: it keeps the time of `NewUpdate`, however late it is executed (`update.go:67-69`) |
| `LeveldbExhausted` | after the tenth taken key the row under it is overwritten (`leveldb.go:68-81`) |
| `LeveldbPrefix` | `GetEntity` returns rows of another entity whose id continues the given one (`leveldb.go:106`) |
| `QueryLeaks` | goroutines stay blocked for ever below a discarded entity (`query.go:192-217`) |
| `QueryAllowDeleted` | `AllowDeleted` on a collected kind has no effect (`query.go:238`) |
| `QueryErrors` | an error of a child is not returned: the parent calls `Error()` on its own nil error and panics |
| `IndexingMemRegress` | two workers write a document of memsearch in the wrong order (`memsearch.go:67-72`) |
| `IndexingCoarseClock` | two documents with the same timestamp: the newer is refused (`social.go:80`) |
| `ServerSkew` | with two clocks that disagree, a document of server and application falls below what was sure before |
| `SearchAnd` | memsearch's AND filter works as an OR filter (`memsearch.go:244`) |
| `SearchPast` | an offset past the end starts over at the first page (`memsearch.go:319`) |
| `SearchCount` | memsearch's `Count` counts documents `Run` would not return (`memsearch.go:328-335`) |

One more holds: `QueryReturns` (`Run` returns or panics, also on a value that
cannot be decoded; `QuerySafety` checks its core, that nobody is stuck, on more
queries).

Several properties are conditional on what the code makes them depend on, and
say so: those of `Indexing` on what is not `lost`, `FreshAfterFinish` on no failure of store or engine (a failed update is
only logged), `SequentialIdsDistinct` on executions that do not overlap,
`AckedReadBack` on keys that did not collide, and the properties of
`SearchQuery`, for memsearch, on what the configurations above show it not to do.

`CHECK_DEADLOCK FALSE` stands in the configurations of `Query`, where the
program stops after `Run` returned, and of `Leveldb` and `Columns`, where
clients stop committing. The other modules have a last action for a system at
rest (`Done`, `Stopped`, the last disjunct of `SNext`) or can always go on, so
TLC looks for deadlocks among the goroutines.

## Fairness

A goroutine that can take a step eventually takes one: weak fairness for every
client inside `Execute` or `Commit`, for the goroutines of a query, for every
worker, for the loop of the server, and for `main` and the printing goroutine
of `Social`, where that is why `NewQuery`'s range, `Iterate` and `WaitForDone`
end. This is what Go's scheduler gives.
Senders on the full channel have strong fairness in `Indexing`: a Go channel
serves blocked senders in the order they came, so one cannot be passed over for
ever. Nobody is made to call anything: user code may stop, other clients need
not commit, `WaitForDone` need not be called, a killed process need not be
restarted, and failures of the database are bounded per run where a property
says that something eventually succeeds. `Social`'s `Fatal` and `RangeThrows` have no
fairness either way: the program may die, or not.

## What is proved

`IndexingProofs` (tlapm, SMT and Zenon, LS4 for the temporal steps) proves for
any sets of entities, producers and workers, any channel capacity, any number
of commits and restarts, and any application indexer that keeps to the contract
`IndexerContract` (when its reads succeed, `OnUpdate` names every document that is
computed from the updated entity; when they fail it may name that entity alone):

* `TypeCorrect`, and `WorkersDrain`: a worker stops only when the channel is
  closed and drained, `WaitForDone` returns only when all have. No assumption
  on engine or clock.
* With elasticsearch and a clock whose readings differ: `IndexFollowsStore`
  (`IndInv`), and from it `NothingForgotten` (a stale document has something
  under way that will repair it), `QuiescentIsFresh` and `WaitForDoneIsFresh`:
  each but for the pairs in `lost`, which only a commit that failed half-way, a
  failing read of `OnUpdate`, a failure of the engine or the end of the process
  can add.

*The argument.* That a stale document has a repair under way is not inductive:
it says nothing of what a worker has read so far, so a step that writes a
document could not be shown to write one that is new enough. `IndInv` adds
three facts. `Clocked`: stamps and commit times are not in the future.
`JobFaithful` and `DocFaithful`: a document under way, or indexed, shows every
commit not younger than its stamp, as far as it has been read. `Repairable`: a commit
that the indexed document does not show is pending: in a producer's list, on
the channel, on a worker's dirty list or in a regeneration stamped after it, or
it is `lost`. It holds of a dead process too: what was pending in it is what
`Restart` adds to `lost`. The stamp is taken before the reading; that is what carries
the argument, and the mutant `ReadStampedLate` breaks it. Each action has a
step in the proof, and under it one per part it can disturb. When nothing is
pending, `Repairable` gives freshness.

The last part of `IndexingProofs` proves the refinement, for the same constants,
with elasticsearch and a strict clock: `HistoryHolds` (`HistoryInv`) and
`IndexerImplementsRegularIndex`, `HSpec => IndexImplemented`. That a document
does not fall below the floor needs to know how the goroutines under way were
ordered, since the engine compares stamps and the floor is about contents. So
`HistoryInv` says that what a goroutine has read of an entity is at least what
was there when it began (`ReadSince`), that of two goroutines the one stamped
later began on a store no older (`BegunInOrder`), and that one whose document
will still be accepted began above the floor (`AboveFloor`). Each step of the
indexer then is a `Commit` of `RegularIndex` (a producer's, whole or cut short), a `Refresh`
(an accepted update) or a stutter; `TypeOK` and `IndInv` carry over, since the
history variables change no step.

`LeveldbProofs` proves of `Leveldb`, for any clients, ids, suffixes, batches
and number of tries, `TypeCorrect`, `KeysStayApart` (`KeyInv`) and from it
`AckedStaysReadable`: what `Commit` acknowledged is returned by `GetEntity`,
and its subject is not new, unless its key collided. `AckedReadBack` speaks of
written rows only; the invariant adds that a drawn, uncollided key is free and
nobody else's, so that writing it replaces nothing.

`UpdateExecuteProofs` proves, for any clients, ids, predicates, sizes of trees
and number of tries:

* `TypeCorrect`, for every driver. By itself `TypeOK` is not inductive, the walk
  uses more of the tree than its type; `CallOK` adds that parents come first,
  that the nodes before the walk's position have ids and the others that need
  one get one before their rows are made.
* `AckedIsStored` and `AnnouncedExactlyOnce`, for a driver that reports the
  failures of its commits (`Reports`: leveldb, the SQL drivers, datastore). The
  others log and swallow them, and there the properties are false
  (`UpdateAckedMongodb`). `StoreOK` says which of an execution's rows are in the
  store at each point of the commit, `SentOK` which of its entities have been
  announced.
* `IdsStayDistinct`, for every driver but rethinkdb, whose `IsNew` is true of
  every id (`rethink.go:60-63`): an id drawn by an execution that began after another had
  been answered differs from those the other gave, failed or not, because a
  link's row was found by `IsNew` or was never stored.
* `ExecuteImplementsStore`, the refinement of `EntityStore`, for leveldb, whose
  batches are atomic, and the SQL drivers, whose rows come one by one. The
  other drivers may keep any part of a batch, which `EntityStore` excludes.
  `BatchOK` carries it: the instructions made so far have an author each and one
  timestamp, every link its counterpart by the same author (a node's links are
  made in the name of the parent, and `SetSource` may give a child another
  author for its own values), and each row's entity is the root's or
  linked by an earlier row, so that every prefix hangs together.

`ColumnsProofs` proves of `Columns`, for any clients, properties and executions,
`TypeCorrect` and `RetainsVersions` with any clock, `ShowsLastSet` and
`CreditsCorrect` where no two updates have one timestamp. The invariant `IInv`
says where every row comes from: stamps are not in the future (`StampsOK`), a
row still to be inserted is not acknowledged (`ExecsOK`), what had been
acknowledged when an `Update` was made is older than the `Update` (`SinceOK`, which
needs the strict clock), and a column that is shown has all that was
acknowledged when the query began, in the order of time (`ResultOK`). With equal
timestamps the order of two versions is that of an unstable sort, and nothing
can be said of which is shown.

`QueryProofs` proves of `Query`, for any finite stores and batches, ids, kinds,
filters, query trees and depths, with and without failing reads, `TypeCorrect`,
`LeaksBelowDiscarded`, `NothingMissing`, `NoRunIsStuck` and `BetweenReadings`. What is left
behind depends on who counted whom, so the invariant `IInv` is about counting: a goroutine waits for
as many as are pending, which are the children it started and has not heard
(`Waiting`); one that hands on or has handed on a result that is neither empty
nor an error has none pending, and no error is ever taken (`Answered`); every
goroutine was started by one that has read its rows (`Tree`). Reading spawns
children that are nobody's yet, so it changes what is pending for the reader
only; a delivery takes one from what is pending for the parent, and nothing
from anybody else. When `Run` has returned, the root's goroutine is done; on
the path of an unfinished one there is then a first that is not done, and its
parent, which is done with a child pending, was discarded. These proofs need no
assumption on the code beyond finite stores.

`NoRunIsStuck` is the absence of deadlock. `NeverStuck` says it with the guards
of the goroutines' steps, `SomebodyCanGoOn`, and not with `ENABLED`, of which the
provers know nothing; in the states of `QuerySafety` the two are the same, and if
the guards promised a step that cannot be taken, `RunReturns` would fail. If the
root's goroutine has no result to hand on, it reads or it waits. One that reads
can always go through its rows, to the earliest that ends the loop. Of the
goroutines that wait take one that is deepest, which exists since depths are
bounded (`Running`): by the counting of `IInv` it waits for a child that it did
start and that is not done, and which does not wait, being deeper. So that child
reads, or meets its parent.

`BetweenReadings` says that a result of `Run` is sandwiched: if no read failed, a
path of entities that the query meant when `Run` was called, and that nothing
has deleted or filtered since, is in it; and a path in it is linked now, is
within the depth, and was not deleted or filtered when `Run` was called.
`SandwichedAnyLength` says so of paths of every length, where the runs look at
up to three entities. The invariant `Heard` says of every goroutine what it was told, by which link
(`Placed`); what it must have read, from what was in the store when `Run` was
called and what is in it now (`ReadAll`); and that its result has only entities
that were kept, each with its parent's, and has gone into that of who heard it
(`Merged`). It does not speak of the meaning of the query. That comes
afterwards, along a path: `InPlace` says that the goroutine of a prefix is at
the place where the meaning has it, and goes from each prefix to the next. Of a path
that was visible all along there is no first prefix whose goroutine was not
started or did not keep its entity, and no last one whose result lacks the path.
The inductions, and that the recursive function `NodesAlong` exists, go through
`Smallest`, the least element of a set of numbers, since the library's induction
takes an operator. The proof needs that there is one link from a parent to a
child (`OneLinkEach`), which the code gives: `doExecute` refuses a child that has
an id, draws a new one, and writes one link to it.

`IndexServerProofs` proves of `IndexServer`, for any entities in any number of
versions, any goroutines, channel capacity, chunk size of at least two and
either driver:

* `TypeCorrect` and `SkipsNothing`. They rest on what `Iterate` finds
  (`ChunkGives`): the entities in order, and of those after `from` none is missing
  before the last one found. For leveldb it is a prefix of all that follow, for
  cassandra the entities with fewer than `ChunkSize` rows before them. `LoopOK`
  keeps the position: what was stored when the cycle began is sent if it lies
  behind, and in the chunk or after it otherwise.
* `FreshWhenFinished`, for goroutines whose clocks agree (with others,
  `ServerSkew` shows how it fails). "Indexed or on its way" is not inductive,
  since a document on its way may be refused, or be accepted and then replaced.
  `Covered` says of an entity that was sent: it is on the channel, or in the job
  of a worker that has yet to stamp it, or in the document of a worker that
  will be accepted and after which only documents will be accepted that show
  enough, too; or the index shows enough and no document under way that shows less
  will be accepted. A worker that stamps an entity is the last in the order of
  stamps, so nothing can be accepted after it that was read before the cycle
  began. The applications' goroutines may be killed at any step, so none of them is
  relied on.

* `ServerImplementsRegularIndex`, `HSpec => IndexImplemented`, for clocks that
  agree. The invariant (`HistoryInv`) is that of the indexer's refinement in
  terms of the order `older`; a commit maps to `Commit` of one entity, an accepted
  update to `Refresh`, all else to a stutter.

`SearchQueryProofs` proves of `SearchQuery`, for any kinds, fields, conditions,
offered documents, pages and number of calls, and of any finite initial index with
one document for a key, `TypeCorrect`, `PageIsRight` and `CountIsRight`. For
memsearch these depend on what was called before, since each call narrows the
query's own documents. The invariant says what is left of them: as long as no
`Run` and no change of filter came, all that the query wants of what `NewQuery`
took is still there (`Whole`), however often it was counted. It says of an answer,
of either engine, that it is a page of some sorted list of exactly the documents
that can be shown (`Paged`). That such a page is the right one, with as many
documents as it should have and none missing that should have come before, is a fact
about sorted sequences (`WindowIsPage`). The filters' loop is a recursive
function; that it keeps the documents that match, once each, is proved of its
prefixes by the least one that fails (`Smallest` again), and so are the positions
in a sorted list counted. What is false of the code is not in the
properties: memsearch's conjunctions, offsets past the end, its ordered counts.

`SocialProofs` proves of `Social`, for any script, entities, workers, channels,
failures of store and engine and races on memsearch's map, with any clock,
`SearchFindsIndexed`, an action property of the step that ends a search. The
invariant `SearchInv` has two parts beside the types, which carry over from
`IndexingProofs`. `Bounded`: no document, indexed or in the making, is ahead of the
store. `Ranged`: while `NewQuery` ranges over the map, `main` executes and announces
nothing, so what was settled when the search began stays so: every write that
may still come to such an entity's document has all that the store has. A document
that was produced is not ahead of the store, and shows all of it where its entity was
settled; each entity that was indexed has been produced, once, or is still to come.

The assumption on clocks in `IndexingProofs` is that two readings differ
and are in the order in which they were made, as they are on one host
whose clock is not set back, and is not given by the code: the configurations
named above show what is lost without it. "Clocks that agree" may be several
hosts' in perfect step.

*Only model-checked:* liveness under fairness (`ExecuteReturns`, `CommitReturns`,
`EventuallyConsistent`, `LoopOnceReturns`, `EventuallyFresh`,
`WaitForDoneReturns`, `ScriptEnds`), which is out of the provers' reach. Every
invariant, every action property and every refinement that a run checks is a theorem
as well.

## Abstractions, and what is not modelled

* `UpdateExecute` takes leveldb's keys as never colliding and ids as never
  continuing one another; `Leveldb` has both.
* In `Indexing` a commit that succeeds, and the part of one that is stored before
  it fails, is one step. A reader between two rows of a row-by-row commit may see
  one entity's and not yet another's, which the model does not have; that all of
  them are announced after the last row is what brings such a document up to date.
  Notifications follow in order. A driver that swallows its error also announces
  entities of which nothing was stored, and the workers regenerate these as they are.
* Three checks of arguments: `Execute` ends the process where
  `Context.NumCharsUnique` is not positive (`update.go:231-234`, set-up), `Run`
  refuses an empty id (`query.go:284-286`, ids are members of a set here), and
  elasticsearch's `Update` refuses a document without id, kind or timestamp
  (`elastic.go:93-95`, `Regenerate` gives all three).
* Each child has one link from its parent (`OneLinkEach`, an assumption of
  `Query`): ids never drawn twice; an entity's kind is a function of its id everywhere.
* `search.Get()` returning nil, drivers without `Iterate` (they end the process)
  and `Register`, `Get`, `Init` of the registries are set-up and not modelled. A
  query that fails in the application's `Regenerate` is `log.Fatal`, so `Crash`.
* `Finish` while `InfiniteLoop` runs is not modelled: nothing in the repository
  calls it.
* `SearchQuery` starts from an index that has one document for a key, as `Update`
  keeps it. It has one client, and fields that hold numbers; conditions are the
  sets of values they accept. That elasticsearch makes an update searchable only
  at its next refresh is taken as the update happening then. memsearch's `Run`
  returns a slice of the query's own documents, which a later call on the same
  query may overwrite: the model's answers are values.
* `Social` takes a commit of leveldb as one step, as `Indexing` does, and the walk
  as a snapshot in some order of the keys; which entities its queries need is
  given with the script. A race on the map that tears a document is modelled as
  stamp and data each old or new.
* `Columns` has one entity, and no `SetCommitTs`: with times of the application's
  choice any version can be the latest. `ToMap` of a result without columns, where the time
  shown is that of the call, and `ToJson` are not modelled.
* The shared random source of `x.UniqueString` has no lock; what a race on it
  yields is, to `UpdateExecute` and `Leveldb`, one more arbitrary draw.
* gob and JSON conversions, logging, wording, `presentation`, `testx` and the
  other example programs are left out: data, layout or test set-up.

## Plan

Done: the modules above, in this order of importance: `Indexing` with its
proofs, `UpdateExecute`, `Query`, `IndexServer`, `SearchQuery`, `Leveldb` with its
proofs; then the abstract index and its two refinements, the abstract store,
`Columns`, and the composition `Social`; then the proofs of `UpdateExecute`,
`Columns`, `Query`, `IndexServer` and the second refinement, of `SearchQuery` and
`Social`, and that no `Run` is stuck.

Left to model: `Leveldb` composed with `UpdateExecute` and `IndexServer`: the
walk in key order over keys of prefix-related ids, and ids drawn against prefix
reads. Left to prove: of what the runs check, liveness only.
