--------------------------- MODULE UpdateExecute ---------------------------
(***************************************************************************)
(* store/update.go: clients build trees of Updates and Execute them against *)
(* one store.  Execute turns a tree into instructions (rows), drawing a     *)
(* fresh id for every child, commits them through the registered driver and *)
(* then announces the modified entities on c.Updates.                       *)
(*                                                                         *)
(* A tree is the sequence of its nodes in the order doExecute visits them   *)
(* (pre-order); node 1 is the root.  Kinds are abstracted into ids, values  *)
(* into predicates; a row keeps, as history, the execution that wrote it.   *)
(***************************************************************************)
EXTENDS Naturals, Sequences, FiniteSets, SequencesExt

CONSTANTS
  Clients,        \* goroutines that build and execute updates
  Ids,            \* what x.UniqueString(NumCharsUnique) can draw
  RootIds,        \* ids the application makes up itself, for NewUpdate
  Preds,          \* properties given to Set; "_delete_" may be one
  Unmarshalable,  \* those whose value json.Marshal refuses
  Sources,        \* authors
  Times,          \* commit timestamps
  None,           \* the empty string: no id yet, no source, no object
  Driver,         \* the registered store
  HasIndexer,     \* req.Context.HasIndexer
  MaxNodes,       \* bound: nodes of a tree
  MaxRetry,       \* 30 in the code: the last idx of the id retry loop
  MaxExecs        \* bound: executions, of all clients together

RowDrivers   == {"sqlstore", "mongodb"}
BatchDrivers == {"leveldb", "cassandra", "rethinkdb", "datastore"}

ASSUME Constants ==
  /\ Unmarshalable \subseteq Preds
  /\ {"_child_", "_parent_"} \cap Preds = {}
  /\ None \notin Ids \cup RootIds \cup Sources \cup Preds
  /\ Driver \in RowDrivers \cup BatchDrivers
  /\ HasIndexer \in BOOLEAN
  /\ MaxNodes \in Nat \ {0} /\ MaxRetry \in Nat /\ MaxExecs \in Nat

VARIABLES
  upd,       \* client -> its tree, <<>> before NewUpdate
  pc,        \* client -> "idle" (in user code), "visit", "commit" or "notify"
  pos,       \* client -> the node doExecute visits next
  idx,       \* client -> the retry loop's counter
  its,       \* client -> instructions generated so far
  at,        \* client -> instructions inserted, or announced, so far
  sent,      \* client -> entities this execution put on c.Updates
  n,         \* client -> the number of its last execution, 0 if none
  started,   \* executions started so far, by all clients
  reply,     \* execution -> what it returned, "none" before
  rows,      \* the store
  exited,    \* log.Fatal ended the process
  before     \* history: client -> the executions that had returned when its own started

client == <<pc, pos, idx, its, at, sent, n>>
\* What changes only when an Execute starts or returns, or the process exits.
outcome == <<n, started, reply, exited, before>>
vars   == <<upd, client, started, reply, rows, exited, before>>

Execs    == 1..MaxExecs
Subjects == Ids \cup RootIds
Node == [id: Subjects \cup {None}, source: Sources \cup {None},
         parent: 0..MaxNodes, edges: SUBSET Preds, ts: Times]
Row  == [s: Subjects, p: Preds \cup {"_child_", "_parent_"},
         o: Subjects \cup {None}, src: Sources \cup {None}, ts: Times,
         by: Execs]

Init ==
  /\ upd = [c \in Clients |-> <<>>]
  /\ pc = [c \in Clients |-> "idle"]
  /\ pos = [c \in Clients |-> 1]
  /\ idx = [c \in Clients |-> 0]
  /\ its = [c \in Clients |-> <<>>]
  /\ at = [c \in Clients |-> 0]
  /\ sent = [c \in Clients |-> <<>>]
  /\ n = [c \in Clients |-> 0]
  /\ started = 0
  /\ reply = [x \in Execs |-> "none"]
  /\ rows = {}
  /\ exited = FALSE
  /\ before = [c \in Clients |-> {}]

----------------------------------------------------------------------------
(* Building a tree: no locks and no store access, the client's own memory. *)

\* The client is in user code and the process is alive.
InUserCode(c) == pc[c] = "idle" /\ ~exited

Building(c) ==
  /\ InUserCode(c)
  /\ started < MaxExecs
  /\ UNCHANGED <<client, started, reply, rows, exited, before>>

\* An update starts at an id the application made up or read from the store.
NewUpdate(c) ==
  /\ Building(c)
  /\ \E id \in RootIds \cup {r.s : r \in rows}, ts \in Times :
       upd' = [upd EXCEPT ![c] =
         << [id |-> id, source |-> None, parent |-> 0, edges |-> {}, ts |-> ts] >>]

SetSource(c) ==
  /\ Building(c)
  /\ \E k \in DOMAIN upd[c], src \in Sources \cup {None} :
       upd' = [upd EXCEPT ![c][k].source = src]

\* Ancestors of the last node, and that node: where the next node in
\* pre-order can hang.
Ancestor(t, a, k) ==
  \/ a = k
  \/ a < k /\ \A j \in (a+1)..k : t[j].parent >= a

AddChild(c) ==
  /\ Building(c)
  /\ Len(upd[c]) < MaxNodes
  /\ \E k \in DOMAIN upd[c] :
       /\ Ancestor(upd[c], k, Len(upd[c]))
       /\ upd' = [upd EXCEPT ![c] = Append(@,
            [id |-> None, source |-> upd[c][k].source, parent |-> k,
             edges |-> {}, ts |-> upd[c][k].ts])]

\* Set, and MarkDeleted, which is Set("_delete_", true).
Set(c) ==
  /\ Building(c)
  /\ \E k \in DOMAIN upd[c], p \in Preds :
       upd' = [upd EXCEPT ![c][k].edges = @ \cup {p}]

\* setCommitTs on the root walks the whole tree; on a child SetCommitTs is
\* ignored, which is a stuttering step.
setCommitTs(t, ts) == [k \in DOMAIN t |-> [t[k] EXCEPT !.ts = ts]]

SetCommitTs(c) ==
  /\ Building(c)
  /\ upd[c] # <<>>
  /\ \E ts \in Times : upd' = [upd EXCEPT ![c] = setCommitTs(@, ts)]

----------------------------------------------------------------------------
(* Execute. *)

Execute(c) ==
  /\ InUserCode(c)
  /\ upd[c] # <<>>
  /\ started < MaxExecs
  /\ pc' = [pc EXCEPT ![c] = "visit"]
  /\ pos' = [pos EXCEPT ![c] = 1]
  /\ idx' = [idx EXCEPT ![c] = 0]
  /\ its' = [its EXCEPT ![c] = <<>>]
  /\ at' = [at EXCEPT ![c] = 0]
  /\ sent' = [sent EXCEPT ![c] = <<>>]
  /\ started' = started + 1
  /\ n' = [n EXCEPT ![c] = started + 1]
  /\ before' = [before EXCEPT ![c] = {x \in Execs : reply[x] # "none"}]
  /\ UNCHANGED <<upd, reply, rows, exited>>

Running(c, stage) == pc[c] = stage /\ ~exited

Return(c, r) ==
  /\ pc' = [pc EXCEPT ![c] = "idle"]
  /\ reply' = [reply EXCEPT ![n[c]] = r]
  /\ UNCHANGED <<n, started, before, exited>>

HasChildren(t, k) == \E j \in DOMAIN t : t[j].parent = k

\* doExecute refuses a node without a source if it has anything to write.
Refuses(t, k) ==
  \/ t[k].source = None /\ (t[k].edges # {} \/ HasChildren(t, k))
  \/ t[k].edges \cap Unmarshalable # {}

\* The rows of a node's own properties, in the map's random order.
EdgeRows(c, t, k) ==
  { [i \in DOMAIN ps |-> [s |-> t[k].id, p |-> ps[i], o |-> None,
                          src |-> t[k].source, ts |-> t[k].ts,
                          by |-> n[c]]] :
    ps \in SetToSeqs(t[k].edges) }

\* The two rows that tie a child to its parent, both in the parent's name.
LinkRowsChildFirst(c, t, k) ==
  LET p == t[t[k].parent]
  IN << [s |-> t[k].id, p |-> "_parent_", o |-> p.id,
         src |-> p.source, ts |-> p.ts, by |-> n[c]],
        [s |-> p.id, p |-> "_child_", o |-> t[k].id,
         src |-> p.source, ts |-> p.ts, by |-> n[c]] >>
LinkRows(c, t, k) ==
  LET p == t[t[k].parent]
  IN << [s |-> p.id, p |-> "_child_", o |-> t[k].id,
         src |-> p.source, ts |-> p.ts, by |-> n[c]],
        [s |-> t[k].id, p |-> "_parent_", o |-> p.id,
         src |-> p.source, ts |-> p.ts, by |-> n[c]] >>

\* Node k of tree t gives its rows after `links`; the walk then goes on to
\* the next node, or ends: no rows at all is an error, else commit.
Generate(c, t, k, links) ==
  /\ upd' = [upd EXCEPT ![c] = t]
  /\ idx' = [idx EXCEPT ![c] = 0]
  /\ UNCHANGED <<rows, at, sent>>
  /\ IF Refuses(t, k)
     THEN Return(c, "error") /\ UNCHANGED <<pos, its>>
     ELSE /\ \E es \in EdgeRows(c, t, k) :
               its' = [its EXCEPT ![c] = @ \o links \o es]
          /\ pos' = [pos EXCEPT ![c] = k + 1]
          /\ IF k < Len(t)
             THEN UNCHANGED <<pc, outcome>>
             ELSE IF its'[c] = <<>>
                  THEN Return(c, "error")
                  ELSE /\ pc' = [pc EXCEPT ![c] = "commit"]
                       /\ UNCHANGED outcome

VisitRoot(c) ==
  /\ Running(c, "visit")
  /\ pos[c] = 1
  /\ Generate(c, upd[c], 1, <<>>)

\* log.Fatal: the assertion that no child has an id yet.
FatalChildId(c) ==
  /\ Running(c, "visit")
  /\ pos[c] > 1 /\ idx[c] = 0
  /\ upd[c][pos[c]].id # None
  /\ exited' = TRUE
  /\ UNCHANGED <<upd, client, started, reply, rows, before>>

\* The drivers look for a row with that subject; rethinkdb looks, and answers
\* TRUE whatever it finds.
RowsIsNew(id) == \A r \in rows : r.s # id
RethinkIsNew(id) == TRUE

IsNewUnread(id) == TRUE
IsNew(id) == IF Driver = "rethinkdb" THEN RethinkIsNew(id) ELSE RowsIsNew(id)

\* A child is about to draw an id: the first time, or again.
Drawing(c) ==
  /\ Running(c, "visit")
  /\ pos[c] > 1
  /\ idx[c] > 0 \/ upd[c][pos[c]].id = None

VisitChild(c) ==
  /\ Drawing(c)
  /\ \E id \in Ids :
       LET t == [upd[c] EXCEPT ![pos[c]].id = id]
       IN IsNew(id) /\ Generate(c, t, pos[c], LinkRows(c, t, pos[c]))

\* A drawn id is refused: it is taken, or IsNew could not read the store and
\* answered FALSE.  After the draw with idx = MaxRetry Execute gives up; the
\* child keeps the refused id.
DrawRejectedUncounted(c) ==
  /\ Drawing(c)
  /\ \E id \in Ids : upd' = [upd EXCEPT ![c][pos[c]].id = id]
  /\ idx' = [idx EXCEPT ![c] = 1]
  /\ UNCHANGED <<rows, pc, pos, its, at, sent, outcome>>
DrawRejectedOnceMore(c) ==
  /\ Drawing(c)
  /\ \E id \in Ids : upd' = [upd EXCEPT ![c][pos[c]].id = id]
  /\ UNCHANGED <<rows, pos, its, at, sent>>
  /\ IF idx[c] > MaxRetry
     THEN idx' = [idx EXCEPT ![c] = 0] /\ Return(c, "error")
     ELSE /\ idx' = [idx EXCEPT ![c] = @ + 1]
          /\ UNCHANGED <<pc, outcome>>
DrawRejected(c) ==
  /\ Drawing(c)
  /\ \E id \in Ids : upd' = [upd EXCEPT ![c][pos[c]].id = id]
  /\ UNCHANGED <<rows, pos, its, at, sent>>
  /\ IF idx[c] >= MaxRetry
     THEN idx' = [idx EXCEPT ![c] = 0] /\ Return(c, "error")
     ELSE /\ idx' = [idx EXCEPT ![c] = @ + 1]
          /\ UNCHANGED <<pc, outcome>>

----------------------------------------------------------------------------
(* Commit, by driver. *)

ReportsNever == FALSE
Reports == Driver \in {"leveldb", "sqlstore", "datastore"}

\* Commit returned nil.
Committed(c) ==
  /\ at' = [at EXCEPT ![c] = 0]
  /\ IF HasIndexer
     THEN /\ pc' = [pc EXCEPT ![c] = "notify"]
          /\ UNCHANGED outcome
     ELSE Return(c, "ok")

\* The write failed: reported to Execute, or logged and swallowed.
CommitFailed(c) ==
  IF Reports THEN Return(c, "error") /\ UNCHANGED at ELSE Committed(c)

Committing(c) ==
  /\ Running(c, "commit")
  /\ UNCHANGED <<upd, pos, idx, its, sent>>

\* leveldb.Batch, a logged batch, Insert(its) or PutMulti.
CommitBatch(c) ==
  /\ Committing(c)
  /\ Driver \in BatchDrivers
  /\ rows' = rows \cup ToSet(its[c])
  /\ Committed(c)

\* What a failed batch may leave behind: nothing in leveldb, all or nothing
\* in a cassandra logged batch (it may be applied after a timeout), any part
\* of it in the other two.
SurvivingAnyPart(batch) == SUBSET batch
Surviving(batch) ==
  CASE Driver = "leveldb" -> {{}}
    [] Driver = "cassandra" -> {{}, batch}
    [] OTHER -> SUBSET batch

CommitBatchFails(c) ==
  /\ Committing(c)
  /\ Driver \in BatchDrivers
  /\ \E S \in Surviving(ToSet(its[c])) : rows' = rows \cup S
  /\ CommitFailed(c)

\* sqlstore and mongodb insert one row after the other.
InsertRow(c) ==
  /\ Committing(c)
  /\ Driver \in RowDrivers
  /\ rows' = rows \cup {its[c][at[c] + 1]}
  /\ IF at[c] + 1 < Len(its[c])
     THEN /\ at' = [at EXCEPT ![c] = @ + 1]
          /\ UNCHANGED <<pc, outcome>>
     ELSE Committed(c)

InsertRowFails(c) ==
  /\ Committing(c)
  /\ Driver \in RowDrivers
  /\ rows' \in {rows, rows \cup {its[c][at[c] + 1]}}
  /\ CommitFailed(c)

----------------------------------------------------------------------------
\* Execute goes through its instructions again and announces each entity
\* once.  The channel has room here; module Indexing has it full and closed.
AnnounceEach(c, e) == Append(sent[c], e)
Announce(c, e) == IF e \in ToSet(sent[c]) THEN sent[c] ELSE Append(sent[c], e)

Notify(c) ==
  /\ Running(c, "notify")
  /\ sent' = [sent EXCEPT ![c] = Announce(c, its[c][at[c] + 1].s)]
  /\ at' = [at EXCEPT ![c] = @ + 1]
  /\ UNCHANGED <<upd, pos, idx, its, rows>>
  /\ IF at[c] + 1 < Len(its[c])
     THEN UNCHANGED <<pc, outcome>>
     ELSE Return(c, "ok")

\* One step of an Execute that is under way.
Step(c) ==
  \/ VisitRoot(c) \/ FatalChildId(c) \/ VisitChild(c) \/ DrawRejected(c)
  \/ CommitBatch(c) \/ CommitBatchFails(c) \/ InsertRow(c) \/ InsertRowFails(c)
  \/ Notify(c)

\* The process has exited, or every execution has been made.
Done ==
  /\ exited \/ \A c \in Clients : pc[c] = "idle" /\ started = MaxExecs
  /\ UNCHANGED vars

Next ==
  \/ \E c \in Clients : NewUpdate(c) \/ SetSource(c) \/ AddChild(c) \/ Set(c)
                        \/ SetCommitTs(c) \/ Execute(c) \/ Step(c)
  \/ Done

\* A goroutine inside Execute keeps running; nobody is made to call it.
Spec == Init /\ [][Next]_vars /\ \A c \in Clients : WF_vars(Step(c))

----------------------------------------------------------------------------
(* Properties. *)

\* The type of every variable of an Execute and of the store.
TypeOK ==
  /\ upd \in [Clients -> Seq(Node)]
  /\ \A c \in Clients : Len(upd[c]) <= MaxNodes
  /\ pc \in [Clients -> {"idle", "visit", "commit", "notify"}]
  /\ pos \in [Clients -> 1..(MaxNodes + 1)]
  /\ idx \in [Clients -> 0..MaxRetry]
  /\ its \in [Clients -> Seq(Row)]
  /\ at \in [Clients -> Nat]
  /\ sent \in [Clients -> Seq(Subjects)]
  /\ n \in [Clients -> 0..MaxExecs]
  /\ started \in 0..MaxExecs
  /\ reply \in [Execs -> {"none", "ok", "error"}]
  /\ rows \subseteq Row
  /\ exited \in BOOLEAN
  /\ before \in [Clients -> SUBSET Execs]

\* Two executions give the same id to a created entity only if they
\* overlapped: IsNew makes an execution see all that returned before it.
SequentialIdsDistinct ==
  \A c \in Clients : \A i \in DOMAIN its[c] :
     its[c][i].p = "_parent_" =>
        ~ \E q \in rows : q.s = its[c][i].s /\ q.by \in before[c]

\* What the last Execute of the client returned.
Answered(c, r) == n[c] > 0 /\ reply[n[c]] = r

\* "Returns any errors encountered during these steps": an Execute that
\* returned nil has all of its instructions in the store.
AckedStored ==
  \A c \in Clients : Answered(c, "ok") => ToSet(its[c]) \subseteq rows

\* When Execute returns nil the indexer was told of every entity it wrote,
\* once; before the commit it was told of none, so that an entity announced
\* is one whose rows can be read back.
AnnouncedOnce ==
  \A c \in Clients :
    /\ HasIndexer /\ Answered(c, "ok") =>
         /\ ToSet(sent[c]) = {its[c][i].s : i \in DOMAIN its[c]}
         /\ IsInjective(sent[c])
    /\ \A i \in DOMAIN sent[c] :
         \E r \in rows : r.s = sent[c][i] /\ r.by = n[c]

Status(x) == IF x <= started /\ reply[x] = "none" THEN "open" ELSE reply[x]

Store == INSTANCE EntityStore WITH
           Nobody <- None, Atomic <- Driver = "leveldb",
           status <- [x \in Execs |-> Status(x)]

\* Every execution, of whatever tree, however its sources and timestamps were
\* set while it was built and however its commit fails, does to the store
\* what EntityStore allows: its rows have an author and one timestamp and
\* hang together at every moment, and leveldb's batches are all or nothing.
StoreImplemented == Store!Spec

\* "A child can only have one parent by design."
SingleParent ==
  \A q, r \in rows : q.p = "_parent_" /\ r.p = "_parent_" /\ q.s = r.s
                     => q.o = r.o

\* "Child id should be empty for all current use cases": log.Fatal is there
\* for a state the authors hold to be unreachable.
ChildIdEmpty == ~exited

\* Every Execute returns, or the process exits: the search for a new id
\* stops even if the store refuses every one.
ExecuteReturns ==
  \A c \in Clients : pc[c] # "idle" ~> (pc[c] = "idle" \/ exited)
=============================================================================
