-------------------------------- MODULE Query --------------------------------
(***************************************************************************)
(* store/query.go: a Query tree is built, then Run starts one goroutine for *)
(* the root entity, which reads the entity's rows and starts one for every  *)
(* child it follows, and so on.  Each goroutine hands its result, or an     *)
(* error, to its parent over an unbuffered channel.  Meanwhile other        *)
(* clients commit rows.                                                     *)
(*                                                                         *)
(* A Query tree is the sequence of its nodes, the root first; a node of the *)
(* generic kind, made for children nobody Collected, is number 0.  A        *)
(* goroutine is named by the path of entity ids from the root to its own;   *)
(* a Result is the set of the paths it contains.                            *)
(***************************************************************************)
EXTENDS Naturals, Sequences, FiniteSets, SequencesExt

CONSTANTS
  Root,         \* the id given to NewQuery
  Stores,       \* what the store may hold when the query is built
  Batches,      \* what other clients commit, each batch once
  Kinds,        \* kinds of children, the predicates of links
  Filters,      \* predicates given to FilterOut
  Undecodable,  \* predicates whose stored value json.Unmarshal refuses
  None,         \* the empty object id of a property's row
  Faults,       \* whether GetEntity may fail
  MaxNodes,     \* bound: nodes of the Query tree
  MaxLevel      \* bound: the argument of UptoDepth

\* A row: subject, predicate, object id, NanoTs.
IsRow(r) == DOMAIN r = {"s", "p", "o", "ts"} /\ r.s # None /\ r.ts \in Nat

\* A child has one link from its parent: Execute writes it with the id that it
\* has just made for the child.  So a path of ids names one goroutine.
IsLink(r, parent, child) == r.s = parent /\ r.o = child /\ r.p # "_parent_"
OneLinkEach(L) ==
  \A r1, r2 \in L : r1.o # None /\ IsLink(r1, r1.s, r1.o) /\ IsLink(r2, r1.s, r1.o) => r1 = r2

ASSUME QueryConstants ==
  /\ Root # None
  /\ \A S \in Stores \cup Batches : IsFiniteSet(S) /\ \A r \in S : IsRow(r)
  /\ \A S \in Stores : OneLinkEach(S \cup UNION Batches)
  /\ Faults \in BOOLEAN
  /\ MaxNodes \in Nat \ {0} /\ MaxLevel \in Nat

\* The result that is an error.  No goroutine has the empty path.
Err == {<<>>}

VARIABLES
  phase,    \* "build", "run", "returned", or "panicked": the process is gone
  query,    \* the Query tree
  rows,     \* the store
  batches,  \* batches still to be committed
  tasks,    \* path -> its goroutine
  result,   \* what Run returned
  before,   \* history: the store when Run was called
  failed    \* history: some goroutine met an error

vars == <<phase, query, rows, batches, tasks, result, before, failed>>

QueryNode(parent, kind, del) ==
  [parent |-> parent, kind |-> kind, filterOut |-> {}, maxDepth |-> 0, getDeleted |-> del]

\* NewQuery(Root).
Init ==
  /\ phase = "build"
  /\ query = <<QueryNode(0, None, FALSE)>>
  /\ rows \in Stores
  /\ batches = Batches
  /\ tasks = <<>>
  /\ result = {}
  /\ before = {}
  /\ failed = FALSE

----------------------------------------------------------------------------
(* Building the tree. *)

Building == phase = "build" /\ UNCHANGED <<phase, rows, batches, tasks, result, before, failed>>

Collected(k, kind) == {j \in DOMAIN query : query[j].parent = k /\ query[j].kind = kind}

\* A kind collected before gives the same node again: a stuttering step.
Collect(k, kind) ==
  /\ Building
  /\ Len(query) < MaxNodes
  /\ Collected(k, kind) = {}
  /\ query' = Append(query, QueryNode(k, kind, query[k].getDeleted))

UptoDepth(k, level) == Building /\ query' = [query EXCEPT ![k].maxDepth = level]
AllowDeleted(k)     == Building /\ query' = [query EXCEPT ![k].getDeleted = TRUE]
FilterOut(k, p)     == Building /\ query' = [query EXCEPT ![k].filterOut = @ \cup {p}]

Build ==
  \E k \in DOMAIN query :
    \/ \E kind \in Kinds : Collect(k, kind)
    \/ \E level \in 0..MaxLevel : UptoDepth(k, level)
    \/ AllowDeleted(k)
    \/ \E p \in Filters : FilterOut(k, p)

----------------------------------------------------------------------------
(* Running it. *)

Task(q, level, max, del) ==
  [q |-> q, level |-> level, max |-> max, del |-> del,
   pc |-> "get", wait |-> 0, out |-> {}]

Run ==
  /\ phase = "build"
  /\ phase' = "run"
  /\ tasks' = [path \in {<<Root>>} |-> Task(1, 0, query[1].maxDepth, query[1].getDeleted)]
  /\ before' = rows
  /\ UNCHANGED <<query, rows, batches, result, failed>>

Alive == phase \in {"run", "returned"}

FilterOf(q) == IF q = 0 THEN {} ELSE query[q].filterOut

\* The row makes doRun return at once with an empty result ...
Discards(t, r) ==
  \/ r.p = "_delete_" /\ ~t.del
  \/ r.p # "_parent_" /\ r.p \in FilterOf(t.q)
\* ... or with an error.
Breaks(t, r) == r.o = None /\ r.p \in Undecodable /\ ~Discards(t, r)

\* Whether the goroutine follows a link, and the goroutine it then starts.
Follows(t, r) ==
  /\ r.o # None /\ r.p # "_parent_"
  /\ Collected(t.q, r.p) # {} \/ t.level < t.max

ChildTaskParentDepth(t, kind) ==
  IF Collected(t.q, kind) # {}
  THEN LET k == CHOOSE j \in Collected(t.q, kind) : TRUE
       IN Task(k, t.level + 1, t.max, t.del)
  ELSE Task(0, t.level + 1, t.max, t.del)
ChildTask(t, kind) ==
  IF Collected(t.q, kind) # {}
  THEN LET k == CHOOSE j \in Collected(t.q, kind) : TRUE
       IN Task(k, 0, query[k].maxDepth, t.del)
  ELSE Task(0, t.level + 1, t.max, t.del)

\* The rows gone through, in NanoTs order with ties in any order, before the
\* loop ends at row `stop`, the first of `stops` it meets.
RowsSeen(its, stops, stop) ==
  LET earlier == {r \in its : r.ts < stop.ts}
      equal   == {r \in its : r.ts = stop.ts} \ stops
  IN IF \E r \in stops : r.ts < stop.ts
     THEN {}
     ELSE {earlier \cup S : S \in SUBSET equal}

\* The goroutine has gone through `seen`, started the children those name,
\* and goes on as `t2`.
Spawned(path, t, seen) ==
  LET links == {r \in seen : Follows(t, r)}
  IN [c \in {Append(path, r.o) : r \in links} |->
        ChildTask(t, (CHOOSE r \in links : r.o = Last(c)).p)]

Continue(path, t, seen, t2) ==
  LET kids == Spawned(path, t, seen)
  IN tasks' = [p \in {path} \cup DOMAIN kids \cup DOMAIN tasks |->
                 IF p = path THEN t2
                 ELSE IF p \in DOMAIN kids THEN kids[p] ELSE tasks[p]]

\* It hands `out` to whoever waits for it.
Answers(t, out) == [t EXCEPT !.pc = "send", !.out = out]
Done(t)         == [t EXCEPT !.pc = "done"]

WaitsForOneMore(t, kids) ==
  [t EXCEPT !.pc = IF kids = 0 THEN "send" ELSE "wait",
            !.wait = IF kids = 0 THEN 0 ELSE kids + 1]
WaitsEvenForNone(t, kids) == [t EXCEPT !.pc = "wait", !.wait = kids]
WaitsForAllButOne(t, kids) ==
  [t EXCEPT !.pc = IF kids <= 1 THEN "send" ELSE "wait",
            !.wait = IF kids = 0 THEN 0 ELSE kids - 1]
Waits(t, kids) == [t EXCEPT !.pc = IF kids = 0 THEN "send" ELSE "wait", !.wait = kids]

\* GetEntity and the loop over its rows.  The loop touches nothing shared
\* but the goroutines it starts, so it is one step with the read.
GetEntity(path) ==
  LET t     == tasks[path]
      its   == {r \in rows : r.s = Last(path)}
      stops == {r \in its : Discards(t, r) \/ Breaks(t, r)}
      kids  == {r.o : r \in {r \in its : Follows(t, r)}}
  IN /\ Alive
     /\ t.pc = "get"
     /\ \/ /\ its = {}
           /\ Continue(path, t, {}, Answers(t, {}))
           /\ UNCHANGED failed
        \/ /\ its # {} /\ stops = {}
           /\ Continue(path, t, its, Waits([t EXCEPT !.out = {path}], Cardinality(kids)))
           /\ UNCHANGED failed
        \/ \E stop \in stops : \E seen \in RowsSeen(its, stops, stop) :
             /\ Continue(path, t, seen, Answers(t, IF Breaks(t, stop) THEN Err ELSE {}))
             /\ failed' = (failed \/ Breaks(t, stop))
     /\ UNCHANGED <<phase, query, rows, batches, result, before>>

GetEntityFails(path) ==
  /\ Alive /\ Faults
  /\ tasks[path].pc = "get"
  /\ tasks' = [tasks EXCEPT ![path] = Answers(@, Err)]
  /\ failed' = TRUE
  /\ UNCHANGED <<phase, query, rows, batches, result, before>>

\* Run is waiting for the root goroutine.
ReturnResult ==
  /\ phase = "run"
  /\ tasks[<<Root>>].pc = "send"
  /\ phase' = "returned"
  /\ result' = tasks[<<Root>>].out
  /\ tasks' = [tasks EXCEPT ![<<Root>>] = Done(@)]
  /\ UNCHANGED <<query, rows, batches, before, failed>>

\* A child and its waiting parent meet on the parent's channel.
Meet(path) ==
  /\ Alive
  /\ Len(path) > 1
  /\ tasks[path].pc = "send"
  /\ tasks[Front(path)].pc = "wait"

\* The parent takes one more answer and merges it into its result.
Hears(t, out) ==
  [t EXCEPT !.wait = t.wait - 1,
            !.out = t.out \cup out,
            !.pc = IF t.wait = 1 THEN "send" ELSE "wait"]

DeliverResult(path) ==
  /\ Meet(path)
  /\ tasks[path].out # Err
  /\ tasks' = [tasks EXCEPT ![path] = Done(@), ![Front(path)] = Hears(@, tasks[path].out)]
  /\ UNCHANGED <<phase, query, rows, batches, result, before, failed>>

\* An error from a child is logged with err, the parent's own error, which
\* is nil: LogErr dereferences it and the process panics.
DeliverErrorLogged(path) ==
  /\ Meet(path)
  /\ tasks[path].out = Err
  /\ tasks' = [tasks EXCEPT ![path] = Done(@), ![Front(path)] = Hears(@, {})]
  /\ UNCHANGED <<phase, query, rows, batches, result, before, failed>>
DeliverError(path) ==
  /\ Meet(path)
  /\ tasks[path].out = Err
  /\ phase' = "panicked"
  /\ UNCHANGED <<query, rows, batches, tasks, result, before, failed>>

\* Other clients: an Execute commits.  What is committed before Run is part
\* of what the store holds then, a matter of Stores.
Commit ==
  /\ Alive
  /\ \E b \in batches : rows' = rows \cup b /\ batches' = batches \ {b}
  /\ UNCHANGED <<phase, query, tasks, result, before, failed>>

----------------------------------------------------------------------------
Goroutine(path) ==
  GetEntity(path) \/ GetEntityFails(path) \/ DeliverResult(path) \/ DeliverError(path)

Next ==
  \/ Build \/ Run \/ ReturnResult
  \/ \E path \in DOMAIN tasks : Goroutine(path)
  \/ Commit

\* A runnable goroutine runs.
RunGoroutines == ReturnResult \/ \E path \in DOMAIN tasks : Goroutine(path)

Spec == Init /\ [][Next]_vars /\ WF_vars(RunGoroutines)

----------------------------------------------------------------------------
(* What a query means, from the paths of the tree and not from goroutines.  *)

\* How the entity at each place of a path is queried: under which node of the
\* Query tree, and how many levels below the last collected one.
Below(up, kind) ==
  LET c == Collected(up.q, kind)
  IN IF c # {} THEN [q |-> CHOOSE k \in c : TRUE, level |-> 0]
     ELSE [q |-> 0, level |-> up.level + 1]
NodesAlong(path, kinds) ==
  LET at[i \in 1..Len(path)] ==
        IF i = 1 THEN [q |-> 1, level |-> 0] ELSE Below(at[i - 1], kinds[i])
  IN at

\* The kind of link, among the rows L, that leads to each entity of a path.
KindsAlong(path, L) ==
  [i \in 1..Len(path) |->
     IF i = 1 THEN None
     ELSE (CHOOSE r \in L : IsLink(r, path[i-1], path[i])).p]

\* A path is linked in L if its entities exist there and each has the next
\* one as a child.
Linked(path, L) ==
  /\ path[1] = Root
  /\ \A i \in 1..Len(path) : \E r \in L : r.s = path[i]
  /\ \A i \in 2..Len(path) : \E r \in L : IsLink(r, path[i-1], path[i])

\* The depth to which the children at a place of the path are followed: that
\* of the last collected node at or above it.
DepthAt(at, i) ==
  LET j == CHOOSE j \in 1..i : at[j].q # 0 /\ \A l \in (j+1)..i : at[l].q = 0
  IN query[at[j].q].maxDepth

\* The query descends a path with links in L and every entity of it survives
\* the marks and filters in D; deletedOk(k) tells whether node k (0 for a
\* generic one) shows deleted entities.
Visible(path, L, D, deletedOk(_)) ==
  /\ Linked(path, L)
  /\ LET at == NodesAlong(path, KindsAlong(path, L))
     IN /\ \A i \in 2..Len(path) : at[i].q # 0 \/ at[i].level <= DepthAt(at, i)
        /\ \A i \in 1..Len(path) : \A r \in D : r.s = path[i] =>
              /\ r.p = "_delete_" => deletedOk(at[i].q)
              /\ r.p # "_parent_" => r.p \notin FilterOf(at[i].q)

Subjects == {r.s : r \in rows}
\* Every path a query can return: one node per level of the Query tree plus
\* MaxLevel generic ones under each is more than any store here is deep.
Paths == UNION {[1..len -> Subjects] : len \in 1..3}

RootDeletedOk(k) == query[1].getDeleted

----------------------------------------------------------------------------
(* Properties. *)

\* The type of every variable.
TypeOK ==
  /\ phase \in {"build", "run", "returned", "panicked"}
  /\ Len(query) \in 1..MaxNodes
  /\ \A k \in DOMAIN query : /\ query[k].parent \in 0..(k-1)
                             /\ query[k].filterOut \subseteq Filters
                             /\ query[k].maxDepth \in 0..MaxLevel
                             /\ query[k].getDeleted \in BOOLEAN
  /\ before \subseteq rows \/ phase = "build"
  /\ batches \subseteq Batches
  /\ \A path \in DOMAIN tasks :
       /\ tasks[path].pc \in {"get", "wait", "send", "done"}
       /\ tasks[path].q \in 0..Len(query)
       /\ tasks[path].wait \in Nat
       /\ tasks[path].pc = "wait" <=> tasks[path].wait > 0

\* What Run returns lies between two readings of the tree, whatever is
\* committed meanwhile: it has every path that was linked when Run was called
\* and that nothing committed since deletes or filters; and it has no path
\* that was deleted or filtered then, or that is not linked now.  With no
\* concurrent commit it is exactly the query's meaning.
Sandwiched(path) ==
  /\ ~failed /\ Visible(path, before, rows, RootDeletedOk) => path \in result
  /\ path \in result => Visible(path, rows, before, RootDeletedOk)
ResultSandwiched ==
  phase = "returned" /\ result # Err => \A path \in Paths : Sandwiched(path)

\* The guards of the steps that the goroutines of a Run take.
CanGoThrough(path) ==
  LET t     == tasks[path]
      its   == {r \in rows : r.s = Last(path)}
      stops == {r \in its : Discards(t, r) \/ Breaks(t, r)}
  IN t.pc = "get" /\ (stops = {} \/ \E stop \in stops : RowsSeen(its, stops, stop) # {})
SomebodyCanGoOn ==
  \/ tasks[<<Root>>].pc = "send"
  \/ \E path \in DOMAIN tasks : CanGoThrough(path) \/ Meet(path)

\* While Run is under way somebody can go on: no goroutine waits for a child
\* it did not start, and none that it started fails to answer.
NeverStuck == phase = "run" => SomebodyCanGoOn

\* So Run returns, or the process panics.
RunReturns == phase = "run" ~> phase \in {"returned", "panicked"}

\* A goroutine that outlives Run is below an entity that was discarded, by a
\* delete mark or a filter, after its links were followed.
LeaksOnlyBelowDiscarded ==
  phase = "returned" =>
    \A path \in DOMAIN tasks : tasks[path].pc # "done" =>
      \E i \in 1..(Len(path) - 1) :
         tasks[SubSeq(path, 1, i)].pc = "done" /\ tasks[SubSeq(path, 1, i)].out \in {{}, Err}

\* A result with something missing is never returned as a whole one: when Run
\* returns without an error, every goroutine that met one was below an entity
\* that was discarded, and nobody was going to listen to it.
NoPartialResult ==
  phase = "returned" /\ result # Err =>
    \A path \in DOMAIN tasks : tasks[path].out = Err =>
      \E i \in 1..(Len(path) - 1) : tasks[SubSeq(path, 1, i)].out = {}

\* "Any errors encountered during these steps is returned as well."
ErrorsReturned ==
  failed /\ phase \in {"returned", "panicked"} => phase = "returned" /\ result = Err

\* "Wait for all those subroutines": every goroutine a Run started ends.
NoGoroutineLeaks ==
  phase = "returned" ~>
    (phase = "panicked" \/ \A path \in DOMAIN tasks : tasks[path].pc = "done")

\* AllowDeleted "will make this query not ignore entities with the _delete_
\* flag", and what is done on the pointer Collect returns is to "attribute to
\* those children entities": a node for which AllowDeleted was called shows
\* deleted entities.
AllowDeletedHonoured ==
  phase = "returned" /\ ~failed =>
    \A path \in Paths :
      Visible(path, before, rows,
              LAMBDA k : IF k = 0 THEN FALSE ELSE query[k].getDeleted)
        => path \in result
=============================================================================
