------------------------------ MODULE Indexing ------------------------------
(***************************************************************************)
(* Keeping a search index in step with the store (indexer/indexer.go):      *)
(* Execute commits, then sends the modified entities on the bounded channel *)
(* c.Updates; processUpdates goroutines receive them, ask the Indexer which *)
(* documents are dirty, regenerate each from the store and hand it to the   *)
(* search engine, which keeps the document with the larger NanoTs.          *)
(*                                                                         *)
(* An entity's rows are abstracted to a version, the number of commits that *)
(* touched it, and a document to the versions it was computed from.         *)
(***************************************************************************)
EXTENDS Naturals, Sequences

CONSTANTS
  Entities,
  Producers,    \* goroutines calling Execute
  Workers,      \* the numRoutines goroutines of indexer.Run
  BufCap,       \* capacity of c.Updates (1000 in the code)
  Registered,   \* entities whose kind has an Indexer
  Dirty,        \* OnUpdate: entity -> sequence of entities to regenerate
  Reads,        \* Regenerate: entity -> entities its query reads
  Commits,      \* what one Execute can announce: sequences of entities
  Engine,       \* the registered search engine
  StrictClock,  \* whether two readings of time.Now() always differ
  MaxCommits,   \* bound: commits
  MaxRestarts   \* bound: restarts of the process

\* The Indexer contract, when the reads of OnUpdate succeed: a document is
\* regenerated whenever something it is computed from is updated.
ASSUME IndexerContract ==
  /\ Registered \subseteq Entities
  /\ Dirty \in [Entities -> Seq(Entities)]
  /\ Reads \in [Entities -> SUBSET Entities]
  /\ Commits \subseteq Seq(Entities)
  /\ \A e \in Registered : e \in Reads[e]
  /\ \A e \in Registered : \A d \in Reads[e] :
        d \in Registered /\ \E i \in DOMAIN Dirty[d] : Dirty[d][i] = e

ASSUME IndexingConstants ==
  /\ Entities # {} /\ Workers # {}
  /\ BufCap \in Nat \ {0}
  /\ MaxCommits \in Nat /\ MaxRestarts \in Nat
  /\ Engine \in {"elasticsearch", "memsearch"}
  /\ StrictClock \in BOOLEAN

VARIABLES
  ver,       \* entity -> version in the store
  cts,       \* history: entity -> when its last commit happened
  commits,   \* commits so far
  toSend,    \* producer -> entities its Execute has still to send
  chan,      \* c.Updates
  closed,    \* c.Updates is closed
  waiter,    \* WaitForDone: "no", "waiting", "done"
  wpc,       \* worker -> "recv", "loop", "read", "write" or "done"
  dirty,     \* worker -> rest of the dirty list
  job,       \* worker -> the document it is making
  docs,      \* the search index; ts = 0 where there is no document
  clock,     \* time
  lost,      \* history: <<e, d>> where e's document may miss d's last update
  crashed,   \* the process has panicked or was killed
  restarts

proc   == <<toSend, chan, closed, waiter, wpc, dirty, job>>
vars   == <<ver, cts, commits, proc, docs, clock, lost, crashed, restarts>>

\* A document, with an entity that it is computed from.
Shows == {q \in Registered \X Entities : q[2] \in Reads[q[1]]}

Versions == [Entities -> Nat]
NoData == [d \in Entities |-> 0]
NoJob  == [e |-> CHOOSE e \in Entities : TRUE, ts |-> 0, left |-> {}, data |-> NoData]
Job == [e: Entities, ts: Nat, left: SUBSET Entities, data: Versions]
Doc == [ts: Nat, data: Versions]

\* What a fresh process starts with.
Init ==
  /\ ver = NoData
  /\ cts = NoData
  /\ commits = 0
  /\ toSend = [p \in Producers |-> <<>>]
  /\ chan = <<>>
  /\ closed = FALSE
  /\ waiter = "no"
  /\ wpc = [w \in Workers |-> "recv"]
  /\ dirty = [w \in Workers |-> <<>>]
  /\ job = [w \in Workers |-> NoJob]
  /\ docs = [e \in Entities |-> [ts |-> 0, data |-> NoData]]
  /\ clock = 0
  /\ lost = {}
  /\ crashed = FALSE
  /\ restarts = 0

\* time.Now(): later than every earlier event, or, on a coarse clock, not.
NowBackwards == {clock - 1}
Now == IF StrictClock THEN {clock + 1} ELSE {clock, clock + 1}

----------------------------------------------------------------------------
(* What will still change a document. *)

Elems(s) == {s[i] : i \in DOMAIN s}

\* The worker has e's document still to make, or is making it from a query
\* begun after d's last commit.
PendingAt(w, e, d) ==
  \/ wpc[w] = "loop" /\ e \in Elems(dirty[w])
  \/ wpc[w] \in {"read", "write"} /\ e \in Elems(Tail(dirty[w]))
  \/ wpc[w] \in {"read", "write"} /\ job[w].e = e /\ job[w].ts > cts[d]

\* Something on its way will bring e's document up to d's last commit.
Pending(e, d) ==
  \/ \E p \in Producers : d \in Elems(toSend[p])
  \/ d \in Elems(chan)
  \/ \E w \in Workers : PendingAt(w, e, d)

----------------------------------------------------------------------------
(* Producers: the end of Execute. *)

\* Rows of the entities in es are stored.
Stores(es, t) ==
  /\ ver' = [d \in Entities |-> IF d \in Elems(es) THEN ver[d] + 1 ELSE ver[d]]
  /\ cts' = [d \in Entities |-> IF d \in Elems(es) THEN t ELSE cts[d]]
  /\ clock' = t

\* Execute may commit: it has sent the notifications of the one before.
MayCommit(p) ==
  /\ ~crashed
  /\ toSend[p] = <<>>
  /\ commits < MaxCommits
  /\ commits' = commits + 1

\* Commit succeeded: every entity of the tree has new rows, to be announced.
Commit(p) ==
  /\ MayCommit(p)
  /\ \E es \in Commits, t \in Now :
       /\ Stores(es, t)
       /\ toSend' = [toSend EXCEPT ![p] = es]
       /\ lost' = {q \in lost : q[2] \notin Elems(es)}
  /\ UNCHANGED <<chan, closed, waiter, wpc, dirty, job, docs, crashed, restarts>>

\* A driver that writes row by row failed after some rows: the entities up to
\* there have them, and Execute returns the error without announcing any.
CommitFails(p) ==
  /\ MayCommit(p)
  /\ \E es \in Commits, t \in Now : \E k \in DOMAIN es :
       LET stored == SubSeq(es, 1, k)
       IN /\ Stores(stored, t)
          /\ lost' = lost \cup {q \in Shows : q[2] \in Elems(stored)}
  /\ UNCHANGED <<proc, docs, crashed, restarts>>

\* c.Updates <- e, which blocks while the channel is full.
Send(p) ==
  /\ ~crashed /\ ~closed
  /\ toSend[p] # <<>>
  /\ Len(chan) < BufCap
  /\ chan' = Append(chan, Head(toSend[p]))
  /\ toSend' = [toSend EXCEPT ![p] = Tail(@)]
  /\ UNCHANGED <<ver, cts, commits, closed, waiter, wpc, dirty, job, docs, clock,
                 lost, crashed, restarts>>

Die ==
  /\ crashed' = TRUE
  /\ UNCHANGED <<ver, cts, commits, proc, docs, clock, lost, restarts>>

\* A send on the closed channel panics, also one that was blocked when
\* WaitForDone closed it.
SendOnClosed(p) ==
  /\ ~crashed /\ closed
  /\ toSend[p] # <<>>
  /\ Die

----------------------------------------------------------------------------
(* WaitForDone: close(c.Updates), then wg.Wait(). *)

Close ==
  /\ ~crashed
  /\ waiter = "no"
  /\ closed' = TRUE
  /\ waiter' = "waiting"
  /\ UNCHANGED <<ver, cts, commits, toSend, chan, wpc, dirty, job, docs, clock,
                 lost, crashed, restarts>>

WaitReturns ==
  /\ ~crashed
  /\ waiter = "waiting"
  /\ \A w \in Workers : wpc[w] = "done"
  /\ waiter' = "done"
  /\ UNCHANGED <<ver, cts, commits, toSend, chan, closed, wpc, dirty, job, docs,
                 clock, lost, crashed, restarts>>

----------------------------------------------------------------------------
(* processUpdates. *)

OnUpdateSelfOnly(e) == <<e>>
OnUpdate(e) == Dirty[e]

\* Where a worker goes with `rest` of its dirty list to do.
LoopOrReturn(rest) == IF rest = <<>> THEN "done" ELSE "loop"
LoopOrReceive(rest) == IF rest = <<>> THEN "recv" ELSE "loop"

\* range c.Updates yields an entity; one without an Indexer is skipped.
Receive(w) ==
  /\ ~crashed
  /\ wpc[w] = "recv"
  /\ chan # <<>>
  /\ chan' = Tail(chan)
  /\ LET todo == IF Head(chan) \in Registered THEN OnUpdate(Head(chan)) ELSE <<>>
     IN /\ dirty' = [dirty EXCEPT ![w] = todo]
        /\ wpc' = [wpc EXCEPT ![w] = LoopOrReceive(todo)]
  /\ UNCHANGED <<ver, cts, commits, toSend, closed, waiter, job, docs, clock,
                 lost, crashed, restarts>>

\* OnUpdate looks for the parent with two reads of the store.  When one fails
\* it returns the entity alone, and nobody is told.
OnUpdateFails(w) ==
  /\ ~crashed
  /\ wpc[w] = "recv"
  /\ chan # <<>> /\ Head(chan) \in Registered
  /\ chan' = Tail(chan)
  /\ dirty' = [dirty EXCEPT ![w] = <<Head(chan)>>]
  /\ wpc' = [wpc EXCEPT ![w] = "loop"]
  /\ lost' = lost \cup {q \in Shows : /\ q[2] = Head(chan) /\ q[1] # q[2]
                                   /\ q[1] \in Elems(OnUpdate(q[2]))}
  /\ UNCHANGED <<ver, cts, commits, toSend, closed, waiter, job, docs, clock,
                 crashed, restarts>>

\* range c.Updates ends: the channel is closed and drained; wg.Done().
WorkerExitUndrained(w) ==
  /\ ~crashed
  /\ wpc[w] = "recv"
  /\ closed
  /\ wpc' = [wpc EXCEPT ![w] = "done"]
  /\ UNCHANGED <<ver, cts, commits, toSend, chan, closed, waiter, dirty, job, docs,
                 clock, lost, crashed, restarts>>
WorkerExitSpins(w) ==
  /\ ~crashed
  /\ wpc[w] = "recv"
  /\ closed /\ chan = <<>>
  /\ UNCHANGED vars
WorkerExit(w) ==
  /\ ~crashed
  /\ wpc[w] = "recv"
  /\ closed /\ chan = <<>>
  /\ wpc' = [wpc EXCEPT ![w] = "done"]
  /\ UNCHANGED <<ver, cts, commits, toSend, chan, closed, waiter, dirty, job, docs,
                 clock, lost, crashed, restarts>>

\* A dirty entity without an Indexer: continue.
SkipDirty(w) ==
  /\ ~crashed
  /\ wpc[w] = "loop"
  /\ Head(dirty[w]) \notin Registered
  /\ dirty' = [dirty EXCEPT ![w] = Tail(@)]
  /\ wpc' = [wpc EXCEPT ![w] = LoopOrReceive(Tail(dirty[w]))]
  /\ UNCHANGED <<ver, cts, commits, toSend, chan, closed, waiter, job, docs, clock,
                 lost, crashed, restarts>>

\* Regenerate takes the document's NanoTs before it queries the store.
StartRegenerate(w) ==
  /\ ~crashed
  /\ wpc[w] = "loop"
  /\ Head(dirty[w]) \in Registered
  /\ \E t \in Now :
       /\ clock' = t
       /\ job' = [job EXCEPT ![w] =
            [e |-> Head(dirty[w]), ts |-> t, left |-> {Head(dirty[w])},
             data |-> NoData]]
  /\ wpc' = [wpc EXCEPT ![w] = "read"]
  /\ UNCHANGED <<ver, cts, commits, toSend, chan, closed, waiter, dirty, docs,
                 lost, crashed, restarts>>

\* Its query reads the entity, then, in any order, those of the children that
\* the entity's rows name: the ones that exist by now.
ReadNext(j, d) ==
  IF d = j.e THEN {x \in Reads[d] \ {d} : ver[x] > 0} ELSE j.left \ {d}

ReadInto(j, d) == [e |-> j.e, ts |-> j.ts, left |-> ReadNext(j, d),
                   data |-> [j.data EXCEPT ![d] = ver[d]]]

ReadStampedLate(w) ==
  /\ ~crashed
  /\ wpc[w] = "read"
  /\ clock' = clock + 1
  /\ \E d \in job[w].left :
       job' = [job EXCEPT ![w] = [ReadInto(@, d) EXCEPT !.ts = clock + 1]]
  /\ UNCHANGED <<ver, cts, commits, toSend, chan, closed, waiter, wpc, dirty, docs,
                 lost, crashed, restarts>>
Read(w) ==
  /\ ~crashed
  /\ wpc[w] = "read"
  /\ \E d \in job[w].left : job' = [job EXCEPT ![w] = ReadInto(@, d)]
  /\ UNCHANGED <<ver, cts, commits, toSend, chan, closed, waiter, wpc, dirty, docs,
                 clock, lost, crashed, restarts>>

\* The document is complete; search.Get().Update(doc) comes next.
Regenerated(w) ==
  /\ ~crashed
  /\ wpc[w] = "read"
  /\ job[w].left = {}

\* Update returned, with or without an error: on to the next dirty entity.
NextDirtyDropsRest(w) ==
  /\ dirty' = [dirty EXCEPT ![w] = <<>>]
  /\ wpc' = [wpc EXCEPT ![w] = "recv"]
  /\ job' = [job EXCEPT ![w] = NoJob]
NextDirty(w) ==
  /\ dirty' = [dirty EXCEPT ![w] = Tail(@)]
  /\ wpc' = [wpc EXCEPT ![w] = LoopOrReceive(Tail(dirty[w]))]
  /\ job' = [job EXCEPT ![w] = NoJob]

----------------------------------------------------------------------------
(* Search engines: a document is accepted if it is newer than the indexed   *)
(* one.  elasticsearch compares and writes in one step (external version).  *)

Accepts(e, ts) == ts > docs[e].ts

DocOf(w) == [ts |-> job[w].ts, data |-> job[w].data]

ElasticUpdate(w) ==
  /\ Engine = "elasticsearch"
  /\ Regenerated(w)
  /\ docs' = IF Accepts(job[w].e, job[w].ts)
             THEN [docs EXCEPT ![job[w].e] = DocOf(w)]
             ELSE docs
  /\ NextDirty(w)
  /\ UNCHANGED <<ver, cts, commits, toSend, chan, closed, waiter, clock,
                 lost, crashed, restarts>>

\* The request fails; the error is logged and the document is lost, with what
\* it alone was going to show.
ElasticFails(w) ==
  /\ Engine = "elasticsearch"
  /\ Regenerated(w)
  /\ lost' = lost \cup {q \in Shows : q[1] = job[w].e /\ job[w].ts > cts[q[2]]}
  /\ NextDirty(w)
  /\ UNCHANGED <<ver, cts, commits, toSend, chan, closed, waiter, docs, clock,
                 crashed, restarts>>

\* memsearch looks up the map and then writes it, with no lock: a race.
MemLookup(w) ==
  /\ Engine = "memsearch"
  /\ Regenerated(w)
  /\ IF Accepts(job[w].e, job[w].ts)
     THEN wpc' = [wpc EXCEPT ![w] = "write"] /\ UNCHANGED <<dirty, job>>
     ELSE NextDirty(w)
  /\ UNCHANGED <<ver, cts, commits, toSend, chan, closed, waiter, docs, clock,
                 lost, crashed, restarts>>

MemWrite(w) ==
  /\ ~crashed
  /\ wpc[w] = "write"
  /\ docs' = [docs EXCEPT ![job[w].e] = DocOf(w)]
  /\ NextDirty(w)
  /\ UNCHANGED <<ver, cts, commits, toSend, chan, closed, waiter, clock,
                 lost, crashed, restarts>>

\* Go's runtime may notice that a map is written while it is written or looked
\* up elsewhere, and throw.
MemRaceThrows(w) ==
  /\ ~crashed
  /\ wpc[w] = "write"
  /\ \E v \in Workers \ {w} : wpc[v] = "write" \/ Regenerated(v)
  /\ Die

----------------------------------------------------------------------------
(* The process may be killed at any point, and started again.  Store and    *)
(* elasticsearch survive; the channel, what was to be sent on it, the       *)
(* workers' documents and memsearch's map do not, so what was still pending *)
(* is lost.                                                                 *)

Crash ==
  /\ ~crashed
  /\ restarts < MaxRestarts
  /\ Die

Restart ==
  /\ crashed
  /\ restarts < MaxRestarts
  /\ restarts' = restarts + 1
  /\ crashed' = FALSE
  /\ toSend' = [p \in Producers |-> <<>>]
  /\ chan' = <<>>
  /\ closed' = FALSE
  /\ waiter' = "no"
  /\ wpc' = [w \in Workers |-> "recv"]
  /\ dirty' = [w \in Workers |-> <<>>]
  /\ job' = [w \in Workers |-> NoJob]
  /\ docs' = IF Engine = "memsearch"
             THEN [e \in Entities |-> [ts |-> 0, data |-> NoData]]
             ELSE docs
  /\ lost' = lost \cup {q \in Shows : Engine = "memsearch" \/ Pending(q[1], q[2])}
  /\ UNCHANGED <<ver, cts, commits, clock>>

----------------------------------------------------------------------------
Work(w) ==
  \/ Receive(w) \/ OnUpdateFails(w) \/ WorkerExit(w)
  \/ SkipDirty(w) \/ StartRegenerate(w) \/ Read(w)
  \/ ElasticUpdate(w) \/ ElasticFails(w)
  \/ MemLookup(w) \/ MemWrite(w) \/ MemRaceThrows(w)

\* Nothing is left to do, or the process is down for good.
Stopped ==
  /\ \/ crashed /\ restarts = MaxRestarts
     \/ waiter = "done" /\ commits = MaxCommits /\ \A p \in Producers : toSend[p] = <<>>
  /\ UNCHANGED vars

Next ==
  \/ \E p \in Producers : Commit(p) \/ CommitFails(p) \/ Send(p) \/ SendOnClosed(p)
  \/ Close \/ WaitReturns
  \/ \E w \in Workers : Work(w)
  \/ Crash \/ Restart
  \/ Stopped

\* Goroutines that can run do run.  A Go channel serves blocked senders in
\* the order they came, so a sender is not passed over for ever (SF).
\* Nobody has to commit, to call WaitForDone or to restart the process.
Fairness ==
  /\ \A p \in Producers : SF_vars(Send(p) \/ SendOnClosed(p))
  /\ \A w \in Workers : WF_vars(Work(w))
  /\ WF_vars(WaitReturns)

Spec == Init /\ [][Next]_vars /\ Fairness

----------------------------------------------------------------------------
(* Properties. *)

\* The type of every variable.
TypeOK ==
  /\ ver \in Versions /\ cts \in Versions
  /\ lost \subseteq Shows
  /\ commits \in Nat /\ clock \in Nat /\ restarts \in Nat
  /\ toSend \in [Producers -> Seq(Entities)]
  /\ chan \in Seq(Entities)
  /\ closed \in BOOLEAN /\ crashed \in BOOLEAN
  /\ waiter \in {"no", "waiting", "done"}
  /\ wpc \in [Workers -> {"recv", "loop", "read", "write", "done"}]
  /\ dirty \in [Workers -> Seq(Entities)]
  /\ job \in [Workers -> Job]
  /\ docs \in [Entities -> Doc]

\* The document of e reflects the last commit of d, or that commit is one that
\* a failure of the store or the engine, or a crash, made it miss.
UpToDate(e, d) == docs[e].data[d] = ver[d]
Fresh(e, d) == <<e, d>> \in lost \/ UpToDate(e, d)

AllFresh == \A e \in Registered : \A d \in Reads[e] : Fresh(e, d)

\* "An automatic real time updating index": whatever the producers and the
\* workers interleave, a stale document has a notification or a regeneration
\* under way that will repair it, unless a Commit failed half-way, OnUpdate's
\* reads failed, the engine did, or the process died while it was under way,
\* since the last commit of what it lacks.  Nothing else is ever forgotten.
StaleHasRepair ==
  ~crashed => \A e \in Registered : \A d \in Reads[e] : Fresh(e, d) \/ Pending(e, d)

\* When no Execute has anything left to send, the channel is empty and the
\* workers are at rest, the index agrees with the store, but for such losses.
Quiescent ==
  /\ ~crashed
  /\ \A p \in Producers : toSend[p] = <<>>
  /\ chan = <<>>
  /\ \A w \in Workers : wpc[w] \in {"recv", "done"}

FreshWhenQuiescent == Quiescent => AllFresh

\* Once WaitForDone has returned, and if no Execute was under way then, the
\* index agrees with the store, but for such losses: closing the channel is
\* none.
FreshAfterWaitForDone ==
  waiter = "done" /\ ~crashed /\ (\A p \in Producers : toSend[p] = <<>>) => AllFresh

\* "Avoid overwriting a newer doc by an older doc" (search.Engine): what
\* memsearch, which looks up and then writes, does not keep.
DocsNeverRegress ==
  [][~crashed => \A e \in Entities : docs'[e].ts >= docs[e].ts]_vars

\* The inductive invariant that the proofs rest on, for elasticsearch and a
\* strict clock.  Nothing is stamped with a time to come ...
Clocked ==
  /\ \A d \in Entities : cts[d] <= clock /\ docs[d].ts <= clock
  /\ \A w \in Workers : job[w].ts <= clock

\* ... a worker is where its dirty list says ...
AtWork(w) ==
  /\ wpc[w] \in {"recv", "loop", "read", "done"}
  /\ wpc[w] \in {"loop", "read"} => dirty[w] # <<>>
  /\ wpc[w] = "read" => job[w].e = Head(dirty[w]) /\ job[w].e \in Registered

\* ... a document in the making has the last version of what was committed
\* before it was begun, or has still to read it ...
JobFaithful(w) ==
  wpc[w] = "read" =>
    /\ job[w].e \in job[w].left => job[w].left = {job[w].e} /\ job[w].data = NoData
    /\ \A d \in Reads[job[w].e] :
         job[w].ts >= cts[d] =>
           job[w].data[d] = ver[d] \/ d \in job[w].left \/ job[w].e \in job[w].left

\* ... an indexed document has it ...
DocFaithful(e) == \A d \in Reads[e] : docs[e].ts >= cts[d] => docs[e].data[d] = ver[d]

\* ... and what an indexed document is too old for is pending or lost.
Repairable(e) ==
  \A d \in Reads[e] : docs[e].ts < cts[d] => Pending(e, d) \/ <<e, d>> \in lost

IndInv ==
  /\ Clocked
  /\ \A w \in Workers : AtWork(w) /\ JobFaithful(w)
  /\ \A e \in Registered : DocFaithful(e) /\ Repairable(e)

\* A worker stops only when the channel is closed and drained, and WaitForDone
\* returns only when they all have.
Drained ==
  /\ \A w \in Workers : wpc[w] = "done" => closed /\ chan = <<>>
  /\ waiter = "done" => \A w \in Workers : wpc[w] = "done"

\* A stale document is brought up to date, unless what it lacks is lost.
EventuallyFresh ==
  \A e \in Registered : \A d \in Reads[e] : ~Fresh(e, d) ~> (Fresh(e, d) \/ crashed)

\* WaitForDone returns: the workers drain the channel and stop.
WaitForDoneReturns == waiter = "waiting" ~> (waiter = "done" \/ crashed)
=============================================================================
