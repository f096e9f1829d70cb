----------------------------- MODULE IndexServer -----------------------------
(***************************************************************************)
(* The standalone indexing server (indexer/server.go): LoopOnce walks over  *)
(* all entities of the store, a chunk per call of the driver's Iterate,     *)
(* which sends them on the bounded channel s.ch; goroutines regenerate and  *)
(* re-index each.  Other processes commit meanwhile, and may run an indexer *)
(* of their own on what they commit (module Indexing): "using both the      *)
(* methods", as indexer/doc.go recommends.  They write to one search engine.*)
(*                                                                         *)
(* Entities are numbered in the order the driver stores them; an entity's   *)
(* version is the number of its rows.  Timestamps are abstracted to the     *)
(* order in which the goroutines took theirs.                               *)
(***************************************************************************)
EXTENDS Naturals, Sequences, FiniteSets, SequencesExt

CONSTANTS
  Entities,     \* 1..N, in key order (leveldb) or token order (cassandra)
  Registered,   \* entities whose kind has an Indexer
  Workers,      \* goroutines running regenerateAndIndex
  AppWorkers,   \* goroutines running processUpdates in an application, if any
  BufCap,       \* the argument `buffer` of NewServer
  ChunkSize,    \* 1000 in the code
  Driver,       \* a driver that implements Iterate
  Forever,      \* InfiniteLoop, rather than LoopOnce and then Finish
  Stored,       \* entity -> its rows at first
  MaxVersion,   \* bound: rows of an entity
  SkewedClocks, \* whether two goroutines' clocks may disagree
  MaxFaults     \* bound: failures of store and engine, kills of server and application

ASSUME ServerConstants ==
  /\ Entities \subseteq Nat \ {0} /\ IsFiniteSet(Entities)
  /\ Registered \subseteq Entities
  /\ Workers # {} /\ Workers \cap AppWorkers = {}
  /\ SkewedClocks \in BOOLEAN
  /\ BufCap \in Nat \ {0}
  /\ ChunkSize \in Nat \ {0, 1}
  /\ Driver \in {"leveldb", "cassandra"}
  /\ Forever \in BOOLEAN
  /\ MaxVersion \in Nat /\ MaxFaults \in Nat
  /\ Stored \in [Entities -> 0..MaxVersion]

VARIABLES
  ver,       \* entity -> its rows in the store
  docs,      \* entity -> version that the indexed document shows, 0 if none
  lpc,       \* LoopOnce: "idle", "iterate", "scan", "ended"; then "finishing", "finished"
  from,      \* the id the next chunk starts from, 0 for ""
  chunk,     \* what Iterate found, in order
  handled,   \* how many of them it has sent
  ch,        \* s.ch
  closed,    \* s.ch is closed
  wpc,       \* worker -> "recv", "regenerate", "query", "update" or "done"
  job,       \* worker -> the entity and the version its document shows
  older,     \* pairs of goroutines with documents under way, that with the older NanoTs first
  outdated,  \* those whose NanoTs is older than the indexed document's
  notes,     \* the application's c.Updates
  sent,      \* history: entities sent in this cycle
  start,     \* history: the store when the cycle began
  failures, restarts

loop   == <<lpc, from, chunk, handled, sent, start>>
work   == <<wpc, job, older, outdated>>
vars   == <<ver, docs, loop, ch, closed, work, notes, failures, restarts>>

Goroutines == Workers \cup AppWorkers

NoJob == [e |-> 0, data |-> 0]

\* NewServer.
Init ==
  /\ ver = Stored
  /\ docs = [e \in Entities |-> 0]
  /\ lpc = "idle"
  /\ from = 0
  /\ chunk = <<>>
  /\ handled = 0
  /\ ch = <<>>
  /\ closed = FALSE
  /\ wpc = [w \in Goroutines |-> "recv"]
  /\ job = [w \in Goroutines |-> NoJob]
  /\ older = {}
  /\ outdated = {}
  /\ notes = <<>>
  /\ sent = {}
  /\ start = Stored
  /\ failures = 0
  /\ restarts = 0

\* An application commits a row, and tells its indexer if it has one.
Commit(e) ==
  /\ ver[e] < MaxVersion
  /\ ver' = [ver EXCEPT ![e] = @ + 1]
  /\ notes' = IF AppWorkers = {} THEN notes ELSE Append(notes, e)
  /\ UNCHANGED <<docs, loop, ch, closed, work, failures, restarts>>

----------------------------------------------------------------------------
(* LoopOnce. *)

LoopOnce ==
  /\ lpc = "idle" \/ (Forever /\ lpc = "ended")
  /\ lpc' = "iterate"
  /\ from' = 0
  /\ sent' = {}
  /\ start' = ver
  /\ UNCHANGED <<ver, docs, chunk, handled, ch, closed, work, notes, failures, restarts>>

InOrder(S) ==
  CHOOSE s \in [1..Cardinality(S) -> S] : \A i, j \in DOMAIN s : i < j => s[i] < s[j]

\* The rows, entity and number, of entities of S that come before e.
RowsBefore(e, S) == {r \in S \X (1..MaxVersion) : r[1] < e /\ r[2] <= ver[r[1]]}

\* The entities of one Iterate, each once.  leveldb starts at the first key
\* not below `from`, so at that entity itself, and stops after ChunkSize
\* entities; cassandra starts after it, and reads ChunkSize rows.
ChunkInclusive ==
  LET found == InOrder({e \in Entities : ver[e] > 0 /\ e >= from})
  IN SubSeq(found, 1, Min({ChunkSize, Len(found)}))
Chunk ==
  IF Driver = "leveldb"
  THEN LET found == InOrder({e \in Entities : ver[e] > 0 /\ e >= from})
       IN SubSeq(found, 1, Min({ChunkSize, Len(found)}))
  ELSE LET after == {e \in Entities : ver[e] > 0 /\ e > from}
       IN InOrder({e \in after : Cardinality(RowsBefore(e, after)) < ChunkSize})

\* Iterate reads from an iterator made at its start, a snapshot.
Iterate ==
  /\ lpc = "iterate"
  /\ lpc' = "scan"
  /\ chunk' = Chunk
  /\ handled' = 0
  /\ UNCHANGED <<ver, docs, from, ch, closed, work, sent, start, notes, failures, restarts>>

\* ch <- e, which blocks while the channel is full.
SendOverCapacity ==
  /\ lpc = "scan"
  /\ handled < Len(chunk)
  /\ Len(ch) <= BufCap
  /\ ch' = Append(ch, chunk[handled + 1])
  /\ sent' = sent \cup {chunk[handled + 1]}
  /\ handled' = handled + 1
  /\ UNCHANGED <<ver, docs, lpc, from, chunk, closed, work, start, notes, failures, restarts>>
SendOrDrop ==
  /\ lpc = "scan"
  /\ handled < Len(chunk)
  /\ IF Len(ch) < BufCap
     THEN /\ ch' = Append(ch, chunk[handled + 1])
          /\ sent' = sent \cup {chunk[handled + 1]}
     ELSE UNCHANGED <<ch, sent>>
  /\ handled' = handled + 1
  /\ UNCHANGED <<ver, docs, lpc, from, chunk, closed, work, start, notes, failures, restarts>>
Send ==
  /\ lpc = "scan"
  /\ handled < Len(chunk)
  /\ Len(ch) < BufCap
  /\ ch' = Append(ch, chunk[handled + 1])
  /\ sent' = sent \cup {chunk[handled + 1]}
  /\ handled' = handled + 1
  /\ UNCHANGED <<ver, docs, lpc, from, chunk, closed, work, start, notes, failures, restarts>>

\* Iterate returns: on from its last entity, or, when it found none, done.
NextFromBeyond == Last(chunk) + 1
NextFrom == Last(chunk)

ChunkDone ==
  /\ lpc = "scan"
  /\ handled = Len(chunk)
  /\ IF chunk = <<>>
     THEN lpc' = "ended" /\ UNCHANGED from
     ELSE lpc' = "iterate" /\ from' = NextFrom
  /\ UNCHANGED <<ver, docs, chunk, handled, ch, closed, work, sent, start, notes, failures,
                 restarts>>

\* Iterate fails, at once or after sending some: LoopOnce gives up.
IterateFails ==
  /\ lpc \in {"iterate", "scan"}
  /\ failures + restarts < MaxFaults
  /\ failures' = failures + 1
  /\ lpc' = "ended"
  /\ UNCHANGED <<ver, docs, from, chunk, handled, ch, closed, work, sent, start, notes, restarts>>

\* Finish: close(s.ch), then s.wg.Wait().
Finish ==
  /\ lpc = "ended" /\ ~Forever
  /\ lpc' = "finishing"
  /\ closed' = TRUE
  /\ UNCHANGED <<ver, docs, from, chunk, handled, ch, work, sent, start, notes, failures, restarts>>

FinishReturns ==
  /\ lpc = "finishing"
  /\ \A w \in Workers : wpc[w] = "done"
  /\ lpc' = "finished"
  /\ UNCHANGED <<ver, docs, from, chunk, handled, ch, closed, work, sent, start, notes, failures,
                 restarts>>

----------------------------------------------------------------------------
(* regenerateAndIndex. *)

\* An entity whose kind has no Indexer is skipped.
Receive(w) ==
  /\ wpc[w] = "recv"
  /\ ch # <<>>
  /\ ch' = Tail(ch)
  /\ IF Head(ch) \in Registered
     THEN /\ job' = [job EXCEPT ![w] = [e |-> Head(ch), data |-> 0]]
          /\ wpc' = [wpc EXCEPT ![w] = "regenerate"]
     ELSE UNCHANGED <<job, wpc>>
  /\ UNCHANGED <<ver, docs, loop, closed, older, outdated, notes, failures, restarts>>

WorkerExitUndrained(w) ==
  /\ wpc[w] = "recv"
  /\ closed
  /\ wpc' = [wpc EXCEPT ![w] = "done"]
  /\ UNCHANGED <<ver, docs, loop, ch, closed, job, older, outdated, notes, failures, restarts>>
WorkerExit(w) ==
  /\ wpc[w] = "recv"
  /\ closed /\ ch = <<>>
  /\ wpc' = [wpc EXCEPT ![w] = "done"]
  /\ UNCHANGED <<ver, docs, loop, ch, closed, job, older, outdated, notes, failures, restarts>>

\* The application's processUpdates does the same with what was committed.
AppReceive(a) ==
  /\ wpc[a] = "recv"
  /\ notes # <<>>
  /\ notes' = Tail(notes)
  /\ IF Head(notes) \in Registered
     THEN /\ job' = [job EXCEPT ![a] = [e |-> Head(notes), data |-> 0]]
          /\ wpc' = [wpc EXCEPT ![a] = "regenerate"]
     ELSE UNCHANGED <<job, wpc>>
  /\ UNCHANGED <<ver, docs, loop, ch, closed, older, outdated, failures, restarts>>

\* Goroutines with a document under way.
Stamped == {w \in Goroutines : wpc[w] \in {"query", "update"}}

\* Those with a document of the same entity that is older than that of w, to
\* be refused once that of w is accepted.
OlderNone(w) == {}
Older(w) == {v \in Stamped : job[v].e = job[w].e /\ <<v, w>> \in older}

\* Where a new NanoTs falls among the others: after them, or, on another
\* host, anywhere, and perhaps before that of the indexed document.
Stamp(w) ==
  IF SkewedClocks
  THEN /\ \E S \in SUBSET Stamped :
            /\ \A x \in older : x[2] \in S => x[1] \in S
            /\ older' = older \cup (S \X {w}) \cup ({w} \X (Stamped \ S))
       /\ outdated' \in {outdated, outdated \cup {w}}
       /\ w \in outdated' => docs[job[w].e] > 0
       /\ \A v \in outdated' : Older(v)' \subseteq outdated'
  ELSE older' = older \cup (Stamped \X {w}) /\ UNCHANGED outdated

\* The order of the NanoTs that are left without those of G.
Without(G) == {x \in older : x[1] \notin G /\ x[2] \notin G}

\* Regenerate takes the NanoTs of the document ...
Regenerate(w) ==
  /\ wpc[w] = "regenerate"
  /\ wpc' = [wpc EXCEPT ![w] = "query"]
  /\ UNCHANGED job
  /\ Stamp(w)
  /\ UNCHANGED <<ver, docs, loop, ch, closed, notes, failures, restarts>>

\* ... and then reads the entity.
Query(w) ==
  /\ wpc[w] = "query"
  /\ wpc' = [wpc EXCEPT ![w] = "update"]
  /\ job' = [job EXCEPT ![w].data = ver[job[w].e]]
  /\ UNCHANGED <<ver, docs, loop, ch, closed, older, outdated, notes, failures, restarts>>

\* The worker has handed its document over and goes on to the next entity.
HandedOver(w) ==
  /\ wpc[w] = "update"
  /\ wpc' = [wpc EXCEPT ![w] = "recv"]
  /\ job' = [job EXCEPT ![w] = NoJob]
  /\ older' = Without({w})

\* The engine keeps the document with the larger NanoTs.
Update(w) ==
  /\ HandedOver(w)
  /\ IF w \in outdated
     THEN /\ outdated' = outdated \ {w}
          /\ UNCHANGED docs
     ELSE /\ docs' = [docs EXCEPT ![job[w].e] = job[w].data]
          /\ outdated' = outdated \cup Older(w)
  /\ UNCHANGED <<ver, loop, ch, closed, notes, failures, restarts>>

\* The engine fails; the error is logged and the document is lost.
UpdateFails(w) ==
  /\ HandedOver(w)
  /\ failures + restarts < MaxFaults
  /\ failures' = failures + 1
  /\ outdated' = outdated \ {w}
  /\ UNCHANGED <<ver, docs, loop, ch, closed, notes, restarts>>

----------------------------------------------------------------------------
\* A process is killed, or Regenerate's query fails and it exits, and it is
\* started again: what its goroutines G were doing is lost.
Restarted(G) ==
  /\ failures + restarts < MaxFaults
  /\ restarts' = restarts + 1
  /\ wpc' = [w \in Goroutines |-> IF w \in G THEN "recv" ELSE wpc[w]]
  /\ job' = [w \in Goroutines |-> IF w \in G THEN NoJob ELSE job[w]]
  /\ older' = Without(G)
  /\ outdated' = outdated \ G
  /\ UNCHANGED <<ver, docs, failures>>

Restart ==
  /\ lpc # "finished"
  /\ Restarted(Workers)
  /\ lpc' = "idle"
  /\ from' = 0
  /\ chunk' = <<>>
  /\ handled' = 0
  /\ ch' = <<>>
  /\ closed' = FALSE
  /\ sent' = {}
  /\ start' = ver
  /\ UNCHANGED notes

AppRestart ==
  /\ AppWorkers # {}
  /\ Restarted(AppWorkers)
  /\ notes' = <<>>
  /\ UNCHANGED <<loop, ch, closed>>

Loop == LoopOnce \/ Iterate \/ Send \/ ChunkDone \/ IterateFails \/ Finish \/ FinishReturns

Handle(w) == Regenerate(w) \/ Query(w) \/ Update(w) \/ UpdateFails(w)
Work(w) == Receive(w) \/ WorkerExit(w) \/ Handle(w)
AppWork(a) == AppReceive(a) \/ Handle(a)

Stopped == lpc = "finished" /\ UNCHANGED vars

Next ==
  \/ \E e \in Entities : Commit(e)
  \/ Loop
  \/ \E w \in Workers : Work(w)
  \/ \E a \in AppWorkers : AppWork(a) \/ AppRestart
  \/ Restart
  \/ Stopped

\* The goroutine in LoopOnce and the workers run when they can.
Fairness ==
  /\ WF_vars(Loop)
  /\ \A w \in Workers : WF_vars(Work(w))
  /\ \A a \in AppWorkers : WF_vars(AppWork(a))

Spec == Init /\ [][Next]_vars /\ Fairness

----------------------------------------------------------------------------
(* Properties. *)

\* The type of every variable.
TypeOK ==
  /\ ver \in [Entities -> 0..MaxVersion]
  /\ docs \in [Entities -> 0..MaxVersion]
  /\ lpc \in {"idle", "iterate", "scan", "ended", "finishing", "finished"}
  /\ from \in Entities \cup {0}
  /\ chunk \in Seq(Entities) /\ IsInjective(chunk)
  /\ handled \in 0..Len(chunk)
  /\ ch \in Seq(Entities) /\ Len(ch) <= BufCap
  /\ closed \in BOOLEAN
  /\ wpc \in [Goroutines -> {"recv", "regenerate", "query", "update", "done"}]
  /\ job \in [Goroutines -> [e: Entities \cup {0}, data: 0..MaxVersion]]
  /\ older \subseteq Stamped \X Stamped
  /\ outdated \subseteq Stamped
  /\ notes \in Seq(Entities)
  /\ sent \subseteq Entities
  /\ start \in [Entities -> 0..MaxVersion]
  /\ failures \in Nat /\ restarts \in Nat /\ failures + restarts <= MaxFaults

\* "LoopOnce would cycle over all entities in the store": however the chunks
\* fall and whatever is committed meanwhile, an entity that was stored when
\* the cycle began is not skipped at the seam of two chunks.
NothingSkipped ==
  \A e \in Entities : start[e] > 0 =>
    /\ lpc = "iterate" /\ e <= from => e \in sent
    /\ lpc = "scan" /\ handled = Len(chunk) /\ chunk = <<>> => e \in sent

\* After LoopOnce and Finish, unless the store or the engine failed, the
\* index shows every entity at least as it was when the loop began: neither
\* the chunks nor the closing of the channel lost one, and no older document
\* replaced a newer one.
FreshAfterFinish ==
  lpc = "finished" /\ failures = 0 =>
    \A e \in Registered : docs[e] >= start[e]

\* "Method 2 ensures eventual consistency": a document that does not show
\* its entity's last version will.
EventuallyConsistent ==
  \A e \in Registered : docs[e] # ver[e] ~> docs[e] = ver[e]

\* LoopOnce comes to the end of the table and returns.
LoopOnceReturns == lpc = "iterate" ~> lpc \in {"ended", "finishing", "finished"}
=============================================================================
