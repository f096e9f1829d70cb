--------------------------- MODULE IndexingProofs ---------------------------
(* What is proved of Indexing, for every set of entities, producers and     *)
(* workers, every channel capacity and every Indexer that keeps to the      *)
(* contract; and that it implements RegularIndex: the initial states map to *)
(* initial states, and each step maps to a step of the abstract index or to *)
(* a stutter.                                                               *)
EXTENDS IndexingRefines, TLAPS

-----------------------------------------------------------------------------
(* Sequences and records. *)

\* What a worker does with a sequence: its tail, its head, its elements.
LEMMA NonEmptySeq ==
  ASSUME NEW S, NEW s \in Seq(S), s # <<>>
  PROVE  /\ Head(s) \in S /\ Tail(s) \in Seq(S)
         /\ Len(s) \in Nat \ {0}
         /\ Head(s) \in Elems(s)
         /\ Elems(s) = {Head(s)} \cup Elems(Tail(s))
<1>1. Len(s) \in Nat /\ Len(s) # 0 /\ Head(s) = s[1] /\ s[1] \in S
  OBVIOUS
<1>2. Tail(s) \in Seq(S) /\ Len(Tail(s)) = Len(s) - 1
  OBVIOUS
<1>3. \A i \in 1..(Len(s) - 1) : Tail(s)[i] = s[i + 1]
  OBVIOUS
<1>4. Elems(s) = {s[i] : i \in 1..Len(s)}
  BY DEF Elems
<1>5. Elems(Tail(s)) = {s[i + 1] : i \in 1..(Len(s) - 1)}
  <2>1. DOMAIN Tail(s) = 1..(Len(s) - 1)
    BY <1>2
  <2> QED
    BY <1>3, <2>1, Zenon DEF Elems
<1>6. Elems(s) = {Head(s)} \cup Elems(Tail(s))
  <2>1. ASSUME NEW x \in Elems(s) PROVE x = Head(s) \/ x \in Elems(Tail(s))
    <3>1. PICK i \in 1..Len(s) : x = s[i]
      BY <1>4
    <3>2. CASE i = 1
      BY <3>1, <3>2, <1>1
    <3>3. CASE i # 1
      <4>1. i - 1 \in 1..(Len(s) - 1) /\ s[(i - 1) + 1] = x
        BY <3>1, <3>3, <1>1
      <4> QED
        BY <4>1, <1>5
    <3> QED
      BY <3>2, <3>3
  <2>2. ASSUME NEW x \in Elems(Tail(s)) PROVE x \in Elems(s)
    <3>1. PICK i \in 1..(Len(s) - 1) : x = s[i + 1]
      BY <1>5
    <3>2. i + 1 \in 1..Len(s)
      BY <1>1, <3>1
    <3> QED
      BY <3>1, <3>2, <1>4
  <2>3. Head(s) \in Elems(s)
    BY <1>1, <1>4
  <2> QED
    BY <2>1, <2>2, <2>3
<1> QED
  BY <1>1, <1>2, <1>6

\* An empty sequence has no elements.
LEMMA EmptySeq == Elems(<<>>) = {}
BY DEF Elems

\* A send puts one more element on the channel.
LEMMA AppendElems ==
  ASSUME NEW S, NEW s \in Seq(S), NEW x \in S
  PROVE  Append(s, x) \in Seq(S) /\ Elems(Append(s, x)) = Elems(s) \cup {x}
<1>1. Append(s, x) \in Seq(S) /\ Len(Append(s, x)) = Len(s) + 1 /\ Len(s) \in Nat
  OBVIOUS
<1>2. \A i \in 1..Len(s) : Append(s, x)[i] = s[i]
  OBVIOUS
<1>3. Append(s, x)[Len(s) + 1] = x
  OBVIOUS
<1>4. DOMAIN Append(s, x) = 1..(Len(s) + 1) /\ DOMAIN s = 1..Len(s)
  OBVIOUS
<1>5. \A i \in 1..(Len(s) + 1) : i \in 1..Len(s) \/ i = Len(s) + 1
  BY <1>1
<1>6. \A i \in 1..Len(s) : i \in 1..(Len(s) + 1)
  BY <1>1
<1>7. Len(s) + 1 \in 1..(Len(s) + 1)
  BY <1>1
<1> QED
  BY <1>1, <1>2, <1>3, <1>4, <1>5, <1>6, <1>7 DEF Elems

-----------------------------------------------------------------------------
(* Types. *)

\* An idle worker's job has the type of a job.
LEMMA NoJobType == NoJob \in Job /\ NoJob.ts = 0 /\ NoData \in Versions
<1>1. (CHOOSE e \in Entities : TRUE) \in Entities
  BY IndexingConstants
<1>2. NoData \in Versions
  BY DEF NoData, Versions
<1> QED
  BY <1>1, <1>2 DEF NoJob, Job

\* Reading one more entity's rows into a document.
LEMMA ReadIntoType ==
  ASSUME NEW j \in Job, ver \in Versions, NEW d \in j.left
  PROVE  /\ ReadInto(j, d) \in Job
         /\ ReadInto(j, d).e = j.e /\ ReadInto(j, d).ts = j.ts
         /\ ReadInto(j, d).left = ReadNext(j, d)
         /\ \A x \in Entities :
              ReadInto(j, d).data[x] = IF x = d THEN ver[d] ELSE j.data[x]
<1> DEFINE new == [j.data EXCEPT ![d] = ver[d]]
<1>1. j.e \in Entities /\ j.ts \in Nat /\ j.left \subseteq Entities
        /\ j.data \in Versions /\ d \in Entities
  BY DEF Job
<1>2. new \in Versions /\ \A x \in Entities : new[x] = IF x = d THEN ver[d] ELSE j.data[x]
  BY <1>1 DEF Versions
<1>3. ReadNext(j, d) \subseteq Entities
  BY <1>1, IndexerContract DEF ReadNext
<1>4. ReadInto(j, d) = [e |-> j.e, ts |-> j.ts, left |-> ReadNext(j, d), data |-> new]
  BY DEF ReadInto
<1> HIDE DEF new
<1> QED
  BY <1>1, <1>2, <1>3, <1>4 DEF Job

\* Initially every variable has its type.
LEMMA InitType == Init => TypeOK
<1> SUFFICES ASSUME Init PROVE TypeOK
  OBVIOUS
<1>1. docs \in [Entities -> Doc]
  <2>1. [ts |-> 0, data |-> NoData] \in Doc
    BY NoJobType DEF Doc
  <2> QED
    BY <2>1 DEF Init
<1>2. job \in [Workers -> Job]
  BY NoJobType DEF Init
<1>3. ver \in Versions /\ cts \in Versions /\ lost \subseteq Shows
  BY NoJobType DEF Init
<1>4. /\ commits \in Nat /\ clock \in Nat /\ restarts \in Nat
      /\ closed \in BOOLEAN /\ crashed \in BOOLEAN
      /\ waiter \in {"no", "waiting", "done"}
  BY DEF Init
<1>5. /\ toSend \in [Producers -> Seq(Entities)] /\ chan \in Seq(Entities)
      /\ dirty \in [Workers -> Seq(Entities)]
      /\ wpc \in [Workers -> {"recv", "loop", "read", "write", "done"}]
  BY DEF Init
<1> QED
  BY <1>1, <1>2, <1>3, <1>4, <1>5 DEF TypeOK

\* time.Now() is not before the clock of the model.
LEMMA NowType == ASSUME clock \in Nat PROVE \A t \in Now : t \in Nat /\ t >= clock
BY DEF Now

\* What a commit, whole or half-way, does to the store and what it leaves alone.
LEMMA CommitStores ==
  ASSUME NEW p \in Producers, Commit(p) \/ CommitFails(p)
  PROVE  /\ \E es : \E t \in Now : Stores(es, t)
         /\ commits' = commits + 1
         /\ UNCHANGED <<chan, closed, waiter, wpc, dirty, job, docs, crashed, restarts>>
<1>1. CASE Commit(p)
  BY <1>1 DEF Commit, MayCommit
<1>2. CASE CommitFails(p)
  <2>1. PICK es \in Commits, t \in Now : \E k \in DOMAIN es : Stores(SubSeq(es, 1, k), t)
    BY <1>2 DEF CommitFails
  <2>2. \E some : \E u \in Now : Stores(some, u)
    BY <2>1
  <2> QED
    BY <1>2, <2>2 DEF CommitFails, MayCommit, proc
<1> QED
  BY <1>1, <1>2

\* Going on to the next dirty entity keeps the types of the worker.
LEMMA NextDirtyType ==
  ASSUME TypeOK, NEW w \in Workers, dirty[w] # <<>>, NextDirty(w)
  PROVE  /\ wpc' \in [Workers -> {"recv", "loop", "read", "write", "done"}]
         /\ dirty' \in [Workers -> Seq(Entities)]
         /\ job' \in [Workers -> Job]
<1>1. Tail(dirty[w]) \in Seq(Entities)
  BY NonEmptySeq DEF TypeOK
<1>2. LoopOrReceive(Tail(dirty[w])) \in {"recv", "loop"}
  BY DEF LoopOrReceive
<1> QED
  BY <1>1, <1>2, NoJobType DEF NextDirty, TypeOK

\* A worker with something to do has it at the head of its dirty list.
Busy == \A w \in Workers : wpc[w] \in {"loop", "read", "write"} => dirty[w] # <<>>

\* Every step leaves it so.
LEMMA BusyStep == TypeOK /\ Busy /\ [Next]_vars => Busy'
<1> SUFFICES ASSUME TypeOK, Busy, [Next]_vars PROVE Busy'
  OBVIOUS
<1>1. ASSUME NEW w \in Workers, Receive(w) PROVE Busy'
  BY <1>1 DEF Receive, LoopOrReceive, Busy, TypeOK
<1>9. ASSUME NEW w \in Workers, OnUpdateFails(w) PROVE Busy'
  BY <1>9 DEF OnUpdateFails, Busy, TypeOK
<1>2. ASSUME NEW w \in Workers, NextDirty(w) PROVE Busy'
  BY <1>2 DEF NextDirty, LoopOrReceive, Busy, TypeOK
<1>3. ASSUME NEW w \in Workers, SkipDirty(w) PROVE Busy'
  BY <1>3 DEF SkipDirty, LoopOrReceive, Busy, TypeOK
<1>4. ASSUME NEW w \in Workers, Work(w) PROVE Busy'
  <2>1. CASE WorkerExit(w) BY <2>1 DEF WorkerExit, Busy, TypeOK
  <2>2. CASE StartRegenerate(w) BY <2>2 DEF StartRegenerate, Busy, TypeOK
  <2>3. CASE Read(w) BY <2>3 DEF Read, Busy
  <2>4. CASE ElasticUpdate(w) BY <2>4, <1>2 DEF ElasticUpdate
  <2>5. CASE ElasticFails(w) BY <2>5, <1>2 DEF ElasticFails
  <2>6. CASE MemLookup(w) BY <2>6, <1>2 DEF MemLookup, Regenerated, Busy, TypeOK
  <2>7. CASE MemWrite(w) BY <2>7, <1>2 DEF MemWrite
  <2>8. CASE MemRaceThrows(w) BY <2>8 DEF MemRaceThrows, Die, proc, Busy
  <2> QED BY <1>1, <1>3, <1>4, <1>9, <2>1, <2>2, <2>3, <2>4, <2>5, <2>6, <2>7, <2>8 DEF Work
<1>5. ASSUME NEW p \in Producers, Send(p) \/ SendOnClosed(p) PROVE Busy'
  BY <1>5 DEF Send, SendOnClosed, Die, proc, Busy
<1>10. ASSUME NEW p \in Producers, Commit(p) \/ CommitFails(p) PROVE Busy'
  BY <1>10, CommitStores DEF Busy
<1>6. CASE Close \/ WaitReturns \/ Crash
  BY <1>6 DEF Close, WaitReturns, Crash, Die, proc, Busy
<1>7. CASE Restart
  BY <1>7 DEF Restart, Busy
<1>8. CASE Stopped \/ UNCHANGED vars
  BY <1>8 DEF Stopped, vars, proc, Busy
<1> QED
  BY <1>4, <1>5, <1>6, <1>7, <1>8, <1>10 DEF Next

\* Every step keeps the types.
LEMMA TypeStep == TypeOK /\ Busy /\ [Next]_vars => TypeOK'
<1> SUFFICES ASSUME TypeOK, Busy, [Next]_vars PROVE TypeOK'
  OBVIOUS
<1>1. ASSUME NEW p \in Producers, Commit(p) \/ CommitFails(p) PROVE TypeOK'
  <2>6. PICK es : \E t \in Now : Stores(es, t)
    BY <1>1, CommitStores
  <2>1. PICK t \in Now : Stores(es, t)
    BY <2>6
  <2>2. t \in Nat
    BY NowType DEF TypeOK
  <2>3. ver' \in Versions /\ cts' \in Versions /\ clock' \in Nat
    BY <2>1, <2>2 DEF Stores, TypeOK, Versions
  <2>4. toSend' \in [Producers -> Seq(Entities)]
    <3>1. CASE Commit(p)
      BY <3>1, IndexerContract DEF Commit, TypeOK
    <3>2. CASE CommitFails(p)
      BY <3>2 DEF CommitFails, proc, TypeOK
    <3> QED
      BY <1>1, <3>1, <3>2
  <2>5. lost' \subseteq Shows
    BY <1>1 DEF Commit, CommitFails, TypeOK
  <2> QED
    BY <1>1, <2>3, <2>4, <2>5, CommitStores DEF TypeOK
<1>2. ASSUME NEW p \in Producers, Send(p) PROVE TypeOK'
  <2>1. toSend[p] \in Seq(Entities) /\ toSend[p] # <<>>
    BY <1>2 DEF Send, TypeOK
  <2>2. Head(toSend[p]) \in Entities /\ Tail(toSend[p]) \in Seq(Entities)
    BY <2>1, NonEmptySeq
  <2>3. chan' \in Seq(Entities)
    BY <1>2, <2>2, AppendElems DEF Send, TypeOK
  <2> QED
    BY <1>2, <2>2, <2>3 DEF Send, TypeOK
<1>3. ASSUME Die PROVE TypeOK'
  BY <1>3 DEF Die, proc, TypeOK
<1>4. ASSUME NEW w \in Workers, Work(w) PROVE TypeOK'
  <2>1. CASE Receive(w)
    <3>1. Head(chan) \in Entities /\ Tail(chan) \in Seq(Entities)
      BY <2>1, NonEmptySeq DEF Receive, TypeOK
    <3>2. OnUpdate(Head(chan)) \in Seq(Entities)
      BY <3>1, IndexerContract DEF OnUpdate
    <3> QED
      BY <2>1, <3>1, <3>2 DEF Receive, LoopOrReceive, TypeOK
  <2>10. CASE OnUpdateFails(w)
    <3>1. Head(chan) \in Entities /\ Tail(chan) \in Seq(Entities)
      BY <2>10, NonEmptySeq DEF OnUpdateFails, TypeOK
    <3>2. <<Head(chan)>> \in Seq(Entities)
      BY <3>1
    <3>3. lost' \subseteq Shows
      BY <2>10 DEF OnUpdateFails, TypeOK
    <3> QED
      BY <2>10, <3>1, <3>2, <3>3 DEF OnUpdateFails, TypeOK
  <2>2. CASE WorkerExit(w)
    BY <2>2 DEF WorkerExit, TypeOK
  <2>3. CASE SkipDirty(w)
    <3>1. Tail(dirty[w]) \in Seq(Entities)
      BY <2>3, NonEmptySeq DEF SkipDirty, Busy, TypeOK
    <3> QED
      BY <2>3, <3>1 DEF SkipDirty, LoopOrReceive, TypeOK
  <2>4. CASE StartRegenerate(w)
    <3>1. Head(dirty[w]) \in Entities
      BY <2>4, NonEmptySeq DEF StartRegenerate, Busy, TypeOK
    <3>2. PICK t \in Now : clock' = t /\ job' = [job EXCEPT ![w] =
            [e |-> Head(dirty[w]), ts |-> t, left |-> {Head(dirty[w])}, data |-> NoData]]
      BY <2>4 DEF StartRegenerate
    <3>3. t \in Nat
      BY NowType DEF TypeOK
    <3>4. [e |-> Head(dirty[w]), ts |-> t, left |-> {Head(dirty[w])}, data |-> NoData] \in Job
      BY <3>1, <3>3, NoJobType DEF Job
    <3>5. job' \in [Workers -> Job]
      BY <3>2, <3>4 DEF TypeOK
    <3> QED
      BY <2>4, <3>2, <3>3, <3>5 DEF StartRegenerate, TypeOK
  <2>5. CASE Read(w)
    <3>1. PICK d \in job[w].left : job' = [job EXCEPT ![w] = ReadInto(job[w], d)]
      BY <2>5 DEF Read
    <3>2. ReadInto(job[w], d) \in Job
      BY ReadIntoType DEF TypeOK
    <3> QED
      BY <2>5, <3>1, <3>2 DEF Read, TypeOK
  <2>6. CASE ElasticUpdate(w) \/ MemWrite(w)
    <3>1. DocOf(w) \in Doc /\ job[w].e \in Entities
      BY DEF TypeOK, DocOf, Doc, Job
    <3>2. docs' \in [Entities -> Doc]
      BY <2>6, <3>1 DEF ElasticUpdate, MemWrite, TypeOK
    <3>3. dirty[w] # <<>> /\ NextDirty(w)
      BY <2>6 DEF ElasticUpdate, MemWrite, Regenerated, Busy
    <3> QED
      BY <2>6, <3>2, <3>3, NextDirtyType DEF ElasticUpdate, MemWrite, TypeOK
  <2>7. CASE ElasticFails(w)
    <3>1. dirty[w] # <<>> /\ NextDirty(w)
      BY <2>7 DEF ElasticFails, Regenerated, Busy
    <3>2. lost' \subseteq Shows
      BY <2>7 DEF ElasticFails, TypeOK
    <3> QED
      BY <2>7, <3>1, <3>2, NextDirtyType DEF ElasticFails, TypeOK
  <2>8. CASE MemLookup(w)
    <3>1. CASE NextDirty(w)
      <4>1. dirty[w] # <<>>
        BY <2>8 DEF MemLookup, Regenerated, Busy
      <4> QED
        BY <2>8, <3>1, <4>1, NextDirtyType DEF MemLookup, TypeOK
    <3>2. CASE wpc' = [wpc EXCEPT ![w] = "write"] /\ UNCHANGED <<dirty, job>>
      BY <2>8, <3>2 DEF MemLookup, TypeOK
    <3> QED
      BY <2>8, <3>1, <3>2 DEF MemLookup
  <2>9. CASE MemRaceThrows(w)
    BY <1>3, <2>9 DEF MemRaceThrows
  <2> QED
    BY <1>4, <2>1, <2>2, <2>3, <2>4, <2>5, <2>6, <2>7, <2>8, <2>9, <2>10 DEF Work
<1>5. CASE Close \/ WaitReturns
  BY <1>5 DEF Close, WaitReturns, TypeOK
<1>6. CASE Restart
  <2>1. docs' \in [Entities -> Doc]
    <3>1. [ts |-> 0, data |-> NoData] \in Doc
      BY NoJobType DEF Doc
    <3> QED
      BY <1>6, <3>1 DEF Restart, TypeOK
  <2>2. lost' \subseteq Shows
    BY <1>6 DEF Restart, TypeOK
  <2>3. job' \in [Workers -> Job]
    BY <1>6, NoJobType DEF Restart
  <2>4. /\ toSend' \in [Producers -> Seq(Entities)] /\ chan' \in Seq(Entities)
        /\ dirty' \in [Workers -> Seq(Entities)]
        /\ wpc' \in [Workers -> {"recv", "loop", "read", "write", "done"}]
    BY <1>6 DEF Restart
  <2>5. restarts' \in Nat
    BY <1>6 DEF Restart, TypeOK
  <2>6. UNCHANGED <<ver, cts, commits, clock>>
    BY <1>6 DEF Restart
  <2>7. ver' \in Versions /\ cts' \in Versions /\ commits' \in Nat /\ clock' \in Nat
    BY <2>6 DEF TypeOK
  <2>8. /\ closed' \in BOOLEAN /\ crashed' \in BOOLEAN
        /\ waiter' \in {"no", "waiting", "done"}
    BY <1>6 DEF Restart
  <2> QED
    BY <2>1, <2>2, <2>3, <2>4, <2>5, <2>7, <2>8 DEF TypeOK
<1>7. CASE Stopped \/ UNCHANGED vars
  BY <1>7 DEF Stopped, vars, proc, TypeOK
<1> QED
  BY <1>1, <1>2, <1>3, <1>4, <1>5, <1>6, <1>7 DEF Next, SendOnClosed, Crash

\* Every variable always has its type: in particular no worker goes on to a
\* dirty entity it does not have.
THEOREM TypeCorrect == Spec => []TypeOK
<1>1. Init => TypeOK /\ Busy
  BY InitType DEF Init, Busy
<1>2. TypeOK /\ Busy /\ [Next]_vars => (TypeOK /\ Busy)'
  BY TypeStep, BusyStep
<1> QED
  BY <1>1, <1>2, PTL DEF Spec

-----------------------------------------------------------------------------
(* The index follows the store.  From here on the engine is elasticsearch   *)
(* and the clock strict.                                                    *)

Inv == TypeOK /\ Busy /\ IndInv

\* The invariant holds initially, when nothing is stored and nothing indexed.
LEMMA InvInit ==
  ASSUME Engine = "elasticsearch", StrictClock, Init
  PROVE  Inv
<1>1. TypeOK /\ Busy
  BY InitType DEF Init, Busy
<1>2. \A d \in Entities : cts[d] = 0 /\ docs[d].ts = 0
  BY DEF Init, NoData
<1>3. Clocked
  BY <1>2, NoJobType DEF Init, Clocked
<1>4. \A w \in Workers : AtWork(w) /\ JobFaithful(w)
  BY DEF Init, AtWork, JobFaithful
<1>5. \A e \in Registered : DocFaithful(e) /\ Repairable(e)
  <2>1. \A e \in Entities : docs[e].data = ver
    BY DEF Init
  <2> QED
    <3>1. \A e \in Registered : e \in Entities /\ Reads[e] \subseteq Entities
      BY IndexerContract
    <3>2. \A e \in Registered : DocFaithful(e)
      BY <2>1, <3>1 DEF DocFaithful
    <3>3. \A e \in Registered : Repairable(e)
      BY <1>2, <3>1 DEF Repairable
    <3> QED
      BY <3>2, <3>3
<1> QED
  BY <1>1, <1>3, <1>4, <1>5 DEF Inv, IndInv

\* The clock never goes back, and what is stamped now is later than all else.
LEMMA ClockedStep ==
  ASSUME Inv, [Next]_vars, StrictClock
  PROVE  Clocked'
<1>1. clock \in Nat /\ \A t \in Now : t = clock + 1
  BY DEF Now, Inv, TypeOK
<1>2. TypeOK' /\ TypeOK /\ Clocked
  BY TypeStep DEF Inv, IndInv
<1>3. \A d \in Entities : /\ cts[d] \in Nat /\ docs[d].ts \in Nat
                          /\ cts'[d] \in Nat /\ docs'[d].ts \in Nat
  BY <1>2 DEF TypeOK, Versions, Doc
<1>4. \A w \in Workers : job[w].ts \in Nat /\ job'[w].ts \in Nat
  BY <1>2 DEF TypeOK, Job
<1>5. clock' \in Nat
  BY <1>2 DEF TypeOK
<1>6. ASSUME NEW p \in Producers, Commit(p) \/ CommitFails(p) PROVE Clocked'
  <2>3. PICK es : \E t \in Now : Stores(es, t)
    BY <1>6, CommitStores
  <2>1. PICK t \in Now : Stores(es, t)
    BY <2>3
  <2>2. UNCHANGED <<docs, job>>
    BY <1>6, CommitStores
  <2> QED
    BY <1>1, <1>2, <1>3, <1>4, <2>1, <2>2 DEF Stores, Clocked
<1>7. ASSUME NEW p \in Producers, Send(p) \/ SendOnClosed(p) PROVE Clocked'
  BY <1>2, <1>7 DEF Send, SendOnClosed, Die, proc, Clocked
<1>8. CASE Close \/ WaitReturns \/ Crash \/ Stopped \/ UNCHANGED vars
  BY <1>2, <1>8 DEF Close, WaitReturns, Crash, Stopped, Die, vars, proc, Clocked
<1>9. CASE Restart
  <2>1. clock' = clock /\ cts' = cts
    BY <1>9 DEF Restart
  <2>2. \A d \in Entities : docs'[d] = docs[d] \/ docs'[d].ts = 0
    BY <1>9 DEF Restart
  <2>3. \A w \in Workers : job'[w].ts = 0
    BY <1>9, NoJobType DEF Restart
  <2> QED
    BY <1>1, <1>2, <1>3, <2>1, <2>2, <2>3 DEF Clocked
<1>10. ASSUME NEW w \in Workers, NextDirty(w)
       PROVE  \A v \in Workers : job'[v] = job[v] \/ job'[v].ts = 0
  BY <1>2, <1>10, NoJobType DEF NextDirty, TypeOK
<1>11. ASSUME NEW w \in Workers, Work(w) PROVE Clocked'
  <2>1. CASE \/ Receive(w) \/ OnUpdateFails(w) \/ WorkerExit(w) \/ SkipDirty(w)
             \/ MemRaceThrows(w)
    BY <1>2, <2>1 DEF Receive, OnUpdateFails, WorkerExit, SkipDirty, MemRaceThrows, Die, proc,
         Clocked
  <2>2. CASE StartRegenerate(w)
    <3>1. clock' = clock + 1 /\ \A v \in Workers : job'[v] = job[v] \/ job'[v].ts = clock + 1
      BY <1>1, <1>2, <2>2 DEF StartRegenerate, TypeOK
    <3>2. UNCHANGED <<cts, docs>>
      BY <2>2 DEF StartRegenerate
    <3> QED
      BY <1>1, <1>2, <1>3, <1>4, <3>1, <3>2 DEF Clocked
  <2>3. CASE Read(w)
    <3>1. \A v \in Workers : job'[v].ts = job[v].ts
      BY <1>2, <2>3, ReadIntoType DEF Read, TypeOK
    <3> QED
      BY <1>2, <2>3, <3>1 DEF Read, Clocked
  <2>4. CASE ElasticUpdate(w) \/ MemWrite(w)
    <3>1. \A d \in Entities : docs'[d].ts = docs[d].ts \/ docs'[d].ts = job[w].ts
      <4>1. DocOf(w).ts = job[w].ts
        BY DEF DocOf
      <4>2. docs' = docs \/ docs' = [docs EXCEPT ![job[w].e] = DocOf(w)]
        BY <2>4 DEF ElasticUpdate, MemWrite
      <4>3. docs \in [Entities -> Doc]
        BY <1>2 DEF TypeOK
      <4>4. \A d \in Entities : docs'[d] = docs[d] \/ docs'[d] = DocOf(w)
        BY <4>2, <4>3
      <4> QED
        BY <4>1, <4>4
    <3>2. clock' = clock /\ cts' = cts /\ NextDirty(w)
      BY <2>4 DEF ElasticUpdate, MemWrite
    <3> QED
      BY <1>1, <1>2, <1>10, <3>1, <3>2 DEF Clocked
  <2>5. CASE ElasticFails(w)
    <3>1. clock' = clock /\ cts' = cts /\ docs' = docs /\ NextDirty(w)
      BY <2>5 DEF ElasticFails
    <3> QED
      BY <1>1, <1>2, <1>10, <3>1 DEF Clocked
  <2>6. CASE MemLookup(w)
    BY <1>1, <1>2, <1>10, <2>6 DEF MemLookup, Clocked
  <2> QED
    BY <1>11, <2>1, <2>2, <2>3, <2>4, <2>5, <2>6 DEF Work
<1> QED
  BY <1>6, <1>7, <1>8, <1>9, <1>11 DEF Next

\* Each worker stays where its list says.  It never races for memsearch's map.
LEMMA AtWorkStep ==
  ASSUME Inv, [Next]_vars, Engine = "elasticsearch", NEW v \in Workers
  PROVE  AtWork(v)'
<1>1. AtWork(v) /\ TypeOK /\ Busy /\ Busy'
  BY BusyStep DEF Inv, IndInv
<1>2. \A u \in Workers : wpc[u] # "write"
  BY DEF Inv, IndInv, AtWork
<1>3. ASSUME NEW p \in Producers, Send(p) \/ SendOnClosed(p) PROVE AtWork(v)'
  BY <1>1, <1>3 DEF Send, SendOnClosed, Die, proc, AtWork
<1>8. ASSUME NEW p \in Producers, Commit(p) \/ CommitFails(p) PROVE AtWork(v)'
  BY <1>1, <1>8, CommitStores DEF AtWork
<1>4. CASE Close \/ WaitReturns \/ Crash \/ Stopped \/ UNCHANGED vars
  BY <1>1, <1>4 DEF Close, WaitReturns, Crash, Stopped, Die, vars, proc, AtWork
<1>5. CASE Restart
  BY <1>5 DEF Restart, AtWork
<1>6. ASSUME NEW w \in Workers, NextDirty(w) PROVE AtWork(v)'
  BY <1>1, <1>6 DEF NextDirty, LoopOrReceive, AtWork, TypeOK
<1>7. ASSUME NEW w \in Workers, Work(w) PROVE AtWork(v)'
  <2>1. CASE Receive(w)
    BY <1>1, <2>1 DEF Receive, LoopOrReceive, AtWork, TypeOK
  <2>8. CASE OnUpdateFails(w)
    BY <1>1, <2>8 DEF OnUpdateFails, AtWork, TypeOK
  <2>2. CASE WorkerExit(w)
    BY <1>1, <2>2 DEF WorkerExit, AtWork, TypeOK
  <2>3. CASE SkipDirty(w)
    BY <1>1, <2>3 DEF SkipDirty, LoopOrReceive, AtWork, TypeOK
  <2>4. CASE StartRegenerate(w)
    <3>1. PICK t \in Now : job' = [job EXCEPT ![w] =
            [e |-> Head(dirty[w]), ts |-> t, left |-> {Head(dirty[w])}, data |-> NoData]]
      BY <2>4 DEF StartRegenerate
    <3>2. /\ v = w => job'[v].e = Head(dirty[w])
          /\ v # w => job'[v] = job[v]
      BY <1>1, <3>1 DEF TypeOK
    <3> QED
      BY <1>1, <2>4, <3>2 DEF StartRegenerate, AtWork, TypeOK
  <2>5. CASE Read(w)
    <3>1. job'[v].e = job[v].e
      BY <1>1, <2>5, ReadIntoType DEF Read, TypeOK
    <3> QED
      BY <1>1, <2>5, <3>1 DEF Read, AtWork
  <2>6. CASE ElasticUpdate(w) \/ ElasticFails(w)
    BY <1>6, <2>6 DEF ElasticUpdate, ElasticFails
  <2>7. CASE MemLookup(w) \/ MemWrite(w) \/ MemRaceThrows(w)
    BY <1>2, <2>7 DEF MemLookup, MemWrite, MemRaceThrows
  <2> QED
    BY <1>7, <2>1, <2>2, <2>3, <2>4, <2>5, <2>6, <2>7, <2>8 DEF Work
<1> QED
  BY <1>3, <1>4, <1>5, <1>7, <1>8 DEF Next

\* A document in the making keeps agreeing with the store on all that was
\* committed before it was begun.
LEMMA JobFaithfulStep ==
  ASSUME Inv, [Next]_vars, Engine = "elasticsearch", StrictClock, NEW v \in Workers
  PROVE  JobFaithful(v)'
<1>1. JobFaithful(v) /\ TypeOK /\ Clocked
  BY DEF Inv, IndInv
<1>2. job[v] \in Job /\ clock \in Nat /\ \A d \in Entities : cts[d] \in Nat
  BY <1>1 DEF TypeOK, Versions
<1>3. ASSUME UNCHANGED <<ver, cts>>, UNCHANGED <<wpc[v], job[v]>> PROVE JobFaithful(v)'
  BY <1>1, <1>3 DEF JobFaithful
<1>4. ASSUME UNCHANGED <<ver, cts>>, wpc'[v] # "read" PROVE JobFaithful(v)'
  BY <1>4 DEF JobFaithful
<1>5. ASSUME NEW p \in Producers, Commit(p) \/ CommitFails(p) PROVE JobFaithful(v)'
  <2>6. PICK es : \E t \in Now : Stores(es, t)
    BY <1>5, CommitStores
  <2>1. PICK t \in Now :
          /\ ver' = [d \in Entities |-> IF d \in Elems(es) THEN ver[d] + 1 ELSE ver[d]]
          /\ cts' = [d \in Entities |-> IF d \in Elems(es) THEN t ELSE cts[d]]
    BY <2>6 DEF Stores
  <2>2. t = clock + 1 /\ job[v].ts \in Nat /\ job[v].ts <= clock /\ job[v].e \in Entities
    BY <1>1, <1>2 DEF Now, Job, Clocked
  <2>3. ASSUME NEW d \in Entities, job[v].ts >= cts'[d] PROVE cts'[d] = cts[d] /\ ver'[d] = ver[d]
    BY <1>2, <2>1, <2>2, <2>3
  <2>4. Reads[job[v].e] \subseteq Entities
    BY <2>2, IndexerContract
  <2>5. UNCHANGED <<wpc, job>>
    BY <1>5, CommitStores
  <2> QED
    BY <1>1, <2>3, <2>4, <2>5 DEF JobFaithful
<1>6. ASSUME NEW p \in Producers, Send(p) \/ SendOnClosed(p) PROVE JobFaithful(v)'
  BY <1>3, <1>6 DEF Send, SendOnClosed, Die, proc
<1>7. CASE Close \/ WaitReturns \/ Crash \/ Stopped \/ UNCHANGED vars
  BY <1>3, <1>7 DEF Close, WaitReturns, Crash, Stopped, Die, vars, proc
<1>8. CASE Restart
  BY <1>4, <1>8 DEF Restart
<1>9. ASSUME NEW w \in Workers, NextDirty(w), UNCHANGED <<ver, cts>> PROVE JobFaithful(v)'
  BY <1>1, <1>3, <1>4, <1>9 DEF NextDirty, LoopOrReceive, TypeOK
<1>10. ASSUME NEW w \in Workers, Work(w) PROVE JobFaithful(v)'
  <2>1. CASE Receive(w)
    BY <1>1, <1>3, <1>4, <2>1 DEF Receive, LoopOrReceive, TypeOK
  <2>8. CASE OnUpdateFails(w)
    BY <1>1, <1>3, <1>4, <2>8 DEF OnUpdateFails, TypeOK
  <2>2. CASE WorkerExit(w)
    BY <1>1, <1>3, <1>4, <2>2 DEF WorkerExit, TypeOK
  <2>3. CASE SkipDirty(w)
    BY <1>1, <1>3, <1>4, <2>3 DEF SkipDirty, LoopOrReceive, TypeOK
  <2>4. CASE StartRegenerate(w)
    <3>1. PICK t \in Now : job' = [job EXCEPT ![w] =
            [e |-> Head(dirty[w]), ts |-> t, left |-> {Head(dirty[w])}, data |-> NoData]]
      BY <2>4 DEF StartRegenerate
    <3>2. CASE v = w
      <4>1. /\ job'[v].e = Head(dirty[w]) /\ job'[v].left = {Head(dirty[w])}
            /\ job'[v].data = NoData
        BY <1>1, <3>1, <3>2 DEF TypeOK
      <4> QED
        BY <4>1 DEF JobFaithful, NoData
    <3>3. CASE v # w
      BY <1>1, <1>3, <2>4, <3>1, <3>3 DEF StartRegenerate, TypeOK
    <3> QED
      BY <3>2, <3>3
  <2>5. CASE Read(w)
    <3>1. PICK d \in job[w].left : job' = [job EXCEPT ![w] = ReadInto(job[w], d)]
      BY <2>5 DEF Read
    <3>2. UNCHANGED <<ver, cts, wpc>> /\ wpc[w] = "read"
      BY <2>5 DEF Read
    <3>3. CASE v # w
      BY <1>1, <1>3, <3>1, <3>2, <3>3 DEF TypeOK
    <3>4. CASE v = w
      <4> DEFINE e == job[v].e
      <4>1. /\ job'[v].e = e /\ job'[v].ts = job[v].ts /\ job'[v].left = ReadNext(job[v], d)
            /\ \A x \in Entities :
                 job'[v].data[x] = IF x = d THEN ver[d] ELSE job[v].data[x]
        BY <1>1, <1>2, <3>1, <3>4, ReadIntoType DEF TypeOK
      <4>2. e \in Entities /\ Reads[e] \subseteq Entities
        BY <1>2, IndexerContract DEF Job
      <4>3. e \notin ReadNext(job[v], d)
        BY <1>1, <3>1, <3>2, <3>4 DEF ReadNext, JobFaithful
      <4>4. ASSUME NEW x \in Reads[e], job[v].ts >= cts[x], x # d,
                   x \notin ReadNext(job[v], d)
            PROVE  job[v].data[x] = ver[x]
        <5>1. x \in Entities /\ ver[x] \in Nat
          BY <1>1, <4>2, <4>4 DEF TypeOK, Versions
        <5>2. CASE d = e
          <6>1. ~(ver[x] > 0)
            BY <4>4, <5>2 DEF ReadNext
          <6>2. ver[x] = 0
            BY <5>1, <6>1
          <6>3. job[v].data = NoData
            BY <1>1, <3>1, <3>2, <3>4, <5>2 DEF JobFaithful
          <6> QED
            BY <5>1, <6>2, <6>3 DEF NoData
        <5>3. CASE d # e
          <6>1. x \notin job[v].left /\ e \notin job[v].left
            BY <1>1, <3>1, <3>2, <3>4, <4>4, <5>3 DEF ReadNext, JobFaithful
          <6> QED
            BY <1>1, <3>2, <3>4, <4>4, <6>1 DEF JobFaithful
        <5> QED
          BY <5>2, <5>3
      <4> QED
        BY <3>2, <4>1, <4>2, <4>3, <4>4 DEF JobFaithful
    <3> QED
      BY <3>3, <3>4
  <2>6. CASE ElasticUpdate(w) \/ ElasticFails(w)
    BY <1>9, <2>6 DEF ElasticUpdate, ElasticFails
  <2>7. CASE MemLookup(w) \/ MemWrite(w) \/ MemRaceThrows(w)
    BY <2>7 DEF MemLookup, MemWrite, MemRaceThrows, Inv, IndInv, AtWork
  <2> QED
    BY <1>10, <2>1, <2>2, <2>3, <2>4, <2>5, <2>6, <2>7, <2>8 DEF Work
<1> QED
  BY <1>5, <1>6, <1>7, <1>8, <1>10 DEF Next

\* What an engine that compares versions does with a finished document.
LEMMA ElasticAccepts ==
  ASSUME Inv, NEW w \in Workers, ElasticUpdate(w), NEW e \in Entities
  PROVE  /\ docs'[e] = docs[e] \/ (e = job[w].e /\ docs'[e] = DocOf(w))
         /\ docs'[e].ts >= docs[e].ts
         /\ e = job[w].e => docs'[e].ts >= job[w].ts
<1>1. docs \in [Entities -> Doc] /\ job[w] \in Job
  BY DEF Inv, TypeOK
<1>2. docs[e].ts \in Nat /\ job[w].ts \in Nat /\ DocOf(w).ts = job[w].ts
        /\ docs[job[w].e].ts \in Nat /\ job[w].e \in Entities
  BY <1>1 DEF Doc, Job, DocOf
<1>3. CASE Accepts(job[w].e, job[w].ts)
  <2>1. docs' = [docs EXCEPT ![job[w].e] = DocOf(w)]
    BY <1>3 DEF ElasticUpdate
  <2>2. docs'[e] = IF e = job[w].e THEN DocOf(w) ELSE docs[e]
    BY <1>1, <2>1
  <2> QED
    BY <1>2, <1>3, <2>2 DEF Accepts
<1>4. CASE ~Accepts(job[w].e, job[w].ts)
  <2>1. docs' = docs
    BY <1>4 DEF ElasticUpdate
  <2> QED
    BY <1>2, <1>4, <2>1 DEF Accepts
<1> QED
  BY <1>3, <1>4

\* An indexed document keeps agreeing with the store on all that was
\* committed before it was begun.
LEMMA DocFaithfulStep ==
  ASSUME Inv, [Next]_vars, Engine = "elasticsearch", StrictClock, NEW e \in Registered
  PROVE  DocFaithful(e)'
<1>1. DocFaithful(e) /\ TypeOK /\ Clocked
  BY DEF Inv, IndInv
<1>2. e \in Entities /\ Reads[e] \subseteq Entities
  BY IndexerContract
<1>3. ASSUME UNCHANGED <<ver, cts, docs>> PROVE DocFaithful(e)'
  BY <1>1, <1>3 DEF DocFaithful
<1>4. ASSUME NEW p \in Producers, Commit(p) \/ CommitFails(p) PROVE DocFaithful(e)'
  <2>6. PICK es : \E t \in Now : Stores(es, t)
    BY <1>4, CommitStores
  <2>1. PICK t \in Now :
          /\ ver' = [d \in Entities |-> IF d \in Elems(es) THEN ver[d] + 1 ELSE ver[d]]
          /\ cts' = [d \in Entities |-> IF d \in Elems(es) THEN t ELSE cts[d]]
    BY <2>6 DEF Stores
  <2>2. t = clock + 1 /\ clock \in Nat /\ docs[e].ts \in Nat /\ docs[e].ts <= clock
    BY <1>1, <1>2 DEF Now, TypeOK, Doc, Clocked
  <2>3. ASSUME NEW d \in Entities, docs[e].ts >= cts'[d] PROVE cts'[d] = cts[d] /\ ver'[d] = ver[d]
    BY <2>1, <2>2, <2>3
  <2>4. docs' = docs
    BY <1>4, CommitStores
  <2> QED
    BY <1>1, <1>2, <2>3, <2>4 DEF DocFaithful
<1>5. ASSUME NEW p \in Producers, Send(p) \/ SendOnClosed(p) PROVE DocFaithful(e)'
  BY <1>3, <1>5 DEF Send, SendOnClosed, Die, proc
<1>6. CASE Close \/ WaitReturns \/ Crash \/ Restart \/ Stopped \/ UNCHANGED vars
  BY <1>3, <1>6 DEF Close, WaitReturns, Crash, Restart, Stopped, Die, vars, proc
<1>7. ASSUME NEW w \in Workers, Work(w) PROVE DocFaithful(e)'
  <2>1. CASE \/ Receive(w) \/ OnUpdateFails(w) \/ WorkerExit(w) \/ SkipDirty(w)
             \/ StartRegenerate(w) \/ Read(w)
    BY <1>3, <2>1 DEF Receive, OnUpdateFails, WorkerExit, SkipDirty, StartRegenerate, Read
  <2>2. CASE ElasticFails(w)
    BY <1>3, <2>2 DEF ElasticFails
  <2>3. CASE ElasticUpdate(w)
    <3>1. UNCHANGED <<ver, cts>> /\ wpc[w] = "read" /\ job[w].left = {}
      BY <2>3 DEF ElasticUpdate, Regenerated
    <3>2. docs'[e] = docs[e] \/ (e = job[w].e /\ docs'[e] = DocOf(w))
      BY <1>2, <2>3, ElasticAccepts
    <3>3. CASE docs'[e] = docs[e]
      BY <1>1, <3>1, <3>3 DEF DocFaithful
    <3>4. CASE e = job[w].e /\ docs'[e] = DocOf(w)
      <4>1. docs'[e].ts = job[w].ts /\ docs'[e].data = job[w].data
        BY <3>4 DEF DocOf
      <4>2. JobFaithful(w)
        BY DEF Inv, IndInv
      <4> QED
        BY <3>1, <3>4, <4>1, <4>2 DEF JobFaithful, DocFaithful
    <3> QED
      BY <3>2, <3>3, <3>4
  <2>4. CASE MemLookup(w) \/ MemWrite(w) \/ MemRaceThrows(w)
    BY <2>4 DEF MemLookup, MemWrite, MemRaceThrows, Inv, IndInv, AtWork
  <2> QED
    BY <1>7, <2>1, <2>2, <2>3, <2>4 DEF Work
<1> QED
  BY <1>4, <1>5, <1>6, <1>7 DEF Next

\* A step of worker w alone leaves pending what is pending elsewhere.
LEMMA PendingElsewhere ==
  ASSUME TypeOK, NEW w \in Workers, NEW e \in Entities, NEW d \in Entities,
         Pending(e, d), ~PendingAt(w, e, d), UNCHANGED <<toSend, cts>>,
         d \in Elems(chan) => d \in Elems(chan'),
         \A v \in Workers \ {w} : UNCHANGED <<wpc[v], dirty[v], job[v]>>
  PROVE  Pending(e, d)'
<1>1. CASE \E p \in Producers : d \in Elems(toSend[p])
  BY <1>1 DEF Pending
<1>2. CASE d \in Elems(chan)
  BY <1>2 DEF Pending
<1>3. CASE \E v \in Workers : PendingAt(v, e, d)
  <2>1. PICK v \in Workers \ {w} : PendingAt(v, e, d)
    BY <1>3
  <2>2. PendingAt(v, e, d)'
    BY <2>1 DEF PendingAt
  <2> QED
    BY <2>2 DEF Pending
<1> QED
  BY <1>1, <1>2, <1>3 DEF Pending

\* Finishing with one dirty entity leaves the others of the list to do.
LEMMA NextDirtyPending ==
  ASSUME Inv, NEW w \in Workers, wpc[w] = "read", NextDirty(w),
         UNCHANGED <<toSend, chan, cts>>,
         NEW e \in Entities, NEW d \in Entities, Pending(e, d),
         ~(job[w].e = e /\ job[w].ts > cts[d])
  PROVE  Pending(e, d)'
<1>1. TypeOK
  BY DEF Inv
<1>2. /\ dirty'[w] = Tail(dirty[w])
      /\ wpc'[w] = LoopOrReceive(Tail(dirty[w]))
      /\ \A v \in Workers \ {w} : UNCHANGED <<wpc[v], dirty[v], job[v]>>
  BY <1>1 DEF NextDirty, TypeOK
<1>3. CASE e \in Elems(Tail(dirty[w]))
  <2>1. Tail(dirty[w]) # <<>>
    BY <1>3, EmptySeq
  <2>2. PendingAt(w, e, d)'
    BY <1>2, <1>3, <2>1 DEF PendingAt, LoopOrReceive
  <2> QED
    BY <2>2 DEF Pending
<1>4. CASE e \notin Elems(Tail(dirty[w]))
  BY <1>1, <1>2, <1>4, PendingElsewhere DEF PendingAt
<1> QED
  BY <1>3, <1>4

\* Whatever a document is too old for stays pending until it is newer, or lost.
LEMMA RepairableStep ==
  ASSUME Inv, [Next]_vars, Engine = "elasticsearch", StrictClock,
         NEW e \in Registered
  PROVE  Repairable(e)'
<1>1. TypeOK /\ TypeOK' /\ Clocked /\ Busy
  BY TypeStep DEF Inv, IndInv
<1>2. e \in Entities /\ Reads[e] \subseteq Entities
  BY IndexerContract
<1>3. clock \in Nat /\ \A x \in Entities : cts[x] \in Nat /\ cts[x] <= clock
  BY <1>1 DEF TypeOK, Versions, Clocked
<1> SUFFICES ASSUME NEW d \in Reads[e], docs'[e].ts < cts'[d], <<e, d>> \notin lost'
             PROVE  Pending(e, d)'
  BY DEF Repairable
<1>4. d \in Entities /\ docs[e].ts \in Nat /\ docs'[e].ts \in Nat
  BY <1>1, <1>2 DEF TypeOK, Doc
<1>5. ASSUME UNCHANGED cts, lost \subseteq lost', docs'[e].ts >= docs[e].ts
      PROVE  Pending(e, d)
  <2>1. Repairable(e)
    BY DEF Inv, IndInv
  <2> QED
    BY <1>3, <1>4, <1>5, <2>1 DEF Repairable
<1>12. <<e, d>> \in Shows
  BY <1>4 DEF Shows
<1>6. ASSUME NEW p \in Producers, Commit(p) PROVE Pending(e, d)'
  <2>1. PICK es \in Commits, t \in Now :
          /\ cts' = [x \in Entities |-> IF x \in Elems(es) THEN t ELSE cts[x]]
          /\ toSend' = [toSend EXCEPT ![p] = es]
          /\ lost' = {q \in lost : q[2] \notin Elems(es)}
    BY <1>6 DEF Commit, Stores
  <2>2. toSend[p] = <<>> /\ UNCHANGED <<chan, wpc, dirty, job, docs>>
    BY <1>6 DEF Commit, MayCommit
  <2>3. \A q \in Producers : toSend'[q] = IF q = p THEN es ELSE toSend[q]
    BY <1>1, <2>1 DEF TypeOK
  <2>4. CASE d \in Elems(es)
    BY <2>3, <2>4 DEF Pending
  <2>5. CASE d \notin Elems(es)
    <3>1. cts'[d] = cts[d]
      BY <1>4, <2>1, <2>5
    <3>2. Repairable(e)
      BY DEF Inv, IndInv
    <3>7. <<e, d>> \notin lost
      BY <2>1, <2>5
    <3>3. Pending(e, d)
      BY <2>2, <3>1, <3>2, <3>7 DEF Repairable
    <3>4. CASE \E q \in Producers : d \in Elems(toSend[q])
      <4>1. PICK q \in Producers : d \in Elems(toSend[q])
        BY <3>4
      <4>2. q # p
        BY <2>2, <4>1, EmptySeq
      <4> QED
        BY <2>3, <4>1, <4>2 DEF Pending
    <3>5. CASE d \in Elems(chan)
      BY <2>2, <3>5 DEF Pending
    <3>6. CASE \E v \in Workers : PendingAt(v, e, d)
      BY <2>2, <3>1, <3>6 DEF Pending, PendingAt
    <3> QED
      BY <3>3, <3>4, <3>5, <3>6 DEF Pending
  <2> QED
    BY <2>4, <2>5
<1>13. ASSUME NEW p \in Producers, CommitFails(p) PROVE Pending(e, d)'
  <2>7. PICK es \in Commits, t \in Now : \E k \in DOMAIN es :
          /\ Stores(SubSeq(es, 1, k), t)
          /\ lost' = lost \cup {q \in Shows : q[2] \in Elems(SubSeq(es, 1, k))}
    BY <1>13 DEF CommitFails
  <2>1. PICK k \in DOMAIN es :
          /\ Stores(SubSeq(es, 1, k), t)
          /\ lost' = lost \cup {q \in Shows : q[2] \in Elems(SubSeq(es, 1, k))}
    BY <2>7
  <2>2. d \notin Elems(SubSeq(es, 1, k)) /\ <<e, d>> \notin lost
    BY <1>12, <2>1
  <2>3. cts'[d] = cts[d]
    BY <1>4, <2>1, <2>2 DEF Stores
  <2>4. UNCHANGED <<toSend, chan, wpc, dirty, job, docs>>
    BY <1>13 DEF CommitFails, proc
  <2>5. Repairable(e)
    BY DEF Inv, IndInv
  <2>6. Pending(e, d)
    BY <2>2, <2>3, <2>4, <2>5 DEF Repairable
  <2> QED
    BY <2>3, <2>4, <2>6 DEF Pending, PendingAt
<1>7. ASSUME NEW p \in Producers, Send(p) PROVE Pending(e, d)'
  <2>1. Pending(e, d)
    BY <1>4, <1>5, <1>7 DEF Send
  <2>2. toSend[p] \in Seq(Entities) /\ toSend[p] # <<>> /\ chan \in Seq(Entities)
    BY <1>1, <1>7 DEF Send, TypeOK
  <2>3. /\ Elems(toSend[p]) = {Head(toSend[p])} \cup Elems(Tail(toSend[p]))
        /\ Elems(chan') = Elems(chan) \cup {Head(toSend[p])}
    BY <1>7, <2>2, NonEmptySeq, AppendElems DEF Send
  <2>4. \A q \in Producers : toSend'[q] = IF q = p THEN Tail(toSend[p]) ELSE toSend[q]
    BY <1>1, <1>7 DEF Send, TypeOK
  <2>5. UNCHANGED <<cts, wpc, dirty, job>>
    BY <1>7 DEF Send
  <2>6. CASE \E q \in Producers : d \in Elems(toSend[q])
    BY <2>3, <2>4, <2>6 DEF Pending
  <2>7. CASE d \in Elems(chan)
    BY <2>3, <2>7 DEF Pending
  <2>8. CASE \E v \in Workers : PendingAt(v, e, d)
    BY <2>5, <2>8 DEF Pending, PendingAt
  <2> QED
    BY <2>1, <2>6, <2>7, <2>8 DEF Pending
<1>9. CASE Close \/ WaitReturns \/ Stopped \/ UNCHANGED vars \/ Die
  <2>1. UNCHANGED <<cts, lost, docs, toSend, chan, wpc, dirty, job>>
    BY <1>9 DEF Close, WaitReturns, Stopped, Die, vars, proc
  <2>2. Pending(e, d)
    BY <1>4, <1>5, <2>1
  <2> QED
    BY <2>1, <2>2 DEF Pending, PendingAt
<1>10. CASE Restart
  <2>1. docs' = docs /\ cts' = cts
    BY <1>10 DEF Restart
  <2>2. <<e, d>> \notin lost /\ ~Pending(e, d)
    BY <1>10, <1>12 DEF Restart
  <2>3. Repairable(e)
    BY DEF Inv, IndInv
  <2> QED
    BY <2>1, <2>2, <2>3 DEF Repairable
<1>11. ASSUME NEW w \in Workers, Work(w) PROVE Pending(e, d)'
  <2>1. CASE Receive(w)
    <3>1. Pending(e, d)
      BY <1>4, <1>5, <2>1 DEF Receive
    <3>2. ~PendingAt(w, e, d)
      BY <2>1 DEF Receive, PendingAt
    <3>3. Elems(chan) = {Head(chan)} \cup Elems(chan')
      BY <1>1, <2>1, NonEmptySeq DEF Receive, TypeOK
    <3>4. CASE d \in Elems(chan')  \/ d \notin Elems(chan)
      BY <1>1, <1>2, <1>4, <2>1, <3>1, <3>2, <3>4, PendingElsewhere DEF Receive, TypeOK
    <3>5. CASE d = Head(chan)
      <4>1. d \in Registered /\ e \in Elems(Dirty[d])
        BY IndexerContract DEF Elems
      <4>2. Dirty[d] # <<>>
        BY <4>1, EmptySeq
      <4>3. dirty'[w] = Dirty[d] /\ wpc'[w] = "loop"
        BY <1>1, <2>1, <3>5, <4>1, <4>2 DEF Receive, OnUpdate, LoopOrReceive, TypeOK
      <4> QED
        BY <4>1, <4>3 DEF Pending, PendingAt
    <3> QED
      BY <3>3, <3>4, <3>5
  <2>9. CASE OnUpdateFails(w)
    <3>1. Pending(e, d)
      BY <1>4, <1>5, <2>9 DEF OnUpdateFails
    <3>2. ~PendingAt(w, e, d)
      BY <2>9 DEF OnUpdateFails, PendingAt
    <3>3. Elems(chan) = {Head(chan)} \cup Elems(chan')
      BY <1>1, <2>9, NonEmptySeq DEF OnUpdateFails, TypeOK
    <3>4. CASE d \in Elems(chan')  \/ d \notin Elems(chan)
      BY <1>1, <1>2, <1>4, <2>9, <3>1, <3>2, <3>4, PendingElsewhere DEF OnUpdateFails, TypeOK
    <3>5. CASE d = Head(chan)
      <4>1. e \in Elems(OnUpdate(d))
        BY IndexerContract DEF OnUpdate, Elems
      <4>2. e = d
        BY <1>12, <2>9, <3>5, <4>1 DEF OnUpdateFails
      <4>3. dirty'[w] = <<e>> /\ wpc'[w] = "loop"
        BY <1>1, <2>9, <3>5, <4>2 DEF OnUpdateFails, TypeOK
      <4>4. Len(<<e>>) = 1 /\ <<e>>[1] = e
        OBVIOUS
      <4>5. e \in Elems(<<e>>)
        BY <4>4 DEF Elems
      <4> QED
        BY <4>3, <4>5 DEF Pending, PendingAt
    <3> QED
      BY <3>3, <3>4, <3>5
  <2>2. CASE WorkerExit(w)
    <3>1. Pending(e, d)
      BY <1>4, <1>5, <2>2 DEF WorkerExit
    <3> QED
      BY <1>1, <1>2, <1>4, <2>2, <3>1, PendingElsewhere DEF WorkerExit, PendingAt, TypeOK
  <2>3. CASE SkipDirty(w)
    <3>1. Pending(e, d)
      BY <1>4, <1>5, <2>3 DEF SkipDirty
    <3>2. CASE PendingAt(w, e, d)
      <4>1. dirty[w] \in Seq(Entities) /\ dirty[w] # <<>> /\ e # Head(dirty[w])
        BY <1>1, <2>3 DEF SkipDirty, Busy, TypeOK
      <4>2. e \in Elems(dirty[w])
        BY <2>3, <3>2 DEF SkipDirty, PendingAt
      <4>3. e \in Elems(Tail(dirty[w]))
        BY <4>1, <4>2, NonEmptySeq
      <4>4. Tail(dirty[w]) # <<>>
        BY <4>3, EmptySeq
      <4> QED
        BY <1>1, <2>3, <4>3, <4>4 DEF SkipDirty, LoopOrReceive, Pending, PendingAt, TypeOK
    <3>3. CASE ~PendingAt(w, e, d)
      BY <1>1, <1>2, <1>4, <2>3, <3>1, <3>3, PendingElsewhere DEF SkipDirty, TypeOK
    <3> QED
      BY <3>2, <3>3
  <2>4. CASE StartRegenerate(w)
    <3>1. Pending(e, d)
      BY <1>4, <1>5, <2>4 DEF StartRegenerate
    <3>2. PICK t \in Now : job' = [job EXCEPT ![w] =
            [e |-> Head(dirty[w]), ts |-> t, left |-> {Head(dirty[w])}, data |-> NoData]]
      BY <2>4 DEF StartRegenerate
    <3>3. UNCHANGED <<toSend, chan, cts, dirty>> /\ wpc' = [wpc EXCEPT ![w] = "read"]
      BY <2>4 DEF StartRegenerate
    <3>4. CASE PendingAt(w, e, d)
      <4>1. dirty[w] \in Seq(Entities) /\ dirty[w] # <<>> /\ e \in Elems(dirty[w])
        BY <1>1, <2>4, <3>4 DEF StartRegenerate, PendingAt, Busy, TypeOK
      <4>2. e = Head(dirty[w]) \/ e \in Elems(Tail(dirty[w]))
        BY <4>1, NonEmptySeq
      <4>3. job'[w].e = Head(dirty[w]) /\ job'[w].ts = clock + 1
        BY <1>1, <3>2 DEF Now, TypeOK
      <4>4. job'[w].ts > cts'[d]
        BY <1>3, <1>4, <3>3, <4>3
      <4>5. wpc'[w] = "read" /\ dirty'[w] = dirty[w]
        BY <1>1, <3>3 DEF TypeOK
      <4>6. PendingAt(w, e, d)'
        BY <4>2, <4>3, <4>4, <4>5 DEF PendingAt
      <4> QED
        BY <4>6 DEF Pending
    <3>5. CASE ~PendingAt(w, e, d)
      BY <1>1, <1>2, <1>4, <3>1, <3>2, <3>3, <3>5, PendingElsewhere DEF TypeOK
    <3> QED
      BY <3>4, <3>5
  <2>5. CASE Read(w)
    <3>1. Pending(e, d)
      BY <1>4, <1>5, <2>5 DEF Read
    <3>2. \A v \in Workers : job'[v].e = job[v].e /\ job'[v].ts = job[v].ts
      BY <1>1, <2>5, ReadIntoType DEF Read, TypeOK
    <3>3. UNCHANGED <<toSend, chan, cts, dirty, wpc>>
      BY <2>5 DEF Read
    <3> QED
      BY <3>1, <3>2, <3>3 DEF Pending, PendingAt
  <2>6. CASE ElasticUpdate(w)
    <3>1. docs'[e].ts >= docs[e].ts /\ (e = job[w].e => docs'[e].ts >= job[w].ts)
      BY <1>2, <2>6, ElasticAccepts
    <3>2. /\ UNCHANGED <<cts, lost, toSend, chan>> /\ NextDirty(w)
          /\ wpc[w] = "read"
      BY <2>6 DEF ElasticUpdate, Regenerated
    <3>3. Pending(e, d)
      BY <1>5, <3>1, <3>2
    <3>4. job[w].ts \in Nat
      BY <1>1 DEF TypeOK, Job
    <3>5. ~(job[w].e = e /\ job[w].ts > cts[d])
      BY <1>3, <1>4, <3>1, <3>2, <3>4
    <3> QED
      BY <1>2, <1>4, <3>2, <3>3, <3>5, NextDirtyPending
  <2>7. CASE ElasticFails(w)
    <3>1. UNCHANGED <<cts, docs, toSend, chan>> /\ NextDirty(w) /\ wpc[w] = "read"
      BY <2>7 DEF ElasticFails, Regenerated
    <3>2. ~(job[w].e = e /\ job[w].ts > cts[d]) /\ lost \subseteq lost'
      BY <1>12, <2>7 DEF ElasticFails
    <3>3. Pending(e, d)
      BY <1>4, <1>5, <3>1, <3>2
    <3> QED
      BY <1>2, <1>4, <3>1, <3>2, <3>3, NextDirtyPending
  <2>8. CASE MemLookup(w) \/ MemWrite(w) \/ MemRaceThrows(w)
    BY <2>8 DEF MemLookup, MemWrite, MemRaceThrows, Inv, IndInv, AtWork
  <2> QED
    BY <1>11, <2>1, <2>2, <2>3, <2>4, <2>5, <2>6, <2>7, <2>8, <2>9 DEF Work
<1> QED
  BY <1>6, <1>7, <1>9, <1>10, <1>11, <1>13 DEF Next, SendOnClosed, Crash

\* Every step keeps the inductive invariant.
LEMMA InvStep ==
  ASSUME Inv, [Next]_vars, Engine = "elasticsearch", StrictClock
  PROVE  Inv'
<1>1. (TypeOK /\ Busy)'
  BY TypeStep, BusyStep DEF Inv
<1>2. Clocked'
  BY ClockedStep
<1>3. \A w \in Workers : AtWork(w)' /\ JobFaithful(w)'
  BY AtWorkStep, JobFaithfulStep
<1>4. \A e \in Registered : DocFaithful(e)'
  BY DocFaithfulStep
<1>5. \A e \in Registered : Repairable(e)'
  BY RepairableStep
<1> QED
  BY <1>1, <1>2, <1>3, <1>4, <1>5 DEF Inv, IndInv

-----------------------------------------------------------------------------
(* What follows from it. *)

\* The index follows the store: nothing is stamped with a time to come, a
\* document under way or indexed has every commit made before its query, and
\* what it lacks has a notification or a regeneration under way.
THEOREM IndexFollowsStore ==
  ASSUME Engine = "elasticsearch", StrictClock
  PROVE  Spec => []IndInv
<1>1. Init => Inv
  BY InvInit
<1>2. Inv /\ [Next]_vars => Inv'
  BY InvStep
<1>3. Inv => IndInv
  BY DEF Inv
<1> QED
  BY <1>1, <1>2, <1>3, PTL DEF Spec

\* In a state of the invariant, a document newer than a commit has it.
LEMMA FreshOrPending ==
  ASSUME TypeOK, IndInv, NEW e \in Registered, NEW d \in Reads[e]
  PROVE  Fresh(e, d) \/ Pending(e, d)
<1>1. DocFaithful(e) /\ Repairable(e)
  BY DEF IndInv
<1>2. e \in Entities /\ d \in Entities
  BY IndexerContract
<1>3. docs[e] \in Doc /\ cts[d] \in Nat
  BY <1>2 DEF TypeOK, Versions
<1>4. docs[e].ts \in Nat
  BY <1>3 DEF Doc
<1>5. docs[e].ts >= cts[d] \/ docs[e].ts < cts[d]
  BY <1>3, <1>4
<1> QED
  BY <1>1, <1>5 DEF DocFaithful, Repairable, Fresh, UpToDate

\* With nothing to send and nothing on the channel, nothing is pending that
\* no worker is at.
LEMMA NothingPending ==
  ASSUME \A p \in Producers : toSend[p] = <<>>, chan = <<>>,
         \A w \in Workers : wpc[w] \in {"recv", "done"},
         NEW e, NEW d
  PROVE  ~Pending(e, d)
<1>1. \A w \in Workers : ~PendingAt(w, e, d)
  BY DEF PendingAt
<1> QED
  BY <1>1, EmptySeq DEF Pending

\* No update is ever simply forgotten, whatever producers and workers
\* interleave: a stale document has something under way that repairs it.
THEOREM NothingForgotten ==
  ASSUME Engine = "elasticsearch", StrictClock
  PROVE  Spec => []StaleHasRepair
<1>1. TypeOK /\ IndInv => StaleHasRepair
  BY FreshOrPending DEF StaleHasRepair
<1> QED
  BY <1>1, TypeCorrect, IndexFollowsStore, PTL

\* When everything sent has been received and the workers are at rest, the
\* index agrees with the store.
THEOREM QuiescentIsFresh ==
  ASSUME Engine = "elasticsearch", StrictClock
  PROVE  Spec => []FreshWhenQuiescent
<1>1. TypeOK /\ IndInv => FreshWhenQuiescent
  <2> SUFFICES ASSUME TypeOK, IndInv, Quiescent, NEW e \in Registered, NEW d \in Reads[e]
               PROVE  Fresh(e, d)
    BY DEF FreshWhenQuiescent, AllFresh
  <2>1. ~Pending(e, d)
    BY NothingPending DEF Quiescent
  <2> QED
    BY <2>1, FreshOrPending DEF Quiescent
<1> QED
  BY <1>1, TypeCorrect, IndexFollowsStore, PTL

\* A worker stops only when the channel is closed and drained, and
\* WaitForDone returns only after all of them: for either engine and clock.
THEOREM WorkersDrain == Spec => []Drained
<1>1. Init => Drained
  BY DEF Init, Drained
<1>2. TypeOK /\ Drained /\ [Next]_vars => Drained'
  <2> SUFFICES ASSUME TypeOK, Drained, [Next]_vars PROVE Drained'
    OBVIOUS
  <2>1. ASSUME NEW p \in Producers, SendOnClosed(p) PROVE Drained'
    BY <2>1 DEF SendOnClosed, Die, proc, Drained
  <2>7. ASSUME NEW p \in Producers, Commit(p) \/ CommitFails(p) PROVE Drained'
    BY <2>7, CommitStores DEF Drained
  <2>2. ASSUME NEW p \in Producers, Send(p) PROVE Drained'
    BY <2>2 DEF Send, Drained
  <2>3. CASE Close \/ WaitReturns
    BY <2>3 DEF Close, WaitReturns, Drained
  <2>4. CASE Crash \/ Stopped \/ UNCHANGED vars
    BY <2>4 DEF Crash, Die, Stopped, vars, proc, Drained
  <2>5. CASE Restart
    BY <2>5 DEF Restart, Drained
  <2>6. ASSUME NEW w \in Workers, Work(w) PROVE Drained'
    <3>1. CASE Receive(w)
      BY <3>1 DEF Receive, LoopOrReceive, Drained, TypeOK
    <3>9. CASE OnUpdateFails(w)
      BY <3>9 DEF OnUpdateFails, Drained, TypeOK
    <3>2. CASE WorkerExit(w)
      BY <3>2 DEF WorkerExit, Drained, TypeOK
    <3>3. CASE SkipDirty(w)
      BY <3>3 DEF SkipDirty, LoopOrReceive, Drained, TypeOK
    <3>4. CASE StartRegenerate(w) \/ Read(w)
      BY <3>4 DEF StartRegenerate, Read, Drained, TypeOK
    <3>5. ASSUME NextDirty(w), UNCHANGED <<chan, closed, waiter>>, wpc[w] # "done"
          PROVE  Drained'
      BY <3>5 DEF NextDirty, LoopOrReceive, Drained, TypeOK
    <3>6. CASE ElasticUpdate(w) \/ ElasticFails(w) \/ MemWrite(w)
      BY <3>5, <3>6 DEF ElasticUpdate, ElasticFails, MemWrite, Regenerated
    <3>7. CASE MemLookup(w)
      BY <3>5, <3>7 DEF MemLookup, Regenerated, Drained, TypeOK
    <3>8. CASE MemRaceThrows(w)
      BY <3>8 DEF MemRaceThrows, Die, proc, Drained
    <3> QED
      BY <2>6, <3>1, <3>2, <3>3, <3>4, <3>6, <3>7, <3>8, <3>9 DEF Work
  <2> QED
    BY <2>1, <2>2, <2>3, <2>4, <2>5, <2>6, <2>7 DEF Next
<1> QED
  BY <1>1, <1>2, TypeCorrect, PTL DEF Spec

\* Closing the channel loses nothing: after WaitForDone, with no Execute
\* under way, the index agrees with the store.
THEOREM WaitForDoneIsFresh ==
  ASSUME Engine = "elasticsearch", StrictClock
  PROVE  Spec => []FreshAfterWaitForDone
<1>1. TypeOK /\ IndInv /\ Drained => FreshAfterWaitForDone
  <2> SUFFICES ASSUME TypeOK, IndInv, Drained, waiter = "done", ~crashed,
                      \A p \in Producers : toSend[p] = <<>>,
                      NEW e \in Registered, NEW d \in Reads[e]
               PROVE  Fresh(e, d)
    BY DEF FreshAfterWaitForDone, AllFresh
  <2>1. chan = <<>> /\ \A w \in Workers : wpc[w] = "done"
    BY IndexingConstants DEF Drained
  <2>2. ~Pending(e, d)
    BY <2>1, NothingPending
  <2> QED
    BY <2>2, FreshOrPending
<1> QED
  BY <1>1, TypeCorrect, IndexFollowsStore, WorkersDrain, PTL

-----------------------------------------------------------------------------
(* The refinement.  The history variables only watch. *)

\* With elasticsearch, every step is one of Indexing.
LEMMA WatchedStep == [HNext]_hvars => [Next]_vars
BY DEF HNext, hvars, Begin, Show, Lose, StartOver, Elsewhere, Next, Work

\* So what was proved of Indexing holds here.
LEMMA WatchedSpec == HSpec => Spec
<1>1. HInit => Init
  BY DEF HInit
<1> QED
  BY <1>1, WatchedStep, PTL DEF HSpec, Spec

-----------------------------------------------------------------------------
(* The inductive invariant. *)

\* At first nothing is begun, shown or promised.
LEMMA HistoryInit == HInit => HistoryInv
<1> SUFFICES ASSUME HInit PROVE HistoryInv
  OBVIOUS
<1>1. \A w \in Workers : wpc[w] # "read"
  BY DEF HInit, Init
<1>2. began \in [Workers -> Versions] /\ floor \in [Registered -> Versions]
  BY NoJobType DEF HInit
<1>3. \A e \in Registered, d \in Entities : floor[e][d] <= ver[d]
  <2>1. ver = NoData /\ \A e \in Registered : floor[e] = NoData
    BY DEF HInit, Init
  <2>2. \A d \in Entities : NoData[d] \in Nat
    BY NoJobType DEF Versions
  <2>3. ASSUME NEW e \in Registered, NEW d \in Entities PROVE floor[e][d] <= ver[d]
    <3>1. floor[e][d] = NoData[d] /\ ver[d] = NoData[d]
      BY <2>1
    <3> QED
      BY <2>2, <3>1
  <2> QED
    BY <2>3
<1> QED
  BY <1>1, <1>2, <1>3 DEF HistoryInv, ReadSince, AboveFloor, BegunInOrder

\* What the steps of a worker do not touch: a worker that is reading after a
\* step in which no version, document or floor changed, and that was reading
\* the same before it, keeps its part of the invariant.
LEMMA SameReader ==
  ASSUME HistoryInv, NEW v \in Workers,
         wpc'[v] = "read" => wpc[v] = "read" /\ job'[v] = job[v] /\ began'[v] = began[v],
         UNCHANGED ver
  PROVE  ReadSince(v)' /\ (UNCHANGED <<docs, floor>> => AboveFloor(v)')
BY DEF HistoryInv, ReadSince, AboveFloor

\* Two such workers keep the order in which they began.
LEMMA SameReaders ==
  ASSUME HistoryInv, NEW v \in Workers, NEW w \in Workers,
         wpc'[v] = "read" => wpc[v] = "read" /\ job'[v] = job[v] /\ began'[v] = began[v],
         wpc'[w] = "read" => wpc[w] = "read" /\ job'[w] = job[w] /\ began'[w] = began[w]
  PROVE  BegunInOrder(v, w)'
BY DEF HistoryInv, BegunInOrder

\* A worker stamps a document: later than every other one.
LEMMA BeginStep ==
  ASSUME TypeOK, IndInv, HistoryInv, StrictClock, NEW w \in Workers, Begin(w)
  PROVE  HistoryInv'
<1> DEFINE e == Head(dirty[w])
<1>1. PICK t \in Now : job' = [job EXCEPT ![w] =
            [e |-> Head(dirty[w]), ts |-> t, left |-> {Head(dirty[w])}, data |-> NoData]]
  BY DEF Begin, StartRegenerate
<1>2. t = clock + 1 /\ clock \in Nat
  BY DEF Now, TypeOK
<1>3. UNCHANGED <<ver, docs, floor>> /\ began' = [began EXCEPT ![w] = ver] /\ e \in Registered
        /\ wpc' = [wpc EXCEPT ![w] = "read"]
  BY DEF Begin, StartRegenerate
<1>4. began' \in [Workers -> Versions] /\ floor' \in [Registered -> Versions]
  BY <1>3 DEF HistoryInv, TypeOK
<1>5. job'[w].e = e /\ job'[w].ts = clock + 1 /\ job'[w].left = {e} /\ job'[w].data = NoData
        /\ began'[w] = ver
  BY <1>1, <1>2, <1>3 DEF TypeOK, HistoryInv
<1>6. \A v \in Workers \ {w} : wpc'[v] = wpc[v] /\ job'[v] = job[v] /\ began'[v] = began[v]
  BY <1>1, <1>3 DEF TypeOK, HistoryInv
<1>7. ReadSince(w)' /\ AboveFloor(w)'
  <2>1. \A d \in Entities : ver[d] \in Nat /\ NoData[d] = 0 /\ floor[e][d] <= ver[d]
    BY <1>3 DEF TypeOK, Versions, NoData, HistoryInv
  <2> QED
    BY <1>3, <1>5, <2>1 DEF ReadSince, AboveFloor
<1>8. ASSUME NEW v \in Workers PROVE ReadSince(v)' /\ AboveFloor(v)'
  BY <1>3, <1>6, <1>7, SameReader
<1>9. ASSUME NEW v \in Workers, NEW u \in Workers PROVE BegunInOrder(v, u)'
  <2>1. CASE v # w /\ u # w
    BY <2>1, <1>6, SameReaders
  <2>2. CASE v = w
    <3>1. u # w => job[u].ts \in Nat /\ job[u].ts <= clock
      BY DEF IndInv, Clocked, TypeOK, Job
    <3>2. ~(job'[w].ts < job'[u].ts)
      BY <1>2, <1>5, <1>6, <3>1
    <3> QED
      BY <2>2, <3>2 DEF BegunInOrder
  <2>3. CASE v # w /\ u = w
    BY <2>3, <1>3, <1>5, <1>6 DEF BegunInOrder, HistoryInv, ReadSince
  <2> QED
    BY <2>1, <2>2, <2>3
<1>10. \A x \in Registered, d \in Entities : (floor[x][d] <= ver[d])'
  BY <1>3 DEF HistoryInv
<1> QED
  BY <1>4, <1>8, <1>9, <1>10 DEF HistoryInv

\* A worker's document is accepted or refused; it is not reading any more.
LEMMA ShowStep ==
  ASSUME TypeOK, IndInv, HistoryInv, NEW w \in Workers, Show(w)
  PROVE  HistoryInv'
<1> DEFINE e == job[w].e
<1>1. wpc[w] = "read" /\ e \in Registered /\ e \in Entities
  BY IndexerContract DEF Show, ElasticUpdate, Regenerated, IndInv, AtWork
<1>2. UNCHANGED ver /\ wpc'[w] # "read"
  BY DEF Show, ElasticUpdate, NextDirty, LoopOrReceive, TypeOK
<1>3. \A v \in Workers \ {w} : wpc'[v] = wpc[v] /\ job'[v] = job[v] /\ began'[v] = began[v]
  BY DEF Show, ElasticUpdate, NextDirty, TypeOK, HistoryInv
<1>4. began' \in [Workers -> Versions] /\ floor' \in [Registered -> Versions]
  BY <1>1, NoJobType DEF Show, HistoryInv
<1>5. \A x \in Registered, d \in Entities : (floor[x][d] <= ver[d])'
  BY <1>1, <1>2 DEF Show, HistoryInv, ReadSince
<1>6. ASSUME NEW v \in Workers PROVE ReadSince(v)'
  BY <1>2, <1>3, SameReader
<1>7. ASSUME NEW v \in Workers, NEW u \in Workers PROVE BegunInOrder(v, u)'
  BY <1>2, <1>3, SameReaders
<1>8. ASSUME NEW v \in Workers PROVE AboveFloor(v)'
  <2>1. CASE ~Accepts(e, job[w].ts)
    <3>1. UNCHANGED <<docs, floor>>
      BY <2>1 DEF Show, ElasticUpdate
    <3> QED
      BY <3>1, <1>2, <1>3, SameReader
  <2>2. CASE v = w
    BY <2>2, <1>2 DEF AboveFloor
  <2>3. CASE Accepts(e, job[w].ts) /\ v # w
    <3>1. /\ docs' = [docs EXCEPT ![e] = DocOf(w)]
          /\ floor' = [floor EXCEPT ![e] = began[w]]
      BY <2>3 DEF Show, ElasticUpdate
    <3>2. docs'[e].ts = job[w].ts /\ floor'[e] = began[w]
      BY <3>1, <1>1 DEF TypeOK, HistoryInv, DocOf
    <3>3. \A x \in Registered \ {e} : docs'[x] = docs[x] /\ floor'[x] = floor[x]
      BY <3>1, IndexerContract DEF TypeOK, HistoryInv
    <3>4. SUFFICES ASSUME wpc[v] = "read", job[v].ts > docs'[job[v].e].ts
                   PROVE  \A d \in Entities : floor'[job[v].e][d] <= began[v][d]
      BY <2>3, <1>3 DEF AboveFloor
    <3>5. job[v].e \in Registered
      BY <3>4 DEF IndInv, AtWork
    <3>6. CASE job[v].e = e
      <4>1. job[w].ts < job[v].ts
        BY <3>2, <3>4, <3>6 DEF TypeOK, Job
      <4> QED
        BY <4>1, <1>1, <3>2, <3>4, <3>6 DEF HistoryInv, BegunInOrder
    <3>7. CASE job[v].e # e
      BY <3>3, <3>4, <3>5, <3>7 DEF HistoryInv, AboveFloor
    <3> QED
      BY <3>6, <3>7
  <2> QED
    BY <2>1, <2>2, <2>3
<1> QED
  BY <1>4, <1>5, <1>6, <1>7, <1>8 DEF HistoryInv

\* A worker reads one more entity.
LEMMA ReadStep ==
  ASSUME TypeOK, IndInv, HistoryInv, NEW w \in Workers, Read(w), UNCHANGED <<began, floor>>
  PROVE  HistoryInv'
<1> DEFINE j == job[w]
<1>1. PICK d \in j.left : job' = [job EXCEPT ![w] = ReadInto(j, d)]
  BY DEF Read
<1>2. wpc[w] = "read" /\ UNCHANGED <<ver, docs, floor, began, wpc>>
  BY DEF Read
<1>3. j \in Job /\ ver \in Versions /\ j.e \in Registered
  BY <1>2 DEF TypeOK, IndInv, AtWork
<1>4. /\ job'[w].e = j.e /\ job'[w].ts = j.ts /\ job'[w].left = ReadNext(j, d)
      /\ \A x \in Entities : job'[w].data[x] = IF x = d THEN ver[d] ELSE j.data[x]
  BY <1>1, <1>3, ReadIntoType DEF TypeOK
<1>5. \A v \in Workers \ {w} : job'[v] = job[v]
  BY <1>1 DEF TypeOK
<1>6. \A x \in Entities : ver[x] \in Nat /\ began[w][x] \in Nat /\ j.data[x] \in Nat
        /\ began[w][x] <= ver[x] /\ j.data[x] <= ver[x]
  BY <1>2, <1>3 DEF HistoryInv, ReadSince, Versions, Job
<1>7. ReadSince(w)'
  <2>1. \A x \in Entities : began[w][x] <= ver[x] /\ job'[w].data[x] <= ver[x]
    BY <1>4, <1>6
  <2>2. ASSUME NEW x \in Entities, x \in Reads[j.e], x \notin ReadNext(j, d),
               j.e \notin ReadNext(j, d)
        PROVE  began[w][x] <= job'[w].data[x]
    <3>1. CASE x = d
      BY <3>1, <1>4, <1>6
    <3>2. CASE x # d /\ d = j.e
      <4>1. ver[x] = 0
        BY <2>2, <3>2, <1>6 DEF ReadNext
      <4> QED
        BY <4>1, <3>2, <1>4, <1>6
    <3>3. CASE x # d /\ d # j.e
      <4>1. x \notin j.left /\ j.e \notin j.left
        BY <2>2, <3>3 DEF ReadNext
      <4> QED
        BY <4>1, <3>3, <2>2, <1>2, <1>4 DEF HistoryInv, ReadSince
    <3> QED
      BY <3>1, <3>2, <3>3
  <2> QED
    BY <2>1, <2>2, <1>2, <1>4 DEF ReadSince
<1>8. ASSUME NEW v \in Workers PROVE ReadSince(v)' /\ AboveFloor(v)'
  <2>1. CASE v = w
    BY <2>1, <1>2, <1>4, <1>7 DEF HistoryInv, AboveFloor
  <2>2. CASE v # w
    BY <2>2, <1>2, <1>5, SameReader
  <2> QED
    BY <2>1, <2>2
<1>9. ASSUME NEW v \in Workers, NEW u \in Workers PROVE BegunInOrder(v, u)'
  BY <1>2, <1>4, <1>5 DEF HistoryInv, BegunInOrder
<1> QED
  BY <1>2, <1>8, <1>9 DEF HistoryInv

\* A commit raises versions, and nothing else the invariant speaks of.
LEMMA CommitStep ==
  ASSUME TypeOK, HistoryInv, NEW p \in Producers,
         Commit(p) \/ CommitFails(p), UNCHANGED <<began, floor>>
  PROVE  HistoryInv'
<1>1. UNCHANGED <<wpc, job, docs, began, floor>>
  BY CommitStores
<1>2. \A d \in Entities : ver[d] \in Nat /\ ver'[d] \in Nat /\ ver[d] <= ver'[d]
  <2>1. PICK es : \E t \in Now : Stores(es, t)
    BY CommitStores
  <2>2. \A d \in Entities : ver'[d] = ver[d] + 1 \/ ver'[d] = ver[d]
    BY <2>1 DEF Stores
  <2>3. \A d \in Entities : ver[d] \in Nat
    BY DEF TypeOK, Versions
  <2> QED
    BY <2>2, <2>3
<1>3. \A w \in Workers, d \in Entities : began[w][d] \in Nat /\ job[w].data[d] \in Nat
  BY DEF HistoryInv, TypeOK, Versions, Job
<1>4. \A e \in Registered, d \in Entities : floor[e][d] \in Nat
  BY DEF HistoryInv, Versions
<1>5. \A w \in Workers : ReadSince(w)'
  BY <1>1, <1>2, <1>3 DEF HistoryInv, ReadSince
<1>6. \A e \in Registered, d \in Entities : (floor[e][d] <= ver[d])'
  BY <1>1, <1>2, <1>4 DEF HistoryInv
<1>7. \A v, w \in Workers : AboveFloor(w)' /\ BegunInOrder(v, w)'
  BY <1>1 DEF HistoryInv, AboveFloor, BegunInOrder
<1> QED
  BY <1>1, <1>5, <1>6, <1>7 DEF HistoryInv

\* A step in which nobody begins to read, and that changes no version,
\* document or promise.
LEMMA QuietStep ==
  ASSUME HistoryInv, UNCHANGED <<ver, docs, floor>>, began' \in [Workers -> Versions],
         \A v \in Workers : wpc'[v] = "read" =>
            wpc[v] = "read" /\ job'[v] = job[v] /\ began'[v] = began[v]
  PROVE  HistoryInv'
<1>1. \A v \in Workers : ReadSince(v)' /\ AboveFloor(v)'
  BY SameReader
<1>2. \A v, w \in Workers : BegunInOrder(v, w)'
  BY SameReaders
<1> QED
  BY <1>1, <1>2 DEF HistoryInv

\* Every step preserves the invariant.
LEMMA HistoryStep ==
  ASSUME Engine = "elasticsearch", StrictClock, TypeOK, IndInv, HistoryInv, [HNext]_hvars
  PROVE  HistoryInv'
<1>1. ASSUME NEW w \in Workers, Begin(w) \/ Show(w) PROVE HistoryInv'
  BY <1>1, BeginStep, ShowStep
<1>2. ASSUME NEW w \in Workers, Lose(w) PROVE HistoryInv'
  <2>1. UNCHANGED <<ver, docs, floor>> /\ wpc'[w] # "read"
    BY <1>2 DEF Lose, ElasticFails, NextDirty, LoopOrReceive, TypeOK
  <2>2. \A v \in Workers \ {w} : wpc'[v] = wpc[v] /\ job'[v] = job[v] /\ began'[v] = began[v]
    BY <1>2 DEF Lose, ElasticFails, NextDirty, TypeOK, HistoryInv
  <2>3. began' \in [Workers -> Versions]
    BY <1>2, NoJobType DEF Lose, HistoryInv
  <2> QED
    BY <2>1, <2>2, <2>3, QuietStep
<1>3. CASE StartOver
  <2>1. began' \in [Workers -> Versions] /\ \A v \in Workers : wpc'[v] # "read"
    BY <1>3, NoJobType DEF StartOver, Restart
  <2>2. UNCHANGED <<ver, docs, floor>>
    BY <1>3 DEF StartOver, Restart
  <2> QED
    BY <2>1, <2>2, QuietStep
<1>4. CASE Elsewhere
  <2>1. UNCHANGED <<began, floor>> /\ began \in [Workers -> Versions]
    BY <1>4 DEF Elsewhere, HistoryInv
  <2>2. ASSUME NEW p \in Producers, Commit(p) \/ CommitFails(p) PROVE HistoryInv'
    BY <2>1, <2>2, CommitStep
  <2>3. ASSUME NEW w \in Workers, Read(w) PROVE HistoryInv'
    BY <2>1, <2>3, ReadStep
  <2>4. ASSUME NEW w \in Workers,
               Receive(w) \/ OnUpdateFails(w) \/ WorkerExit(w) \/ SkipDirty(w)
        PROVE  HistoryInv'
    <3>1. UNCHANGED <<ver, docs, job>> /\ wpc'[w] # "read"
      BY <2>4 DEF Receive, OnUpdateFails, WorkerExit, SkipDirty, LoopOrReceive, TypeOK
    <3>2. \A v \in Workers \ {w} : wpc'[v] = wpc[v]
      BY <2>4 DEF Receive, OnUpdateFails, WorkerExit, SkipDirty, TypeOK
    <3> QED
      BY <2>1, <3>1, <3>2, QuietStep
  <2>5. ASSUME UNCHANGED <<ver, docs, wpc, job>> PROVE HistoryInv'
    BY <2>1, <2>5, QuietStep
  <2>6. ASSUME NEW p \in Producers, Send(p) \/ SendOnClosed(p) PROVE HistoryInv'
    BY <2>5, <2>6 DEF Send, SendOnClosed, Die, proc
  <2>7. CASE Close \/ WaitReturns \/ Crash \/ Stopped
    BY <2>5, <2>7 DEF Close, WaitReturns, Crash, Die, Stopped, vars, proc
  <2> QED
    BY <1>4, <2>2, <2>3, <2>4, <2>6, <2>7 DEF Elsewhere
<1>5. CASE UNCHANGED hvars
  BY <1>5, QuietStep DEF hvars, vars, proc, HistoryInv
<1> QED
  BY <1>1, <1>2, <1>3, <1>4, <1>5 DEF HNext

-----------------------------------------------------------------------------
(* The step simulation. *)

\* An index that shows nothing, of a store that has nothing.
LEMMA SimulatesInit == HInit => Index!Init
<1> SUFFICES ASSUME HInit PROVE Index!Init
  OBVIOUS
<1>1. ver \in [Entities -> Nat]
  BY NoJobType DEF HInit, Init, Versions
<1>2. \A e \in Registered : e \in Entities /\ docs[e].data = NoData
  BY IndexerContract DEF HInit, Init
<1> QED
  BY <1>1, <1>2 DEF HInit, Index!Init, Index!Nothing, NoData

\* A step that changes neither store nor documents is a stutter.
LEMMA SimulatesQuiet ==
  ASSUME UNCHANGED <<ver, docs, floor>>
  PROVE  UNCHANGED Index!vars
BY DEF Index!vars

\* A document that the engine accepts is a Refresh.
LEMMA SimulatesShow ==
  ASSUME TypeOK, IndInv, HistoryInv, NEW w \in Workers, Show(w)
  PROVE  Index!Next \/ UNCHANGED Index!vars
<1>0. PICK e \in Registered : e = job[w].e
  BY DEF Show, ElasticUpdate, Regenerated, IndInv, AtWork
<1>1. wpc[w] = "read" /\ e \in Entities /\ job[w].left = {}
  BY IndexerContract DEF Show, ElasticUpdate, Regenerated, IndInv, AtWork
<1>2. UNCHANGED ver
  BY DEF Show, ElasticUpdate
<1>3. CASE ~Accepts(e, job[w].ts)
  BY <1>0, <1>2, <1>3, SimulatesQuiet DEF Show, ElasticUpdate
<1>4. CASE Accepts(e, job[w].ts)
  <2>1. /\ docs' = [docs EXCEPT ![e] = DocOf(w)]
        /\ floor' = [floor EXCEPT ![e] = began[w]]
    BY <1>0, <1>4 DEF Show, ElasticUpdate
  <2>2. docs'[e].data = job[w].data /\ floor'[e] = began[w]
    BY <2>1, <1>0, <1>1 DEF TypeOK, HistoryInv, DocOf
  <2>3. \A x \in Registered \ {e} : docs'[x] = docs[x]
    BY <2>1, IndexerContract DEF TypeOK
  <2>4. docs[e].ts \in Nat /\ job[w].ts \in Nat /\ job[w].ts > docs[e].ts
    BY <1>0, <1>1, <1>4 DEF Accepts, TypeOK, Doc, Job
  <2>5. ASSUME NEW d \in Reads[e]
        PROVE  floor[e][d] <= began[w][d] /\ began[w][d] <= job[w].data[d]
                 /\ job[w].data[d] <= ver[d]
    <3>1. d \in Entities
      BY <1>1, IndexerContract
    <3> QED
      BY <3>1, <1>0, <1>1, <2>4 DEF HistoryInv, ReadSince, AboveFloor
  <2>6. Index!Between(e)
    BY <1>0, <2>2, <2>5 DEF Index!Between
  <2>7. [x \in Registered |-> docs'[x].data] =
          [[x \in Registered |-> docs[x].data] EXCEPT ![e] = [x \in Registered |-> docs'[x].data][e]]
    BY <2>3
  <2>8. floor' = [floor EXCEPT ![e] = floor'[e]]
    BY <2>1, <2>2
  <2>9. Index!Refresh(e)
    BY <1>2, <2>6, <2>7, <2>8 DEF Index!Refresh
  <2> QED
    BY <2>9 DEF Index!Next
<1> QED
  BY <1>3, <1>4

\* Every step of the indexer is one of RegularIndex, or a stutter.
LEMMA SimulatesStep ==
  ASSUME Engine = "elasticsearch", TypeOK, IndInv, HistoryInv, [HNext]_hvars
  PROVE  [Index!Next]_(Index!vars)
<1>1. ASSUME NEW w \in Workers, Show(w) PROVE Index!Next \/ UNCHANGED Index!vars
  BY <1>1, SimulatesShow
<1>2. ASSUME NEW w \in Workers, Begin(w) \/ Lose(w) PROVE UNCHANGED Index!vars
  BY <1>2, SimulatesQuiet DEF Begin, StartRegenerate, Lose, ElasticFails
<1>3. ASSUME NEW p \in Producers, Commit(p) \/ CommitFails(p), UNCHANGED floor
      PROVE  Index!Next
  <2>1. PICK es :
          ver' = [d \in Entities |-> IF d \in Elems(es) THEN ver[d] + 1 ELSE ver[d]]
    BY <1>3, CommitStores DEF Stores
  <2>2. UNCHANGED docs
    BY <1>3, CommitStores
  <2>3. Index!Commit(Elems(es) \cap Entities)
    BY <1>3, <2>1, <2>2 DEF Index!Commit
  <2> QED
    BY <2>3 DEF Index!Next
<1>4. CASE Elsewhere
  <2>1. UNCHANGED floor
    BY <1>4 DEF Elsewhere
  <2>2. ASSUME NEW w \in Workers,
               Receive(w) \/ OnUpdateFails(w) \/ WorkerExit(w) \/ SkipDirty(w) \/ Read(w)
        PROVE  UNCHANGED Index!vars
    BY <2>1, <2>2, SimulatesQuiet DEF Receive, OnUpdateFails, WorkerExit, SkipDirty, Read
  <2>3. ASSUME NEW p \in Producers, Send(p) \/ SendOnClosed(p) PROVE UNCHANGED Index!vars
    BY <2>1, <2>3, SimulatesQuiet DEF Send, SendOnClosed, Die
  <2>4. CASE Close \/ WaitReturns \/ Crash \/ Stopped
    BY <2>1, <2>4, SimulatesQuiet DEF Close, WaitReturns, Crash, Die, Stopped, vars
  <2> QED
    BY <1>4, <1>3, <2>1, <2>2, <2>3, <2>4 DEF Elsewhere
<1>5. CASE StartOver
  BY <1>5, SimulatesQuiet DEF StartOver, Restart
<1>6. CASE UNCHANGED hvars
  BY <1>6, SimulatesQuiet DEF hvars, vars
<1> QED
  BY <1>1, <1>2, <1>4, <1>5, <1>6 DEF HNext

-----------------------------------------------------------------------------
\* What a document under way has read, and what the index has promised, fit
\* together in every reachable state.
THEOREM HistoryHolds ==
  ASSUME Engine = "elasticsearch", StrictClock
  PROVE  HSpec => []HistoryInv
<1>1. TypeOK /\ IndInv /\ HistoryInv /\ [HNext]_hvars => HistoryInv'
  BY HistoryStep
<1>2. HSpec => []TypeOK /\ []IndInv
  BY WatchedSpec, TypeCorrect, IndexFollowsStore, PTL
<1> QED
  BY <1>1, <1>2, HistoryInit, PTL DEF HSpec

\* The real-time indexer implements the abstract index: no interleaving of
\* commits, workers, engine failures and restarts takes a document back to
\* less than the store had when an accepted document was begun.
THEOREM IndexerImplementsRegularIndex ==
  ASSUME Engine = "elasticsearch", StrictClock
  PROVE  HSpec => IndexImplemented
<1>1. TypeOK /\ IndInv /\ HistoryInv /\ [HNext]_hvars => [Index!Next]_(Index!vars)
  BY SimulatesStep
<1>2. HSpec => []TypeOK /\ []IndInv
  BY WatchedSpec, TypeCorrect, IndexFollowsStore, PTL
<1> QED
  BY <1>1, <1>2, HistoryHolds, SimulatesInit, PTL DEF HSpec, IndexImplemented, Index!Spec
=============================================================================
