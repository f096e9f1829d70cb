---------------------------- MODULE SocialProofs ----------------------------
(* What is proved of Social, for any script, entities, workers, channel     *)
(* capacities and clock: what a search ranging over memsearch's map finds.  *)
EXTENDS Social, IndexingProofs, FiniteSetTheorems

----------------------------------------------------------------------------
(* The inductive invariant. *)

\* No document, indexed or being made, is ahead of the store.
Bounded ==
  /\ \A e, d \in Entities : docs[e].data[d] <= ver[d]
  /\ \A w \in Workers, d \in Entities : job[w].data[d] <= ver[d]

\* e's document is up to date and will be after the writes under way: a
\* document of e in the making has, or has still to read, what the store has.
StaysUpToDate(e) ==
  \A d \in Reads[e] :
    /\ docs[e].data[d] = ver[d]
    /\ \A w \in Workers : job[w].e = e =>
         /\ wpc[w] = "write" => job[w].data[d] = ver[d]
         /\ wpc[w] = "read" =>
              job[w].data[d] = ver[d] \/ d \in job[w].left \/ e \in job[w].left

\* While a search goes on, main executes nothing, and nothing is to be sent.
Searching == Script[at].op = "search" /\ toSend[Main] = <<>>

\* What the search has found, of what it should find.
Finding ==
  /\ \A e \in indexed : e \in left \/ \E f \in found : f.e = e
  /\ \A f, g \in found : f.e = g.e => f = g
  /\ \A f \in found : f.e \in Entities
  /\ \A f \in found : \A d \in Entities : f.doc.data[d] <= ver[d]
  /\ \A f \in found : \A d \in Reads[f.e] : f.e \in settled => f.doc.data[d] = ver[d]

Ranged ==
  ranging => Searching /\ Finding /\ \A e \in settled \cap Entities : StaysUpToDate(e)

SearchInv == TypeOK /\ Busy /\ Bounded /\ Ranged

LEMMA ReadsEntities == \A e \in Entities : Reads[e] \subseteq Entities
BY IndexerContract

LEMMA MemSearch == Engine = "memsearch" /\ Engine # "elasticsearch" /\ Main \in Producers
BY SocialConstants

----------------------------------------------------------------------------
(* The indexer's steps. *)

LEMMA DieKeepsType ==
  ASSUME TypeOK, Busy, Die
  PROVE  TypeOK' /\ Busy'
<1>1. TypeOK'
  BY DEF TypeOK, Die, proc
<1>2. Busy'
  BY DEF Busy, Die, proc
<1> QED
  BY <1>1, <1>2

\* What the rest of the process does, to the indexer.
LEMMA StepOfIndexer == [SNext]_svars => [Next]_vars \/ Die
<1> SUFFICES ASSUME [SNext]_svars PROVE [Next]_vars \/ Die
  OBVIOUS
<1> USE DEF Next
<1>1. CASE Execute
  BY <1>1, MemSearch DEF Execute
<1>2. CASE Query \/ BeginSearch \/ EndSearch \/ BeginIterate \/ Pass \/ PrinterDone
  BY <1>2 DEF Query, BeginSearch, EndSearch, BeginIterate, Pass, PrinterDone
<1>3. ASSUME NEW e \in Entities, Produce(e) PROVE [Next]_vars
  BY <1>3 DEF Produce
<1>4. CASE Indexer(Send(Main)) \/ Return \/ Indexer(WaitReturns)
  BY <1>4, MemSearch DEF Indexer, Return
<1>5. CASE PrintEntity
  BY <1>5 DEF PrintEntity
<1>6. CASE Fatal \/ RangeThrows
  BY <1>6 DEF Fatal, RangeThrows
<1>7. ASSUME NEW w \in Workers, Indexer(Work(w)) PROVE [Next]_vars
  BY <1>7 DEF Indexer
<1>8. CASE UNCHANGED svars
  BY <1>8 DEF svars
<1> QED
  BY <1>1, <1>2, <1>3, <1>4, <1>5, <1>6, <1>7, <1>8 DEF SNext, MainStep

\* What matters of a job to a worker that goes on to its next document.
LEMMA NoJobData == NoJob.data = NoData /\ NoJob \in Job /\ \A d \in Entities : NoData[d] = 0
BY NoJobType DEF NoJob, NoData

\* Reading d, a document gets its version, and has then to read the children
\* that exist.
LEMMA ReadIntoIs ==
  ASSUME NEW j \in Job, NEW d \in Entities
  PROVE  /\ ReadInto(j, d).e = j.e /\ ReadInto(j, d).left = ReadNext(j, d)
         /\ ReadInto(j, d).data[d] = ver[d]
         /\ \A x \in Entities : x # d => ReadInto(j, d).data[x] = j.data[x]
BY DEF ReadInto, Job, Versions

LEMMA WorkBounded ==
  ASSUME TypeOK, Bounded, NEW w \in Workers, Work(w)
  PROVE  Bounded' /\ ver' = ver
<1> USE MemSearch
<1>1. CASE Receive(w) \/ OnUpdateFails(w) \/ WorkerExit(w) \/ SkipDirty(w)
  BY <1>1 DEF Receive, OnUpdateFails, WorkerExit, SkipDirty, Bounded
<1>2. CASE StartRegenerate(w)
  <2>1. PICK j : j.data = NoData /\ job' = [job EXCEPT ![w] = j]
    BY <1>2 DEF StartRegenerate
  <2>2. \A v \in Workers : job'[v] = IF v = w THEN j ELSE job[v]
    BY <2>1 DEF TypeOK
  <2>3. \A d \in Entities : 0 <= ver[d]
    BY DEF TypeOK, Versions
  <2>4. \A v \in Workers, d \in Entities : job'[v].data[d] <= ver[d]
    BY <2>1, <2>2, <2>3, NoJobData DEF Bounded
  <2> QED
    BY <1>2, <2>4 DEF StartRegenerate, Bounded
<1>3. CASE Read(w)
  <2>1. PICK x \in job[w].left : job' = [job EXCEPT ![w] = ReadInto(job[w], x)]
    BY <1>3 DEF Read
  <2>2. job[w] \in Job /\ x \in Entities
    BY <2>1 DEF TypeOK, Job
  <2>3. PICK j : j = ReadInto(job[w], x)
    OBVIOUS
  <2>4. j.data[x] = ver[x] /\ \A d \in Entities : d # x => j.data[d] = job[w].data[d]
    BY <2>2, <2>3, ReadIntoIs
  <2>5. \A v \in Workers : job'[v] = IF v = w THEN j ELSE job[v]
    BY <2>1, <2>3 DEF TypeOK
  <2>6. ver[x] <= ver[x]
    BY <2>2 DEF TypeOK, Versions
  <2>7. \A v \in Workers, d \in Entities : job'[v].data[d] <= ver[d]
    BY <2>4, <2>5, <2>6 DEF Bounded
  <2> QED
    BY <1>3, <2>7 DEF Read, Bounded
<1>4. CASE MemLookup(w) \/ MemWrite(w)
  <2>1. \A v \in Workers : job'[v] = job[v] \/ job'[v] = NoJob
    BY <1>4 DEF MemLookup, MemWrite, NextDirty, TypeOK
  <2>2. \A d \in Entities : 0 <= ver[d]
    BY DEF TypeOK, Versions
  <2>3. \A v \in Workers, d \in Entities : job'[v].data[d] <= ver[d]
    BY <2>1, <2>2, NoJobData DEF Bounded
  <2>4. \A e \in Entities : docs'[e] = docs[e] \/ docs'[e].data = job[w].data
    BY <1>4 DEF MemLookup, MemWrite, DocOf, TypeOK
  <2>5. \A e, d \in Entities : docs'[e].data[d] <= ver[d]
    BY <2>4 DEF Bounded
  <2> QED
    BY <1>4, <2>3, <2>5 DEF MemLookup, MemWrite, Bounded
<1>5. CASE MemRaceThrows(w)
  BY <1>5 DEF MemRaceThrows, Die, proc, Bounded
<1>6. ~ElasticUpdate(w) /\ ~ElasticFails(w)
  BY DEF ElasticUpdate, ElasticFails
<1> QED
  BY <1>1, <1>2, <1>3, <1>4, <1>5, <1>6 DEF Work

LEMMA CommitBounded ==
  ASSUME TypeOK, Bounded, Commit(Main)
  PROVE  Bounded'
<1>1. PICK es :
         ver' = [d \in Entities |-> IF d \in Elems(es) THEN ver[d] + 1 ELSE ver[d]]
  BY DEF Commit, Stores
<1>3. \A d \in Entities : ver[d] \in Nat
  BY DEF TypeOK, Versions
<1>5. \A d \in Entities : ver[d] <= ver'[d] /\ ver'[d] \in Nat
  BY <1>1, <1>3
<1>6. UNCHANGED <<docs, job>>
  BY DEF Commit
<1>7. /\ \A e, d \in Entities : docs[e].data[d] \in Nat
      /\ \A w \in Workers, d \in Entities : job[w].data[d] \in Nat
  <2>1. /\ \A e \in Entities : docs[e].data \in [Entities -> Nat]
        /\ \A w \in Workers : job[w].data \in [Entities -> Nat]
    BY DEF TypeOK, Doc, Job, Versions
  <2> QED
    BY <2>1
<1>8. \A e, d \in Entities : docs'[e].data[d] <= ver'[d]
  <2> SUFFICES ASSUME NEW e \in Entities, NEW d \in Entities
               PROVE  docs[e].data[d] <= ver'[d]
    BY <1>6
  <2>1. docs[e].data[d] <= ver[d]
    BY DEF Bounded
  <2> QED
    BY <1>3, <1>5, <1>7, <2>1
<1>9. \A w \in Workers, d \in Entities : job'[w].data[d] <= ver'[d]
  <2> SUFFICES ASSUME NEW w \in Workers, NEW d \in Entities
               PROVE  job[w].data[d] <= ver'[d]
    BY <1>6
  <2>1. job[w].data[d] <= ver[d]
    BY DEF Bounded
  <2> QED
    BY <1>3, <1>5, <1>7, <2>1
<1> QED
  BY <1>6, <1>8, <1>9 DEF Bounded

\* Nothing else changes what Bounded speaks of.
LEMMA SameBounded ==
  ASSUME Bounded, UNCHANGED <<ver, docs, job>>
  PROVE  Bounded'
BY DEF Bounded

\* What the store has, if it has nothing, is what a new document starts with.
LEMMA NothingToRead ==
  ASSUME TypeOK, Bounded, NEW w \in Workers, NEW d \in Entities, ~(ver[d] > 0)
  PROVE  job[w].data[d] = ver[d]
<1>1. job[w].data[d] \in Nat /\ ver[d] \in Nat /\ job[w].data[d] <= ver[d]
  BY DEF TypeOK, Job, Versions, Bounded
<1> QED
  BY <1>1

\* A worker's step leaves an up to date document up to date.
LEMMA WorkStaysUpToDate ==
  ASSUME TypeOK, Bounded, NEW w \in Workers, Work(w), NEW e \in Entities, StaysUpToDate(e)
  PROVE  StaysUpToDate(e)'
<1> USE MemSearch
<1>1. Reads[e] \subseteq Entities /\ ver' = ver
  BY ReadsEntities, WorkBounded
<1>2. CASE Receive(w) \/ OnUpdateFails(w) \/ WorkerExit(w) \/ SkipDirty(w)
  <2>1. job' = job /\ docs' = docs
    BY <1>2 DEF Receive, OnUpdateFails, WorkerExit, SkipDirty
  <2>2. \A v \in Workers : wpc'[v] = wpc[v] \/ wpc'[v] \notin {"read", "write"}
    BY <1>2 DEF Receive, OnUpdateFails, WorkerExit, SkipDirty, LoopOrReceive, TypeOK
  <2> QED
    BY <1>1, <2>1, <2>2 DEF StaysUpToDate
<1>3. CASE StartRegenerate(w)
  <2>1. PICK j : /\ j.left = {j.e} /\ job' = [job EXCEPT ![w] = j]
                 /\ wpc' = [wpc EXCEPT ![w] = "read"] /\ docs' = docs
    BY <1>3 DEF StartRegenerate
  <2>2. /\ job'[w] = j /\ wpc'[w] = "read"
        /\ \A v \in Workers : v # w => job'[v] = job[v] /\ wpc'[v] = wpc[v]
    BY <2>1 DEF TypeOK
  <2> QED
    BY <1>1, <2>1, <2>2 DEF StaysUpToDate
<1>4. CASE Read(w)
  <2>1. PICK x \in job[w].left : job' = [job EXCEPT ![w] = ReadInto(job[w], x)]
    BY <1>4 DEF Read
  <2>2. job[w] \in Job /\ x \in Entities
    BY <2>1 DEF TypeOK, Job
  <2>3. PICK j : j = ReadInto(job[w], x)
    OBVIOUS
  <2>4. /\ j.e = job[w].e /\ j.left = ReadNext(job[w], x) /\ j.data[x] = ver[x]
        /\ \A d \in Entities : d # x => j.data[d] = job[w].data[d]
    BY <2>2, <2>3, ReadIntoIs
  <2>5. /\ job'[w] = j /\ \A v \in Workers : v # w => job'[v] = job[v]
        /\ wpc' = wpc /\ docs' = docs /\ wpc[w] = "read"
    BY <1>4, <2>1, <2>3 DEF Read, TypeOK
  <2>6. ASSUME j.e = e, NEW d \in Reads[e]
        PROVE  j.data[d] = ver[d] \/ d \in j.left \/ e \in j.left
    <3>1. d \in Entities
      BY <1>1
    <3>2. CASE d = x
      BY <2>4, <3>2
    <3>3. CASE d # x /\ x = e
      <4>1. j.left = {y \in Reads[e] \ {e} : ver[y] > 0}
        BY <2>4, <2>6, <3>3 DEF ReadNext
      <4>2. ~(ver[d] > 0) => job[w].data[d] = ver[d]
        BY <3>1, NothingToRead
      <4> QED
        BY <2>4, <3>1, <3>3, <4>1, <4>2
    <3>4. CASE d # x /\ x # e
      <4>1. j.left = job[w].left \ {x}
        BY <2>4, <2>6, <3>4 DEF ReadNext
      <4>2. job[w].data[d] = ver[d] \/ d \in job[w].left \/ e \in job[w].left
        BY <2>4, <2>5, <2>6 DEF StaysUpToDate
      <4> QED
        BY <2>4, <3>1, <3>4, <4>1, <4>2
    <3> QED
      BY <3>2, <3>3, <3>4
  <2> QED
    BY <1>1, <2>5, <2>6 DEF StaysUpToDate
<1>5. CASE MemLookup(w)
  <2>1. docs' = docs /\ job[w].left = {} /\ wpc[w] = "read"
    BY <1>5 DEF MemLookup, Regenerated
  <2>2. \A v \in Workers : v # w => job'[v] = job[v] /\ wpc'[v] = wpc[v]
    BY <1>5 DEF MemLookup, NextDirty, TypeOK
  <2>3. \/ job'[w] = job[w] /\ wpc'[w] = "write"
        \/ wpc'[w] \notin {"read", "write"}
    BY <1>5 DEF MemLookup, NextDirty, LoopOrReceive, TypeOK
  <2>4. ASSUME job[w].e = e, NEW d \in Reads[e] PROVE job[w].data[d] = ver[d]
    BY <2>1, <2>4 DEF StaysUpToDate
  <2> QED
    BY <1>1, <2>1, <2>2, <2>3, <2>4 DEF StaysUpToDate
<1>6. CASE MemWrite(w)
  <2>1. wpc[w] = "write" /\ wpc'[w] \notin {"read", "write"}
    BY <1>6 DEF MemWrite, NextDirty, LoopOrReceive, TypeOK
  <2>2. \A v \in Workers : v # w => job'[v] = job[v] /\ wpc'[v] = wpc[v]
    BY <1>6 DEF MemWrite, NextDirty, TypeOK
  <2>3. docs'[e] = docs[e] \/ (job[w].e = e /\ docs'[e].data = job[w].data)
    <3>1. PICK doc : doc = DocOf(w)
      OBVIOUS
    <3>2. doc.data = job[w].data
      BY <3>1 DEF DocOf
    <3>3. docs' = [docs EXCEPT ![job[w].e] = doc]
      BY <1>6, <3>1 DEF MemWrite
    <3>4. docs'[e] = IF job[w].e = e THEN doc ELSE docs[e]
      BY <3>3 DEF TypeOK
    <3> QED
      BY <3>2, <3>4
  <2>4. ASSUME NEW d \in Reads[e] PROVE docs'[e].data[d] = ver[d]
    BY <2>1, <2>3 DEF StaysUpToDate
  <2> QED
    BY <1>1, <2>1, <2>2, <2>4 DEF StaysUpToDate
<1>7. CASE MemRaceThrows(w)
  BY <1>7 DEF MemRaceThrows, Die, proc, StaysUpToDate
<1>8. ~ElasticUpdate(w) /\ ~ElasticFails(w)
  BY DEF ElasticUpdate, ElasticFails
<1> QED
  BY <1>2, <1>3, <1>4, <1>5, <1>6, <1>7, <1>8 DEF Work

----------------------------------------------------------------------------
(* The steps of main, the printer and the workers. *)

\* What changes nothing that the search depends on.
LEMMA SameSearch ==
  ASSUME Ranged, UNCHANGED <<search, ver, docs, job, wpc>>, ranging => UNCHANGED <<at, toSend>>
  PROVE  Ranged'
<1> SUFFICES ASSUME ranging'
             PROVE  (Searching /\ Finding /\ \A e \in settled \cap Entities : StaysUpToDate(e))'
  BY DEF Ranged
<1>1. /\ ranging /\ at' = at /\ toSend' = toSend /\ left' = left /\ found' = found
      /\ indexed' = indexed /\ settled' = settled
      /\ ver' = ver /\ docs' = docs /\ job' = job /\ wpc' = wpc
  BY DEF search
<1>2. Searching'
  BY <1>1 DEF Ranged, Searching
<1>3. Finding'
  BY <1>1 DEF Ranged, Finding
<1>4. \A e \in settled \cap Entities : StaysUpToDate(e)'
  BY <1>1 DEF Ranged, StaysUpToDate
<1> QED
  BY <1>1, <1>2, <1>3, <1>4

LEMMA WorkRanged ==
  ASSUME TypeOK, Bounded, Ranged, NEW w \in Workers, Indexer(Work(w))
  PROVE  Ranged'
<1> SUFFICES ASSUME ranging'
             PROVE  (Searching /\ Finding /\ \A e \in settled \cap Entities : StaysUpToDate(e))'
  BY DEF Ranged
<1>1. /\ Work(w) /\ ranging /\ at' = at /\ left' = left /\ found' = found
      /\ indexed' = indexed /\ settled' = settled
  BY DEF Indexer, search
<1>2. ver' = ver
  BY <1>1, WorkBounded
<1>3. toSend' = toSend
  BY <1>1, MemSearch DEF Work, Receive, OnUpdateFails, WorkerExit, SkipDirty, StartRegenerate,
        Read, ElasticUpdate, ElasticFails, MemLookup, MemWrite, MemRaceThrows, Die, proc
<1>4. Searching'
  BY <1>1, <1>3 DEF Ranged, Searching
<1>5. Finding'
  BY <1>1, <1>2 DEF Ranged, Finding
<1>6. \A e \in settled \cap Entities : StaysUpToDate(e)'
  BY <1>1, WorkStaysUpToDate DEF Ranged
<1> QED
  BY <1>1, <1>4, <1>5, <1>6

\* What the documents that a search may see of e have in common.
LEMMA CopiesAre ==
  ASSUME TypeOK, Bounded, NEW e \in Entities, NEW c \in Copies(e)
  PROVE  /\ \A d \in Entities : c.data[d] <= ver[d]
         /\ StaysUpToDate(e) => \A d \in Reads[e] : c.data[d] = ver[d]
<1>1. PICK writing : writing = {DocOf(w) : w \in {v \in Workers : wpc[v] = "write" /\ job[v].e = e}}
  OBVIOUS
<1>2. PICK d2 \in {docs[e]} \cup writing : c.data = d2.data
  BY <1>1 DEF Copies
<1>3. CASE d2 = docs[e]
  BY <1>2, <1>3 DEF Bounded, StaysUpToDate
<1>4. CASE d2 \in writing
  <2>1. PICK w \in Workers : wpc[w] = "write" /\ job[w].e = e /\ d2 = DocOf(w)
    BY <1>1, <1>4
  <2>2. d2.data = job[w].data
    BY <2>1 DEF DocOf
  <2> QED
    BY <1>2, <2>1, <2>2 DEF Bounded, StaysUpToDate
<1> QED
  BY <1>2, <1>3, <1>4

\* Documents that are up to date and not being made stay so.
LEMMA SettledStays ==
  ASSUME NEW e \in Entities, Settled(e)
  PROVE  StaysUpToDate(e)
BY DEF StaysUpToDate, Settled, UpToDate

LEMMA BeginSearchRanged ==
  ASSUME TypeOK, Bounded, BeginSearch
  PROVE  Ranged'
<1>1. /\ UNCHANGED <<ver, docs, job, wpc, toSend, at>>
      /\ found' = {} /\ indexed' = left' /\ settled' = {e \in left' : Settled(e)}
      /\ Script[at].op = "search" /\ toSend[Main] = <<>>
  BY DEF BeginSearch, Doing, vars, proc
<1>2. Searching' /\ Finding'
  BY <1>1 DEF Searching, Finding
<1>3. \A e \in settled' \cap Entities : StaysUpToDate(e)
  BY <1>1, SettledStays
<1>4. \A e \in settled' \cap Entities : StaysUpToDate(e)'
  BY <1>1, <1>3 DEF StaysUpToDate
<1> QED
  BY <1>2, <1>4 DEF Ranged

LEMMA ProduceRanged ==
  ASSUME TypeOK, Bounded, Ranged, NEW e \in Entities, Produce(e)
  PROVE  Ranged'
<1>1. /\ UNCHANGED <<ver, docs, job, wpc, toSend, at, ranging, indexed, settled>> /\ ranging
      /\ left' = left \ {e} /\ \A f \in found : f.e # e
  BY DEF Produce, vars, proc
<1>2. PICK c \in Copies(e) : found' = found \cup {[e |-> e, doc |-> c]}
  BY DEF Produce
<1>3. PICK new : new = [e |-> e, doc |-> c]
  OBVIOUS
<1>4. new.e = e /\ new.doc = c /\ found' = found \cup {new}
  BY <1>2, <1>3
<1>5. Searching' /\ \A x \in settled' \cap Entities : StaysUpToDate(x)'
  BY <1>1 DEF Ranged, Searching, StaysUpToDate
<1>6. /\ \A d \in Entities : new.doc.data[d] <= ver'[d]
      /\ \A d \in Reads[e] : e \in settled' => new.doc.data[d] = ver'[d]
  <2>1. e \in settled => StaysUpToDate(e)
    BY <1>1 DEF Ranged
  <2> QED
    BY <1>1, <1>4, <2>1, CopiesAre
<1>7. Finding
  BY <1>1 DEF Ranged
<1>8. \A x \in indexed' : x \in left' \/ \E f \in found' : f.e = x
  BY <1>1, <1>4, <1>7 DEF Finding
<1>9. \A f, g \in found' : f.e = g.e => f = g
  BY <1>1, <1>4, <1>7 DEF Finding
<1>10. /\ \A f \in found' : f.e \in Entities
       /\ \A f \in found' : \A d \in Entities : f.doc.data[d] <= ver'[d]
  BY <1>1, <1>4, <1>6, <1>7 DEF Finding
<1>11. \A f \in found' : \A d \in Reads[f.e] : f.e \in settled' => f.doc.data[d] = ver'[d]
  BY <1>1, <1>4, <1>6, <1>7 DEF Finding
<1>12. Finding'
  BY <1>8, <1>9, <1>10, <1>11 DEF Finding
<1> QED
  BY <1>5, <1>12 DEF Ranged

LEMMA InitSearch == SInit => SearchInv
<1> SUFFICES ASSUME SInit PROVE SearchInv
  OBVIOUS
<1>1. TypeOK /\ Busy
  BY InitType DEF SInit, Init, Busy
<1>2. Bounded
  BY NoJobData DEF SInit, Init, Bounded
<1>3. Ranged
  BY DEF SInit, Ranged
<1> QED
  BY <1>1, <1>2, <1>3 DEF SearchInv

LEMMA NextSearch == SearchInv /\ [SNext]_svars => SearchInv'
<1> SUFFICES ASSUME SearchInv, [SNext]_svars PROVE SearchInv'
  OBVIOUS
<1> USE DEF SearchInv
<1>1. TypeOK' /\ Busy'
  BY StepOfIndexer, TypeStep, BusyStep, DieKeepsType
<1>2. CASE Execute
  <2>1. Commit(Main) /\ Script[at].op = "execute" /\ UNCHANGED search
    BY <1>2 DEF Execute, Doing
  <2>2. ~ranging /\ ranging' = ranging
    BY <2>1 DEF Ranged, Searching, search
  <2>3. Ranged'
    BY <2>2 DEF Ranged
  <2> QED
    BY <1>1, <2>1, <2>3, CommitBounded
<1>3. CASE \/ Query \/ BeginIterate \/ Pass \/ PrinterDone \/ PrintEntity
           \/ Indexer(Send(Main)) \/ Return \/ Indexer(WaitReturns) \/ Fatal
           \/ RangeThrows \/ UNCHANGED svars
  <2>1. UNCHANGED <<search, ver, docs, job, wpc>>
    BY <1>3 DEF Query, BeginIterate, Pass, PrinterDone, PrintEntity, Indexer, Send, Return, Close,
          WaitReturns, Fatal, RangeThrows, Die, svars, vars, proc
  <2>2. ranging => toSend[Main] = <<>> /\ Script[at].op = "search"
    BY DEF Ranged, Searching
  <2>3. ranging => UNCHANGED <<at, toSend>>
    BY <1>3, <2>2 DEF Query, BeginIterate, Pass, PrinterDone, PrintEntity, Indexer, Send, Return,
          Close, WaitReturns, Fatal, RangeThrows, Die, Doing, svars, vars, proc
  <2> QED
    BY <1>1, <2>1, <2>3, SameSearch, SameBounded
<1>4. CASE BeginSearch
  <2>1. UNCHANGED <<ver, docs, job>>
    BY <1>4 DEF BeginSearch, vars, proc
  <2> QED
    BY <1>1, <1>4, <2>1, BeginSearchRanged, SameBounded
<1>5. CASE EndSearch
  <2>1. UNCHANGED <<ver, docs, job>> /\ ~ranging'
    BY <1>5 DEF EndSearch, vars, proc
  <2> QED
    BY <1>1, <2>1, SameBounded DEF Ranged
<1>6. ASSUME NEW e \in Entities, Produce(e) PROVE SearchInv'
  <2>1. UNCHANGED <<ver, docs, job>>
    BY <1>6 DEF Produce, vars, proc
  <2> QED
    BY <1>1, <1>6, <2>1, ProduceRanged, SameBounded
<1>7. ASSUME NEW w \in Workers, Indexer(Work(w)) PROVE SearchInv'
  <2>1. Bounded'
    BY <1>7, WorkBounded DEF Indexer
  <2> QED
    BY <1>1, <1>7, <2>1, WorkRanged
<1> QED
  BY <1>2, <1>3, <1>4, <1>5, <1>6, <1>7 DEF SNext, MainStep

----------------------------------------------------------------------------
\* A search ends when its iterator has produced what was there.
LEMMA SearchFound ==
  ASSUME Ranged, [SNext]_svars, ranging, ~ranging'
  PROVE  /\ \A e \in indexed : Cardinality({f \in found : f.e = e}) = 1
         /\ \A f \in found : \A d \in Reads[f.e] :
              /\ f.doc.data[d] <= ver[d]
              /\ f.e \in settled => f.doc.data[d] = ver[d]
<1>1. EndSearch
  <2>1. ~(UNCHANGED ranging)
    OBVIOUS
  <2>2. ~BeginSearch
    BY DEF BeginSearch
  <2> QED
    BY <2>1, <2>2 DEF SNext, MainStep, Execute, Query, BeginIterate, Pass, PrinterDone, PrintEntity,
          Indexer, Return, Fatal, RangeThrows, Produce, svars, search
<1>2. left = {} /\ Finding
  BY <1>1 DEF EndSearch, RangeOver, Ranged
<1>3. ASSUME NEW e \in indexed
      PROVE  Cardinality({f \in found : f.e = e}) = 1
  <2>1. PICK g \in found : g.e = e
    BY <1>2 DEF Finding
  <2>2. {f \in found : f.e = e} = {g}
    BY <1>2, <2>1 DEF Finding
  <2>3. Cardinality({g}) = 1
    BY FS_Singleton
  <2> QED
    BY <2>2, <2>3
<1>4. \A f \in found : Reads[f.e] \subseteq Entities
  BY <1>2, ReadsEntities DEF Finding
<1> QED
  BY <1>2, <1>3, <1>4 DEF Finding

\* The invariant holds in every state that the program can reach.
THEOREM SearchInvariant == SSpec => []SearchInv
BY InitSearch, NextSearch, PTL DEF SSpec

\* Whatever the indexer's goroutines write while NewQuery of memsearch ranges
\* over the map that they write, a search that the process survives finds each
\* document that was indexed when it began, once, none ahead of the store, and
\* those that nothing was about to change as the store has them.
THEOREM SearchFindsIndexed == SSpec => SearchSeesIndexed
<1>1. SearchInv /\ [SNext]_svars =>
        [ranging /\ ~ranging' =>
           /\ \A e \in indexed : Cardinality({f \in found : f.e = e}) = 1
           /\ \A f \in found : \A d \in Reads[f.e] :
                /\ f.doc.data[d] <= ver[d]
                /\ f.e \in settled => f.doc.data[d] = ver[d]]_svars
  BY SearchFound DEF SearchInv
<1>2. SSpec => []SearchInv
  BY SearchInvariant
<1> QED
  BY <1>1, <1>2, PTL DEF SSpec, SearchSeesIndexed
=============================================================================
