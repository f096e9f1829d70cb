--------------------------- MODULE IndexingRefines ---------------------------
(***************************************************************************)
(* The real-time indexer implements RegularIndex, with elasticsearch and a  *)
(* strict clock.  Module Indexing takes its own steps; two history          *)
(* variables remember which versions the store had when a document was      *)
(* begun, the least its reading can find.                                   *)
(***************************************************************************)
EXTENDS Indexing

VARIABLES
  began,  \* worker -> the versions in the store when it stamped its document
  floor   \* document -> the versions that its accepted stamp stands for

hvars == <<vars, began, floor>>

HInit ==
  /\ Init
  /\ began = [w \in Workers |-> NoData]
  /\ floor = [e \in Registered |-> NoData]

Begin(w) ==
  /\ StartRegenerate(w)
  /\ began' = [began EXCEPT ![w] = ver]
  /\ UNCHANGED floor

Show(w) ==
  /\ ElasticUpdate(w)
  /\ floor' = IF Accepts(job[w].e, job[w].ts)
              THEN [floor EXCEPT ![job[w].e] = began[w]]
              ELSE floor
  /\ began' = [began EXCEPT ![w] = NoData]

Lose(w) ==
  /\ ElasticFails(w)
  /\ began' = [began EXCEPT ![w] = NoData]
  /\ UNCHANGED floor

StartOver ==
  /\ Restart
  /\ began' = [w \in Workers |-> NoData]
  /\ UNCHANGED floor

Elsewhere ==
  /\ \/ \E p \in Producers : Commit(p) \/ CommitFails(p) \/ Send(p) \/ SendOnClosed(p)
     \/ Close \/ WaitReturns
     \/ \E w \in Workers :
          Receive(w) \/ OnUpdateFails(w) \/ WorkerExit(w) \/ SkipDirty(w) \/ Read(w)
     \/ Crash
     \/ Stopped
  /\ UNCHANGED <<began, floor>>

HNext ==
  \/ \E w \in Workers : Begin(w) \/ Show(w) \/ Lose(w)
  \/ StartOver
  \/ Elsewhere

HSpec == HInit /\ [][HNext]_hvars /\ Fairness

----------------------------------------------------------------------------
Index == INSTANCE RegularIndex WITH
           Documents <- Registered,
           shown <- [e \in Registered |-> docs[e].data]

\* The index that Execute and the workers keep is the one RegularIndex
\* promises: whichever worker is late, whatever it read of a tree that
\* changed under its query, and after engine failures and restarts, a
\* document goes back to no less than what was in the store when the latest
\* document accepted before it was begun.
IndexImplemented == Index!Spec

\* The inductive invariant of the step simulation: a document under way has
\* read at least what was there when it was begun, ...
ReadSince(w) ==
  wpc[w] = "read" =>
    \A d \in Entities :
      /\ began[w][d] <= ver[d]
      /\ job[w].data[d] <= ver[d]
      /\ d \in Reads[job[w].e] /\ d \notin job[w].left /\ job[w].e \notin job[w].left
            => began[w][d] <= job[w].data[d]

\* ... one stamped later was begun later, ...
BegunInOrder(v, w) ==
  wpc[v] = "read" /\ wpc[w] = "read" /\ job[v].ts < job[w].ts =>
    \A d \in Entities : began[v][d] <= began[w][d]

\* ... and one that will be accepted was begun after the floor was laid.
AboveFloor(w) ==
  wpc[w] = "read" /\ job[w].ts > docs[job[w].e].ts =>
    \A d \in Entities : floor[job[w].e][d] <= began[w][d]

HistoryInv ==
  /\ began \in [Workers -> Versions]
  /\ floor \in [Registered -> Versions]
  /\ \A e \in Registered, d \in Entities : floor[e][d] <= ver[d]
  /\ \A w \in Workers : ReadSince(w) /\ AboveFloor(w)
  /\ \A v, w \in Workers : BegunInOrder(v, w)
=============================================================================
