---------------------------- MODULE ServerRefines ----------------------------
(***************************************************************************)
(* The index server and the applications' indexers, writing to one search   *)
(* engine, implement RegularIndex.  The history variables are those of      *)
(* IndexingRefines; a document here shows only its own entity.              *)
(***************************************************************************)
EXTENDS IndexServer

VARIABLES
  began,  \* goroutine -> its entity's version when it stamped its document
  floor   \* entity -> the version that the indexed document's stamp stands for

hvars == <<vars, began, floor>>

HInit ==
  /\ Init
  /\ began = [w \in Goroutines |-> 0]
  /\ floor = [e \in Entities |-> 0]

Begin(w) ==
  /\ Regenerate(w)
  /\ began' = [began EXCEPT ![w] = ver[job[w].e]]
  /\ UNCHANGED floor

Show(w) ==
  /\ Update(w)
  /\ floor' = IF w \in outdated THEN floor ELSE [floor EXCEPT ![job[w].e] = began[w]]
  /\ began' = [began EXCEPT ![w] = 0]

Lose(w) ==
  /\ UpdateFails(w)
  /\ began' = [began EXCEPT ![w] = 0]
  /\ UNCHANGED floor

StartOver ==
  /\ Restart \/ AppRestart
  /\ began' = [w \in Goroutines |-> IF job'[w] = NoJob THEN 0 ELSE began[w]]
  /\ UNCHANGED floor

Elsewhere ==
  /\ \/ \E e \in Entities : Commit(e)
     \/ Loop
     \/ \E w \in Workers : Receive(w) \/ WorkerExit(w)
     \/ \E a \in AppWorkers : AppReceive(a)
     \/ \E w \in Goroutines : Query(w)
     \/ Stopped
  /\ UNCHANGED <<began, floor>>

HNext ==
  \/ \E w \in Goroutines : Begin(w) \/ Show(w) \/ Lose(w)
  \/ StartOver
  \/ Elsewhere

HSpec == HInit /\ [][HNext]_hvars /\ Fairness

----------------------------------------------------------------------------
Only(e, v) == [d \in Entities |-> IF d = e THEN v ELSE 0]

Index == INSTANCE RegularIndex WITH
           Documents <- Entities,
           Reads <- [e \in Entities |-> {e}],
           shown <- [e \in Entities |-> Only(e, docs[e])],
           floor <- [e \in Entities |-> Only(e, floor[e])]

\* "I recommend using both the methods": a server that walks over the store and an
\* application that follows its own updates may index one entity at the same
\* time, each from its own reading, and be killed at any moment; still no
\* document goes back to less than the store had when the latest accepted
\* one was begun.
IndexImplemented == Index!Spec
=============================================================================
