---------------------------- MODULE RegularIndex ----------------------------
(***************************************************************************)
(* What gocrud's search index promises, whoever keeps it: store clients     *)
(* commit, and now and then a document is made anew.  What it shows of an   *)
(* entity may be less than the store has, and less than it showed before,   *)
(* but never less than every reader can rely on since: `floor`, which does  *)
(* not fall, and never more than the store has.  A document thus behaves    *)
(* like a regular register that its indexers write.                         *)
(***************************************************************************)
EXTENDS Naturals

CONSTANTS
  Entities,   \* what the store holds
  Documents,  \* the entities that have a document
  Reads       \* document -> entities it is computed from

VARIABLES
  ver,    \* entity -> its version in the store
  shown,  \* document -> the version of each entity that it shows
  floor   \* document -> versions it is sure to show from now on

vars == <<ver, shown, floor>>

Nothing == [d \in Entities |-> 0]

Init ==
  /\ ver \in [Entities -> Nat]
  /\ shown = [e \in Documents |-> Nothing]
  /\ floor = [e \in Documents |-> Nothing]

\* Somebody commits new rows of the entities in S.
Commit(S) ==
  /\ ver' = [d \in Entities |-> IF d \in S THEN ver[d] + 1 ELSE ver[d]]
  /\ UNCHANGED <<shown, floor>>

\* What one document may change to.
Between(e) ==
  \A d \in Reads[e] : /\ floor[e][d] <= floor'[e][d]
                      /\ floor'[e][d] <= shown'[e][d]
                      /\ shown'[e][d] <= ver[d]

\* A document is made anew.
Refresh(e) ==
  /\ Between(e)
  /\ shown' = [shown EXCEPT ![e] = shown'[e]]
  /\ floor' = [floor EXCEPT ![e] = floor'[e]]
  /\ UNCHANGED ver

Next ==
  \/ \E S \in SUBSET Entities : Commit(S)
  \/ \E e \in Documents : Refresh(e)

Spec == Init /\ [][Next]_vars
=============================================================================
