---------------------------- MODULE MCIndexServer ----------------------------
(* Instances of IndexServer for TLC. *)
EXTENDS IndexServer, TLC

\* Three entities, the first with two rows, the last not yet created.
MCEntities == 1..3
MCStored   == [e \in MCEntities |-> CASE e = 1 -> 2 [] e = 2 -> 1 [] OTHER -> 0]

\* Two entities, for the runs with temporal properties.
TwoEntities == 1..2
TwoStored   == [e \in TwoEntities |-> 1]

WorkerSymmetry == Permutations(Workers)
=============================================================================
