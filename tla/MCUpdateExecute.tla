-------------------------- MODULE MCUpdateExecute --------------------------
(* Instances of UpdateExecute for TLC. *)
EXTENDS UpdateExecute, TLC

\* Drawn ids are interchangeable, and so are the clients: no expression of
\* UpdateExecute chooses among them.
IdSymmetry == Permutations(Ids)
ClientIdSymmetry == Permutations(Ids) \cup Permutations(Clients)
=============================================================================
