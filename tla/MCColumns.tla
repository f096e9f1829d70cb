------------------------------ MODULE MCColumns ------------------------------
(* Instances of Columns for TLC.                                            *)
EXTENDS Columns, TLC

\* Clients are interchangeable, and so are properties.
ColumnSymmetry == Permutations(Clients) \cup Permutations(Preds)
=============================================================================
