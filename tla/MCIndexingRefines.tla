-------------------------- MODULE MCIndexingRefines --------------------------
(* Instances of IndexingRefines for TLC: those of Indexing.                 *)
EXTENDS IndexingRefines, MCIndexing
=============================================================================
