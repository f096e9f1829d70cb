------------------------------ MODULE MCLeveldb ------------------------------
(* Instances of Leveldb for TLC. *)
EXTENDS Leveldb, TLC

\* Two ids, neither the beginning of the other's keys.
ApartIds == {<<"a">>, <<"b">>}

\* Two ids, one continuing the other.
PrefixIds == {<<"a">>, <<"a", "b">>}

\* One row of either, two of the first, one of each.
PrefixBatches ==
  {<<a>> : a \in PrefixIds} \cup {<<<<"a">>, <<"a">>>>, <<<<"a">>, <<"a", "b">>>>}

\* Batches of one row, for a client that cannot collide with itself.
SingleRows == {<<<<"a">>>>}

LeveldbSymmetry == Permutations(Clients) \cup Permutations(Suffixes)
=============================================================================
