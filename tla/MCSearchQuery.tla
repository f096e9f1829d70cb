----------------------------- MODULE MCSearchQuery ---------------------------
(* Instances of SearchQuery for TLC: galaxies with a position and, some of  *)
(* them, a name, as in the tests of the search engines.                     *)
EXTENDS SearchQuery

Galaxy(id, ts, pos)        == [id |-> id, kind |-> "Galaxy", ts |-> ts, data |-> [pos |-> pos]]
Named(id, ts, pos, name)   == [Galaxy(id, ts, pos) EXCEPT !.data = [pos |-> pos, name |-> name]]

\* Three galaxies, one of them without a name and two at one position, and a
\* document of another kind.
MCIndexes ==
  {{Named("m81", 1, 1, 7), Galaxy("m64", 1, 2), Named("ngc", 1, 1, 8),
    [id |-> "m81", kind |-> "Star", ts |-> 1, data |-> [pos |-> 1]]}}
\* A newer document of one galaxy, and one of another that is not newer.
MCOffered == {Named("m81", 2, 2, 7), Galaxy("ngc", 1, 2)}
MCKinds  == {"Galaxy", "Star"}
OneKind  == {"Galaxy"}
MCFields == {"pos", "name"}
\* AddExact("pos", 1), AddRegex("name", ...), and a condition on no field.
MCConditions == {[field |-> "pos", ok |-> {1}], [field |-> "name", ok |-> {7, 9}],
                 [field |-> None, ok |-> {}]}
PlainConditions == {[field |-> "pos", ok |-> {1}], [field |-> "name", ok |-> {7}]}
MCEngines == {"memsearch", "elasticsearch"}
MemOnly == {"memsearch"}
=============================================================================
