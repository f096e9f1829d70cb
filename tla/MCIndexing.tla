----------------------------- MODULE MCIndexing -----------------------------
(* Instances of Indexing for TLC: the entities of examples/social, where a  *)
(* user, which is not indexed, has a post, which has a like.  A change of   *)
(* an entity makes its parent dirty too, and a post's document counts what  *)
(* is on it.                                                                *)
EXTENDS Indexing, TLC

MCEntities   == {"user", "post", "like"}
MCRegistered == {"post", "like"}
MCDirty == [user |-> <<"user">>, post |-> <<"user", "post">>,
            like |-> <<"post", "like">>]
MCReads == [user |-> {"user"}, post |-> {"post", "like"}, like |-> {"like"}]

\* Adding a post to a user, liking a post, editing a like.
MCCommits == {<<"user", "post">>, <<"post", "like">>, <<"like">>}
\* Workers are interchangeable, and so are producers.
GoroutineSymmetry == Permutations(Producers) \cup Permutations(Workers)

\* Two entities only, for the liveness runs: a post and a like on it.
TwoEntities == {"post", "like"}
TwoDirty == [post |-> <<"post">>, like |-> <<"post", "like">>]
TwoReads == [post |-> {"post", "like"}, like |-> {"like"}]
TwoCommits == {<<"post", "like">>, <<"like">>}
\* ... the like only, edited again and again.
LikeCommits == {<<"like">>}
=============================================================================
