------------------------------ MODULE MCSocial ------------------------------
(* Instances of Social for TLC: the script of main on a user's two posts;   *)
(* users are not indexed.                                                   *)
EXTENDS Social, TLC

MCProducers  == {Main}
MCEntities   == {"user", "post", "post2"}
MCRegistered == {"post", "post2"}
MCDirty == [user |-> <<"user">>, post |-> <<"user", "post">>, post2 |-> <<"user", "post2">>]
MCReads == [e \in MCEntities |-> {e}]
MCCommits == {<<"user", "post", "post2">>, <<"post">>}

\* The posts are made and searched for, one is edited twice, all is iterated over.
MCScript ==
  <<ExecuteOf(<<"user", "post", "post2">>), QueryFor(<<"user", "post">>),
    SearchAmong(<<"post", "post2">>), ExecuteOf(<<"post">>), ExecuteOf(<<"post">>), IterateAll,
    SearchAmong(<<"post", "post2">>)>>
=============================================================================
