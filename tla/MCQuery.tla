------------------------------ MODULE MCQuery ------------------------------
(* Instances of Query for TLC: a user with a post that has a like, and what *)
(* other clients may commit while a query runs.                             *)
EXTENDS Query

PropRow(s, p, ts)    == [s |-> s, p |-> p, o |-> None, ts |-> ts]
Child(s, kind, o, ts) ==
  {[s |-> s, p |-> kind, o |-> o, ts |-> ts], [s |-> o, p |-> "_parent_", o |-> s, ts |-> ts]}

\* User u, post p and like l, all of one moment or one after the other.
UserPostLike ==
  Child("u", "Post", "p", 1) \cup Child("p", "Like", "l", 2) \cup {PropRow("p", "text", 1)}

\* The post is deleted at the moment it got the like: either row comes first.
DeletedPost  == {PropRow("p", "_delete_", 2)}
CensoredLike == {PropRow("l", "censored", 3)}
SecondPost   == Child("u", "Post", "p2", 4) \cup {PropRow("p2", "blob", 4)}

MCStores  == {UserPostLike \cup CensoredLike}
MCBatches == {DeletedPost, SecondPost}
OneStore  == {UserPostLike \cup DeletedPost}
PlainStore == {UserPostLike}
DeletedLike == {UserPostLike \cup {PropRow("l", "_delete_", 3)}}
MCKinds == {"Post", "Like"}
MCFilters == {"censored"}
=============================================================================
