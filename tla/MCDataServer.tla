---------------------------- MODULE MCDataServer ----------------------------
(***************************************************************************)
(* Small instances of DataServer for TLC: a peer that waits for answers    *)
(* and one that does not, on two threads.  The second one also sends a     *)
(* message of unknown tag and a login too long for SelectUser.             *)
(***************************************************************************)
EXTENDS DataServer, TLC

CONSTANTS c1, c2, t1, t2

L(id, user) == [tag |-> "l", id |-> id, user |-> user, var |-> 2]
Long == [tag |-> "l", id |-> 5, user |-> 101, var |-> 65]
Other == [tag |-> "other", id |-> 0, user |-> NoUser, var |-> 8]

TwoScripts == (c1 :> <<L(1, 100), L(2, NoUser)>>)
              @@ (c2 :> <<L(3, 101), L(4, 100), Other, Long>>)
OneScript == c1 :> <<L(1, 100)>>

TwoLoops == (c1 :> t1) @@ (c2 :> t2)
OneLoop == c1 :> t1
=============================================================================
