------------------------------ MODULE MCGate ------------------------------
(***************************************************************************)
(* Small instances of Gate for TLC: a client with two logins, one with a   *)
(* message of unknown tag in between, and a data server that authorises    *)
(* both, refuses, and goes on.                                             *)
(***************************************************************************)
EXTENDS Gate, TLC

CONSTANTS c1, c2

L(n) == [tag |-> "l", var |-> n]
Other == [tag |-> "other", var |-> 2]
S(c, u) == [tag |-> "s", var |-> 16, id |-> c, user |-> u]
X(c) == [tag |-> "x", var |-> 8, id |-> c]

TwoClients == (c1 :> <<L(9), L(10)>>) @@ (c2 :> <<Other, L(9)>>)
              @@ (Db :> <<S(c1, 100), S(c2, 101), X(c1), S(c1, 102)>>)
OneClient == (c1 :> <<L(9)>>) @@ (Db :> <<S(c1, 100)>>)

AllHosts == [big : BOOLEAN, wide : BOOLEAN]
UsualHost == {[big |-> FALSE, wide |-> FALSE]}
=============================================================================
