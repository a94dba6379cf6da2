----------------------------- MODULE ByteQueue -----------------------------
(***************************************************************************)
(* What Buffer promises the code that fills it, from a socket or message   *)
(* by message, and empties it: a queue of bytes, of any length, in which   *)
(* the bytes put in lie in their order behind those still there.  They are *)
(* numbered, from the first ever put in.                                   *)
(***************************************************************************)
EXTENDS Naturals, Sequences

VARIABLES content,
          put      \* how many bytes were put in so far

Init == content = <<>> /\ put = 0

Consume(n) == /\ content' = SubSeq(content, n + 1, Len(content))
              /\ UNCHANGED put

Produce == /\ put' > put
           /\ content' = content \o [i \in 1..(put' - put) |-> put + i]

Next == Produce \/ \E n \in 1..Len(content) : Consume(n)

Spec == Init /\ [][Next]_<<content, put>>
=============================================================================
