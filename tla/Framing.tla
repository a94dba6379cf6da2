------------------------------ MODULE Framing ------------------------------
(***************************************************************************)
(* What the message callbacks of the two servers have in common: messages  *)
(* | tag | len | body | in a stream of bytes that arrives in pieces.  The  *)
(* tag takes one byte, len four; len counts itself and the body.           *)
(***************************************************************************)
EXTENDS Integers, Sequences

SwapBytes(n) == (n % 256) * 2^24 + ((n \div 256) % 256) * 2^16
                + ((n \div 2^16) % 256) * 2^8 + (n \div 2^24)

(* Buffer::PeekTagLen copies the length as it is in the message, in        *)
(* network byte order, without ntohl.                                      *)
PeekTagLen(bigEndian, len) == IF bigEndian THEN len ELSE SwapBytes(len)

(* The positions behind the first k of the messages with these sizes.      *)
EndsOf(sizes) ==
    LET upTo[k \in 0..Len(sizes)] ==
            IF k = 0 THEN 0 ELSE upTo[k - 1] + sizes[k]
    IN  [k \in 0..Len(sizes) |-> upTo[k]]

(* Where a piece may end: behind a message or at one of the offsets in it. *)
PiecesOf(sizes, offsets) ==
    LET end == EndsOf(sizes)
    IN  UNION {{end[k]} \cup {end[k - 1] + o : o \in offsets \cap 1..sizes[k]}
                 : k \in DOMAIN sizes}
=============================================================================
