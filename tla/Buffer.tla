------------------------------- MODULE Buffer -------------------------------
(***************************************************************************)
(* Buffer: an array with a read and a write index.  The bytes between them *)
(* are the content.  When an append does not fit behind write_index_ the   *)
(* content is moved to the front (adjust) or to a larger array (grow).     *)
(*                                                                         *)
(* Bytes are numbered as they arrive, so that a lost, repeated or          *)
(* overtaken byte shows.  A store behind the array is undefined behaviour: *)
(* `overrun' keeps the length of the memcpy and nothing happens any more.  *)
(* Callers are taken to read no more than GetLength() bytes (ReadString    *)
(* sees to that itself, ReadInt* leaves it to the caller).                 *)
(***************************************************************************)
EXTENDS Integers, Sequences

CONSTANTS InitialSize,  \* INITIAL_SIZE
          ExtraSize,    \* sizeof(extrabuf) in ReadFd
          MaxBytes      \* bound on the bytes ever put into the buffer

ASSUME BufferAssumption ==
    /\ InitialSize \in Nat \ {0}
    /\ ExtraSize \in Nat
    /\ MaxBytes \in Nat

VARIABLES buf,      \* [mem: buffer_, cap: capacity_, rd/wr: the indices]
          fed,      \* number of bytes put in so far
          overrun   \* 0, or the length of the append that did not fit

vars == <<buf, fed, overrun>>

Junk == 0      \* an element of buffer_ never written
Byte == 1..MaxBytes

TypeOK ==
    /\ buf.cap \in Nat \ {0}
    /\ buf.mem \in [0..(buf.cap - 1) -> Byte \cup {Junk}]
    /\ buf.rd \in 0..buf.wr
    /\ buf.wr \in 0..buf.cap
    /\ fed \in 0..MaxBytes
    /\ overrun \in 0..MaxBytes

Init ==
    /\ buf = [mem |-> [i \in 0..(InitialSize - 1) |-> Junk],
              cap |-> InitialSize, rd |-> 0, wr |-> 0]
    /\ fed = 0
    /\ overrun = 0

GetLength(b) == b.wr - b.rd

(* What a reader sees from GetData() on.                                   *)
Content(b) == [i \in 1..GetLength(b) |-> b.mem[b.rd + i - 1]]

(* buffer_[at ..] after memcpy/memmove of the bytes s to that place.       *)
Store(mem, at, s) ==
    [i \in DOMAIN mem |->
        IF i \in at..(at + Len(s) - 1) THEN s[i - at + 1] ELSE mem[i]]

Adjust(b) == [b EXCEPT !.mem = Store(@, 0, Content(b)),
                       !.wr = GetLength(b), !.rd = 0]

Realloc(b, n) ==
    LET cap == b.cap * 2 + n
    IN  [mem |-> Store([i \in 0..(cap - 1) |-> Junk], 0, Content(b)),
         cap |-> cap, wr |-> GetLength(b), rd |-> 0]

Grow(b, n) == IF b.wr + b.cap - b.rd < n THEN Realloc(b, n) ELSE Adjust(b)

(* Mutant: no adjust when the buffer is empty.                             *)
EnsureCapacity_UnlessEmpty(b, n) ==
    IF b.cap - b.wr < n /\ GetLength(b) > 0 THEN Grow(b, n) ELSE b

EnsureCapacity(b, n) == IF b.cap - b.wr < n THEN Grow(b, n) ELSE b

Fits(b, s) == b.wr + Len(s) <= b.cap

Put(b, s) == [b EXCEPT !.mem = Store(@, b.wr, s), !.wr = @ + Len(s)]

(* append(): the memcpy follows whatever ensureCapacity has achieved.      *)
AppendTo(b, s) ==
    LET e == EnsureCapacity(b, Len(s))
    IN  IF Fits(e, s)
        THEN buf' = Put(e, s) /\ overrun' = 0
        ELSE buf' = e /\ overrun' = Len(s)

Defined == overrun = 0

NewBytes(n) == [i \in 1..n |-> fed + i]

-----------------------------------------------------------------------------
(* AppendInt8 ... AppendInt64, AppendString, AppendBuffer, AppendData.     *)
AppendBytes(n) ==
    /\ Defined
    /\ fed + n <= MaxBytes
    /\ AppendTo(buf, NewBytes(n))
    /\ fed' = fed + n

(* readv into the free part of the array and extrabuf behind it; what went *)
(* to extrabuf is appended.  (An error or 0 changes nothing.)              *)
(* Mutant: write_index_ stays where it was.                                *)
ReadFd_NoIndex(n) ==
    LET writable == buf.cap - buf.wr
        data == NewBytes(n)
    IN  /\ Defined
        /\ fed + n <= MaxBytes
        /\ n <= writable + (IF writable < ExtraSize THEN ExtraSize ELSE 0)
        /\ fed' = fed + n
        /\ IF n <= writable
           THEN buf' = Put(buf, data) /\ overrun' = 0
           ELSE AppendTo(buf, SubSeq(data, writable + 1, n))

ReadFd(n) ==
    LET writable == buf.cap - buf.wr
        data == NewBytes(n)
    IN  /\ Defined
        /\ fed + n <= MaxBytes
        /\ n <= writable + (IF writable < ExtraSize THEN ExtraSize ELSE 0)
        /\ fed' = fed + n
        /\ IF n <= writable
           THEN buf' = Put(buf, data) /\ overrun' = 0
           ELSE AppendTo(Put(buf, SubSeq(data, 1, writable)),
                         SubSeq(data, writable + 1, n))

(* ReadInt8 ... ReadInt64, ReadString(length): the index only advances.    *)
Read(n) ==
    /\ Defined
    /\ n <= GetLength(buf)
    /\ buf' = [buf EXCEPT !.rd = @ + n]
    /\ UNCHANGED <<fed, overrun>>

(* Mutant: the last byte taken leaves the indices in place.                *)
Forward_TooFar(n) ==
    /\ Defined
    /\ buf' = [buf EXCEPT !.rd = @ + n]
    /\ UNCHANGED <<fed, overrun>>

Forward(n) ==
    /\ Defined
    /\ buf' = IF n < GetLength(buf)
              THEN [buf EXCEPT !.rd = @ + n]
              ELSE [buf EXCEPT !.rd = 0, !.wr = 0]
    /\ UNCHANGED <<fed, overrun>>

Clear ==
    /\ Defined
    /\ buf' = [buf EXCEPT !.rd = 0, !.wr = 0]
    /\ UNCHANGED <<fed, overrun>>

Next ==
    \/ Clear
    \/ \E n \in 1..MaxBytes : AppendBytes(n) \/ ReadFd(n) \/ Read(n)
    \/ \E n \in 0..MaxBytes : Forward(n)

Spec == Init /\ [][Next]_vars

-----------------------------------------------------------------------------
(* Until a store goes wrong the buffer is a queue of bytes: exactly the    *)
(* bytes given to it come behind the content, in their order; moving,      *)
(* growing, the split over extrabuf and the resets of the indices are      *)
(* invisible.                                                              *)
Bytes == INSTANCE ByteQueue WITH content <- Content(buf),
                                 put <- fed - overrun
QueueOfBytes == Bytes!Spec

(* A store goes wrong only if the content and the new bytes together are   *)
(* longer than the array: moving the content is enough otherwise.          *)
SafeWhileItFits == overrun > 0 => GetLength(buf) + overrun > buf.cap

(* README.md:11 calls the code safe: no append stores behind the array.    *)
NoOverrun == Defined
=============================================================================
