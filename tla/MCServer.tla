------------------------------ MODULE MCServer ------------------------------
(***************************************************************************)
(* Small instances of Server for TLC.  The clock starts shortly before the *)
(* full minute.                                                            *)
(***************************************************************************)
EXTENDS Server, TLC

CONSTANTS w1, w2

TwoWorkers == <<w1, w2>>
=============================================================================
