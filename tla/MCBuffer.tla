------------------------------ MODULE MCBuffer ------------------------------
(***************************************************************************)
(* Small instances of Buffer for TLC; the array is smaller than extrabuf,  *)
(* as in the code.                                                         *)
(***************************************************************************)
EXTENDS Buffer
=============================================================================
