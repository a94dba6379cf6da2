---------------------------- MODULE MCEventLoop ----------------------------
(***************************************************************************)
(* Small instances of EventLoop for TLC: two calling threads, the loop and *)
(* the stopping thread.                                                    *)
(***************************************************************************)
EXTENDS EventLoop
=============================================================================
