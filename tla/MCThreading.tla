----------------------------- MODULE MCThreading ----------------------------
(* Threading for TLC: three threads that share a condition variable, or    *)
(* two threads that use two variables along with the main thread.          *)
(* Everything may have ended, or threads may wait for each other, so       *)
(* deadlock is not an error.                                               *)
EXTENDS Threading, TLC

=============================================================================
