----------------------------- MODULE MCSemaphore ----------------------------
(* Semaphore for TLC: one permit at first, at most two; out, and so        *)
(* manual and guards, stay bounded because the counter is.                 *)
EXTENDS Semaphore, TLC

=============================================================================
