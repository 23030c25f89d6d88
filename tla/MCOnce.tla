------------------------------- MODULE MCOnce -------------------------------
(* Once for TLC: three callers, two failing functions; no symmetry, so     *)
(* that liveness is checked too.                                           *)
EXTENDS Once, TLC

=============================================================================
