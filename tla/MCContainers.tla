---------------------------- MODULE MCContainers ----------------------------
(* The containers for TLC.  Calls to the atomic set are bounded, so a      *)
(* behaviour may end.                                                      *)
EXTENDS Containers, TLC

=============================================================================
