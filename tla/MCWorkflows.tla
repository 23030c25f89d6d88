---------------------------- MODULE MCWorkflows -----------------------------
(* Workflows for TLC: three checks with up to three needs, one of which    *)
(* may be unknown, in a pool of two; or three processes that install a     *)
(* tool, one of them without asking for a cache update, and two failures   *)
(* of any kind; or two checks with findings, each run twice while stamps   *)
(* expire.                                                                 *)
EXTENDS Workflows, TLC

=============================================================================
