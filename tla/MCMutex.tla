------------------------------- MODULE MCMutex ------------------------------
(* Mutex for TLC: a reentrant mutex, three threads, each at most twice     *)
(* its owner, and one failing handle operation.                            *)
EXTENDS Mutex, TLC

=============================================================================
