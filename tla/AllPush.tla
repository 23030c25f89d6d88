------------------------------ MODULE AllPush ------------------------------
(***************************************************************************)
(* The scheduler of workflows/all_push.py: the main thread submits the     *)
(* checks of a workflow whose needs are completed to a pool of threads,    *)
(* each of which runs one check as a process, and collects the results one *)
(* at a time.  The workflow, read from checks.json, is any: needs may be   *)
(* misspelt or cyclic and a check may have no definition.                  *)
(***************************************************************************)
EXTENDS Naturals, FiniteSets

CONSTANTS
  Checks,    \* the checks of the workflow
  Unknown,   \* names in a list of needs that are no checks of the workflow
  Slots,     \* how many checks the pool runs at once
  MaxNeeds   \* bound: needs in the whole workflow

ASSUME AllPushAssumption ==
  /\ IsFiniteSet(Checks) /\ Checks \cap Unknown = {}
  /\ Slots \in Nat \ {0} /\ MaxNeeds \in Nat

VARIABLES
  needs,     \* the pairs of a check and what it needs
  defined,   \* the checks that have a definition
  completed,
  failed,
  pending,   \* the checks whose futures are to be collected
  job,       \* job[c]: how far the pool is with c
  pc         \* what the main thread does

config == <<needs, defined>>
results == <<completed, failed>>
vars == <<config, results, pending, job, pc>>

TypeOK ==
  /\ needs \subseteq Checks \X (Checks \cup Unknown)
  /\ defined \subseteq Checks
  /\ completed \subseteq Checks
  /\ failed \subseteq Checks
  /\ pending \subseteq Checks
  /\ job \in [Checks -> {"none", "queued", "running", "ok", "error"}]
  /\ pc \in {"submit", "wait", "abort", "passed", "failed", "raised"}

Init ==
  /\ needs \in {n \in SUBSET (Checks \X (Checks \cup Unknown)) :
                  Cardinality(n) <= MaxNeeds}
  /\ defined \in {Checks} \cup {Checks \ {c} : c \in Checks}
  /\ completed = {}
  /\ failed = {}
  /\ pending = {}
  /\ job = [c \in Checks |-> "none"]
  /\ pc = "submit"

Needs(c) == {n[2] : n \in {m \in needs : m[1] = c}}

-----------------------------------------------------------------------------
(* The main thread.                                                        *)

IsReadyAgain(c) == Needs(c) \subseteq completed

IsReadyEarly(c) == c \notin completed \cup failed /\ Needs(c) \cap failed = {}

(* is_ready.                                                               *)
IsReady(c) ==
  /\ c \notin completed \cup failed
  /\ Needs(c) \subseteq completed
  /\ Needs(c) \cap failed = {}

ToSubmit == {c \in Checks \ pending : IsReady(c)}

Submit(c) ==
  /\ pc = "submit"
  /\ c \in ToSubmit \cap defined
  /\ pending' = pending \cup {c}
  /\ job' = [job EXCEPT ![c] = "queued"]
  /\ UNCHANGED <<config, results, pc>>

(* checks[check_name] raises a KeyError, which leaves the pool to finish   *)
(* what it was given.                                                      *)
KeyError(c) ==
  /\ pc = "submit"
  /\ c \in ToSubmit \ defined
  /\ pc' = "abort"
  /\ UNCHANGED <<config, results, pending, job>>

(* Wait for the checks that are pending, or end if there are none.         *)
Verdict == IF failed = {} THEN "passed" ELSE "failed"

AllSubmitted ==
  /\ pc = "submit"
  /\ ToSubmit = {}
  /\ pc' = IF pending = {} THEN Verdict ELSE "wait"
  /\ UNCHANGED <<config, results, pending, job>>

CollectAll(c) ==
  /\ pc = "wait"
  /\ c \in pending
  /\ job[c] \in {"ok", "error"}
  /\ pending' = {}
  /\ completed' = IF job[c] = "ok" THEN completed \cup {c} ELSE completed
  /\ failed' = IF job[c] = "error" THEN failed \cup {c} ELSE failed
  /\ pc' = "submit"
  /\ UNCHANGED <<config, job>>

(* Take one future that is done, whichever as_completed yields first.  The *)
(* loop is over once every check is completed or failed.                   *)
Collect(c) ==
  /\ pc = "wait"
  /\ c \in pending
  /\ job[c] \in {"ok", "error"}
  /\ pending' = pending \ {c}
  /\ completed' = IF job[c] = "ok" THEN completed \cup {c} ELSE completed
  /\ failed' = IF job[c] = "error" THEN failed \cup {c} ELSE failed
  /\ pc' = "submit"
  /\ UNCHANGED <<config, job>>

(* The pool is shut down on the way out of its block.                      *)
Raise ==
  /\ pc = "abort"
  /\ \A c \in pending : job[c] \in {"ok", "error"}
  /\ pc' = "raised"
  /\ UNCHANGED <<config, results, pending, job>>

-----------------------------------------------------------------------------
(* The pool.                                                               *)

Start(c) ==
  /\ job[c] = "queued"
  /\ Cardinality({d \in Checks : job[d] = "running"}) < Slots
  /\ job' = [job EXCEPT ![c] = "running"]
  /\ UNCHANGED <<config, results, pending, pc>>

(* The check's process ends; run_check raises if it failed.                *)
Finish(c) ==
  /\ job[c] = "running"
  /\ \E result \in {"ok", "error"} : job' = [job EXCEPT ![c] = result]
  /\ UNCHANGED <<config, results, pending, pc>>

Ended == pc \in {"passed", "failed", "raised"}

Main == AllSubmitted \/ Raise \/ \E c \in Checks :
          Submit(c) \/ KeyError(c) \/ Collect(c)

Next == Main \/ (\E c \in Checks : Start(c) \/ Finish(c)) \/ (Ended /\ UNCHANGED vars)

Spec == Init /\ [][Next]_vars

(* The main thread and the pool's threads run, and processes end.          *)
FairSpec ==
  /\ Spec
  /\ WF_vars(Main)
  /\ \A c \in Checks : WF_vars(Start(c)) /\ WF_vars(Finish(c))

-----------------------------------------------------------------------------
(* Properties.                                                             *)

(* A check runs at most once, and when it starts everything it needs has   *)
(* run and succeeded.                                                      *)
Starts(c) == job[c] # "running" /\ job'[c] = "running"

RunsOnceAfterNeeds ==
  [][\A c \in Checks :
       /\ Starts(c) => \A d \in Needs(c) : d \in Checks /\ job[d] = "ok"
       /\ job[c] \in {"ok", "error"} => job'[c] = job[c]]_vars

(* The checks that can run when those in bad fail: the least set with      *)
(* every check that needs only members of it.                              *)
Reachable(bad) ==
  {c \in Checks : \A S \in SUBSET Checks :
     (\A d \in Checks \ bad : Needs(d) \subseteq S => d \in S) => c \in S}

(* Only what needs a failed, an unknown or, in a circle, itself is skipped *)
(* by the end, nothing runs any more, and the job passes only if no check  *)
(* that ran has failed.                                                    *)
VerdictHonest ==
  pc \in {"passed", "failed"} =>
    LET errors == {c \in Checks : job[c] = "error"}
    IN /\ \A c \in Checks : job[c] \notin {"queued", "running"}
       /\ Reachable(errors) = {c \in Checks : job[c] = "ok"}
       /\ pc = "passed" <=> errors = {}

(* The job ends, whatever its workflow looks like.                         *)
JobEnds == <>Ended

=============================================================================
