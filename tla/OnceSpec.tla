------------------------------ MODULE OnceSpec ------------------------------
(***************************************************************************)
(* What sys::once promises its callers (src/sys.Threading/Once.h, the      *)
(* comments at 19-22, 58, 61 and 68-69), with no atomics, no spinning and  *)
(* no memory orders: functions run one at a time, a function that fails    *)
(* leaves the once open, nothing runs after one has succeeded, and a call  *)
(* that does not report a failure returns only once one has.               *)
(***************************************************************************)
CONSTANT Threads

VARIABLES
  call,   \* call[t]: "out" of every call, "in" one, or running a function
  done    \* TRUE once a function has succeeded

vars == <<call, done>>

TypeOK ==
  /\ call \in [Threads -> {"out", "in", "run"}]
  /\ done \in BOOLEAN

Init ==
  /\ call = [t \in Threads |-> "out"]
  /\ done = FALSE

Enter(t) ==
  /\ call[t] = "out"
  /\ call' = [call EXCEPT ![t] = "in"]
  /\ UNCHANGED done

Begin(t) ==
  /\ call[t] = "in"
  /\ ~done
  /\ \A u \in Threads : call[u] # "run"
  /\ call' = [call EXCEPT ![t] = "run"]
  /\ UNCHANGED done

Fail(t) ==
  /\ call[t] = "run"
  /\ call' = [call EXCEPT ![t] = "out"]
  /\ UNCHANGED done

Succeed(t) ==
  /\ call[t] = "run"
  /\ call' = [call EXCEPT ![t] = "in"]
  /\ done' = TRUE

Return(t) ==
  /\ call[t] = "in"
  /\ done
  /\ call' = [call EXCEPT ![t] = "out"]
  /\ UNCHANGED done

Next == \E t \in Threads : Enter(t) \/ Begin(t) \/ Fail(t) \/ Succeed(t) \/ Return(t)

Spec == Init /\ [][Next]_vars /\ \A t \in Threads : WF_vars(Return(t))

=============================================================================
