------------------------------ MODULE Threading -----------------------------
(***************************************************************************)
(* Threads and condition variables side by side: a behaviour picks one of  *)
(* them and does only that.                                                *)
(***************************************************************************)
EXTENDS ManagedThread

CONSTANTS
  Kinds,    \* the components to pick from
  Waiters,  \* the threads that share the condition variable
  NoThread  \* the owner of a free mutex

VARIABLES
  active,
  call, done, op, pc, owner, chandle, pred, owed, outcome, cphase, cfaults

condVars ==
  <<call, done, op, pc, owner, chandle, pred, owed, outcome, cphase, cfaults>>
allVars == <<active, vars, condVars>>

Cond ==
  INSTANCE CondVar WITH
    Threads <- Waiters, handle <- chandle, phase <- cphase, faults <- cfaults

ASSUME ThreadingAssumption ==
  Kinds \subseteq {"thread", "cond_var"} /\ Cond!Assumption

AllInit == active \in Kinds /\ Init /\ Cond!Init

ThreadStep == active = "thread" /\ Next /\ UNCHANGED <<active, condVars>>

CondStep == active = "cond_var" /\ Cond!Next /\ UNCHANGED <<active, vars>>

AllNext == ThreadStep \/ CondStep

(* Functors end, and operations under way go on; nobody has to notify, or  *)
(* to unlock the mutex.                                                    *)
AllSpec ==
  /\ AllInit /\ [][AllNext]_allVars
  /\ \A a \in Threads :
       WF_allVars(active = "thread" /\ phase = "alive" /\ (Assign(a) \/ Join(a))
                  /\ UNCHANGED <<active, condVars>>)
  /\ \A w \in Workers :
       WF_allVars(active = "thread" /\ phase = "alive" /\ (\E r \in Returns : Exit(w, r))
                  /\ UNCHANGED <<active, condVars>>)
  /\ \A t \in Waiters :
       WF_allVars(active = "cond_var" /\ Cond!Advance(t) /\ UNCHANGED <<active, vars>>)

(* Condition variables: waits return under the mutex and honestly.         *)
WaitsHonest == Cond!WaitsHonest

(* Condition variables: sleepers have a handle and are not forgotten.      *)
SleepersSafe == Cond!SleepersSafe

(* Nobody waits in vain: joins and destructors return unless threads join  *)
(* in a circle, and notifying never waits for anybody.                     *)
OperationsReturn == JoinsReturn /\ Cond!NotifiersReturn

=============================================================================
