------------------------------ MODULE Workflows -----------------------------
(***************************************************************************)
(* The scheduler of checks, the installation of tools by checks and what   *)
(* checks find, side by side: a behaviour picks one and does only that.    *)
(***************************************************************************)
EXTENDS AllPush

CONSTANTS
  Kinds,  \* what to pick from
  Procs, Direct, None, MaxFaults,
  Reports, Life, MaxTime, MaxRuns

VARIABLES
  active,
  path, file, owner, ppc, goal, exits, stamps, fresh, installed, broken, torn, faults,
  now, style, fpc, log, stamp, clean, runs

lockVars ==
  <<path, file, owner, ppc, goal, exits, stamps, fresh, installed, broken, torn, faults>>
findingVars == <<now, style, fpc, log, stamp, clean, runs>>
allVars == <<active, vars, lockVars, findingVars>>
otherPush == <<active, lockVars, findingVars>>
otherLock == <<active, vars, findingVars>>

Lock == INSTANCE PkgmgrLock WITH pc <- ppc

Finding == INSTANCE Findings WITH Checks <- Reports, pc <- fpc, Never <- None

ASSUME WorkflowsAssumption ==
  Kinds \subseteq {"push", "lock", "findings"} /\ Lock!Assumption /\ Finding!Assumption

(* What is not picked rests in one of its initial states.                  *)
AllInit ==
  /\ active \in Kinds
  /\ Lock!Init /\ (active # "lock" => stamps = {})
  /\ Finding!Init /\ (active # "findings" => \A f \in Reports : style[f] = "judges")
  /\ IF active = "push" THEN Init
     ELSE /\ needs = {} /\ defined = Checks /\ completed = {} /\ failed = {}
          /\ pending = {} /\ job = [c \in Checks |-> "none"] /\ pc = "submit"

PushStep == active = "push" /\ Next /\ UNCHANGED otherPush

LockStep == active = "lock" /\ Lock!Next /\ UNCHANGED otherLock

FindingStep ==
  active = "findings" /\ Finding!Next /\ UNCHANGED <<active, vars, lockVars>>

AllNext == PushStep \/ LockStep \/ FindingStep

(* The main thread and the pool's threads run, and commands end.  Polling  *)
(* a lock is not fair to anybody.                                          *)
AllSpec ==
  /\ AllInit /\ [][AllNext]_allVars
  /\ WF_allVars(active = "push" /\ Main /\ UNCHANGED otherPush)
  /\ \A c \in Checks :
       /\ WF_allVars(active = "push" /\ Start(c) /\ UNCHANGED otherPush)
       /\ WF_allVars(active = "push" /\ Finish(c) /\ UNCHANGED otherPush)
  /\ \A p \in Procs :
       WF_allVars(active = "lock" /\ Lock!Advance(p) /\ UNCHANGED otherLock)

(* The lock file: one process at a time has it (lockfile.py:48).           *)
OneHolder == Lock!OneHolder

(* The lock file: it excludes as long as no release removes an open file.  *)
OneHolderUnlessTorn == Lock!OneHolderUnlessTorn

(* Tools: what stamps and succeeding checks say is so.                     *)
InstallsHonest == Lock!InstallsHonest

(* Findings: the report is right about checks that were run once.          *)
FindingsHonest == Finding!FindingsHonest

(* The job ends, whatever its workflow looks like, and so does every check *)
(* that installs a tool, whatever becomes of the others.                   *)
WorkflowsEnd ==
  /\ active = "push" => JobEnds
  /\ active = "lock" => Lock!ChecksEnd

=============================================================================
