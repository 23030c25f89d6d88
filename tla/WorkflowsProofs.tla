--------------------------- MODULE WorkflowsProofs ---------------------------
(***************************************************************************)
(* The scheduler, the lock file, installation and findings, for any        *)
(* processes and checks, any number of faults and runs and any lifetime of *)
(* stamps: what excludes whom, and what stamps and reports say, is so.     *)
(***************************************************************************)
EXTENDS Workflows, FiniteSetTheorems, TLAPS

-----------------------------------------------------------------------------
(* The scheduler, for every workflow and every pool.                       *)

OKs == {c \in Checks : job[c] = "ok"}

Errors == {c \in Checks : job[c] = "error"}

(* The sets say how far the pool is with a check: nothing is submitted     *)
(* twice, and only what is done is collected.                              *)
Accounted ==
  \A c \in Checks :
    /\ c \in completed => job[c] = "ok"
    /\ c \in failed => job[c] = "error"
    /\ c \in pending => job[c] # "none" /\ c \notin completed \cup failed
    /\ job[c] # "none" => c \in pending \cup completed \cup failed

(* What has been submitted needs completed checks only.                    *)
NeedsMet == \A c \in Checks : job[c] # "none" => Needs(c) \subseteq completed

(* What has succeeded is the least set closed under needs among itself.    *)
Founded ==
  \A S \in SUBSET Checks :
    (\A d \in OKs : Needs(d) \subseteq S => d \in S) => OKs \subseteq S

(* The main thread ends with nothing pending and nothing ready, unless it  *)
(* raises.                                                                 *)
NothingLeft ==
  pc \in {"passed", "failed"} =>
    pending = {} /\ ToSubmit = {} /\ (pc = "passed" <=> failed = {})

IInv == TypeOK /\ Accounted /\ NeedsMet /\ Founded /\ NothingLeft

-----------------------------------------------------------------------------
(* The scheduler starts with the invariant.                                *)
LEMMA InitIInv == Init => IInv
  BY DEF Init, IInv, TypeOK, Accounted, NeedsMet, Founded, NothingLeft, OKs

(* Needs depend on the workflow only.                                      *)
LEMMA NeedsStay == UNCHANGED config => \A c : Needs(c)' = Needs(c)
  BY DEF config, Needs

(* The main thread's steps and the pool's keep the sets accounted for.     *)
LEMMA StepTypeOK == TypeOK /\ [Next]_vars => TypeOK'
  <1> SUFFICES ASSUME TypeOK, [Next]_vars PROVE TypeOK'
    OBVIOUS
  <1> USE DEF TypeOK, config, results
  <1>1. ASSUME NEW c \in Checks, Submit(c) PROVE TypeOK'
    BY <1>1 DEF Submit
  <1>2. ASSUME NEW c \in Checks, KeyError(c) PROVE TypeOK'
    BY <1>2 DEF KeyError
  <1>3. CASE AllSubmitted
    BY <1>3 DEF AllSubmitted, Verdict
  <1>4. ASSUME NEW c \in Checks, Collect(c) PROVE TypeOK'
    BY <1>4 DEF Collect
  <1>5. CASE Raise
    BY <1>5 DEF Raise
  <1>6. ASSUME NEW c \in Checks, Start(c) PROVE TypeOK'
    BY <1>6 DEF Start
  <1>7. ASSUME NEW c \in Checks, Finish(c) PROVE TypeOK'
    BY <1>7 DEF Finish
  <1>8. CASE UNCHANGED vars
    BY <1>8 DEF vars
  <1> QED
    BY <1>1, <1>2, <1>3, <1>4, <1>5, <1>6, <1>7, <1>8 DEF Next, Main

(* What is submitted, started, finished or collected stays accounted for.  *)
LEMMA StepAccounted ==
  TypeOK /\ Accounted /\ [Next]_vars => Accounted'
  <1> SUFFICES ASSUME TypeOK, Accounted, [Next]_vars PROVE Accounted'
    OBVIOUS
  <1> USE DEF TypeOK, Accounted, config, results
  <1>1. ASSUME NEW c \in Checks, Submit(c) PROVE Accounted'
    BY <1>1 DEF Submit, ToSubmit, IsReady
  <1>2. ASSUME NEW c \in Checks, KeyError(c) PROVE Accounted'
    BY <1>2 DEF KeyError
  <1>3. CASE AllSubmitted
    BY <1>3 DEF AllSubmitted
  <1>4. ASSUME NEW c \in Checks, Collect(c) PROVE Accounted'
    BY <1>4 DEF Collect
  <1>5. CASE Raise
    BY <1>5 DEF Raise
  <1>6. ASSUME NEW c \in Checks, Start(c) PROVE Accounted'
    BY <1>6 DEF Start
  <1>7. ASSUME NEW c \in Checks, Finish(c) PROVE Accounted'
    BY <1>7 DEF Finish
  <1>8. CASE UNCHANGED vars
    BY <1>8 DEF vars
  <1> QED
    BY <1>1, <1>2, <1>3, <1>4, <1>5, <1>6, <1>7, <1>8 DEF Next, Main

(* Checks are submitted when their needs are met, and nothing leaves the   *)
(* completed ones.                                                         *)
LEMMA StepNeedsMet ==
  TypeOK /\ NeedsMet /\ [Next]_vars => NeedsMet'
  <1> SUFFICES ASSUME TypeOK, NeedsMet, [Next]_vars PROVE NeedsMet'
    OBVIOUS
  <1>0. \A c : Needs(c)' = Needs(c)
    BY NeedsStay DEF Next, Main, Submit, KeyError, AllSubmitted, Collect, Raise,
                     Start, Finish, vars
  <1> USE <1>0 DEF TypeOK, NeedsMet, config, results
  <1>1. ASSUME NEW c \in Checks, Submit(c) PROVE NeedsMet'
    BY <1>1 DEF Submit, ToSubmit, IsReady
  <1>2. ASSUME NEW c \in Checks, KeyError(c) PROVE NeedsMet'
    BY <1>2 DEF KeyError
  <1>3. CASE AllSubmitted
    BY <1>3 DEF AllSubmitted
  <1>4. ASSUME NEW c \in Checks, Collect(c) PROVE NeedsMet'
    BY <1>4 DEF Collect
  <1>5. CASE Raise
    BY <1>5 DEF Raise
  <1>6. ASSUME NEW c \in Checks, Start(c) PROVE NeedsMet'
    BY <1>6 DEF Start
  <1>7. ASSUME NEW c \in Checks, Finish(c) PROVE NeedsMet'
    BY <1>7 DEF Finish
  <1>8. CASE UNCHANGED vars
    BY <1>8 DEF vars
  <1> QED
    BY <1>1, <1>2, <1>3, <1>4, <1>5, <1>6, <1>7, <1>8 DEF Next, Main

(* Only a check that finishes with success joins the successful ones, and  *)
(* those have all it needs among them.                                     *)
LEMMA StepFounded ==
  TypeOK /\ Accounted /\ NeedsMet /\ Founded /\ [Next]_vars => Founded'
  <1> SUFFICES ASSUME TypeOK, Accounted, NeedsMet, Founded, [Next]_vars
               PROVE Founded'
    OBVIOUS
  <1>0. \A c : Needs(c)' = Needs(c)
    BY NeedsStay DEF Next, Main, Submit, KeyError, AllSubmitted, Collect, Raise,
                     Start, Finish, vars, config
  <1>1. ASSUME NEW c \in Checks, Finish(c), job'[c] = "ok" PROVE Founded'
    <2>1. OKs' = OKs \cup {c}
      BY <1>1 DEF Finish, OKs, TypeOK
    <2>2. Needs(c) \subseteq OKs
      BY <1>1 DEF Finish, NeedsMet, Accounted, OKs, TypeOK
    <2> SUFFICES ASSUME NEW S \in SUBSET Checks,
                        \A d \in OKs \cup {c} : Needs(d) \subseteq S => d \in S
                 PROVE OKs \cup {c} \subseteq S
      BY <1>0, <2>1 DEF Founded
    <2>3. OKs \subseteq S
      BY DEF Founded
    <2> QED
      BY <2>2, <2>3
  <1>2. ASSUME OKs' = OKs PROVE Founded'
    BY <1>0, <1>2 DEF Founded
  <1>3. ASSUME NEW c \in Checks, Finish(c), job'[c] # "ok" PROVE OKs' = OKs
    BY <1>3 DEF Finish, OKs, TypeOK
  <1>4. ASSUME NEW c \in Checks, Submit(c) PROVE OKs' = OKs
    <2>1. job[c] = "none"
      BY <1>4 DEF Submit, ToSubmit, IsReady, Accounted
    <2> QED
      BY <1>4, <2>1 DEF Submit, OKs, TypeOK
  <1>5. ASSUME NEW c \in Checks, Start(c) PROVE OKs' = OKs
    BY <1>5 DEF Start, OKs, TypeOK
  <1>6. ASSUME UNCHANGED job PROVE OKs' = OKs
    BY <1>6 DEF OKs
  <1> QED
    BY <1>1, <1>2, <1>3, <1>4, <1>5, <1>6
       DEF Next, Main, KeyError, AllSubmitted, Collect, Raise, vars

(* The main thread does nothing more once it has ended, and the pool       *)
(* touches nothing that NothingLeft is about.                              *)
LEMMA StepNothingLeft ==
  TypeOK /\ NothingLeft /\ [Next]_vars => NothingLeft'
  <1> SUFFICES ASSUME TypeOK, NothingLeft, [Next]_vars PROVE NothingLeft'
    OBVIOUS
  <1>1. CASE AllSubmitted
    BY <1>1 DEF AllSubmitted, NothingLeft, Verdict, ToSubmit, IsReady, Needs,
                config, results
  <1>2. ASSUME NEW c \in Checks,
               Submit(c) \/ KeyError(c) \/ Collect(c) \/ Raise
        PROVE NothingLeft'
    BY <1>2 DEF Submit, KeyError, Collect, Raise, NothingLeft
  <1>3. CASE UNCHANGED <<config, results, pending, pc>>
    BY <1>3 DEF NothingLeft, ToSubmit, IsReady, Needs, config, results
  <1> QED
    BY <1>1, <1>2, <1>3
       DEF Next, Main, Raise, NothingLeft, Start, Finish, vars

(* The invariant holds throughout.                                         *)
THEOREM Invariant == Spec => []IInv
  <1>1. IInv /\ [Next]_vars => IInv'
    BY StepTypeOK, StepAccounted, StepNeedsMet, StepFounded, StepNothingLeft
       DEF IInv
  <1> QED
    BY InitIInv, <1>1, PTL DEF Spec

(* Every variable keeps its type.                                          *)
THEOREM TypeCorrect == Spec => []TypeOK
  BY Invariant, PTL DEF IInv

-----------------------------------------------------------------------------
(* A check runs at most once, and after all it needs has succeeded.        *)
THEOREM RunsOnce == Spec => RunsOnceAfterNeeds
  <1> DEFINE Right == \A c \in Checks :
        /\ Starts(c) => \A d \in Needs(c) : d \in Checks /\ job[d] = "ok"
        /\ job[c] \in {"ok", "error"} => job'[c] = job[c]
  <1>1. IInv /\ [Next]_vars => [Right]_vars
    <2> SUFFICES ASSUME IInv, Next, NEW c \in Checks
                 PROVE /\ Starts(c) => \A d \in Needs(c) :
                                         d \in Checks /\ job[d] = "ok"
                       /\ job[c] \in {"ok", "error"} => job'[c] = job[c]
      OBVIOUS
    <2>1. job[c] # "none" =>
            \A d \in Needs(c) : d \in Checks /\ job[d] = "ok"
      BY DEF IInv, NeedsMet, Accounted, TypeOK
    <2>2. ASSUME NEW d \in Checks, Submit(d)
          PROVE job[d] = "none" /\ job' = [job EXCEPT ![d] = "queued"]
      BY <2>2 DEF IInv, Submit, ToSubmit, IsReady, Accounted
    <2>3. ASSUME NEW d \in Checks, Start(d)
          PROVE job[d] = "queued" /\ job' = [job EXCEPT ![d] = "running"]
      BY <2>3 DEF Start
    <2>4. ASSUME NEW d \in Checks, Finish(d)
          PROVE /\ job[d] = "running"
                /\ \E r \in {"ok", "error"} : job' = [job EXCEPT ![d] = r]
      BY <2>4 DEF Finish
    <2>5. \/ \E d \in Checks : Submit(d) \/ Start(d) \/ Finish(d)
          \/ UNCHANGED job
      BY DEF Next, Main, KeyError, AllSubmitted, Collect, Raise, vars
    <2> QED
      BY <2>1, <2>2, <2>3, <2>4, <2>5 DEF Starts, IInv, TypeOK
  <1> QED
    BY Invariant, <1>1, PTL DEF Spec, RunsOnceAfterNeeds

(* When the job has a verdict, exactly what could run has succeeded.       *)
THEOREM VerdictIsHonest == Spec => []VerdictHonest
  <1>1. IInv => VerdictHonest
    <2> SUFFICES ASSUME IInv, pc \in {"passed", "failed"}
                 PROVE /\ \A c \in Checks : job[c] \notin {"queued", "running"}
                       /\ Reachable(Errors) = OKs
                       /\ pc = "passed" <=> Errors = {}
      BY DEF VerdictHonest, Errors, OKs
    <2>1. completed = OKs /\ failed = Errors
          /\ \A c \in Checks : job[c] \notin {"queued", "running"}
      BY DEF IInv, NothingLeft, Accounted, TypeOK, OKs, Errors
    <2>2. \A d \in Checks \ Errors : Needs(d) \subseteq OKs => d \in OKs
      BY <2>1 DEF IInv, NothingLeft, ToSubmit, IsReady, OKs, Errors
    <2>3. Reachable(Errors) \subseteq OKs
      BY <2>2 DEF Reachable, OKs
    <2>4. OKs \subseteq Checks \ Errors
      BY DEF OKs, Errors
    <2>5. OKs \subseteq Reachable(Errors)
      BY <2>4 DEF IInv, Founded, Reachable
    <2> QED
      BY <2>1, <2>3, <2>5 DEF IInv, NothingLeft
  <1> QED
    BY Invariant, <1>1, PTL


-----------------------------------------------------------------------------
(* The lock file.                                                          *)

LockPcs ==
  {"start", "cache", "open", "try", "recheck", "stamp", "update", "install", "unlock",
   "remove", "stampTool", "done", "failed"}

Holding == {"recheck", "stamp", "update", "install", "unlock"}
Opened == Holding \cup {"try", "remove"}

LockTypes ==
  /\ ppc \in [Procs -> LockPcs]
  /\ goal \in [Procs -> {"cache", "tool"}]
  /\ exits \subseteq Procs
  /\ stamps \subseteq {"cache", "tool"}
  /\ fresh \in BOOLEAN /\ installed \in BOOLEAN /\ broken \in BOOLEAN /\ torn \in BOOLEAN

(* As long as nothing is torn, what is open is the file at the path, and   *)
(* it is locked by whoever has passed TryLock and not yet unlocked.        *)
FileInv ==
  /\ path \in Lock!Files \cup {None}
  /\ file \in [Procs -> Lock!Files \cup {None}]
  /\ owner \in [Lock!Files -> Procs \cup {None}]
  /\ \A p \in Procs : ppc[p] \in Opened <=> file[p] # None
  /\ \A p \in Procs : file[p] # None => file[p] = path
  /\ \A p \in Procs : ppc[p] \in Holding => owner[file[p]] = p
  /\ \A f \in Lock!Files : owner[f] # None => ppc[owner[f]] \in Holding /\ file[owner[f]] = f

(* What a process is about to do, and the tool it has installed.           *)
GoalInv ==
  /\ \A p \in Procs : ppc[p] \in {"recheck", "stamp", "update"} => goal[p] = "cache"
  /\ \A p \in Procs : ppc[p] = "install" => goal[p] = "tool"
  /\ \A p \in Procs :
       ppc[p] \in {"unlock", "remove"} /\ goal[p] = "tool" /\ p \notin exits => installed
  /\ "tool" \in stamps \/ (\E p \in Procs : ppc[p] \in {"stampTool", "done"}) => installed

(* A check that goes for the tool after the cache has seen the cache's     *)
(* stamp.                                                                  *)
StampInv ==
  /\ \A p \in Procs : ppc[p] = "update" => "cache" \in stamps
  /\ \A p \in Procs :
       ppc[p] \in {"unlock", "remove"} /\ goal[p] = "cache" /\ p \notin exits =>
         "cache" \in stamps
  /\ \A p \in Procs \ Direct :
       ppc[p] \in {"open", "try", "install"} /\ goal[p] = "tool" => "cache" \in stamps

(* While that stamp is ahead of the update, the update is under way.       *)
UpdateInv ==
  /\ "cache" \in stamps /\ ~fresh /\ ~broken => \E q \in Procs : ppc[q] = "update"
  /\ \A p \in Procs \ Direct : ppc[p] = "install" => fresh \/ broken

LockInv ==
  /\ LockTypes /\ GoalInv /\ StampInv
  /\ ~torn => FileInv /\ UpdateInv

LEMMA FilesExist ==
  0 \in Lock!Files /\ Lock!Files \subseteq Nat /\ None \notin Procs /\ None \notin Lock!Files
  <1>1. IsFiniteSet(Procs) /\ None \notin Procs \cup Nat
    BY WorkflowsAssumption DEF Lock!Assumption, Lock!IsFiniteSet, IsFiniteSet
  <1>2. Lock!Cardinality(Procs) = Cardinality(Procs)
    BY DEF Lock!Cardinality, Cardinality, Lock!IsFiniteSet, IsFiniteSet
  <1>3. Lock!Cardinality(Procs) \in Nat
    BY <1>1, <1>2, FS_CardinalityType
  <1> QED
    BY <1>1, <1>3 DEF Lock!Files

LEMMA LockStart == Lock!Init => LockInv
  <1> SUFFICES ASSUME Lock!Init PROVE LockInv
    OBVIOUS
  <1>1. LockTypes
    <2>1. fresh \in BOOLEAN
      BY DEF Lock!Init
    <2> QED
      BY <2>1 DEF Lock!Init, LockTypes, LockPcs
  <1>2. GoalInv /\ StampInv
    BY DEF Lock!Init, GoalInv, StampInv
  <1>3. FileInv
    BY DEF Lock!Init, FileInv, Opened, Holding
  <1>4. UpdateInv
    BY DEF Lock!Init, UpdateInv
  <1> QED
    BY <1>1, <1>2, <1>3, <1>4 DEF LockInv

(* What a step keeps that leaves the files alone and moves nobody into or  *)
(* out of the lock.                                                        *)
LEMMA FileKept ==
  ASSUME LockInv, UNCHANGED <<path, file, owner, torn>>,
         \A q \in Procs : /\ ppc'[q] \in Holding <=> ppc[q] \in Holding
                          /\ ppc'[q] \in Opened <=> ppc[q] \in Opened
  PROVE  ~torn' => FileInv'
  BY DEF LockInv, FileInv

LEMMA OneHolds == ~torn /\ FileInv => \A p, q \in Procs :
                    ppc[p] \in Holding /\ ppc[q] \in Holding => p = q
  BY DEF FileInv, Opened

LEMMA LockInstall ==
  ASSUME LockInv, NEW p \in Procs, Lock!Install(p)
  PROVE  LockInv'
  <1> USE DEF Lock!Install, Lock!Go, Lock!Want, Lock!disk, Lock!work
  <1>1. LockTypes'
    BY DEF LockInv, LockTypes, LockPcs
  <1>2. GoalInv'
    BY DEF LockInv, LockTypes, GoalInv
  <1>3. StampInv'
    BY DEF LockInv, LockTypes, StampInv, GoalInv
  <1>4. ~torn' => FileInv'
    BY FileKept DEF LockInv, LockTypes, Holding, Opened
  <1>5. ~torn' => UpdateInv'
    BY DEF LockInv, LockTypes, UpdateInv, StampInv
  <1> QED
    BY <1>1, <1>2, <1>3, <1>4, <1>5 DEF LockInv

LEMMA LockHasCacheStamp ==
  ASSUME LockInv, NEW p \in Procs, Lock!HasCacheStamp(p)
  PROVE  LockInv'
  <1> USE DEF Lock!HasCacheStamp, Lock!Go, Lock!Want, Lock!disk, Lock!work
  <1>1. LockTypes'
    BY DEF LockInv, LockTypes, LockPcs
  <1>2. GoalInv'
    BY DEF LockInv, LockTypes, GoalInv
  <1>3. StampInv'
    BY DEF LockInv, LockTypes, StampInv, GoalInv
  <1>4. ~torn' => FileInv'
    BY FileKept DEF LockInv, LockTypes, Holding, Opened
  <1>5. ~torn' => UpdateInv'
    BY DEF LockInv, LockTypes, UpdateInv, StampInv
  <1> QED
    BY <1>1, <1>2, <1>3, <1>4, <1>5 DEF LockInv

LEMMA LockHasCacheStampLocked ==
  ASSUME LockInv, NEW p \in Procs, Lock!HasCacheStampLocked(p)
  PROVE  LockInv'
  <1> USE DEF Lock!HasCacheStampLocked, Lock!Go, Lock!Want, Lock!disk, Lock!work
  <1>1. LockTypes'
    BY DEF LockInv, LockTypes, LockPcs
  <1>2. GoalInv'
    BY DEF LockInv, LockTypes, GoalInv
  <1>3. StampInv'
    BY DEF LockInv, LockTypes, StampInv, GoalInv
  <1>4. ~torn' => FileInv'
    BY FileKept DEF LockInv, LockTypes, Holding, Opened
  <1>5. ~torn' => UpdateInv'
    BY DEF LockInv, LockTypes, UpdateInv, StampInv
  <1> QED
    BY <1>1, <1>2, <1>3, <1>4, <1>5 DEF LockInv

LEMMA LockStampCache ==
  ASSUME LockInv, NEW p \in Procs, Lock!StampCache(p)
  PROVE  LockInv'
  <1> USE DEF Lock!StampCache, Lock!Go, Lock!Want, Lock!disk, Lock!work
  <1>1. LockTypes'
    BY DEF LockInv, LockTypes, LockPcs
  <1>2. GoalInv'
    BY DEF LockInv, LockTypes, GoalInv
  <1>3. StampInv'
    BY DEF LockInv, LockTypes, StampInv, GoalInv
  <1>4. ~torn' => FileInv'
    BY FileKept DEF LockInv, LockTypes, Holding, Opened
  <1>5. ~torn' => UpdateInv'
    BY DEF LockInv, LockTypes, UpdateInv, StampInv
  <1> QED
    BY <1>1, <1>2, <1>3, <1>4, <1>5 DEF LockInv

LEMMA LockUpdate ==
  ASSUME LockInv, NEW p \in Procs, Lock!Update(p)
  PROVE  LockInv'
  <1> USE DEF Lock!Update, Lock!Go, Lock!Want, Lock!disk, Lock!work
  <1>1. LockTypes'
    BY DEF LockInv, LockTypes, LockPcs
  <1>2. GoalInv'
    BY DEF LockInv, LockTypes, GoalInv
  <1>3. StampInv'
    BY DEF LockInv, LockTypes, StampInv, GoalInv
  <1>4. ~torn' => FileInv'
    BY FileKept DEF LockInv, LockTypes, Holding, Opened
  <1>5. ~torn' => UpdateInv'
    BY DEF LockInv, LockTypes, UpdateInv, StampInv
  <1> QED
    BY <1>1, <1>2, <1>3, <1>4, <1>5 DEF LockInv

LEMMA LockInstallTool ==
  ASSUME LockInv, NEW p \in Procs, Lock!InstallTool(p)
  PROVE  LockInv'
  <1> USE DEF Lock!InstallTool, Lock!Go, Lock!Want, Lock!disk, Lock!work
  <1>1. LockTypes'
    BY DEF LockInv, LockTypes, LockPcs
  <1>2. GoalInv'
    BY DEF LockInv, LockTypes, GoalInv
  <1>3. StampInv'
    BY DEF LockInv, LockTypes, StampInv, GoalInv
  <1>4. ~torn' => FileInv'
    BY FileKept DEF LockInv, LockTypes, Holding, Opened
  <1>5. ~torn' => UpdateInv'
    BY DEF LockInv, LockTypes, UpdateInv, StampInv
  <1> QED
    BY <1>1, <1>2, <1>3, <1>4, <1>5 DEF LockInv

LEMMA LockCommandFails ==
  ASSUME LockInv, NEW p \in Procs, Lock!CommandFails(p)
  PROVE  LockInv'
  <1> USE DEF Lock!CommandFails, Lock!Go, Lock!Want, Lock!disk, Lock!work, Lock!Fault
  <1>1. LockTypes'
    BY DEF LockInv, LockTypes, LockPcs
  <1>2. GoalInv'
    BY DEF LockInv, LockTypes, GoalInv
  <1>3. StampInv'
    BY DEF LockInv, LockTypes, StampInv, GoalInv
  <1>4. ~torn' => FileInv'
    BY FileKept DEF LockInv, LockTypes, Holding, Opened
  <1>5. ~torn' => UpdateInv'
    BY DEF LockInv, LockTypes, UpdateInv, StampInv
  <1> QED
    BY <1>1, <1>2, <1>3, <1>4, <1>5 DEF LockInv

LEMMA LockTrialFails ==
  ASSUME LockInv, NEW p \in Procs, Lock!TrialFails(p)
  PROVE  LockInv'
  <1> USE DEF Lock!TrialFails, Lock!Go, Lock!Want, Lock!disk, Lock!work, Lock!Fault
  <1>1. LockTypes'
    BY DEF LockInv, LockTypes, LockPcs
  <1>2. GoalInv'
    BY DEF LockInv, LockTypes, GoalInv
  <1>3. StampInv'
    BY DEF LockInv, LockTypes, StampInv, GoalInv
  <1>4. ~torn' => FileInv'
    BY FileKept DEF LockInv, LockTypes, Holding, Opened
  <1>5. ~torn' => UpdateInv'
    BY DEF LockInv, LockTypes, UpdateInv, StampInv
  <1> QED
    BY <1>1, <1>2, <1>3, <1>4, <1>5 DEF LockInv

LEMMA LockStampTool ==
  ASSUME LockInv, NEW p \in Procs, Lock!StampTool(p)
  PROVE  LockInv'
  <1> USE DEF Lock!StampTool, Lock!Go, Lock!Want, Lock!disk, Lock!work
  <1>1. LockTypes'
    BY DEF LockInv, LockTypes, LockPcs
  <1>2. GoalInv'
    BY DEF LockInv, LockTypes, GoalInv
  <1>3. StampInv'
    BY DEF LockInv, LockTypes, StampInv, GoalInv
  <1>4. ~torn' => FileInv'
    BY FileKept DEF LockInv, LockTypes, Holding, Opened
  <1>5. ~torn' => UpdateInv'
    BY DEF LockInv, LockTypes, UpdateInv, StampInv
  <1> QED
    BY <1>1, <1>2, <1>3, <1>4, <1>5 DEF LockInv

LEMMA LockOpen ==
  ASSUME LockInv, NEW p \in Procs, Lock!Open(p)
  PROVE  LockInv'
  <1> USE DEF Lock!Open, Lock!Go, Lock!Want, Lock!disk, Lock!work
  <1>1. LockTypes'
    BY DEF LockInv, LockTypes, LockPcs
  <1>2. GoalInv'
    BY DEF LockInv, LockTypes, GoalInv
  <1>3. StampInv'
    BY DEF LockInv, LockTypes, StampInv, GoalInv
  <1>4. ~torn' => FileInv'
    <2> SUFFICES ASSUME ~torn PROVE FileInv'
      OBVIOUS
    <2> DEFINE unused == {f \in Lock!Files : f # path /\ \A q \in Procs : file[q] # f}
               f == IF path = None THEN CHOOSE g \in unused : TRUE ELSE path
    <2>1. f \in Lock!Files /\ f # None /\ (path # None => f = path)
      <3>1. CASE path = None
        <4>1. 0 \in unused
          BY <3>1, FilesExist DEF LockInv, FileInv
        <4> QED
          BY <3>1, <4>1, FilesExist
      <3>2. CASE path # None
        BY <3>2 DEF LockInv, FileInv
      <3> QED
        BY <3>1, <3>2
    <2>2. path' = f /\ file' = [file EXCEPT ![p] = f] /\ owner' = owner
      OBVIOUS
    <2> HIDE DEF f, unused
    <2>3. \A q \in Procs \ {p} : file'[q] # None => file'[q] = path'
      BY <2>1, <2>2 DEF LockInv, FileInv
    <2> QED
      BY <2>1, <2>2, <2>3, FilesExist DEF LockInv, LockTypes, FileInv, Opened, Holding
  <1>5. ~torn' => UpdateInv'
    BY DEF LockInv, LockTypes, UpdateInv, StampInv
  <1> QED
    BY <1>1, <1>2, <1>3, <1>4, <1>5 DEF LockInv

LEMMA LockTryLock ==
  ASSUME LockInv, NEW p \in Procs, Lock!TryLock(p)
  PROVE  LockInv'
  <1> USE DEF Lock!TryLock, Lock!Go, Lock!Want, Lock!disk, Lock!work, Lock!Locked
  <1>1. LockTypes'
    BY DEF LockInv, LockTypes, LockPcs
  <1>2. GoalInv'
    BY DEF LockInv, LockTypes, GoalInv
  <1>3. StampInv'
    BY DEF LockInv, LockTypes, StampInv, GoalInv
  <1>4. ~torn' => FileInv'
    <2> SUFFICES ASSUME ~torn PROVE FileInv'
      OBVIOUS
    <2>1. file[p] = path /\ path \in Lock!Files /\ owner[path] = None /\ owner' = [owner EXCEPT ![path] = p]
      BY FilesExist DEF LockInv, FileInv, Opened
    <2>2. \A q \in Procs : ppc[q] \notin Holding
      BY <2>1, FilesExist DEF LockInv, FileInv, Opened
    <2>3. ppc'[p] \in Holding /\ \A q \in Procs \ {p} : ppc'[q] = ppc[q]
      BY DEF LockInv, LockTypes, Holding
    <2> QED
      BY <2>1, <2>2, <2>3, FilesExist DEF LockInv, LockTypes, FileInv, Opened
  <1>5. ~torn' => UpdateInv'
    <2> SUFFICES ASSUME ~torn PROVE UpdateInv'
      OBVIOUS
    <2>1. \A q \in Procs : ppc[q] # "update"
      BY FilesExist DEF LockInv, FileInv, Opened, Holding
    <2> QED
      BY <2>1 DEF LockInv, LockTypes, UpdateInv, StampInv
  <1> QED
    BY <1>1, <1>2, <1>3, <1>4, <1>5 DEF LockInv

LEMMA LockTryLockFails ==
  ASSUME LockInv, NEW p \in Procs, Lock!TryLockFails(p)
  PROVE  LockInv'
  <1> USE DEF Lock!TryLockFails, Lock!Go, Lock!Want, Lock!disk, Lock!work, Lock!Fault
  <1>1. LockTypes'
    BY DEF LockInv, LockTypes, LockPcs
  <1>2. GoalInv'
    BY DEF LockInv, LockTypes, GoalInv
  <1>3. StampInv'
    BY DEF LockInv, LockTypes, StampInv, GoalInv
  <1>4. ~torn' => FileInv'
    <2> SUFFICES ASSUME ~torn PROVE FileInv'
      OBVIOUS
    <2>1. ppc'[p] \in {"open", "failed"} /\ \A q \in Procs \ {p} : ppc'[q] = ppc[q]
      BY DEF LockInv, LockTypes
    <2> QED
      BY <2>1 DEF LockInv, LockTypes, FileInv, Opened, Holding
  <1>5. ~torn' => UpdateInv'
    BY DEF LockInv, LockTypes, UpdateInv, StampInv
  <1> QED
    BY <1>1, <1>2, <1>3, <1>4, <1>5 DEF LockInv

LEMMA LockUnlock ==
  ASSUME LockInv, NEW p \in Procs, Lock!Unlock(p)
  PROVE  LockInv'
  <1> USE DEF Lock!Unlock, Lock!Go, Lock!Want, Lock!disk, Lock!work
  <1>1. LockTypes'
    BY DEF LockInv, LockTypes, LockPcs
  <1>2. GoalInv'
    BY DEF LockInv, LockTypes, GoalInv
  <1>3. StampInv'
    BY DEF LockInv, LockTypes, StampInv, GoalInv
  <1>4. ~torn' => FileInv'
    <2> SUFFICES ASSUME ~torn PROVE FileInv'
      OBVIOUS
    <2>1. ppc'[p] = "remove" /\ \A q \in Procs \ {p} : ppc'[q] = ppc[q]
      BY DEF LockInv, LockTypes
    <2>2. \A q \in Procs \ {p} : ppc[q] \notin Holding
      BY OneHolds DEF LockInv, Holding
    <2> QED
      BY <2>1, <2>2, FilesExist DEF LockInv, LockTypes, FileInv, Opened, Holding
  <1>5. ~torn' => UpdateInv'
    BY DEF LockInv, LockTypes, UpdateInv, StampInv
  <1> QED
    BY <1>1, <1>2, <1>3, <1>4, <1>5 DEF LockInv

LEMMA LockRemove ==
  ASSUME LockInv, NEW p \in Procs, Lock!Remove(p)
  PROVE  LockInv'
  <1> USE DEF Lock!Remove, Lock!Go, Lock!Want, Lock!disk, Lock!work
  <1>1. LockTypes'
    BY DEF LockInv, LockTypes, LockPcs
  <1>2. GoalInv'
    BY DEF LockInv, LockTypes, GoalInv
  <1>3. StampInv'
    BY DEF LockInv, LockTypes, StampInv, GoalInv
  <1>4. ~torn' => FileInv'
    <2> SUFFICES ASSUME ~torn' PROVE FileInv'
      OBVIOUS
    <2>0. ~torn
      BY DEF LockInv, LockTypes
    <2>1. ppc'[p] \in {"failed", "open", "stampTool"} /\ \A q \in Procs \ {p} : ppc'[q] = ppc[q]
      BY DEF LockInv, LockTypes
    <2>2. path # None /\ file[p] = path
      BY <2>0 DEF LockInv, FileInv, Opened
    <2>3. \A q \in Procs \ {p} : file[q] = None
      BY <2>0, <2>2 DEF LockInv, LockTypes, FileInv
    <2> QED
      BY <2>0, <2>1, <2>3 DEF LockInv, LockTypes, FileInv, Opened, Holding
  <1>5. ~torn' => UpdateInv'
    BY DEF LockInv, LockTypes, UpdateInv, StampInv
  <1> QED
    BY <1>1, <1>2, <1>3, <1>4, <1>5 DEF LockInv

LEMMA LockKilled ==
  ASSUME LockInv, NEW p \in Procs, Lock!Killed(p)
  PROVE  LockInv'
  <1> USE DEF Lock!Killed, Lock!Go, Lock!Want, Lock!disk, Lock!work, Lock!Fault, Lock!Ended
  <1>1. LockTypes'
    BY DEF LockInv, LockTypes, LockPcs
  <1>2. GoalInv'
    BY DEF LockInv, LockTypes, GoalInv
  <1>3. StampInv'
    BY DEF LockInv, LockTypes, StampInv, GoalInv
  <1>4. ~torn' => FileInv'
    <2> SUFFICES ASSUME ~torn PROVE FileInv'
      OBVIOUS
    <2>1. ppc'[p] = "failed" /\ \A q \in Procs \ {p} : ppc'[q] = ppc[q]
      BY DEF LockInv, LockTypes
    <2> QED
      BY <2>1, FilesExist DEF LockInv, LockTypes, FileInv, Opened, Holding
  <1>5. ~torn' => UpdateInv'
    BY DEF LockInv, LockTypes, UpdateInv, StampInv
  <1> QED
    BY <1>1, <1>2, <1>3, <1>4, <1>5 DEF LockInv

LEMMA LockNextInv == LockInv /\ [Lock!Next]_Lock!vars => LockInv'
  <1> SUFFICES ASSUME LockInv, [Lock!Next]_Lock!vars PROVE LockInv'
    OBVIOUS
  <1>1. ASSUME NEW p \in Procs, Lock!Advance(p) PROVE LockInv'
    BY <1>1, LockInstall, LockHasCacheStamp, LockHasCacheStampLocked, LockStampCache,
       LockUpdate, LockInstallTool, LockCommandFails, LockTrialFails, LockStampTool,
       LockOpen, LockTryLock, LockTryLockFails, LockUnlock, LockRemove DEF Lock!Advance
  <1>2. CASE UNCHANGED Lock!vars
    BY <1>2 DEF Lock!vars, Lock!disk, Lock!work, LockInv, LockTypes, GoalInv, StampInv,
                FileInv, UpdateInv
  <1> QED
    BY <1>1, <1>2, LockKilled DEF Lock!Next, Lock!Finished

LEMMA LockInvariant == AllSpec => []LockInv
  <1>1. AllInit => LockInv
    BY LockStart DEF AllInit
  <1>2. LockInv /\ [AllNext]_allVars => LockInv'
    <2>1. [AllNext]_allVars => [Lock!Next]_Lock!vars
      BY DEF AllNext, PushStep, LockStep, FindingStep, otherPush, allVars, lockVars,
             Lock!vars, Lock!disk, Lock!work
    <2> QED
      BY <2>1, LockNextInv
  <1> QED
    BY <1>1, <1>2, PTL DEF AllSpec

(* However many processes open, lock, unlock and remove the lock file, and *)
(* whichever are killed or time out on the way, one at a time has the lock *)
(* until a release removes a file that another has opened                  *)
(* (lockfile.py:33-90).                                                    *)
THEOREM LockExcludes == AllSpec => []OneHolderUnlessTorn
  <1>1. LockInv => OneHolderUnlessTorn
    BY OneHolds DEF LockInv, OneHolderUnlessTorn, Lock!OneHolderUnlessTorn, Lock!OneHolder,
                    Lock!Holders, Holding
  <1> QED
    BY <1>1, LockInvariant, PTL

(* A tool has its stamp, and a check succeeds, only if it is installed;    *)
(* and unless an update failed or the lock was torn, a check that asks for *)
(* a cache update never installs from a cache whose update is still to     *)
(* come, although the stamp it goes by is made before that update          *)
(* (exec.py:130-152, cmake.py:15-35).                                      *)
THEOREM StampsAreHonest == AllSpec => []InstallsHonest
  <1>1. LockInv => InstallsHonest
    BY DEF LockInv, LockTypes, GoalInv, UpdateInv, InstallsHonest, Lock!InstallsHonest,
           Lock!InstallsFromUpdatedCache
  <1> QED
    BY <1>1, LockInvariant, PTL

-----------------------------------------------------------------------------
(* The findings.                                                           *)

(* A stamp is never later than the last run without findings, and after    *)
(* one run it is that run's.                                               *)
FindingInv ==
  /\ Finding!TypeOK
  /\ \A c \in Reports :
       /\ stamp[c] # None => clean[c] # None /\ stamp[c] <= clean[c]
       /\ clean[c] # None => clean[c] <= now
       /\ runs[c] = 0 => fpc[c] = "idle" /\ log[c] = "none"
       /\ runs[c] <= 1 =>
            /\ stamp[c] = clean[c]
            /\ runs[c] = 0 \/ fpc[c] # "idle" => stamp[c] = None
            /\ log[c] = "found" => stamp[c] = None /\ fpc[c] # "stamp"

LEMMA FindingStart == Finding!Init => FindingInv
  BY WorkflowsAssumption DEF Finding!Init, FindingInv, Finding!TypeOK, Finding!Assumption

LEMMA FindingTypes ==
  ASSUME FindingInv, [Finding!Next]_Finding!vars
  PROVE  Finding!TypeOK'
  <1> USE WorkflowsAssumption
      DEF FindingInv, Finding!TypeOK, Finding!Assumption, Finding!Go, Finding!Write
  <1>1. ASSUME NEW c \in Reports, Finding!Start(c) PROVE Finding!TypeOK'
    BY <1>1 DEF Finding!Start
  <1>2. ASSUME NEW c \in Reports, Finding!ToolJudged(c) PROVE Finding!TypeOK'
    BY <1>2 DEF Finding!ToolJudged
  <1>3. ASSUME NEW c \in Reports, Finding!Judge(c) PROVE Finding!TypeOK'
    BY <1>3 DEF Finding!Judge
  <1>4. ASSUME NEW c \in Reports, Finding!ToolOrAbort(c) PROVE Finding!TypeOK'
    BY <1>4 DEF Finding!ToolOrAbort
  <1>5. ASSUME NEW c \in Reports, Finding!Format(c) PROVE Finding!TypeOK'
    BY <1>5 DEF Finding!Format
  <1>6. ASSUME NEW c \in Reports, Finding!MarkFindingOk(c) PROVE Finding!TypeOK'
    BY <1>6 DEF Finding!MarkFindingOk
  <1>7. ASSUME NEW c \in Reports, Finding!Killed(c) PROVE Finding!TypeOK'
    BY <1>7 DEF Finding!Killed
  <1>8. CASE Finding!Time
    BY <1>8 DEF Finding!Time
  <1>9. CASE UNCHANGED Finding!vars
    BY <1>9 DEF Finding!vars
  <1> QED
    BY <1>1, <1>2, <1>3, <1>4, <1>5, <1>6, <1>7, <1>8, <1>9 DEF Finding!Next, Finding!Over

LEMMA FindingNextInv == FindingInv /\ [Finding!Next]_Finding!vars => FindingInv'
  <1> SUFFICES ASSUME FindingInv, [Finding!Next]_Finding!vars PROVE FindingInv'
    OBVIOUS
  <1>0. Finding!TypeOK'
    BY FindingTypes
  <1> USE <1>0, WorkflowsAssumption
      DEF FindingInv, Finding!TypeOK, Finding!Assumption, Finding!Go, Finding!Write
  <1>1. ASSUME NEW c \in Reports, Finding!Start(c) PROVE FindingInv'
    BY <1>1 DEF Finding!Start
  <1>2. ASSUME NEW c \in Reports, Finding!ToolJudged(c) PROVE FindingInv'
    BY <1>2 DEF Finding!ToolJudged
  <1>3. ASSUME NEW c \in Reports, Finding!Judge(c) PROVE FindingInv'
    BY <1>3 DEF Finding!Judge
  <1>4. ASSUME NEW c \in Reports, Finding!ToolOrAbort(c) PROVE FindingInv'
    BY <1>4 DEF Finding!ToolOrAbort
  <1>5. ASSUME NEW c \in Reports, Finding!Format(c) PROVE FindingInv'
    BY <1>5 DEF Finding!Format
  <1>6. ASSUME NEW c \in Reports, Finding!MarkFindingOk(c) PROVE FindingInv'
    <2>1. /\ fpc[c] = "stamp" /\ fpc' = [fpc EXCEPT ![c] = "idle"]
          /\ (stamp'[c] = stamp[c] /\ stamp[c] # None) \/ stamp'[c] = now
          /\ runs[c] <= 1 => stamp'[c] = now
          /\ clean'[c] = now /\ now \in Nat /\ now # None
          /\ UNCHANGED <<now, log, runs>>
      BY <1>6 DEF Finding!MarkFindingOk, Finding!InDate
    <2>2. \A d \in Reports \ {c} :
            fpc'[d] = fpc[d] /\ stamp'[d] = stamp[d] /\ clean'[d] = clean[d]
      BY <1>6 DEF Finding!MarkFindingOk
    <2>3. stamp'[c] \in Nat /\ stamp'[c] <= now
      BY <2>1
    <2>4. runs[c] # 0 /\ (runs[c] <= 1 => log[c] # "found")
      BY <2>1
    <2>5. fpc'[c] = "idle"
      BY <2>1
    <2> QED
      BY <2>1, <2>2, <2>3, <2>4, <2>5
  <1>7. ASSUME NEW c \in Reports, Finding!Killed(c) PROVE FindingInv'
    BY <1>7 DEF Finding!Killed
  <1>8. CASE Finding!Time
    BY <1>8 DEF Finding!Time
  <1>9. CASE UNCHANGED Finding!vars
    BY <1>9 DEF Finding!vars
  <1> QED
    BY <1>1, <1>2, <1>3, <1>4, <1>5, <1>6, <1>7, <1>8, <1>9 DEF Finding!Next, Finding!Over

LEMMA FindingInvariant == AllSpec => []FindingInv
  <1>1. AllInit => FindingInv
    BY FindingStart DEF AllInit
  <1>2. FindingInv /\ [AllNext]_allVars => FindingInv'
    <2>1. [AllNext]_allVars => [Finding!Next]_Finding!vars
      BY DEF AllNext, PushStep, LockStep, FindingStep, otherPush, otherLock, allVars,
             findingVars, Finding!vars
    <2> QED
      BY <2>1, FindingNextInv
  <1> QED
    BY <1>1, <1>2, PTL DEF AllSpec

(* Between runs, a file that the report calls ok belongs to a check that   *)
(* ran without findings in a stamp's lifetime; and until a check has been  *)
(* run twice, the report passes exactly if every check that left a file    *)
(* has done so (exec.py:37-69, all_findings.py:50-83).                     *)
THEOREM ReportIsHonest == AllSpec => []FindingsHonest
  <1>1. FindingInv => FindingsHonest
    <2> SUFFICES ASSUME FindingInv, Finding!Quiet PROVE FindingsHonest
      BY DEF FindingsHonest, Finding!FindingsHonest
    <2>1. ASSUME NEW c \in Reports, Finding!IsFindingOk(c) PROVE Finding!InDate(clean[c])
      BY <2>1, WorkflowsAssumption
         DEF FindingInv, Finding!TypeOK, Finding!Assumption, Finding!IsFindingOk, Finding!InDate
    <2>2. ASSUME NEW c \in Reports, runs[c] <= 1
          PROVE  /\ Finding!IsFindingOk(c) <=> Finding!InDate(clean[c])
                 /\ log[c] = "found" => ~Finding!IsFindingOk(c)
      BY <2>2 DEF FindingInv, Finding!IsFindingOk, Finding!InDate
    <2> QED
      BY <2>1, <2>2 DEF FindingsHonest, Finding!FindingsHonest, Finding!ReportPasses
  <1> QED
    BY <1>1, FindingInvariant, PTL

-----------------------------------------------------------------------------
(* The scheduler, the lock and the findings side by side, as the run       *)
(* checks them.                                                            *)

LEMMA PushAlone == AllSpec => Spec
  <1>1. AllInit => Init
    <2> SUFFICES ASSUME AllInit, active # "push" PROVE Init
      BY DEF AllInit
    <2>1. Cardinality({}) <= MaxNeeds
      BY FS_EmptySet, AllPushAssumption
    <2> QED
      BY <2>1 DEF AllInit, Init
  <1>2. [AllNext]_allVars => [Next]_vars
    BY DEF AllNext, PushStep, LockStep, FindingStep, otherLock, allVars
  <1> QED
    BY <1>1, <1>2, PTL DEF AllSpec, Spec

(* All that the run checks of the workflows but that they end, for any     *)
(* workflow, size of the pool, processes, checks and runs: checks run once *)
(* and after their needs with an honest verdict (all_push.py), the lock    *)
(* excludes (lockfile.py), and stamps and the report are right (exec.py,   *)
(* all_findings.py).                                                       *)
THEOREM SideBySide ==
  AllSpec => /\ RunsOnceAfterNeeds /\ []VerdictHonest
             /\ []OneHolderUnlessTorn /\ []InstallsHonest /\ []FindingsHonest
  BY PushAlone, RunsOnce, VerdictIsHonest, LockExcludes, StampsAreHonest, ReportIsHonest

=============================================================================
