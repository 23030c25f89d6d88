----------------------------- MODULE PkgmgrLock -----------------------------
(***************************************************************************)
(* Workflow checks that install a tool at the same time: the lock file of  *)
(* workflows/lib/lockfile.py, by its system calls on POSIX, and the stamps *)
(* of workflows/lib/exec.py that keep the package cache from being updated *)
(* and the tool from being installed more often than needed.  Stamps do    *)
(* not expire while the checks run.                                        *)
(***************************************************************************)
EXTENDS Integers, FiniteSets

CONSTANTS
  Procs,     \* the processes of the checks
  Direct,    \* those that install without a cache update (cppconf.py:139)
  None,
  MaxFaults  \* bound: commands that fail, time-outs and killed processes

Assumption ==
  /\ IsFiniteSet(Procs) /\ Direct \subseteq Procs
  /\ None \notin Procs \cup Nat /\ MaxFaults \in Nat

(* As many files as may be open, and the one at the path.                  *)
Files == 0 .. Cardinality(Procs)

VARIABLES
  path,      \* the file the lock's name leads to, or None
  file,      \* file[p]: the file p has open, or None
  owner,     \* owner[f]: the process with the lock on f, or None
  pc,        \* pc[p]: what p does next
  goal,      \* goal[p]: what p takes the lock for, "cache" or "tool"
  exits,     \* the processes that exit with failure once they have released
  stamps,    \* the stamps that exist: "cache", "tool"
  fresh,     \* the package cache has been updated
  installed, \* the tool has been installed
  broken,    \* a cache update failed or was killed after its stamp
  torn,      \* a release removed a file another process had open
  faults

disk == <<path, file, owner, torn>>
work == <<stamps, fresh, installed, broken>>
vars == <<disk, work, pc, goal, exits, faults>>

Init ==
  /\ path = None
  /\ file = [p \in Procs |-> None]
  /\ owner = [f \in Files |-> None]
  /\ pc = [p \in Procs |-> "start"]
  /\ goal = [p \in Procs |-> "tool"]
  /\ exits = {}
  /\ stamps \in SUBSET {"cache"}
  /\ fresh = ("cache" \in stamps)
  /\ installed = FALSE
  /\ broken = FALSE
  /\ torn = FALSE
  /\ faults = 0

Fault == faults < MaxFaults /\ faults' = faults + 1

Go(p, where) == pc' = [pc EXCEPT ![p] = where]

Want(p, what) == Go(p, "open") /\ goal' = [goal EXCEPT ![p] = what]

-----------------------------------------------------------------------------
(* install of a tool: nothing to do if it has its stamp.                   *)
Install(p) ==
  /\ pc[p] = "start"
  /\ IF "tool" \in stamps THEN Go(p, "done") /\ UNCHANGED goal
     ELSE IF p \in Direct THEN Want(p, "tool")
     ELSE Go(p, "cache") /\ UNCHANGED goal
  /\ UNCHANGED <<disk, work, exits, faults>>

(* exec_pkgmgr_cache_update looks at the stamp before it takes the lock,   *)
(* and again under it.                                                     *)
HasCacheStamp(p) ==
  /\ pc[p] = "cache"
  /\ Want(p, IF "cache" \in stamps THEN "tool" ELSE "cache")
  /\ UNCHANGED <<disk, work, exits, faults>>

HasCacheStampLocked(p) ==
  /\ pc[p] = "recheck"
  /\ Go(p, IF "cache" \in stamps THEN "unlock" ELSE "stamp")
  /\ UNCHANGED <<disk, work, goal, exits, faults>>

(* The stamp comes before the update it stands for.                        *)
StampCache(p) ==
  /\ pc[p] = "stamp"
  /\ stamps' = stamps \cup {"cache"}
  /\ Go(p, "update")
  /\ UNCHANGED <<disk, fresh, installed, broken, goal, exits, faults>>

UpdateInBackground(p) ==
  /\ pc[p] = "update"
  /\ Go(p, "unlock")
  /\ UNCHANGED <<disk, work, goal, exits, faults>>

Update(p) ==
  /\ pc[p] = "update"
  /\ fresh' = TRUE
  /\ Go(p, "unlock")
  /\ UNCHANGED <<disk, stamps, installed, broken, goal, exits, faults>>

InstallTool(p) ==
  /\ pc[p] = "install"
  /\ installed' = TRUE
  /\ Go(p, "unlock")
  /\ UNCHANGED <<disk, stamps, fresh, broken, goal, exits, faults>>

CommandFailsUnnoticed(p) ==
  /\ pc[p] \in {"update", "install"}
  /\ Fault
  /\ broken' = (broken \/ pc[p] = "update")
  /\ Go(p, "unlock")
  /\ UNCHANGED <<disk, stamps, fresh, installed, goal, exits>>

(* exec_or_fail: lcheck_failed releases every lock and exits.              *)
CommandFails(p) ==
  /\ pc[p] \in {"update", "install"}
  /\ Fault
  /\ broken' = (broken \/ pc[p] = "update")
  /\ exits' = exits \cup {p}
  /\ Go(p, "unlock")
  /\ UNCHANGED <<disk, stamps, fresh, installed, goal>>

(* The installed tool is tried before it gets its stamp.                   *)
TrialFails(p) ==
  /\ pc[p] = "stampTool"
  /\ Fault
  /\ Go(p, "failed")
  /\ UNCHANGED <<disk, work, goal, exits>>

StampTool(p) ==
  /\ pc[p] = "stampTool"
  /\ stamps' = stamps \cup {"tool"}
  /\ Go(p, "done")
  /\ UNCHANGED <<disk, fresh, installed, broken, goal, exits, faults>>

-----------------------------------------------------------------------------
(* lockfile_acq: open the path, creating the file if there is none ...     *)
Open(p) ==
  /\ pc[p] = "open"
  /\ LET unused == {f \in Files : f # path /\ \A q \in Procs : file[q] # f}
         f == IF path = None THEN CHOOSE g \in unused : TRUE ELSE path
     IN /\ path' = f
        /\ file' = [file EXCEPT ![p] = f]
  /\ Go(p, "try")
  /\ UNCHANGED <<owner, torn, work, goal, exits, faults>>

Locked(p) == Go(p, IF goal[p] = "cache" THEN "recheck" ELSE "install")

TryLockShared(p) ==
  /\ pc[p] = "try"
  /\ owner' = [owner EXCEPT ![file[p]] = p]
  /\ Locked(p)
  /\ UNCHANGED <<path, file, torn, work, goal, exits, faults>>

(* ... and lock the file that was opened ...                               *)
TryLock(p) ==
  /\ pc[p] = "try"
  /\ owner[file[p]] = None
  /\ owner' = [owner EXCEPT ![file[p]] = p]
  /\ Locked(p)
  /\ UNCHANGED <<path, file, torn, work, goal, exits, faults>>

(* ... or close it, sleep and start again, or time out.                    *)
TryLockFails(p) ==
  /\ pc[p] = "try"
  /\ owner[file[p]] # None
  /\ file' = [file EXCEPT ![p] = None]
  /\ \/ Go(p, "open") /\ UNCHANGED faults
     \/ Go(p, "failed") /\ Fault
  /\ UNCHANGED <<path, owner, torn, work, goal, exits>>

(* lockfile_rel: unlock, ...                                               *)
Unlock(p) ==
  /\ pc[p] = "unlock"
  /\ owner' = [owner EXCEPT ![file[p]] = None]
  /\ Go(p, "remove")
  /\ UNCHANGED <<path, file, torn, work, goal, exits, faults>>

(* ... close, and remove whatever file the path leads to by then.          *)
Remove(p) ==
  /\ pc[p] = "remove"
  /\ file' = [file EXCEPT ![p] = None]
  /\ path' = None
  /\ torn' = (torn \/ \E q \in Procs \ {p} : path # None /\ file[q] = path)
  /\ IF p \in exits THEN Go(p, "failed") /\ UNCHANGED goal
     ELSE IF goal[p] = "cache" THEN Want(p, "tool")
     ELSE Go(p, "stampTool") /\ UNCHANGED goal
  /\ UNCHANGED <<owner, work, exits, faults>>

Ended == {"done", "failed"}

KilledHolding(p) ==
  /\ pc[p] \notin Ended
  /\ Fault
  /\ file' = [file EXCEPT ![p] = None]
  /\ broken' = (broken \/ pc[p] = "update")
  /\ Go(p, "failed")
  /\ UNCHANGED <<path, owner, torn, stamps, fresh, installed, goal, exits>>

(* A killed process loses its files and locks, and the path remains.       *)
Killed(p) ==
  /\ pc[p] \notin Ended
  /\ Fault
  /\ file' = [file EXCEPT ![p] = None]
  /\ owner' = [f \in Files |-> IF owner[f] = p THEN None ELSE owner[f]]
  /\ broken' = (broken \/ pc[p] = "update")
  /\ Go(p, "failed")
  /\ UNCHANGED <<path, torn, stamps, fresh, installed, goal, exits>>

Advance(p) ==
  \/ Install(p) \/ HasCacheStamp(p) \/ HasCacheStampLocked(p) \/ StampCache(p)
  \/ Update(p) \/ InstallTool(p) \/ CommandFails(p)
  \/ TrialFails(p) \/ StampTool(p)
  \/ Open(p) \/ TryLock(p) \/ TryLockFails(p) \/ Unlock(p) \/ Remove(p)

Finished == (\A p \in Procs : pc[p] \in Ended) /\ UNCHANGED vars

Next == (\E p \in Procs : Advance(p) \/ Killed(p)) \/ Finished

Spec == Init /\ [][Next]_vars

(* Commands end and processes run.  Polling a lock is not fair to anybody. *)
FairSpec == Spec /\ \A p \in Procs : WF_vars(Advance(p))

-----------------------------------------------------------------------------
(* Properties.                                                             *)

Holders ==
  {p \in Procs : pc[p] \in {"recheck", "stamp", "update", "install", "unlock"}}

(* What lockfile_acq promises (lockfile.py:48): one process at a time has  *)
(* the project-level lock.                                                 *)
OneHolder == \A p, q \in Holders : p = q

(* That is so as long as no release removes a file another process has     *)
(* opened and is about to lock, whatever is killed or times out.           *)
OneHolderUnlessTorn == ~torn => OneHolder

(* A check that asks for a cache update installs from an updated cache,    *)
(* although it skips the update as soon as another's stamp exists: it then *)
(* waits for that update at the lock.  Only a failed update, whose stamp   *)
(* stays, or a torn lock lets it install from a stale cache.               *)
InstallsFromUpdatedCache ==
  \A p \in Procs \ Direct :
    pc[p] = "install" => fresh \/ broken \/ torn

(* A tool has its stamp only once it is installed, and every check that    *)
(* succeeds leaves it installed, from a cache that was updated.            *)
InstallsHonest ==
  /\ "tool" \in stamps \/ (\E p \in Procs : pc[p] = "done") => installed
  /\ InstallsFromUpdatedCache

(* Every check ends, also when others are killed with the lock: nobody is  *)
(* left to poll a lock that is never released.                             *)
ChecksEnd == \A p \in Procs : <>(pc[p] \in Ended)

=============================================================================
