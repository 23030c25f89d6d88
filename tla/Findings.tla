------------------------------ MODULE Findings ------------------------------
(***************************************************************************)
(* The findings of checks: a check that lints, formats, documents or       *)
(* measures leaves a file for job:findings (workflows/all_findings.py) and *)
(* marks it ok with a stamp (workflows/lib/exec.py), which is in date for  *)
(* six hours.  Each kind of check orders its tool, its file and its stamp  *)
(* in its own way, may be killed in between, and may be run again.         *)
(***************************************************************************)
EXTENDS Integers

CONSTANTS
  Checks,
  Never,    \* no time at all
  Life,     \* how long a stamp is in date
  MaxTime,  \* bound: the time that passes
  MaxRuns   \* bound: how often a check is run

Assumption ==
  Never \notin Nat /\ Life \in Nat /\ MaxTime \in Nat /\ MaxRuns \in Nat

VARIABLES
  now,
  style,  \* style[c]: how c goes about it, see Styles
  pc,     \* pc[c]: what c does next
  log,    \* log[c]: its file: "none", "clean" or "found"
  stamp,  \* stamp[c]: the time of its stamp, or Never
  clean,  \* clean[c]: when a run of it last ended with nothing to find
  runs    \* runs[c]: how often it was started

vars == <<now, style, pc, log, stamp, clean, runs>>

(* pylint and docgen write the file and then judge, cpplint and cppcov     *)
(* write it only if their tool succeeded, and cppfmt removes it first and  *)
(* passes whatever it finds.                                               *)
Styles == {"judges", "aborts", "formats"}

TypeOK ==
  /\ now \in Nat
  /\ style \in [Checks -> Styles]
  /\ pc \in [Checks -> {"idle", "tool", "judge", "stamp"}]
  /\ log \in [Checks -> {"none", "clean", "found"}]
  /\ stamp \in [Checks -> Nat \cup {Never}]
  /\ clean \in [Checks -> Nat \cup {Never}]
  /\ runs \in [Checks -> Nat]

Init ==
  /\ now = 0
  /\ style \in [Checks -> Styles]
  /\ pc = [c \in Checks |-> "idle"]
  /\ log = [c \in Checks |-> "none"]
  /\ stamp = [c \in Checks |-> Never]
  /\ clean = [c \in Checks |-> Never]
  /\ runs = [c \in Checks |-> 0]

Go(c, where) == pc' = [pc EXCEPT ![c] = where]
Write(c, what) == log' = [log EXCEPT ![c] = what]

InDate(t) == t # Never /\ now - t <= Life

(* has_stamp, and is_finding_ok.                                           *)
IsFindingOk(c) == InDate(stamp[c])

-----------------------------------------------------------------------------
Start(c) ==
  /\ pc[c] = "idle"
  /\ runs[c] < MaxRuns
  /\ runs' = [runs EXCEPT ![c] = @ + 1]
  /\ Go(c, "tool")
  /\ IF style[c] = "formats" THEN Write(c, "none") ELSE UNCHANGED log
  /\ UNCHANGED <<now, style, stamp, clean>>

(* pylint and docgen: the tool's output becomes the file in any case.      *)
ToolJudged(c) ==
  /\ pc[c] = "tool"
  /\ style[c] = "judges"
  /\ \E result \in {"clean", "found"} : Write(c, result)
  /\ Go(c, "judge")
  /\ UNCHANGED <<now, style, stamp, clean, runs>>

JudgeNever(c) ==
  /\ pc[c] = "judge"
  /\ Go(c, "stamp")
  /\ UNCHANGED <<now, style, log, stamp, clean, runs>>

Judge(c) ==
  /\ pc[c] = "judge"
  /\ Go(c, IF log[c] = "found" THEN "idle" ELSE "stamp")
  /\ UNCHANGED <<now, style, log, stamp, clean, runs>>

(* cpplint and cppcov: a failing tool ends the check and leaves the file   *)
(* of an earlier run.                                                      *)
ToolOrAbort(c) ==
  /\ pc[c] = "tool"
  /\ style[c] = "aborts"
  /\ \/ Write(c, "clean") /\ Go(c, "stamp")
     \/ Go(c, "idle") /\ UNCHANGED log
  /\ UNCHANGED <<now, style, stamp, clean, runs>>

(* cppfmt: files one after the other, each of which may be unformatted, or *)
(* make clang-format fail; it passes without a stamp if any was.           *)
Format(c) ==
  /\ pc[c] = "tool"
  /\ style[c] = "formats"
  /\ \/ Write(c, "found") /\ UNCHANGED pc
     \/ Go(c, "idle") /\ UNCHANGED log
     \/ log[c] = "none" /\ Write(c, "clean") /\ Go(c, "stamp")
  /\ UNCHANGED <<now, style, stamp, clean, runs>>

(* mark_finding_ok: a stamp in date is left as it is.                      *)
MarkFindingOk(c) ==
  /\ pc[c] = "stamp"
  /\ stamp' = [stamp EXCEPT ![c] = IF InDate(@) THEN @ ELSE now]
  /\ clean' = [clean EXCEPT ![c] = now]
  /\ Go(c, "idle")
  /\ UNCHANGED <<now, style, log, runs>>

Killed(c) ==
  /\ pc[c] # "idle"
  /\ Go(c, "idle")
  /\ UNCHANGED <<now, style, log, stamp, clean, runs>>

Time == now < MaxTime /\ now' = now + 1 /\ UNCHANGED <<style, pc, log, stamp, clean, runs>>

Quiet == \A c \in Checks : pc[c] = "idle"

Over ==
  /\ Quiet
  /\ now = MaxTime
  /\ \A c \in Checks : runs[c] = MaxRuns
  /\ UNCHANGED vars

Next ==
  \/ \E c \in Checks :
       \/ Start(c) \/ ToolJudged(c) \/ Judge(c) \/ ToolOrAbort(c) \/ Format(c)
       \/ MarkFindingOk(c) \/ Killed(c)
  \/ Time
  \/ Over

Spec == Init /\ [][Next]_vars

(* The exit code of job:findings: every file has a stamp in date.          *)
ReportPasses == \A c \in Checks : log[c] # "none" => IsFindingOk(c)

-----------------------------------------------------------------------------
(* Properties.                                                             *)

(* A file that the report calls ok belongs to a check that ran without     *)
(* findings in a stamp's lifetime, and as long as no check has been run    *)
(* twice, the report passes exactly if no check left a file without having *)
(* done so.  (A check that fails after it has passed keeps the stamp.)     *)
FindingsHonest ==
  Quiet =>
    /\ \A c \in Checks : IsFindingOk(c) => InDate(clean[c])
    /\ (\A c \in Checks : runs[c] <= 1) =>
         /\ ReportPasses <=> \A c \in Checks : log[c] # "none" => InDate(clean[c])
         /\ \A c \in Checks : log[c] = "found" => ~IsFindingOk(c)

=============================================================================
