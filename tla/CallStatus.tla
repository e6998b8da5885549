------------------------------ MODULE CallStatus ------------------------------
(***************************************************************************)
(* The status vocabulary that tasks and call attempts share, and the       *)
(* classification of hangup causes (packages/shared/src/tasks.ts,          *)
(* packages/shared/src/hangup-causes.ts, apps/api/src/tasks).              *)
(***************************************************************************)

Statuses == {"PENDING", "CALLING", "IN_CALL", "COMPLETED", "FAILED",
             "NO_ANSWER", "CANCELLED"}

TERMINAL_STATUSES == {"COMPLETED", "FAILED", "NO_ANSWER", "CANCELLED"}

(* The attempts that snapshots and the reaper look at.                     *)
ActiveStatuses == {"CALLING", "IN_CALL"}

(* Mutant: every status may be left for a new call.                        *)
TransitionsUnchecked == [s \in Statuses |-> Statuses \ {s}]

STATUS_TRANSITIONS ==
  [s \in Statuses |->
     CASE s = "PENDING"   -> {"CALLING", "CANCELLED", "FAILED"}
       [] s = "CALLING"   -> {"IN_CALL", "NO_ANSWER", "FAILED", "CANCELLED"}
       [] s = "IN_CALL"   -> {"COMPLETED", "FAILED", "CANCELLED"}
       [] s \in {"FAILED", "NO_ANSWER"}    -> {"CALLING"}
       [] s \in {"COMPLETED", "CANCELLED"} -> {}]

(***************************************************************************)
(* A hangup cause is its class in the classification table: "fatal" for    *)
(* FAILED_HANGUP_CAUSES, "no_answer" for NO_ANSWER_HANGUP_CAUSES, and      *)
(* "unlisted" for every other text; "none" is an empty column.             *)
(***************************************************************************)
ReportedCauses == {"fatal", "no_answer", "unlisted"}
Causes == ReportedCauses \cup {"none"}

EVENT_LOSS_RECONCILED == "fatal"
STALE_CALL_REAPED == "unlisted"

deriveTerminalStatus(cause, answered) ==
  CASE cause = "fatal"                                 -> "FAILED"
    [] cause # "fatal" /\ answered                     -> "COMPLETED"
    [] cause = "no_answer" /\ ~answered                -> "NO_ANSWER"
    [] cause \in {"unlisted", "none"} /\ ~answered     -> "FAILED"

(* Mutant: an unanswered attempt without a cause is not closed at all.     *)
ClosingStatusOpen(existingCause, answered) ==
  IF existingCause # "none" THEN deriveTerminalStatus(existingCause, answered)
  ELSE IF answered THEN "COMPLETED" ELSE "CALLING"

(* How the snapshot reconciliation and the reaper close an attempt: by the *)
(* cause already on the row, else by whether it was answered.              *)
closingStatus(existingCause, answered) ==
  IF existingCause # "none" THEN deriveTerminalStatus(existingCause, answered)
  ELSE IF answered THEN "COMPLETED" ELSE "FAILED"
=============================================================================
