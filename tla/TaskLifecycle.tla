---------------------------- MODULE TaskLifecycle ----------------------------
(***************************************************************************)
(* What an outbound task promises to the people who watch it, whatever the *)
(* machinery below does: a dispatch opens one attempt, an attempt is       *)
(* connected at most once, and it is closed once; only a failed or         *)
(* unanswered task may be dialled again, and a completed or cancelled one  *)
(* never changes again.  OutboundCall implements this.                     *)
(***************************************************************************)
EXTENDS CallStatus, Naturals

VARIABLES
  status,    \* the task's status
  attempts   \* how many attempts it has had

taskVars == <<status, attempts>>

LifecycleInit == status = "PENDING" /\ attempts = 0

Redial ==
  /\ status \in {"PENDING", "FAILED", "NO_ANSWER"}
  /\ status' = "CALLING"
  /\ attempts' = attempts + 1

Connect ==
  /\ status = "CALLING"
  /\ status' = "IN_CALL"
  /\ UNCHANGED attempts

(* A task that is in a call has been answered, and one that was never      *)
(* dialled cannot have gone unanswered.                                    *)
Close ==
  /\ status \notin TERMINAL_STATUSES
  /\ status' \in TERMINAL_STATUSES
  /\ status' = "NO_ANSWER" => status = "CALLING"
  /\ UNCHANGED attempts

LifecycleNext == Redial \/ Connect \/ Close

LifecycleSpec == LifecycleInit /\ [][LifecycleNext]_taskVars
=============================================================================
