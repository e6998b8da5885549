------------------------------- MODULE CallReview -------------------------------
(***************************************************************************)
(* After a call: its analysis, which a reviewer may correct and anyone may *)
(* run again, and the ticket a human follows it up with, which operators   *)
(* update, close, and turn into a new call.  One analysed call and its     *)
(* ticket; an outcome or an intent is a member of a small set.             *)
(*                                                                         *)
(* The task's own outcome is shared: the call's report, the analysis and   *)
(* the ticket's disposition all read or write it.                          *)
(***************************************************************************)
EXTENDS Integers, FiniteSets

CONSTANTS Operators,    \* sessions that work on the ticket
          MaxChanges,   \* changes made in all
          MaxCallbacks  \* new calls planned from the ticket

VARIABLES task,         \* the outcome of the task: "none", or one of Outcomes
          analysis,     \* the analysis: [known, outcome, corrected]
          ticket,       \* the ticket: [known, status, disposition, completed, callback]
          writing,      \* an operator between two writes: [at, value]
          callbacks,    \* callback tasks created
          changes       \* changes made

vars == <<task, analysis, ticket, writing, callbacks, changes>>

Outcomes == {"high_intent", "rejected", "escalated"}
Statuses == {"pending", "processing", "completed", "closed"}
Dispositions == {"none", "converted", "not_interested", "complaint_risk",
                 "callback_required"}

(* dispositionToOutcome; "none" where the disposition says nothing.        *)
OutcomeOf(disposition) ==
  CASE disposition = "converted" -> "high_intent"
    [] disposition = "not_interested" -> "rejected"
    [] disposition = "complaint_risk" -> "escalated"
    [] OTHER -> "none"

Idle == [at |-> "idle", value |-> "none"]
Change == changes < MaxChanges /\ changes' = changes + 1
Ready(o) == writing[o] = Idle

Init ==
  /\ task = "none"
  /\ analysis = [known |-> FALSE, outcome |-> "none", corrected |-> FALSE]
  /\ ticket = [known |-> FALSE, status |-> "pending", disposition |-> "none",
               completed |-> FALSE, callback |-> 0]
  /\ writing = [o \in Operators |-> Idle]
  /\ callbacks = {} /\ changes = 0

(* analyzeCall looks at the call and proposes the task's outcome ...       *)
AnalyzeReads(o) ==
  /\ Ready(o) /\ Change
  /\ writing' = [writing EXCEPT ![o] = [at |-> "proposed", value |-> task]]
  /\ UNCHANGED <<task, analysis, ticket, callbacks>>

(* ... and writes the proposal over whatever the analysis said, leaving    *)
(* the mark of a correction where it is.                                   *)
AnalyzeWrites(o) ==
  /\ writing[o].at = "proposed"
  /\ analysis' = [analysis EXCEPT !.known = TRUE,
                    !.outcome = IF writing[o].value = "none" THEN @
                                ELSE writing[o].value]
  /\ writing' = [writing EXCEPT ![o] = Idle]
  /\ UNCHANGED <<task, ticket, callbacks, changes>>

Correct(o, outcome) ==
  /\ Ready(o) /\ analysis.known /\ Change
  /\ analysis' = [analysis EXCEPT !.outcome = outcome, !.corrected = TRUE]
  /\ UNCHANGED <<task, ticket, writing, callbacks>>

(* createFromAnalysis: the first makes the ticket, later ones refresh what *)
(* it says of the call and leave its progress alone.                       *)
CreateFromAnalysis(o) ==
  /\ Ready(o) /\ analysis.known /\ Change
  /\ ticket' = IF ticket.known THEN ticket
               ELSE [ticket EXCEPT !.known = TRUE, !.status = "pending"]
  /\ UNCHANGED <<task, analysis, writing, callbacks>>

Final(status) == status \in {"completed", "closed"}

(* update writes what the operator gave and leaves the rest: a status sets *)
(* or clears the time of completion.  The outcome that the ticket's        *)
(* disposition stands for is written to the task afterwards, whether this  *)
(* update gave the disposition or an earlier one did.                      *)
Update(o, status, disposition) ==
  /\ Ready(o) /\ ticket.known /\ Change
  /\ ticket' = [ticket EXCEPT
       !.status = IF status = "same" THEN @ ELSE status,
       !.disposition = IF disposition = "none" THEN @ ELSE disposition,
       !.completed = IF status = "same" THEN @ ELSE Final(status)]
  /\ writing' = [writing EXCEPT ![o] =
       IF OutcomeOf(ticket'.disposition) = "none" THEN Idle
       ELSE [at |-> "disposed", value |-> OutcomeOf(ticket'.disposition)]]
  /\ UNCHANGED <<task, analysis, callbacks>>

ApplyDisposition(o) ==
  /\ writing[o].at = "disposed"
  /\ task' = writing[o].value
  /\ writing' = [writing EXCEPT ![o] = Idle]
  /\ UNCHANGED <<analysis, ticket, callbacks, changes>>

(* createCallbackTask makes the task first; the ticket is then moved to    *)
(* processing and linked to it, unless the process fails in between.       *)
CallBack(o) ==
  /\ Ready(o) /\ ticket.known /\ Cardinality(callbacks) < MaxCallbacks /\ Change
  /\ callbacks' = callbacks \cup {Cardinality(callbacks) + 1}
  /\ writing' = [writing EXCEPT ![o] =
       [at |-> "called", value |-> Cardinality(callbacks) + 1]]
  /\ UNCHANGED <<task, analysis, ticket>>

LinkCallback(o) ==
  /\ writing[o].at = "called"
  /\ ticket' = [ticket EXCEPT !.status = "processing",
                  !.disposition = "callback_required", !.callback = writing[o].value]
  /\ writing' = [writing EXCEPT ![o] = Idle]
  /\ UNCHANGED <<task, analysis, callbacks, changes>>

Fail(o) ==
  /\ ~Ready(o)
  /\ writing' = [writing EXCEPT ![o] = Idle]
  /\ UNCHANGED <<task, analysis, ticket, callbacks, changes>>

(* The call's own report sets the outcome of the task once.                *)
Report(outcome) ==
  /\ task = "none" /\ Change
  /\ task' = outcome
  /\ UNCHANGED <<analysis, ticket, writing, callbacks>>

Next ==
  \/ \E outcome \in Outcomes :
       Report(outcome) \/ \E o \in Operators : Correct(o, outcome)
  \/ \E o \in Operators :
       \/ AnalyzeReads(o) \/ AnalyzeWrites(o) \/ CreateFromAnalysis(o)
       \/ ApplyDisposition(o) \/ CallBack(o) \/ LinkCallback(o) \/ Fail(o)
       \/ \E status \in Statuses \cup {"same"}, disposition \in Dispositions :
            Update(o, status, disposition)

Spec == Init /\ [][Next]_vars

-----------------------------------------------------------------------------
TypeOK ==
  /\ task \in Outcomes \cup {"none"}
  /\ analysis.outcome \in Outcomes \cup {"none"}
  /\ ticket.status \in Statuses /\ ticket.disposition \in Dispositions
  /\ ticket.callback \in {0} \cup callbacks

(* A finished ticket says when it was finished and a pending one does not, *)
(* through analyses that are run again, tickets asked for twice, callbacks *)
(* and the updates of several operators.  (A ticket called back after it   *)
(* was finished keeps the time: the callback writes the status past it.)   *)
FinishedIsMarked ==
  /\ Final(ticket.status) => ticket.completed
  /\ ticket.status = "pending" => ~ticket.completed
=============================================================================
