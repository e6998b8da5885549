----------------------------- MODULE OutboundCall -----------------------------
(***************************************************************************)
(* The life of one outbound task and of its call attempts: the operations  *)
(* of TasksService (apps/api/src/tasks/tasks.service.ts) interleaved with  *)
(* the outbox workers, FreeSWITCH, the event pipeline that reports what    *)
(* FreeSWITCH did, the periodic channel snapshots, the reaper of the       *)
(* scheduler process, the voice agent's callbacks and an operator.         *)
(*                                                                         *)
(* Tasks do not share rows, so one task is enough; attempt n is the        *)
(* CallAttempt with attemptNo n.  The transactions of TasksService are     *)
(* serializable or begin with a compare-and-set on the task's status, so   *)
(* each is one step; hangup() is two, because it waits for FreeSWITCH      *)
(* between reading the task and closing it.                                *)
(***************************************************************************)
EXTENDS CallStatus, Integers, FiniteSets

CONSTANTS
  MaxAttempts,       \* bound on the number of dispatches of the task
  Channels,          \* channels a dispatch may ask for: "freeswitch", "web"
  EventKinds,        \* provider events that may get through, a subset of AllEventKinds
  HangupCauses,      \* causes FreeSWITCH reports, a subset of ReportedCauses
  OperatorStatuses,  \* statuses an operator may PATCH on the task
  Stale,             \* what begun for an attempt may finish after a redial: see StaleWork
  Workers, MaxTries, MaxCrashes, Replies  \* see OutboxDispatch

AllEventKinds == {"PROGRESS", "ANSWER", "HANGUP", "JOB_ERR"}

(* "requests" are hangups and the voice agent's reports, "deliveries" the  *)
(* dispatch events that the outbox has not settled.                        *)
StaleWork == {"requests", "deliveries"}

ASSUME CallAssumption ==
  /\ MaxAttempts \in Nat \ {0}
  /\ Channels \subseteq {"freeswitch", "web"}
  /\ EventKinds \subseteq AllEventKinds
  /\ HangupCauses \subseteq ReportedCauses
  /\ OperatorStatuses \subseteq Statuses
  /\ Stale \subseteq StaleWork

Attempts == 1 .. MaxAttempts

VARIABLES
  \* the OutboundTask row
  taskStatus, attemptCount,
  calledAt,    \* attemptCount when calledAt was written, or NoTime
  endedAt,     \* attemptCount when endedAt was written, or NoTime
  \* the CallAttempt rows ("NONE": no such row yet)
  attStatus, channel, hangupCause,
  answeredAt,  \* answeredAt[n]: the column is set
  missing,     \* missingProviderSnapshotCount
  jobId, marker,
  \* other rows
  seen,        \* seen[n]: provider events recorded for the attempt
  history,     \* history[n]: status in contact_attempt_history
  outbox,
  \* processes
  pc, ev, loaded, crashes,
  hangups,     \* hangup requests between their read and their write
  snapshot,    \* the channel snapshot on its way to the API
  age,         \* age[n] against the snapshot grace and the reaper's timeout
  \* FreeSWITCH
  chan,        \* chan[n]: state of the channel with origination_uuid n
  picked,      \* picked[n]: the callee answered
  endCause,    \* endCause[n]: how the channel ended
  emitted,     \* emitted[n]: events FreeSWITCH has sent
  dials

taskVars == <<taskStatus, attemptCount, calledAt, endedAt>>
attemptVars == <<attStatus, channel, hangupCause, answeredAt, missing>>
recordVars == <<seen, history>>
outboxVars == <<jobId, marker, outbox, pc, ev, loaded, crashes>>
flightVars == <<hangups, snapshot>>
switchVars == <<chan, picked, endCause, emitted, dials>>
vars == <<taskStatus, attemptCount, calledAt, endedAt, attStatus, channel,
          hangupCause, answeredAt, missing, jobId, marker, seen, history, outbox,
          pc, ev, loaded, crashes, hangups, snapshot, age, chan, picked, endCause,
          emitted, dials>>

NoTime == 0 - 1
AttemptStatuses == Statuses \cup {"NONE"}
ChannelStates == {"none", "queued", "ringing", "answered", "gone"}
LiveChannel == {"queued", "ringing", "answered"}
Ages == {"fresh", "settled", "stale"}
NoSnapshot == [active |-> {}, settled |-> {}, sent |-> FALSE]

(* The outbox workers, as OutboxDispatch describes them, when the lease of *)
(* a live worker does not run out.                                         *)
Dispatcher == INSTANCE OutboxDispatch WITH
  SlowLease <- FALSE,
  calling <- [n \in Attempts |-> attStatus[n] = "CALLING" /\ channel[n] = "freeswitch"],
  evidence <- [n \in Attempts |-> seen[n] # {}],
  live <- [n \in Attempts |-> chan[n] \in LiveChannel]

ASSUME WorkerAssumption ==
  /\ MaxTries \in Nat \ {0}
  /\ MaxCrashes \in Nat
  /\ Replies \subseteq Dispatcher!AllReplies

Init ==
  /\ taskStatus = "PENDING"
  /\ attemptCount = 0
  /\ calledAt = NoTime
  /\ endedAt = NoTime
  /\ attStatus = [n \in Attempts |-> "NONE"]
  /\ channel = [n \in Attempts |-> "none"]
  /\ hangupCause = [n \in Attempts |-> "none"]
  /\ answeredAt = [n \in Attempts |-> FALSE]
  /\ missing = [n \in Attempts |-> 0]
  /\ jobId = [n \in Attempts |-> FALSE]
  /\ marker = [n \in Attempts |-> FALSE]
  /\ seen = [n \in Attempts |-> {}]
  /\ history = [n \in Attempts |-> "none"]
  /\ outbox = [n \in Attempts |-> [status |-> "none", attempts |-> 0]]
  /\ pc = [w \in Workers |-> "idle"]
  /\ ev = [w \in Workers |-> Dispatcher!None]
  /\ loaded = [w \in Workers |-> [n \in Attempts |-> Dispatcher!NotLoaded]]
  /\ crashes = 0
  /\ hangups = {}
  /\ snapshot = NoSnapshot
  /\ age = [n \in Attempts |-> "fresh"]
  /\ chan = [n \in Attempts |-> "none"]
  /\ picked = [n \in Attempts |-> FALSE]
  /\ endCause = [n \in Attempts |-> "none"]
  /\ emitted = [n \in Attempts |-> {}]
  /\ dials = [n \in Attempts |-> 0]
-----------------------------------------------------------------------------
IsLatest(n) == attemptCount = n
Open == taskStatus \notin TERMINAL_STATUSES

(* IN_CALL attempts are timed from their answer.                           *)
Answered(n) == age' = [age EXCEPT ![n] = IF @ = "stale" THEN "settled" ELSE @]

(* Mutants: the task does not follow its attempt; the attempt does not     *)
(* follow its task; a closed task is overwritten.                          *)
CloseAttemptsOnly(S, verdict) ==
  /\ attStatus' = [n \in Attempts |-> IF n \in S THEN verdict[n] ELSE attStatus[n]]
  /\ history' = [n \in Attempts |-> IF n \in S THEN verdict[n] ELSE history[n]]
  /\ UNCHANGED <<taskStatus, endedAt>>

CloseTaskOnly(S, verdict) ==
  /\ taskStatus' = IF attemptCount \in S /\ Open THEN verdict[attemptCount] ELSE taskStatus
  /\ UNCHANGED <<attStatus, history, endedAt>>

CloseAttemptsOverwriting(S, verdict) ==
  /\ attStatus' = [n \in Attempts |-> IF n \in S THEN verdict[n] ELSE attStatus[n]]
  /\ history' = [n \in Attempts |-> IF n \in S THEN verdict[n] ELSE history[n]]
  /\ IF attemptCount \in S
     THEN taskStatus' = verdict[attemptCount] /\ endedAt' = attemptCount
     ELSE UNCHANGED <<taskStatus, endedAt>>

(* The attempts in S reach the terminal statuses verdict[n]; the task      *)
(* follows only its latest attempt, and only while it is open itself.      *)
CloseAttempts(S, verdict) ==
  /\ attStatus' = [n \in Attempts |-> IF n \in S THEN verdict[n] ELSE attStatus[n]]
  /\ history' = [n \in Attempts |-> IF n \in S THEN verdict[n] ELSE history[n]]
  /\ IF attemptCount \in S /\ Open
     THEN /\ taskStatus' = verdict[attemptCount]
          /\ endedAt' = IF endedAt = NoTime THEN attemptCount ELSE endedAt
     ELSE UNCHANGED <<taskStatus, endedAt>>

(* Nothing that was begun for an earlier attempt is left over, but for the *)
(* kinds of work in Stale.  The code does not look.                        *)
NothingLeftOver ==
  /\ "requests" \in Stale \/ hangups = {}
  /\ "deliveries" \in Stale
       \/ \A n \in Attempts : outbox[n].status \notin {"pending", "processing"}
-----------------------------------------------------------------------------
(* TasksService.dispatch: claim the task, create the attempt and, on the   *)
(* freeswitch channel, its outbox event.  calledAt and endedAt of an       *)
(* earlier attempt stay on the task.                                       *)
Dispatch(ch) ==
  LET n == attemptCount + 1
  IN  /\ "CALLING" \in STATUS_TRANSITIONS[taskStatus]
      /\ n \in Attempts
      /\ NothingLeftOver
      /\ taskStatus' = "CALLING"
      /\ attemptCount' = n
      /\ attStatus' = [attStatus EXCEPT ![n] = "CALLING"]
      /\ channel' = [channel EXCEPT ![n] = ch]
      /\ outbox' = IF ch = "freeswitch"
                   THEN [outbox EXCEPT ![n].status = "pending"] ELSE outbox
      /\ UNCHANGED <<calledAt, endedAt, hangupCause, answeredAt, missing, recordVars,
                     jobId, marker, pc, ev, loaded, crashes, flightVars, age, switchVars>>

(* Mutant: the transition is not checked.                                  *)
UpdateStatusUnchecked(n, status) ==
  /\ taskStatus # status
  /\ taskStatus' = status
  /\ attStatus' = [m \in Attempts |-> IF m = n THEN status ELSE attStatus[m]]
  /\ UNCHANGED <<attemptCount, calledAt, endedAt, channel, hangupCause, answeredAt, missing,
                 recordVars, outboxVars, flightVars, age, switchVars>>

(* TasksService.updateStatus.  With an attempt id (the voice agent's        *)
(* callback) it also writes that attempt, whichever state it is in; with   *)
(* the task id (n = 0) the attempts are left alone.                        *)
UpdateStatus(n, status) ==
  LET terminal == status \in TERMINAL_STATUSES
  IN  /\ taskStatus # status
      /\ status \in STATUS_TRANSITIONS[taskStatus]
      /\ taskStatus' = status
      /\ calledAt' = IF status = "IN_CALL" /\ calledAt = NoTime THEN attemptCount ELSE calledAt
      /\ endedAt' = IF terminal THEN attemptCount ELSE endedAt
      /\ IF n # 0
         THEN /\ attStatus' = [attStatus EXCEPT ![n] = status]
              /\ answeredAt' = [answeredAt EXCEPT ![n] = @ \/ status = "IN_CALL"]
              /\ Answered(n)
         ELSE UNCHANGED <<attStatus, answeredAt, age>>
      /\ UNCHANGED <<attemptCount, channel, hangupCause, missing, recordVars,
                     outboxVars, flightVars, switchVars>>

(* The agent reports in_call when its session starts: once the callee has  *)
(* answered, or as soon as a web attempt exists.  HTTP retries may delay   *)
(* the report past a redial.                                               *)
AgentReportsInCall(n) ==
  /\ picked[n] \/ channel[n] = "web"
  /\ "requests" \in Stale \/ IsLatest(n)
  /\ UpdateStatus(n, "IN_CALL")

OperatorUpdatesStatus == \E status \in OperatorStatuses : UpdateStatus(0, status)
-----------------------------------------------------------------------------
(* hangup(), first half: the request finds the task open and goes on to    *)
(* FreeSWITCH.  By task id it means the latest attempt (0: there is none), *)
(* by attempt id the voice agent's own.                                    *)
RequestHangup(n) ==
  /\ Open
  /\ IsLatest(n) \/ ("requests" \in Stale /\ n \in 1 .. attemptCount)
  /\ n \notin hangups
  /\ hangups' = hangups \cup {n}
  /\ UNCHANGED <<taskVars, attemptVars, recordVars, outboxVars, snapshot, age, switchVars>>

(* The channel ends with cause c.  An originate that was never answered    *)
(* also fails its background job.                                          *)
EndChannel(n, c) ==
  /\ chan' = [chan EXCEPT ![n] = "gone"]
  /\ endCause' = [endCause EXCEPT ![n] = c]
  /\ emitted' = [emitted EXCEPT ![n] = @ \cup
       (EventKinds \cap (IF chan[n] = "answered" THEN {"HANGUP"} ELSE {"HANGUP", "JOB_ERR"}))]
  /\ UNCHANGED <<picked, dials>>

(* Second half, uuid_kill succeeded: the provider event closes the call.   *)
HangupAccepted(n) ==
  /\ n \in hangups
  /\ n # 0
  /\ chan[n] \in {"ringing", "answered"}
  /\ hangups' = hangups \ {n}
  /\ EndChannel(n, "no_answer")
  /\ UNCHANGED <<taskVars, attemptVars, recordVars, outboxVars, snapshot, age>>

(* Mutant: the status that the request read is still taken for granted.    *)
FinalizeUnconditionally(n) ==
  /\ n \in hangups
  /\ hangups' = hangups \ {n}
  /\ taskStatus' = "COMPLETED"
  /\ endedAt' = attemptCount
  /\ attStatus' = [m \in Attempts |-> IF m = n THEN "COMPLETED" ELSE attStatus[m]]
  /\ history' = [m \in Attempts |-> IF m = n THEN "COMPLETED" ELSE history[m]]
  /\ UNCHANGED <<attemptCount, calledAt, channel, hangupCause, answeredAt, missing, seen,
                 outboxVars, snapshot, age, switchVars>>

(* Second half, no controllable channel or uuid_kill failed twice:         *)
(* finalizeLocalHangup closes the task unless it is already terminal, and  *)
(* with it the attempt of the request.                                     *)
FinalizeLocalHangup(n) ==
  /\ n \in hangups
  /\ hangups' = hangups \ {n}
  /\ IF Open
     THEN /\ taskStatus' = "COMPLETED"
          /\ endedAt' = attemptCount
          /\ attStatus' = [m \in Attempts |-> IF m = n THEN "COMPLETED" ELSE attStatus[m]]
          /\ history' = [m \in Attempts |-> IF m = n THEN "COMPLETED" ELSE history[m]]
     ELSE UNCHANGED <<taskStatus, endedAt, attStatus, history>>
  /\ UNCHANGED <<attemptCount, calledAt, channel, hangupCause, answeredAt, missing, seen,
                 outboxVars, snapshot, age, switchVars>>
-----------------------------------------------------------------------------
(* recordProviderCallEvent.  Delivery may be late, repeated or out of      *)
(* order: any event sent and not yet recorded may come next, and a         *)
(* recorded one is skipped by its providerEventId.  A background job's     *)
(* event is only found once its job id is stored.  The event resets the    *)
(* snapshot count unless it is older than the last snapshot, which the two *)
(* clocks decide.                                                          *)
NewEvent(n, e) ==
  /\ e \in emitted[n] \ seen[n]
  /\ seen' = [seen EXCEPT ![n] = @ \cup {e}]
  /\ \E m \in {0, missing[n]} : missing' = [missing EXCEPT ![n] = m]
  /\ UNCHANGED <<attemptCount, channel, outboxVars, flightVars, switchVars>>

(* Mutant: a late progress event rewinds an answered attempt.              *)
RecordProgressRewinding(n) ==
  /\ NewEvent(n, "PROGRESS")
  /\ attStatus' = [attStatus EXCEPT ![n] = IF @ = "IN_CALL" THEN "CALLING" ELSE @]
  /\ UNCHANGED <<taskStatus, calledAt, endedAt, hangupCause, answeredAt, history, age>>

RecordProgress(n) ==
  /\ NewEvent(n, "PROGRESS")
  /\ UNCHANGED <<taskStatus, calledAt, endedAt, attStatus, hangupCause, answeredAt,
                 history, age>>

(* Mutant: the answer is recorded without looking at the attempt's status. *)
RecordAnswerAnyTime(n) ==
  /\ NewEvent(n, "ANSWER")
  /\ attStatus' = [attStatus EXCEPT ![n] = "IN_CALL"]
  /\ answeredAt' = [answeredAt EXCEPT ![n] = TRUE]
  /\ UNCHANGED <<taskStatus, calledAt, endedAt, hangupCause, history, age>>

RecordAnswer(n) ==
  /\ NewEvent(n, "ANSWER")
  /\ IF attStatus[n] \notin TERMINAL_STATUSES
     THEN /\ attStatus' = [attStatus EXCEPT ![n] = "IN_CALL"]
          /\ answeredAt' = [answeredAt EXCEPT ![n] = TRUE]
          /\ Answered(n)
          /\ IF IsLatest(n) /\ Open
             THEN /\ taskStatus' = "IN_CALL"
                  /\ calledAt' = IF calledAt = NoTime THEN n ELSE calledAt
             ELSE UNCHANGED <<taskStatus, calledAt>>
     ELSE UNCHANGED <<attStatus, answeredAt, age, taskStatus, calledAt>>
  /\ UNCHANGED <<endedAt, hangupCause, history>>

RecordJobError(n) ==
  /\ jobId[n]
  /\ NewEvent(n, "JOB_ERR")
  /\ IF attStatus[n] \notin TERMINAL_STATUSES
     THEN /\ CloseAttempts({n}, [m \in {n} |-> "FAILED"])
          /\ hangupCause' = [hangupCause EXCEPT ![n] = endCause[n]]
     ELSE UNCHANGED <<attStatus, history, taskStatus, endedAt, hangupCause>>
  /\ UNCHANGED <<calledAt, answeredAt, age>>

(* The call was answered if the attempt or the task says so, or if the     *)
(* hangup event itself carries the evidence (billsec, answer epoch).       *)
DirectAnswerEvidence(n) == answeredAt[n] \/ (IsLatest(n) /\ calledAt # NoTime)

(* Mutant: the hangup event's own evidence is not looked at.               *)
NoAnswerEvidence(n) == FALSE

AnswerEvidenceFromRaw(n) == picked[n]

(* In the last case the answer epoch, when it is plausible, fills the      *)
(* missing answer times.                                                   *)
RecordHangup(n) ==
  LET cause == IF hangupCause[n] = "fatal" THEN "fatal" ELSE endCause[n]
      answered == DirectAnswerEvidence(n) \/ AnswerEvidenceFromRaw(n)
      verdict == deriveTerminalStatus(cause, answered)
  IN  /\ NewEvent(n, "HANGUP")
      /\ IF attStatus[n] \notin TERMINAL_STATUSES
         THEN /\ CloseAttempts({n}, [m \in {n} |-> verdict])
              /\ hangupCause' = [hangupCause EXCEPT ![n] = cause]
              /\ \E plausible \in BOOLEAN :
                   LET backfilled == plausible /\ answered /\ ~DirectAnswerEvidence(n)
                   IN  /\ answeredAt' = [answeredAt EXCEPT ![n] = @ \/ backfilled]
                       /\ calledAt' = IF backfilled /\ IsLatest(n) /\ calledAt = NoTime
                                      THEN n ELSE calledAt
         ELSE UNCHANGED <<attStatus, history, taskStatus, endedAt, hangupCause,
                          answeredAt, calledAt>>
      /\ UNCHANGED age

RecordProviderCallEvent(n) ==
  RecordProgress(n) \/ RecordAnswer(n) \/ RecordJobError(n) \/ RecordHangup(n)
-----------------------------------------------------------------------------
(* publishActiveSnapshot notes the time, then lists the channels; the post *)
(* may be lost.  A queued originate has no channel yet; FreeSWITCH gets to *)
(* it within the seconds between two snapshots.                            *)
TakeSnapshot ==
  /\ ~snapshot.sent
  /\ \A n \in Attempts : chan[n] # "queued"
  /\ snapshot' = [active |-> {n \in Attempts : chan[n] \in {"ringing", "answered"}},
                  settled |-> {n \in Attempts : age[n] # "fresh"},
                  sent |-> TRUE]
  /\ UNCHANGED <<taskVars, attemptVars, recordVars, outboxVars, hangups, age, switchVars>>

LoseSnapshot ==
  /\ snapshot.sent
  /\ snapshot' = NoSnapshot
  /\ UNCHANGED <<taskVars, attemptVars, recordVars, outboxVars, hangups, age, switchVars>>

(* Mutant: one missing snapshot is enough.                                 *)
MissingOnce(n) == missing[n] + 1 >= 1

MissingTwice(n) == missing[n] + 1 >= 2

(* recordProviderActiveSnapshot: an attempt that is believed active but is *)
(* missing from two snapshots in a row has lost its events and is closed.  *)
RecordProviderActiveSnapshot ==
  LET scanned == {n \in Attempts : /\ channel[n] = "freeswitch"
                                   /\ attStatus[n] \in ActiveStatuses
                                   /\ jobId[n]}
      absent == {n \in scanned : n \notin snapshot.active /\ n \in snapshot.settled}
      lost == {n \in absent : MissingTwice(n)}
  IN  /\ snapshot.sent
      /\ snapshot' = NoSnapshot
      /\ missing' = [n \in Attempts |->
                       IF n \in absent THEN IF n \in lost THEN 2 ELSE 1
                       ELSE IF n \in scanned THEN 0 ELSE missing[n]]
      /\ CloseAttempts(lost, [n \in lost |-> closingStatus(hangupCause[n], answeredAt[n])])
      /\ hangupCause' = [n \in Attempts |->
                           IF n \in lost /\ hangupCause[n] = "none"
                           THEN EVENT_LOSS_RECONCILED ELSE hangupCause[n]]
      /\ UNCHANGED <<attemptCount, calledAt, channel, answeredAt, seen, outboxVars,
                     hangups, age, switchVars>>

(* Mutant: the reaper, too, only looks at the freeswitch channel.          *)
OverdueFreeswitch ==
  {n \in Attempts : /\ channel[n] = "freeswitch"
                    /\ attStatus[n] \in ActiveStatuses
                    /\ age[n] = "stale"}

Overdue == {n \in Attempts : attStatus[n] \in ActiveStatuses /\ age[n] = "stale"}

(* reapStaleActiveCalls: time alone closes what nobody else has closed.    *)
ReapStaleActiveCalls ==
  LET answered(n) == answeredAt[n] \/ attStatus[n] = "IN_CALL"
  IN  /\ Overdue # {}
      /\ CloseAttempts(Overdue, [n \in Overdue |-> closingStatus(hangupCause[n], answered(n))])
      /\ hangupCause' = [n \in Attempts |->
                           IF n \in Overdue /\ hangupCause[n] = "none"
                           THEN STALE_CALL_REAPED ELSE hangupCause[n]]
      /\ UNCHANGED <<attemptCount, calledAt, channel, answeredAt, missing, seen, outboxVars,
                     flightVars, age, switchVars>>

(* An active attempt grows older: past the snapshot grace, then past the   *)
(* reaper's timeout for its status.                                        *)
Tick(n) ==
  /\ attStatus[n] \in ActiveStatuses
  /\ age[n] # "stale"
  /\ age' = [age EXCEPT ![n] = IF @ = "fresh" THEN "settled" ELSE "stale"]
  /\ UNCHANGED <<taskVars, attemptVars, recordVars, outboxVars, flightVars, switchVars>>
-----------------------------------------------------------------------------
(* The outbox worker's steps that touch only its own rows and memory.      *)
OutboxInternal(w) ==
  /\ UNCHANGED <<taskVars, attemptVars, recordVars, flightVars, age, chan, picked,
                 endCause, emitted>>
  /\ \/ Dispatcher!StartTick(w)
     \/ \E n \in Attempts : Dispatcher!Claim(w, n)
     \/ Dispatcher!ReadAttempt(w)
     \/ Dispatcher!WriteMarker(w)
     \/ Dispatcher!CommitJob(w)
     \/ Dispatcher!MarkDispatchProcessed(w)
     \/ Dispatcher!DeadLetterDispatch(w)
     \/ Dispatcher!StatementThrows(w)
     \/ Dispatcher!Crash(w)

OutboxOriginates(w, reply) ==
  /\ pc[w] = "marked"
  /\ chan' = IF chan[ev[w]] \notin LiveChannel /\ reply \in {"accepted", "lost", "garbled"}
             THEN [chan EXCEPT ![ev[w]] = "queued"] ELSE chan
  /\ UNCHANGED <<taskVars, attemptVars, recordVars, flightVars, age, picked, endCause, emitted>>
  /\ Dispatcher!Originate(w, reply)

(* A terminal dispatch failure closes the attempt and the task, each only  *)
(* if it is still CALLING; whether the attempt is the task's latest is not *)
(* looked at.                                                              *)
OutboxFails(w) ==
  LET n == ev[w]
      fails == Dispatcher!TerminalFailure(w)
  IN  /\ pc[w] \in {"retry", "reject"}
      /\ IF fails /\ attStatus[n] = "CALLING"
         THEN /\ attStatus' = [attStatus EXCEPT ![n] = "FAILED"]
              /\ hangupCause' = [hangupCause EXCEPT ![n] = "unlisted"]
         ELSE UNCHANGED <<attStatus, hangupCause>>
      /\ IF fails /\ taskStatus = "CALLING"
         THEN taskStatus' = "FAILED" /\ endedAt' = attemptCount
         ELSE UNCHANGED <<taskStatus, endedAt>>
      /\ UNCHANGED <<attemptCount, calledAt, channel, answeredAt, missing, recordVars,
                     flightVars, age, chan, picked, endCause, emitted>>
      /\ Dispatcher!HandleFailure(w)
-----------------------------------------------------------------------------
(* FreeSWITCH.                                                             *)
ChannelRings(n) ==
  /\ chan[n] = "queued"
  /\ chan' = [chan EXCEPT ![n] = "ringing"]
  /\ emitted' = [emitted EXCEPT ![n] = @ \cup (EventKinds \cap {"PROGRESS"})]
  /\ UNCHANGED <<taskVars, attemptVars, recordVars, outboxVars, flightVars, age, picked,
                 endCause, dials>>

ChannelAnswered(n) ==
  /\ chan[n] = "ringing"
  /\ chan' = [chan EXCEPT ![n] = "answered"]
  /\ picked' = [picked EXCEPT ![n] = TRUE]
  /\ emitted' = [emitted EXCEPT ![n] = @ \cup (EventKinds \cap {"ANSWER"})]
  /\ UNCHANGED <<taskVars, attemptVars, recordVars, outboxVars, flightVars, age, endCause, dials>>

ChannelEnds(n, c) ==
  /\ chan[n] \in {"ringing", "answered"}
  /\ EndChannel(n, c)
  /\ UNCHANGED <<taskVars, attemptVars, recordVars, outboxVars, flightVars, age>>

(* The background job fails before there is a channel.                     *)
OriginateJobFails(n, c) ==
  /\ chan[n] = "queued"
  /\ chan' = [chan EXCEPT ![n] = "gone"]
  /\ endCause' = [endCause EXCEPT ![n] = c]
  /\ emitted' = [emitted EXCEPT ![n] = @ \cup (EventKinds \cap {"JOB_ERR"})]
  /\ UNCHANGED <<taskVars, attemptVars, recordVars, outboxVars, flightVars, age, picked, dials>>

FreeSwitch(n) ==
  \/ ChannelRings(n)
  \/ ChannelAnswered(n)
  \/ \E c \in HangupCauses : ChannelEnds(n, c) \/ OriginateJobFails(n, c)
-----------------------------------------------------------------------------
Next ==
  \/ \E ch \in Channels : Dispatch(ch)
  \/ OperatorUpdatesStatus
  \/ \E n \in 0 .. MaxAttempts :
       RequestHangup(n) \/ HangupAccepted(n) \/ FinalizeLocalHangup(n)
  \/ \E n \in Attempts :
       AgentReportsInCall(n) \/ RecordProviderCallEvent(n) \/ FreeSwitch(n) \/ Tick(n)
  \/ TakeSnapshot \/ LoseSnapshot \/ RecordProviderActiveSnapshot
  \/ ReapStaleActiveCalls
  \/ \E w \in Workers :
       OutboxInternal(w) \/ OutboxFails(w) \/ \E reply \in Replies : OutboxOriginates(w, reply)

Spec == Init /\ [][Next]_vars

(* Time passes and the scheduler's reaper timer keeps firing; nothing else *)
(* is promised: workers, events, snapshots and callbacks may all fail.     *)
FairSpec ==
  /\ Spec
  /\ \A n \in Attempts : WF_vars(Tick(n))
  /\ WF_vars(ReapStaleActiveCalls)
-----------------------------------------------------------------------------
(* Every variable keeps the type of the row or process it models.          *)
TypeOK ==
  /\ taskStatus \in Statuses
  /\ attemptCount \in 0 .. MaxAttempts
  /\ {calledAt, endedAt} \subseteq (0 .. MaxAttempts) \cup {NoTime}
  /\ attStatus \in [Attempts -> AttemptStatuses]
  /\ channel \in [Attempts -> Channels \cup {"none"}]
  /\ hangupCause \in [Attempts -> Causes]
  /\ answeredAt \in [Attempts -> BOOLEAN]
  /\ missing \in [Attempts -> 0 .. 2]
  /\ seen \in [Attempts -> SUBSET AllEventKinds]
  /\ history \in [Attempts -> TERMINAL_STATUSES \cup {"none"}]
  /\ hangups \in SUBSET (0 .. MaxAttempts)
  /\ snapshot \in [active : SUBSET Attempts, settled : SUBSET Attempts, sent : BOOLEAN]
  /\ age \in [Attempts -> Ages]
  /\ chan \in [Attempts -> ChannelStates]
  /\ picked \in [Attempts -> BOOLEAN]
  /\ endCause \in [Attempts -> Causes]
  /\ emitted \in [Attempts -> SUBSET AllEventKinds]
  /\ Dispatcher!DispatchTypeOK

(* A task that is being called or in a call always has a latest attempt in *)
(* that same status: without one neither an event, nor a snapshot, nor the *)
(* reaper would ever close it.  All the paths that write both rows.        *)
ActiveTaskHasActiveAttempt ==
  taskStatus \in ActiveStatuses =>
    attemptCount \in Attempts /\ attStatus[attemptCount] = taskStatus

(* Only the latest attempt may be open: a redial never leaves an earlier   *)
(* attempt behind that could still speak for the task (dispatch).          *)
OlderAttemptsClosed ==
  \A n \in Attempts : n < attemptCount => attStatus[n] \in TERMINAL_STATUSES

(* "Only the latest attempt may update the task": as long as the latest    *)
(* attempt is open the task is in the same status, unless an operator has  *)
(* closed it over the attempt's head.                                      *)
TaskFollowsLatestAttempt ==
  attemptCount # 0 /\ attStatus[attemptCount] \in ActiveStatuses
    => taskStatus \in {attStatus[attemptCount]} \cup OperatorStatuses

(* The contact history never contradicts the attempt it was written for    *)
(* (recordContactAttemptHistory on four paths).                            *)
HistoryAgrees ==
  \A n \in Attempts : history[n] # "none" => history[n] = attStatus[n]

(* Both: the rows of a task, its attempts and its contact history agree.   *)
TaskAndAttemptsAgree == ActiveTaskHasActiveAttempt /\ HistoryAgrees

(* "States only move forward": a closed attempt keeps its status whatever  *)
(* arrives later, and a closed task changes only by a new dispatch.        *)
ClosedStaysClosed ==
  [][/\ \A n \in Attempts :
          attStatus[n] \in TERMINAL_STATUSES => attStatus'[n] = attStatus[n]
     /\ taskStatus \in TERMINAL_STATUSES /\ taskStatus' # taskStatus
          => attemptCount' = attemptCount + 1]_vars

(* The hangup event classifies the call by what happened on that call,     *)
(* whether the answer event came before it, after it or never.             *)
VerdictMatchesCall ==
  [][\A n \in Attempts :
       /\ "HANGUP" \in seen'[n] \ seen[n]
       /\ attStatus[n] \notin TERMINAL_STATUSES
       => attStatus'[n] = deriveTerminalStatus(endCause[n], picked[n])]_vars

(* The snapshot reconciliation never gives up a call that is still on:     *)
(* that is what the second missing snapshot is for.                        *)
ReconcilesOnlyDeadCalls ==
  [][\A n \in Attempts : missing'[n] = 2 /\ missing[n] # 2 => chan[n] = "gone"]_vars

(* Whatever is lost - events, snapshots, callbacks, workers, the voice     *)
(* agent - a task does not stay in CALLING or IN_CALL for ever.            *)
EveryCallEnds == taskStatus \in ActiveStatuses ~> taskStatus \in TERMINAL_STATUSES

(* The workers of this module are those of OutboxDispatch in a real        *)
(* environment, so that what holds there holds here.                       *)
DispatcherSpec == Dispatcher!DispatchSpec

(* The task row implements the abstract task.                              *)
Lifecycle == INSTANCE TaskLifecycle WITH status <- taskStatus, attempts <- attemptCount
LifecycleSpec == Lifecycle!LifecycleSpec
=============================================================================
