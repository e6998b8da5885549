-------------------------- MODULE OutboundCallProofs --------------------------
(***************************************************************************)
(* Proofs about the life of a call (OutboundCall.tla), for any number of   *)
(* attempts, workers, tries and crashes.                                   *)
(***************************************************************************)
EXTENDS OutboundCall, TLAPS

USE CallAssumption, WorkerAssumption
-----------------------------------------------------------------------------
(* Types.  TypeOK falls into the rows of TasksService and what belongs to  *)
(* the outbox workers.                                                     *)
RowTypes ==
  /\ taskStatus \in Statuses
  /\ attemptCount \in 0 .. MaxAttempts
  /\ calledAt \in (0 .. MaxAttempts) \cup {NoTime}
  /\ endedAt \in (0 .. MaxAttempts) \cup {NoTime}
  /\ attStatus \in [Attempts -> AttemptStatuses]
  /\ channel \in [Attempts -> Channels \cup {"none"}]
  /\ hangupCause \in [Attempts -> Causes]
  /\ answeredAt \in [Attempts -> BOOLEAN]
  /\ missing \in [Attempts -> 0 .. 2]
  /\ history \in [Attempts -> TERMINAL_STATUSES \cup {"none"}]

FlightTypes ==
  /\ seen \in [Attempts -> SUBSET AllEventKinds]
  /\ hangups \in SUBSET (0 .. MaxAttempts)
  /\ snapshot \in [active : SUBSET Attempts, settled : SUBSET Attempts, sent : BOOLEAN]
  /\ age \in [Attempts -> Ages]
  /\ chan \in [Attempts -> ChannelStates]
  /\ picked \in [Attempts -> BOOLEAN]
  /\ endCause \in [Attempts -> Causes]
  /\ emitted \in [Attempts -> SUBSET AllEventKinds]

OutboxRows == [Attempts -> [status : Dispatcher!EventStatus, attempts : 0 .. MaxTries]]

WorkerTypes ==
  /\ jobId \in [Attempts -> BOOLEAN]
  /\ marker \in [Attempts -> BOOLEAN]
  /\ outbox \in OutboxRows
  /\ pc \in [Workers -> Dispatcher!PC]
  /\ ev \in [Workers -> Attempts \cup {Dispatcher!None}]
  /\ loaded \in [Workers -> [Attempts -> (0 .. MaxTries) \cup {Dispatcher!NotLoaded}]]
  /\ crashes \in Nat
  /\ dials \in [Attempts -> 0 .. 2]

LEMMA TypeParts == TypeOK <=> RowTypes /\ FlightTypes /\ WorkerTypes
<1>1. Dispatcher!DispatchTypeOK <=> WorkerTypes
  <2>1. /\ [n \in Attempts |-> attStatus[n] = "CALLING" /\ channel[n] = "freeswitch"]
             \in [Attempts -> BOOLEAN]
        /\ [n \in Attempts |-> seen[n] # {}] \in [Attempts -> BOOLEAN]
        /\ [n \in Attempts |-> chan[n] \in LiveChannel] \in [Attempts -> BOOLEAN]
    OBVIOUS
  <2> QED
    BY <2>1 DEF Dispatcher!DispatchTypeOK, WorkerTypes, OutboxRows
<1>2. {calledAt, endedAt} \subseteq (0 .. MaxAttempts) \cup {NoTime} <=>
        /\ calledAt \in (0 .. MaxAttempts) \cup {NoTime}
        /\ endedAt \in (0 .. MaxAttempts) \cup {NoTime}
  OBVIOUS
<1> QED
  BY <1>1, <1>2 DEF TypeOK, RowTypes, FlightTypes

LEMMA InitTypes == Init => TypeOK
<1> SUFFICES ASSUME Init PROVE RowTypes /\ FlightTypes /\ WorkerTypes
  BY TypeParts
<1>1. RowTypes
  BY DEF Init, RowTypes, Statuses, AttemptStatuses, Causes, NoTime
<1>2. FlightTypes
  BY DEF Init, FlightTypes, NoSnapshot, Ages, ChannelStates, Causes
<1>3. WorkerTypes
  BY DEF Init, WorkerTypes, OutboxRows, Dispatcher!EventStatus, Dispatcher!PC, Dispatcher!None, Dispatcher!NotLoaded
<1> QED
  BY <1>1, <1>2, <1>3

LEMMA VerdictIsTerminal ==
  ASSUME NEW cause \in Causes, NEW answered \in BOOLEAN
  PROVE  /\ deriveTerminalStatus(cause, answered) \in TERMINAL_STATUSES
         /\ closingStatus(cause, answered) \in TERMINAL_STATUSES
BY DEF Causes, ReportedCauses, deriveTerminalStatus, closingStatus, TERMINAL_STATUSES

LEMMA CloseTypes ==
  ASSUME RowTypes, NEW S \in SUBSET Attempts, NEW verdict,
         \A n \in S : verdict[n] \in TERMINAL_STATUSES, CloseAttempts(S, verdict)
  PROVE  /\ taskStatus' \in Statuses
         /\ endedAt' \in (0 .. MaxAttempts) \cup {NoTime}
         /\ attStatus' \in [Attempts -> AttemptStatuses]
         /\ history' \in [Attempts -> TERMINAL_STATUSES \cup {"none"}]
<1>1. TERMINAL_STATUSES \subseteq Statuses
  BY DEF TERMINAL_STATUSES, Statuses
<1>2. attStatus' \in [Attempts -> AttemptStatuses]
  BY <1>1 DEF CloseAttempts, RowTypes, AttemptStatuses
<1>3. history' \in [Attempts -> TERMINAL_STATUSES \cup {"none"}]
  BY DEF CloseAttempts, RowTypes
<1>4. taskStatus' \in Statuses /\ endedAt' \in (0 .. MaxAttempts) \cup {NoTime}
  BY <1>1 DEF CloseAttempts, RowTypes
<1> QED
  BY <1>2, <1>3, <1>4

LEMMA AttemptsAreNumbers == Attempts \subseteq 1 .. MaxAttempts /\ Attempts \subseteq 0 .. MaxAttempts
BY DEF Attempts

LEMMA UpdateStatusRows ==
  ASSUME RowTypes, NEW n, NEW status, UpdateStatus(n, status)
  PROVE  RowTypes'
<1>1. status \in Statuses
  BY DEF UpdateStatus, RowTypes, STATUS_TRANSITIONS, Statuses
<1>2. /\ taskStatus' \in Statuses
      /\ calledAt' \in (0 .. MaxAttempts) \cup {NoTime}
      /\ endedAt' \in (0 .. MaxAttempts) \cup {NoTime}
  BY <1>1 DEF UpdateStatus, RowTypes
<1>3. attStatus' \in [Attempts -> AttemptStatuses]
  BY <1>1 DEF UpdateStatus, RowTypes, AttemptStatuses
<1>4. answeredAt' \in [Attempts -> BOOLEAN]
  <2>1. \/ answeredAt' = [answeredAt EXCEPT ![n] = @ \/ status = "IN_CALL"]
        \/ answeredAt' = answeredAt
    BY DEF UpdateStatus
  <2> QED
    BY <2>1, Zenon DEF RowTypes
<1>5. UNCHANGED <<attemptCount, channel, hangupCause, missing, history>>
  BY DEF UpdateStatus, recordVars
<1> QED
  BY <1>2, <1>3, <1>4, <1>5 DEF RowTypes

LEMMA FinalizeRows ==
  ASSUME RowTypes, NEW n, FinalizeLocalHangup(n)
  PROVE  RowTypes'
<1>1. "COMPLETED" \in Statuses /\ "COMPLETED" \in TERMINAL_STATUSES
  BY DEF Statuses, TERMINAL_STATUSES
<1> QED
  BY <1>1 DEF RowTypes, FinalizeLocalHangup, AttemptStatuses

LEMMA RecordRows ==
  ASSUME TypeOK, NEW n \in Attempts, RecordProviderCallEvent(n)
  PROVE  RowTypes'
<1> USE AttemptsAreNumbers
<1>0. RowTypes /\ FlightTypes
  BY TypeParts
<1>1. missing' \in [Attempts -> 0 .. 2] /\ UNCHANGED <<attemptCount, channel>>
  <2>1. PICK e : NewEvent(n, e)
    BY DEF RecordProviderCallEvent, RecordProgress, RecordAnswer, RecordJobError, RecordHangup
  <2> QED
    BY <1>0, <2>1 DEF NewEvent, RowTypes
<1>2. CASE RecordProgress(n)
  BY <1>0, <1>1, <1>2 DEF RecordProgress, RowTypes
<1>3. CASE RecordAnswer(n)
  <2>1. "IN_CALL" \in Statuses
    BY DEF Statuses
  <2>2. attStatus' \in [Attempts -> AttemptStatuses]
    BY <1>0, <1>3, <2>1 DEF RecordAnswer, RowTypes, AttemptStatuses
  <2>3. answeredAt' \in [Attempts -> BOOLEAN]
    BY <1>0, <1>3 DEF RecordAnswer, RowTypes
  <2>4. /\ taskStatus' \in Statuses
        /\ calledAt' \in (0 .. MaxAttempts) \cup {NoTime}
        /\ UNCHANGED <<endedAt, hangupCause, history>>
    BY <1>0, <1>3, <2>1 DEF RecordAnswer, RowTypes
  <2> QED
    BY <1>0, <1>1, <2>2, <2>3, <2>4 DEF RowTypes
<1>4. CASE RecordJobError(n)
  <2>1. /\ taskStatus' \in Statuses
        /\ endedAt' \in (0 .. MaxAttempts) \cup {NoTime}
        /\ attStatus' \in [Attempts -> AttemptStatuses]
        /\ history' \in [Attempts -> TERMINAL_STATUSES \cup {"none"}]
    <3>1. CASE attStatus[n] \notin TERMINAL_STATUSES
      <4>1. CloseAttempts({n}, [m \in {n} |-> "FAILED"])
        BY <1>4, <3>1 DEF RecordJobError
      <4>2. \A m \in {n} : [k \in {n} |-> "FAILED"][m] \in TERMINAL_STATUSES
        BY DEF TERMINAL_STATUSES
      <4> QED
        BY <1>0, <4>1, <4>2, CloseTypes
    <3>2. CASE attStatus[n] \in TERMINAL_STATUSES
      BY <1>0, <1>4, <3>2 DEF RecordJobError, RowTypes
    <3> QED
      BY <3>1, <3>2
  <2>2. hangupCause' \in [Attempts -> Causes]
    BY <1>0, <1>4 DEF RecordJobError, RowTypes, FlightTypes
  <2> QED
    BY <1>0, <1>1, <1>4, <2>1, <2>2 DEF RecordJobError, RowTypes
<1>5. CASE RecordHangup(n)
  <2>1. CASE attStatus[n] \in TERMINAL_STATUSES
    BY <1>0, <1>1, <1>5, <2>1 DEF RecordHangup, RowTypes
  <2>2. CASE attStatus[n] \notin TERMINAL_STATUSES
    <3>1. PICK cause \in Causes, verdict \in TERMINAL_STATUSES :
            /\ CloseAttempts({n}, [m \in {n} |-> verdict])
            /\ hangupCause' = [hangupCause EXCEPT ![n] = cause]
      <4> DEFINE cause == IF hangupCause[n] = "fatal" THEN "fatal" ELSE endCause[n]
                 answered == DirectAnswerEvidence(n) \/ AnswerEvidenceFromRaw(n)
      <4>1. cause \in Causes
        BY <1>0 DEF RowTypes, FlightTypes, Causes, ReportedCauses
      <4>2. answered \in BOOLEAN
        BY <1>0, Zenon DEF RowTypes, FlightTypes, DirectAnswerEvidence, AnswerEvidenceFromRaw
      <4>3. /\ CloseAttempts({n}, [m \in {n} |-> deriveTerminalStatus(cause, answered)])
            /\ hangupCause' = [hangupCause EXCEPT ![n] = cause]
        BY <1>5, <2>2, Zenon DEF RecordHangup
      <4> HIDE DEF cause, answered
      <4> QED
        BY <4>1, <4>2, <4>3, VerdictIsTerminal
    <3>2. \A m \in {n} : [k \in {n} |-> verdict][m] \in TERMINAL_STATUSES
      OBVIOUS
    <3>3. /\ taskStatus' \in Statuses
          /\ endedAt' \in (0 .. MaxAttempts) \cup {NoTime}
          /\ attStatus' \in [Attempts -> AttemptStatuses]
          /\ history' \in [Attempts -> TERMINAL_STATUSES \cup {"none"}]
      BY <1>0, <3>1, <3>2, CloseTypes
    <3>4. hangupCause' \in [Attempts -> Causes]
      BY <1>0, <3>1 DEF RowTypes
    <3>5. /\ \E b \in BOOLEAN : answeredAt' = [answeredAt EXCEPT ![n] = @ \/ b]
          /\ calledAt' \in {n, calledAt}
      <4>1. PICK plausible \in BOOLEAN :
              LET backfilled == /\ plausible
                                /\ DirectAnswerEvidence(n) \/ AnswerEvidenceFromRaw(n)
                                /\ ~DirectAnswerEvidence(n)
              IN  /\ answeredAt' = [answeredAt EXCEPT ![n] = @ \/ backfilled]
                  /\ calledAt' = IF backfilled /\ IsLatest(n) /\ calledAt = NoTime
                                 THEN n ELSE calledAt
        BY <1>5, <2>2, Zenon DEF RecordHangup
      <4> QED
        BY <4>1, Zenon
    <3>6. answeredAt' \in [Attempts -> BOOLEAN]
      BY <1>0, <3>5, Zenon DEF RowTypes
    <3>7. calledAt' \in (0 .. MaxAttempts) \cup {NoTime}
      BY <1>0, <3>5 DEF RowTypes
    <3> QED
      BY <1>0, <1>1, <3>3, <3>4, <3>6, <3>7 DEF RowTypes
  <2> QED
    BY <2>1, <2>2
<1> QED
  BY <1>2, <1>3, <1>4, <1>5 DEF RecordProviderCallEvent

LEMMA SnapshotRows ==
  ASSUME TypeOK, RecordProviderActiveSnapshot
  PROVE  RowTypes'
<1>0. RowTypes
  BY TypeParts
<1>1. PICK absent \in SUBSET Attempts, lost \in SUBSET Attempts, reset \in SUBSET Attempts :
        /\ missing' = [n \in Attempts |->
                         IF n \in absent THEN IF n \in lost THEN 2 ELSE 1
                         ELSE IF n \in reset THEN 0 ELSE missing[n]]
        /\ CloseAttempts(lost, [n \in lost |-> closingStatus(hangupCause[n], answeredAt[n])])
        /\ hangupCause' = [n \in Attempts |->
                             IF n \in lost /\ hangupCause[n] = "none"
                             THEN EVENT_LOSS_RECONCILED ELSE hangupCause[n]]
        /\ UNCHANGED <<attemptCount, calledAt, channel, answeredAt>>
  <2> DEFINE scanned == {n \in Attempts : /\ channel[n] = "freeswitch"
                                          /\ attStatus[n] \in ActiveStatuses
                                          /\ jobId[n]}
             absent == {n \in scanned : n \notin snapshot.active /\ n \in snapshot.settled}
             lost == {n \in absent : MissingTwice(n)}
  <2>1. absent \in SUBSET Attempts /\ lost \in SUBSET Attempts /\ scanned \in SUBSET Attempts
    OBVIOUS
  <2> QED
    BY <2>1, Zenon DEF RecordProviderActiveSnapshot
<1>2. \A n \in lost : [m \in lost |-> closingStatus(hangupCause[m], answeredAt[m])][n]
                        \in TERMINAL_STATUSES
  BY <1>0, VerdictIsTerminal DEF RowTypes
<1>3. /\ taskStatus' \in Statuses
      /\ endedAt' \in (0 .. MaxAttempts) \cup {NoTime}
      /\ attStatus' \in [Attempts -> AttemptStatuses]
      /\ history' \in [Attempts -> TERMINAL_STATUSES \cup {"none"}]
  BY <1>0, <1>1, <1>2, CloseTypes
<1>4. missing' \in [Attempts -> 0 .. 2]
  BY <1>0, <1>1 DEF RowTypes
<1>5. hangupCause' \in [Attempts -> Causes]
  BY <1>0, <1>1 DEF RowTypes, EVENT_LOSS_RECONCILED, Causes, ReportedCauses
<1> QED
  BY <1>0, <1>1, <1>3, <1>4, <1>5 DEF RowTypes

LEMMA ReapRows ==
  ASSUME TypeOK, ReapStaleActiveCalls
  PROVE  RowTypes'
<1>0. RowTypes
  BY TypeParts
<1> DEFINE verdict == [n \in Overdue |-> closingStatus(hangupCause[n],
                                            answeredAt[n] \/ attStatus[n] = "IN_CALL")]
<1>1. /\ CloseAttempts(Overdue, verdict)
      /\ hangupCause' = [n \in Attempts |->
                           IF n \in Overdue /\ hangupCause[n] = "none"
                           THEN STALE_CALL_REAPED ELSE hangupCause[n]]
      /\ UNCHANGED <<attemptCount, calledAt, channel, answeredAt, missing>>
  BY Zenon DEF ReapStaleActiveCalls
<1>2. Overdue \in SUBSET Attempts
  BY DEF Overdue
<1>3. \A n \in Overdue : verdict[n] \in TERMINAL_STATUSES
  BY <1>0, <1>2, VerdictIsTerminal DEF RowTypes
<1> HIDE DEF verdict
<1>4. /\ taskStatus' \in Statuses
      /\ endedAt' \in (0 .. MaxAttempts) \cup {NoTime}
      /\ attStatus' \in [Attempts -> AttemptStatuses]
      /\ history' \in [Attempts -> TERMINAL_STATUSES \cup {"none"}]
  BY <1>0, <1>1, <1>2, <1>3, CloseTypes
<1>5. hangupCause' \in [Attempts -> Causes]
  BY <1>0, <1>1 DEF RowTypes, STALE_CALL_REAPED, Causes, ReportedCauses
<1> QED
  BY <1>0, <1>1, <1>4, <1>5 DEF RowTypes

LEMMA DispatchRows ==
  ASSUME RowTypes, NEW ch \in Channels, Dispatch(ch)
  PROVE  RowTypes'
<1>1. "CALLING" \in Statuses
  BY DEF Statuses
<1> QED
  BY <1>1 DEF RowTypes, Dispatch, AttemptStatuses, Attempts, recordVars

LEMMA OutboxFailsRows ==
  ASSUME RowTypes, NEW w \in Workers, OutboxFails(w)
  PROVE  RowTypes'
<1>1. "FAILED" \in Statuses /\ "unlisted" \in Causes
  BY DEF Statuses, Causes, ReportedCauses
<1>2. /\ \/ /\ attStatus' = [attStatus EXCEPT ![ev[w]] = "FAILED"]
            /\ hangupCause' = [hangupCause EXCEPT ![ev[w]] = "unlisted"]
         \/ UNCHANGED <<attStatus, hangupCause>>
      /\ \/ taskStatus' = "FAILED" /\ endedAt' = attemptCount
         \/ UNCHANGED <<taskStatus, endedAt>>
      /\ UNCHANGED <<attemptCount, calledAt, channel, answeredAt, missing, history>>
  BY DEF OutboxFails, recordVars
<1> QED
  BY <1>1, <1>2 DEF RowTypes, AttemptStatuses

(* The steps that write a task, an attempt, an event or the history; every *)
(* other step leaves those rows alone.                                     *)
RowsUnchanged == UNCHANGED <<taskVars, attemptVars, recordVars>>

StatusReport(n, status) ==
  /\ UpdateStatus(n, status)
  /\ \/ n = 0 /\ status \in OperatorStatuses
     \/ n \in Attempts /\ status = "IN_CALL" /\ ("requests" \in Stale \/ IsLatest(n))

LEMMA StepKinds ==
  ASSUME [Next]_vars
  PROVE  \/ RowsUnchanged
         \/ \E ch \in Channels : Dispatch(ch)
         \/ \E n \in 0 .. MaxAttempts, status \in Statuses : StatusReport(n, status)
         \/ \E n \in 0 .. MaxAttempts : FinalizeLocalHangup(n)
         \/ \E n \in Attempts : RecordProviderCallEvent(n)
         \/ RecordProviderActiveSnapshot
         \/ ReapStaleActiveCalls
         \/ \E w \in Workers : OutboxFails(w)
<1>1. CASE UNCHANGED vars
  BY <1>1 DEF vars, RowsUnchanged, taskVars, attemptVars, recordVars
<1>2. CASE OperatorUpdatesStatus
  <2>1. PICK status \in OperatorStatuses : UpdateStatus(0, status)
    BY <1>2 DEF OperatorUpdatesStatus
  <2>2. 0 \in 0 .. MaxAttempts /\ status \in Statuses
    OBVIOUS
  <2> QED
    BY <2>1, <2>2 DEF StatusReport
<1>3. ASSUME NEW n \in Attempts, AgentReportsInCall(n)
      PROVE  \E m \in 0 .. MaxAttempts, status \in Statuses : StatusReport(m, status)
  BY <1>3, AttemptsAreNumbers DEF AgentReportsInCall, StatusReport, Statuses
<1>4. ASSUME NEW n, RequestHangup(n) \/ HangupAccepted(n) \/ Tick(n) \/ FreeSwitch(n)
      PROVE  RowsUnchanged
  BY <1>4, Zenon DEF RequestHangup, HangupAccepted, Tick, FreeSwitch, ChannelRings, ChannelAnswered,
     ChannelEnds, OriginateJobFails, RowsUnchanged
<1>5. ASSUME TakeSnapshot \/ LoseSnapshot PROVE RowsUnchanged
  BY <1>5, Zenon DEF TakeSnapshot, LoseSnapshot, RowsUnchanged
<1>6. ASSUME NEW w \in Workers, OutboxInternal(w) \/ \E reply \in Replies : OutboxOriginates(w, reply)
      PROVE  RowsUnchanged
  BY <1>6, Zenon DEF OutboxInternal, OutboxOriginates, RowsUnchanged
<1> QED
  BY <1>1, <1>2, <1>3, <1>4, <1>5, <1>6 DEF Next

LEMMA RowStep ==
  ASSUME TypeOK, [Next]_vars
  PROVE  RowTypes'
<1>0. RowTypes
  BY TypeParts
<1>1. CASE RowsUnchanged
  BY <1>0, <1>1 DEF RowsUnchanged, RowTypes, taskVars, attemptVars, recordVars
<1> QED
  BY <1>0, <1>1, StepKinds, DispatchRows, UpdateStatusRows, FinalizeRows, RecordRows,
     SnapshotRows, ReapRows, OutboxFailsRows DEF StatusReport

LEMMA EndChannelTypes ==
  ASSUME FlightTypes, NEW n, NEW c \in Causes, EndChannel(n, c)
  PROVE  /\ chan' \in [Attempts -> ChannelStates]
         /\ picked' \in [Attempts -> BOOLEAN]
         /\ endCause' \in [Attempts -> Causes]
         /\ emitted' \in [Attempts -> SUBSET AllEventKinds]
BY DEF EndChannel, FlightTypes, ChannelStates

LEMMA FlightStep ==
  ASSUME TypeOK, [Next]_vars
  PROVE  FlightTypes'
<1>0. FlightTypes
  BY TypeParts
<1> USE AttemptsAreNumbers DEF FlightTypes
<1>1. ASSUME NEW ch \in Channels, Dispatch(ch) PROVE FlightTypes'
  BY <1>0, <1>1 DEF Dispatch, recordVars, flightVars, switchVars
<1>2. ASSUME NEW n \in 0 .. MaxAttempts, NEW status \in Statuses, StatusReport(n, status)
      PROVE  FlightTypes'
  <2>1. /\ \/ age' = [age EXCEPT ![n] = IF @ = "stale" THEN "settled" ELSE @]
           \/ UNCHANGED age
        /\ UNCHANGED <<recordVars, flightVars, switchVars>>
    BY <1>2 DEF StatusReport, UpdateStatus, Answered
  <2>2. age' \in [Attempts -> Ages]
    BY <1>0, <2>1 DEF Ages
  <2> QED
    BY <1>0, <2>1, <2>2 DEF recordVars, flightVars, switchVars
<1>3. ASSUME NEW n \in 0 .. MaxAttempts, RequestHangup(n) PROVE FlightTypes'
  BY <1>0, <1>3 DEF RequestHangup, recordVars, switchVars
<1>4. ASSUME NEW n \in 0 .. MaxAttempts, HangupAccepted(n) PROVE FlightTypes'
  <2>1. "no_answer" \in Causes
    BY DEF Causes, ReportedCauses
  <2> QED
    BY <1>0, <1>4, <2>1, EndChannelTypes DEF HangupAccepted, recordVars
<1>5. ASSUME NEW n \in 0 .. MaxAttempts, FinalizeLocalHangup(n) PROVE FlightTypes'
  BY <1>0, <1>5 DEF FinalizeLocalHangup, switchVars
<1>6. ASSUME NEW n \in Attempts, RecordProviderCallEvent(n) PROVE FlightTypes'
  <2>1. PICK e \in emitted[n] : /\ seen' = [seen EXCEPT ![n] = @ \cup {e}]
                                /\ UNCHANGED <<flightVars, switchVars>>
    BY <1>6 DEF RecordProviderCallEvent, RecordProgress, RecordAnswer, RecordJobError,
       RecordHangup, NewEvent
  <2>2. \/ age' = [age EXCEPT ![n] = IF @ = "stale" THEN "settled" ELSE @]
        \/ UNCHANGED age
    BY <1>6 DEF RecordProviderCallEvent, RecordProgress, RecordAnswer, RecordJobError,
       RecordHangup, Answered
  <2>3. seen' \in [Attempts -> SUBSET AllEventKinds]
    BY <1>0, <2>1
  <2>4. age' \in [Attempts -> Ages]
    BY <1>0, <2>2 DEF Ages
  <2> QED
    BY <1>0, <2>1, <2>3, <2>4 DEF flightVars, switchVars
<1>7. ASSUME TakeSnapshot \/ LoseSnapshot PROVE FlightTypes'
  <2>1. snapshot' \in [active : SUBSET Attempts, settled : SUBSET Attempts, sent : BOOLEAN]
    <3>1. \E a, b \in SUBSET Attempts, c \in BOOLEAN :
            snapshot' = [active |-> a, settled |-> b, sent |-> c]
      <4>1. CASE TakeSnapshot
        <5>1. /\ {n \in Attempts : chan[n] \in {"ringing", "answered"}} \in SUBSET Attempts
              /\ {n \in Attempts : age[n] # "fresh"} \in SUBSET Attempts
          OBVIOUS
        <5> QED
          BY <4>1, <5>1, Zenon DEF TakeSnapshot
      <4>2. CASE LoseSnapshot
        <5>1. {} \in SUBSET Attempts
          OBVIOUS
        <5> QED
          BY <4>2, <5>1, Zenon DEF LoseSnapshot, NoSnapshot
      <4> QED
        BY <1>7, <4>1, <4>2
    <3> QED
      BY <3>1
  <2>2. UNCHANGED <<recordVars, hangups, age, switchVars>>
    BY <1>7, Zenon DEF TakeSnapshot, LoseSnapshot
  <2> QED
    BY <1>0, <2>1, <2>2 DEF recordVars, switchVars
<1>8. CASE RecordProviderActiveSnapshot
  BY <1>0, <1>8 DEF RecordProviderActiveSnapshot, NoSnapshot, switchVars
<1>9. CASE ReapStaleActiveCalls
  BY <1>0, <1>9 DEF ReapStaleActiveCalls, flightVars, switchVars
<1>10. ASSUME NEW n \in Attempts, Tick(n) PROVE FlightTypes'
  BY <1>0, <1>10 DEF Tick, Ages, recordVars, flightVars, switchVars
<1>11. ASSUME NEW n \in Attempts, FreeSwitch(n) PROVE FlightTypes'
  <2>1. CASE ChannelRings(n)
    BY <1>0, <2>1 DEF ChannelRings, ChannelStates, recordVars, flightVars
  <2>2. CASE ChannelAnswered(n)
    BY <1>0, <2>2 DEF ChannelAnswered, ChannelStates, recordVars, flightVars
  <2>3. ASSUME NEW c \in HangupCauses, ChannelEnds(n, c) PROVE FlightTypes'
    <3>1. c \in Causes
      BY DEF Causes
    <3> QED
      BY <1>0, <2>3, <3>1, EndChannelTypes DEF ChannelEnds, recordVars, flightVars
  <2>4. ASSUME NEW c \in HangupCauses, OriginateJobFails(n, c) PROVE FlightTypes'
    <3>1. c \in Causes
      BY DEF Causes
    <3> QED
      BY <1>0, <2>4, <3>1 DEF OriginateJobFails, ChannelStates, recordVars, flightVars
  <2> QED
    BY <1>11, <2>1, <2>2, <2>3, <2>4 DEF FreeSwitch
<1>12. ASSUME NEW w \in Workers, OutboxInternal(w) \/ OutboxFails(w) PROVE FlightTypes'
  <2>1. UNCHANGED <<recordVars, flightVars, age, chan, picked, endCause, emitted>>
    BY <1>12, Zenon DEF OutboxInternal, OutboxFails
  <2> QED
    BY <1>0, <2>1 DEF recordVars, flightVars
<1>13. ASSUME NEW w \in Workers, NEW reply \in Replies, OutboxOriginates(w, reply)
       PROVE  FlightTypes'
  <2>1. /\ chan' = [chan EXCEPT ![ev[w]] = "queued"] \/ UNCHANGED chan
        /\ UNCHANGED <<recordVars, flightVars, age, picked, endCause, emitted>>
    BY <1>13 DEF OutboxOriginates
  <2> QED
    BY <1>0, <2>1 DEF recordVars, flightVars, ChannelStates
<1>14. CASE UNCHANGED vars
  BY <1>0, <1>14 DEF vars
<1>15. ASSUME OperatorUpdatesStatus PROVE FlightTypes'
  <2>1. 0 \in 0 .. MaxAttempts
    OBVIOUS
  <2> QED
    BY <1>2, <1>15, <2>1 DEF OperatorUpdatesStatus, StatusReport
<1>16. ASSUME NEW n \in Attempts, AgentReportsInCall(n) PROVE FlightTypes'
  <2>1. "IN_CALL" \in Statuses
    BY DEF Statuses
  <2> QED
    BY <1>2, <1>16, <2>1 DEF AgentReportsInCall, StatusReport
<1> HIDE DEF FlightTypes
<1> QED
  BY <1>1, <1>3, <1>4, <1>5, <1>6, <1>7, <1>8, <1>9, <1>10, <1>11, <1>12, <1>13, <1>14,
     <1>15, <1>16 DEF Next

LEMMA SetOutboxType ==
  ASSUME WorkerTypes, NEW n, NEW status \in Dispatcher!EventStatus,
         Dispatcher!SetOutbox(n, status)
  PROVE  outbox' \in OutboxRows
<1>1. \A m \in Attempts : [outbox[m] EXCEPT !.status = status]
                           \in [status : Dispatcher!EventStatus, attempts : 0 .. MaxTries]
  BY DEF WorkerTypes, OutboxRows
<1> QED
  BY <1>1 DEF WorkerTypes, OutboxRows, Dispatcher!SetOutbox

LEMMA NextOfBatchTypes ==
  ASSUME WorkerTypes, NEW w \in Workers, Dispatcher!NextOfBatch(w)
  PROVE  /\ pc' \in [Workers -> Dispatcher!PC]
         /\ ev' \in [Workers -> Attempts \cup {Dispatcher!None}]
         /\ loaded' \in [Workers -> [Attempts -> (0 .. MaxTries) \cup {Dispatcher!NotLoaded}]]
BY DEF WorkerTypes, Dispatcher!NextOfBatch, Dispatcher!Goto, Dispatcher!PC

LEMMA InternalTypes ==
  ASSUME WorkerTypes, NEW w \in Workers, OutboxInternal(w)
  PROVE  WorkerTypes'
<1> USE DEF WorkerTypes
<1>1. ASSUME NEW n \in Attempts, Dispatcher!RecoverExpiredLeases(w, n)
      PROVE  WorkerTypes'
  <2>1. outbox' \in OutboxRows
    BY <1>1, SetOutboxType DEF Dispatcher!RecoverExpiredLeases, Dispatcher!EventStatus
  <2> QED
    BY <1>1, <2>1 DEF Dispatcher!RecoverExpiredLeases, Dispatcher!workerVars, Dispatcher!switchVars
<1>2. ASSUME NEW due \in SUBSET Attempts, Dispatcher!RunBatch(w, due)
      PROVE  WorkerTypes'
  BY <1>2 DEF Dispatcher!RunBatch, Dispatcher!Goto, Dispatcher!PC, Dispatcher!dbVars,
     Dispatcher!switchVars, OutboxRows
<1>3. ASSUME NEW n \in Attempts, Dispatcher!Claim(w, n)
      PROVE  WorkerTypes'
  <2>1. pc' \in [Workers -> Dispatcher!PC]
    BY ZenonT(40), <1>3 DEF Dispatcher!Claim, Dispatcher!Goto, Dispatcher!PC
  <2>2. outbox' \in OutboxRows
    <3>1. PICK k \in 0 .. MaxTries :
            \/ outbox' = [outbox EXCEPT ![n] = [status |-> "processing", attempts |-> k]]
            \/ UNCHANGED outbox
      <4>1. Dispatcher!Increment(outbox[n].attempts) \in 0 .. MaxTries
        BY DEF Dispatcher!Increment, OutboxRows
      <4>2. \/ outbox' = [outbox EXCEPT ![n] = [status |-> "processing",
                            attempts |-> Dispatcher!Increment(outbox[n].attempts)]]
            \/ UNCHANGED outbox
        BY <1>3 DEF Dispatcher!Claim, OutboxRows
      <4> QED
        BY <4>1, <4>2
    <3> QED
      BY <3>1 DEF OutboxRows, Dispatcher!EventStatus
  <2>3. loaded' \in [Workers -> [Attempts -> (0 .. MaxTries) \cup {Dispatcher!NotLoaded}]]
    <3>1. \/ loaded' = [loaded EXCEPT ![w] = [loaded[w] EXCEPT ![n] = Dispatcher!NotLoaded]]
          \/ UNCHANGED loaded
      BY <1>3, Zenon DEF Dispatcher!Claim
    <3>2. [loaded[w] EXCEPT ![n] = Dispatcher!NotLoaded]
            \in [Attempts -> (0 .. MaxTries) \cup {Dispatcher!NotLoaded}]
      OBVIOUS
    <3> QED
      BY <3>1, <3>2
  <2>4. ev' \in [Workers -> Attempts \cup {Dispatcher!None}]
    <3>1. ev' = [ev EXCEPT ![w] = n] \/ UNCHANGED ev
      BY <1>3, Zenon DEF Dispatcher!Claim
    <3> QED
      BY <3>1
  <2> QED
    BY <1>3, <2>1, <2>2, <2>3, <2>4 DEF Dispatcher!Claim, Dispatcher!switchVars
<1>4. ASSUME Dispatcher!ReadAttempt(w) \/ Dispatcher!StatementThrows(w)
      PROVE  WorkerTypes'
  <2>1. PICK label \in Dispatcher!PC : Dispatcher!Goto(w, label)
    BY <1>4, Zenon DEF Dispatcher!ReadAttempt, Dispatcher!StatementThrows, Dispatcher!PC
  <2>2. UNCHANGED <<Dispatcher!dbVars, Dispatcher!switchVars, ev, loaded, crashes>>
    BY <1>4, Zenon DEF Dispatcher!ReadAttempt, Dispatcher!StatementThrows
  <2> QED
    BY <2>1, <2>2 DEF Dispatcher!Goto, Dispatcher!dbVars, Dispatcher!switchVars, OutboxRows
<1>5. ASSUME Dispatcher!WriteMarker(w)
      PROVE  WorkerTypes'
  BY <1>5 DEF Dispatcher!WriteMarker, Dispatcher!Goto, Dispatcher!PC, Dispatcher!switchVars, OutboxRows
<1>6. ASSUME Dispatcher!CommitJob(w) \/ Dispatcher!MarkDispatchProcessed(w)
               \/ Dispatcher!DeadLetterDispatch(w)
      PROVE  WorkerTypes'
  <2>1. outbox' \in OutboxRows
    BY <1>6, SetOutboxType DEF Dispatcher!CommitJob, Dispatcher!MarkDispatchProcessed,
       Dispatcher!DeadLetterDispatch, Dispatcher!EventStatus
  <2>2. /\ Dispatcher!NextOfBatch(w)
        /\ jobId' = [jobId EXCEPT ![ev[w]] = TRUE] \/ UNCHANGED jobId
        /\ UNCHANGED <<marker, crashes, Dispatcher!switchVars>>
    BY <1>6 DEF Dispatcher!CommitJob, Dispatcher!MarkDispatchProcessed,
       Dispatcher!DeadLetterDispatch
  <2> QED
    BY <2>1, <2>2, NextOfBatchTypes DEF Dispatcher!switchVars
<1>7. ASSUME Dispatcher!Crash(w)
      PROVE  WorkerTypes'
  BY <1>7 DEF Dispatcher!Crash, Dispatcher!Goto, Dispatcher!PC, Dispatcher!dbVars,
     Dispatcher!switchVars, OutboxRows
<1> QED
  BY <1>1, <1>2, <1>3, <1>4, <1>5, <1>6, <1>7 DEF OutboxInternal, Dispatcher!StartTick

LEMMA OriginatesTypes ==
  ASSUME WorkerTypes, NEW w \in Workers, NEW reply \in Replies, OutboxOriginates(w, reply)
  PROVE  WorkerTypes'
<1>1. Dispatcher!Originate(w, reply)
  BY DEF OutboxOriginates
<1>2. PICK label \in Dispatcher!PC : Dispatcher!Goto(w, label)
  BY <1>1 DEF Dispatcher!Originate, Dispatcher!PC, Dispatcher!AllReplies
<1>3. dials' \in [Attempts -> 0 .. 2]
  <2>1. \/ UNCHANGED dials
        \/ dials' = [dials EXCEPT ![ev[w]] = IF @ < 2 THEN @ + 1 ELSE @]
    BY <1>1 DEF Dispatcher!Originate, Dispatcher!switchVars
  <2>2. \A n \in Attempts : (IF dials[n] < 2 THEN dials[n] + 1 ELSE dials[n]) \in 0 .. 2
    BY DEF WorkerTypes
  <2> QED
    BY <2>1, <2>2 DEF WorkerTypes
<1>4. UNCHANGED <<jobId, marker, outbox, ev, loaded, crashes>>
  BY <1>1 DEF Dispatcher!Originate, Dispatcher!dbVars
<1> QED
  BY <1>2, <1>3, <1>4 DEF WorkerTypes, Dispatcher!Goto, OutboxRows

LEMMA FailsTypes ==
  ASSUME WorkerTypes, NEW w \in Workers, OutboxFails(w)
  PROVE  WorkerTypes'
<1>1. Dispatcher!HandleFailure(w)
  BY DEF OutboxFails
<1>2. outbox' \in OutboxRows
  <2>1. PICK status \in Dispatcher!EventStatus : Dispatcher!SetOutbox(ev[w], status)
    BY <1>1 DEF Dispatcher!HandleFailure, Dispatcher!EventStatus
  <2> QED
    BY <2>1, SetOutboxType
<1>3. /\ Dispatcher!NextOfBatch(w)
      /\ UNCHANGED <<jobId, marker, crashes, dials>>
  BY <1>1 DEF Dispatcher!HandleFailure, Dispatcher!switchVars
<1> QED
  BY <1>2, <1>3, NextOfBatchTypes DEF WorkerTypes

(* The steps of the outbox workers and of dispatch; every other step       *)
(* leaves the workers' rows and memory alone.                              *)
WorkersUnchanged == UNCHANGED <<outboxVars, dials>>

LEMMA WorkerKinds ==
  ASSUME [Next]_vars
  PROVE  \/ WorkersUnchanged
         \/ \E ch \in Channels : Dispatch(ch)
         \/ \E w \in Workers : \/ OutboxInternal(w) \/ OutboxFails(w)
                               \/ \E reply \in Replies : OutboxOriginates(w, reply)
<1>1. CASE UNCHANGED vars
  BY <1>1 DEF vars, WorkersUnchanged, outboxVars
<1>2. ASSUME NEW n, NEW status, UpdateStatus(n, status)
      PROVE  WorkersUnchanged
  BY <1>2 DEF UpdateStatus, WorkersUnchanged, switchVars
<1>3. ASSUME NEW n, \/ RequestHangup(n) \/ HangupAccepted(n) \/ FinalizeLocalHangup(n)
                    \/ Tick(n) \/ FreeSwitch(n)
      PROVE  WorkersUnchanged
  BY <1>3 DEF RequestHangup, HangupAccepted, FinalizeLocalHangup, Tick, FreeSwitch, ChannelRings,
     ChannelAnswered, ChannelEnds, EndChannel, OriginateJobFails, WorkersUnchanged, switchVars
<1>4. ASSUME NEW n, RecordProviderCallEvent(n)
      PROVE  WorkersUnchanged
  BY <1>4 DEF RecordProviderCallEvent, RecordProgress, RecordAnswer, RecordJobError, RecordHangup,
     NewEvent, WorkersUnchanged, switchVars
<1>5. ASSUME TakeSnapshot \/ LoseSnapshot \/ RecordProviderActiveSnapshot \/ ReapStaleActiveCalls
      PROVE  WorkersUnchanged
  BY <1>5 DEF TakeSnapshot, LoseSnapshot, RecordProviderActiveSnapshot, ReapStaleActiveCalls,
     WorkersUnchanged, switchVars
<1> QED
  BY <1>1, <1>2, <1>3, <1>4, <1>5 DEF Next, OperatorUpdatesStatus, AgentReportsInCall

LEMMA WorkerStep ==
  ASSUME TypeOK, [Next]_vars
  PROVE  WorkerTypes'
<1>0. WorkerTypes
  BY TypeParts
<1>1. CASE WorkersUnchanged
  BY <1>0, <1>1 DEF WorkersUnchanged, WorkerTypes, OutboxRows, outboxVars
<1>2. ASSUME NEW ch \in Channels, Dispatch(ch) PROVE WorkerTypes'
  <2>1. /\ Dispatcher!SetOutbox(attemptCount + 1, "pending") \/ UNCHANGED outbox
        /\ UNCHANGED <<jobId, marker, pc, ev, loaded, crashes, dials>>
    BY <1>2 DEF Dispatch, Dispatcher!SetOutbox, switchVars
  <2>2. outbox' \in OutboxRows
    BY <1>0, <2>1, SetOutboxType DEF WorkerTypes, Dispatcher!EventStatus
  <2> QED
    BY <1>0, <2>1, <2>2 DEF WorkerTypes
<1> QED
  BY <1>0, <1>1, <1>2, WorkerKinds, InternalTypes, OriginatesTypes, FailsTypes

LEMMA TypeStep == TypeOK /\ [Next]_vars => TypeOK'
<1> SUFFICES ASSUME TypeOK, [Next]_vars PROVE TypeOK'
  OBVIOUS
<1>1. RowTypes' /\ FlightTypes' /\ WorkerTypes'
  BY RowStep, FlightStep, WorkerStep
<1> QED
  BY <1>1, TypeParts, PTL

(* Rows, requests, worker memory and channels keep their types in every    *)
(* behaviour, work that outlives a redial included.                        *)
THEOREM CallTypes == Spec => []TypeOK
BY InitTypes, TypeStep, PTL DEF Spec
-----------------------------------------------------------------------------
(* The composed system implements OutboxDispatch.  An attempt that was not *)
(* opened has no event and no worker; channels and events exist only for   *)
(* placed calls.                                                           *)
NotYetOpened ==
  /\ \A n \in Attempts : n > attemptCount => outbox[n].status = "none"
  /\ \A w \in Workers : ev[w] \in Attempts => ev[w] <= attemptCount

EventsOfCalls == \A n \in Attempts : chan[n] # "none" \/ emitted[n] # {} => dials[n] > 0

LEMMA CountGrows ==
  ASSUME TypeOK, [Next]_vars, ~\E ch \in Channels : Dispatch(ch)
  PROVE  attemptCount' = attemptCount
<1>1. ASSUME NEW n \in Attempts, RecordProviderCallEvent(n) PROVE attemptCount' = attemptCount
  BY <1>1 DEF RecordProviderCallEvent, RecordProgress, RecordAnswer, RecordJobError, RecordHangup,
     NewEvent
<1>2. ASSUME RowsUnchanged PROVE attemptCount' = attemptCount
  BY <1>2 DEF RowsUnchanged, taskVars
<1> QED
  BY <1>1, <1>2, StepKinds DEF StatusReport, UpdateStatus, FinalizeLocalHangup,
     RecordProviderActiveSnapshot, ReapStaleActiveCalls, OutboxFails

LEMMA OpenedStep ==
  ASSUME TypeOK, NotYetOpened, [Next]_vars
  PROVE  NotYetOpened'
<1>0. /\ attemptCount \in Nat
      /\ WorkerTypes
      /\ Attempts \subseteq Nat
  BY TypeParts DEF RowTypes, Attempts
<1>1. CASE WorkersUnchanged /\ ~\E ch \in Channels : Dispatch(ch)
  BY <1>0, <1>1, CountGrows DEF NotYetOpened, WorkersUnchanged, outboxVars
<1>2. ASSUME NEW ch \in Channels, Dispatch(ch) PROVE NotYetOpened'
  <2>1. /\ attemptCount' = attemptCount + 1
        /\ UNCHANGED ev
        /\ \A n \in Attempts : n # attemptCount + 1 => outbox'[n] = outbox[n]
    BY <1>0, <1>2 DEF Dispatch, WorkerTypes, OutboxRows
  <2>2. ASSUME NEW n \in Attempts, n > attemptCount'
        PROVE  outbox'[n].status = "none"
    BY <1>0, <2>1, <2>2 DEF NotYetOpened
  <2>3. ASSUME NEW w \in Workers, ev'[w] \in Attempts
        PROVE  ev'[w] <= attemptCount'
    <3>1. ev[w] \in Nat /\ ev[w] <= attemptCount
      BY <1>0, <2>1, <2>3 DEF NotYetOpened
    <3> QED
      BY <1>0, <2>1, <3>1
  <2> QED
    BY <2>2, <2>3 DEF NotYetOpened
<1>3. ASSUME NEW w \in Workers, OutboxInternal(w) \/ OutboxFails(w),
             attemptCount' = attemptCount
      PROVE  NotYetOpened'
  <2>1. PICK m \in Attempts \cup {Dispatcher!None} :
          /\ m \in Attempts => m <= attemptCount
          /\ \A n \in Attempts : n # m => outbox'[n].status = outbox[n].status
          /\ \A v \in Workers : ev'[v] \in {ev[v], m, Dispatcher!None}
    <3>1. ASSUME NEW n \in Attempts, Dispatcher!RecoverExpiredLeases(w, n) \/ Dispatcher!Claim(w, n),
                 outbox[n].status # "none"
          PROVE  /\ n <= attemptCount
                 /\ \A k \in Attempts : k # n => outbox'[k].status = outbox[k].status
                 /\ \A v \in Workers : ev'[v] \in {ev[v], n, Dispatcher!None}
      BY <1>0, <3>1 DEF NotYetOpened, WorkerTypes, OutboxRows, Dispatcher!RecoverExpiredLeases,
         Dispatcher!Claim, Dispatcher!SetOutbox, Dispatcher!workerVars
    <3>2. ASSUME NEW n \in Attempts, Dispatcher!Claim(w, n), outbox[n].status = "none"
          PROVE  UNCHANGED <<outbox, ev>>
      BY <3>2 DEF Dispatcher!Claim
    <3>3. ASSUME \/ \E due \in SUBSET Attempts : Dispatcher!RunBatch(w, due)
                 \/ Dispatcher!ReadAttempt(w) \/ Dispatcher!WriteMarker(w)
                 \/ Dispatcher!StatementThrows(w) \/ Dispatcher!Crash(w)
          PROVE  UNCHANGED outbox /\ \A v \in Workers : ev'[v] \in {ev[v], Dispatcher!None}
      BY <1>0, <3>3 DEF WorkerTypes, Dispatcher!RunBatch, Dispatcher!ReadAttempt,
         Dispatcher!WriteMarker, Dispatcher!StatementThrows, Dispatcher!Crash, Dispatcher!dbVars
    <3>4. ASSUME \/ Dispatcher!CommitJob(w) \/ Dispatcher!MarkDispatchProcessed(w)
                 \/ Dispatcher!DeadLetterDispatch(w) \/ Dispatcher!HandleFailure(w)
          PROVE  /\ ev[w] \in Attempts => ev[w] <= attemptCount
                 /\ \A k \in Attempts : k # ev[w] => outbox'[k].status = outbox[k].status
                 /\ \A v \in Workers : ev'[v] \in {ev[v], Dispatcher!None}
      <4>1. /\ \E status : Dispatcher!SetOutbox(ev[w], status)
            /\ Dispatcher!NextOfBatch(w)
        BY <3>4 DEF Dispatcher!CommitJob, Dispatcher!MarkDispatchProcessed,
           Dispatcher!DeadLetterDispatch, Dispatcher!HandleFailure
      <4> QED
        BY <1>0, <4>1 DEF NotYetOpened, WorkerTypes, OutboxRows, Dispatcher!SetOutbox,
           Dispatcher!NextOfBatch
    <3>5. Dispatcher!None \notin Attempts
      BY DEF Attempts, Dispatcher!None
    <3>6. ev[w] \in Attempts \cup {Dispatcher!None}
      BY <1>0 DEF WorkerTypes
    <3>7. CASE OutboxInternal(w)
      <4>1. ASSUME NEW n \in Attempts, Dispatcher!RecoverExpiredLeases(w, n)
            PROVE  outbox[n].status # "none"
        BY <4>1 DEF Dispatcher!RecoverExpiredLeases
      <4> QED
        BY <3>1, <3>2, <3>3, <3>4, <3>5, <3>6, <3>7, <4>1 DEF OutboxInternal, Dispatcher!StartTick
    <3>8. CASE OutboxFails(w)
      BY <3>4, <3>6, <3>8 DEF OutboxFails
    <3> QED
      BY <1>3, <3>7, <3>8
  <2>2. Dispatcher!None \notin Attempts
    BY DEF Attempts, Dispatcher!None
  <2> QED
    BY <1>0, <1>3, <2>1, <2>2 DEF NotYetOpened
<1>4. ASSUME NEW w \in Workers, NEW reply \in Replies, OutboxOriginates(w, reply)
      PROVE  NotYetOpened'
  BY <1>4 DEF OutboxOriginates, Dispatcher!Originate, Dispatcher!dbVars, taskVars, NotYetOpened
<1>5. ASSUME NEW w \in Workers, OutboxInternal(w) \/ OutboxFails(w)
      PROVE  attemptCount' = attemptCount
  BY <1>5 DEF OutboxInternal, OutboxFails, taskVars
<1> QED
  BY <1>1, <1>2, <1>3, <1>4, <1>5, WorkerKinds

LEMMA EventsStep ==
  ASSUME TypeOK, EventsOfCalls, [Next]_vars
  PROVE  EventsOfCalls'
<1>0. WorkerTypes /\ FlightTypes
  BY TypeParts
<1> USE DEF EventsOfCalls
<1>1. ASSUME UNCHANGED <<chan, emitted, dials>> PROVE EventsOfCalls'
  BY <1>1
<1>2. ASSUME NEW n, UNCHANGED dials,
             chan[n] # "none",
             \A m \in Attempts : m # n => chan'[m] = chan[m] /\ emitted'[m] = emitted[m]
      PROVE  EventsOfCalls'
  BY <1>2
<1>3. ASSUME NEW n \in Attempts, FreeSwitch(n) PROVE EventsOfCalls'
  <2>1. /\ chan[n] # "none"
        /\ UNCHANGED dials
        /\ \A m \in Attempts : m # n => chan'[m] = chan[m] /\ emitted'[m] = emitted[m]
    BY <1>0, <1>3 DEF FlightTypes, FreeSwitch, ChannelRings, ChannelAnswered, ChannelEnds,
       EndChannel, OriginateJobFails
  <2> QED
    BY <1>2, <2>1
<1>4. ASSUME NEW n \in 0 .. MaxAttempts, HangupAccepted(n) PROVE EventsOfCalls'
  <2>1. /\ chan[n] # "none"
        /\ UNCHANGED dials
        /\ \A m \in Attempts : m # n => chan'[m] = chan[m] /\ emitted'[m] = emitted[m]
    BY <1>0, <1>4 DEF FlightTypes, HangupAccepted, EndChannel
  <2> QED
    BY <1>2, <2>1
<1>5. ASSUME NEW w \in Workers, NEW reply \in Replies, OutboxOriginates(w, reply)
      PROVE  EventsOfCalls'
  <2>1. UNCHANGED emitted /\ Dispatcher!Originate(w, reply)
    BY <1>5 DEF OutboxOriginates
  <2>2. \A n \in Attempts : dials[n] > 0 => dials'[n] > 0
    <3>1. \/ UNCHANGED dials
          \/ dials' = [dials EXCEPT ![ev[w]] = IF @ < 2 THEN @ + 1 ELSE @]
      BY <2>1 DEF Dispatcher!Originate, Dispatcher!switchVars
    <3> QED
      BY <1>0, <3>1 DEF WorkerTypes
  <2>3. CASE UNCHANGED chan
    BY <2>1, <2>2, <2>3
  <2>4. CASE /\ chan[ev[w]] \notin LiveChannel
             /\ reply \in {"accepted", "lost", "garbled"}
             /\ chan' = [chan EXCEPT ![ev[w]] = "queued"]
    <3>1. CASE ev[w] \notin Attempts
      BY <1>0, <2>1, <2>2, <2>4, <3>1 DEF FlightTypes
    <3>2. CASE ev[w] \in Attempts
      <4>1. dials' = [dials EXCEPT ![ev[w]] = IF @ < 2 THEN @ + 1 ELSE @]
        BY <2>1, <2>4, <3>2 DEF Dispatcher!Originate
      <4>2. dials'[ev[w]] > 0
        BY <1>0, <3>2, <4>1 DEF WorkerTypes
      <4> QED
        BY <1>0, <2>1, <2>2, <2>4, <4>2 DEF FlightTypes
    <3> QED
      BY <3>1, <3>2
  <2> QED
    BY <1>5, <2>3, <2>4 DEF OutboxOriginates
<1>6. ASSUME NEW n \in 0 .. MaxAttempts, RequestHangup(n) \/ FinalizeLocalHangup(n)
      PROVE  UNCHANGED <<chan, emitted, dials>>
  BY <1>6 DEF RequestHangup, FinalizeLocalHangup, switchVars
<1>7. ASSUME NEW n \in Attempts, RecordProviderCallEvent(n) \/ Tick(n) \/ AgentReportsInCall(n)
      PROVE  UNCHANGED <<chan, emitted, dials>>
  BY <1>7 DEF RecordProviderCallEvent, RecordProgress, RecordAnswer, RecordJobError, RecordHangup,
     NewEvent, Tick, AgentReportsInCall, UpdateStatus, switchVars
<1>8. ASSUME \/ TakeSnapshot \/ LoseSnapshot \/ RecordProviderActiveSnapshot
             \/ ReapStaleActiveCalls \/ OperatorUpdatesStatus
             \/ \E ch \in Channels : Dispatch(ch)
      PROVE  UNCHANGED <<chan, emitted, dials>>
  BY <1>8 DEF TakeSnapshot, LoseSnapshot, RecordProviderActiveSnapshot, ReapStaleActiveCalls,
     OperatorUpdatesStatus, UpdateStatus, Dispatch, switchVars
<1>9. ASSUME NEW w \in Workers, OutboxInternal(w)
      PROVE  UNCHANGED <<chan, emitted, dials>>
  BY <1>9 DEF OutboxInternal, Dispatcher!StartTick, Dispatcher!RecoverExpiredLeases,
     Dispatcher!RunBatch, Dispatcher!Claim, Dispatcher!ReadAttempt, Dispatcher!WriteMarker,
     Dispatcher!CommitJob, Dispatcher!MarkDispatchProcessed, Dispatcher!DeadLetterDispatch,
     Dispatcher!StatementThrows, Dispatcher!Crash, Dispatcher!switchVars
<1>10. ASSUME NEW w \in Workers, OutboxFails(w)
      PROVE  UNCHANGED <<chan, emitted, dials>>
  BY <1>10 DEF OutboxFails, Dispatcher!HandleFailure, Dispatcher!switchVars
<1>11. CASE UNCHANGED vars
  BY <1>1, <1>11 DEF vars
<1> HIDE DEF EventsOfCalls
<1> QED
  BY <1>1, <1>3, <1>4, <1>5, <1>6, <1>7, <1>8, <1>9, <1>10, <1>11 DEF Next

(* What a step that is not the workers' may do in the eyes of the workers. *)
LEMMA EnvironmentStep ==
  ASSUME WorkersUnchanged,
         \A n \in Attempts :
           /\ attStatus'[n] = "CALLING" /\ channel'[n] = "freeswitch"
                => attStatus[n] = "CALLING" /\ channel[n] = "freeswitch"
           /\ chan'[n] \in LiveChannel => chan[n] \in LiveChannel
           /\ seen[n] # {} => seen'[n] # {}
           /\ seen'[n] # {} => seen[n] # {} \/ dials[n] > 0
  PROVE  Dispatcher!Environment
<1> DEFINE c == [n \in Attempts |-> attStatus'[n] = "CALLING" /\ channel'[n] = "freeswitch"]
           l == [n \in Attempts |-> chan'[n] \in LiveChannel]
           e == [n \in Attempts |-> seen'[n] # {}]
<1>1. c \in [Attempts -> BOOLEAN] /\ l \in [Attempts -> BOOLEAN] /\ e \in [Attempts -> BOOLEAN]
  OBVIOUS
<1>2. \E a, b \in [Attempts -> BOOLEAN] :
        /\ \A n \in Attempts :
             /\ a[n] => [m \in Attempts |-> attStatus[m] = "CALLING" /\ channel[m] = "freeswitch"][n]
             /\ b[n] => [m \in Attempts |-> chan[m] \in LiveChannel][n]
        /\ c = a
        /\ l = b
  <2>1. \A n \in Attempts :
             /\ c[n] => [m \in Attempts |-> attStatus[m] = "CALLING" /\ channel[m] = "freeswitch"][n]
             /\ l[n] => [m \in Attempts |-> chan[m] \in LiveChannel][n]
    BY Zenon
  <2> HIDE DEF c, l
  <2> QED
    BY <1>1, <2>1
<1>3. \E a \in [Attempts -> BOOLEAN] :
        /\ \A n \in Attempts : /\ [m \in Attempts |-> seen[m] # {}][n] => a[n]
                               /\ a[n] => [m \in Attempts |-> seen[m] # {}][n] \/ dials[n] > 0
        /\ e = a
  <2>1. \A n \in Attempts : /\ [m \in Attempts |-> seen[m] # {}][n] => e[n]
                            /\ e[n] => [m \in Attempts |-> seen[m] # {}][n] \/ dials[n] > 0
    BY Zenon
  <2> HIDE DEF e
  <2> QED
    BY <1>1, <2>1
<1>4. UNCHANGED <<jobId, marker, outbox, Dispatcher!workerVars, dials>>
  BY DEF WorkersUnchanged, outboxVars, Dispatcher!workerVars
<1> QED
  BY <1>2, <1>3, <1>4, Zenon DEF Dispatcher!Environment

(* How attempts are closed by events, snapshots and the reaper: only open  *)
(* ones that were called, and as NO_ANSWER only if they were not answered. *)
Closing(S, verdict) ==
  /\ S \in SUBSET Attempts
  /\ \A n \in S : /\ attStatus[n] \notin TERMINAL_STATUSES
                  /\ attStatus[n] \in ActiveStatuses \/ emitted[n] # {}
                  /\ verdict[n] \in TERMINAL_STATUSES
                  /\ verdict[n] = "NO_ANSWER" => ~answeredAt[n]
  /\ CloseAttempts(S, verdict)
  /\ UNCHANGED <<attemptCount, channel>>
  /\ \A n \in Attempts : answeredAt[n] => answeredAt'[n]

StatusesUnchanged == UNCHANGED <<taskStatus, attemptCount, attStatus, channel, answeredAt, history>>

LEMMA VerdictOfUnanswered ==
  ASSUME NEW cause \in Causes, NEW answered \in BOOLEAN
  PROVE  /\ deriveTerminalStatus(cause, answered) = "NO_ANSWER" => ~answered
         /\ closingStatus(cause, answered) = "NO_ANSWER" => ~answered
BY DEF Causes, ReportedCauses, deriveTerminalStatus, closingStatus

LEMMA JobErrorCloses ==
  ASSUME TypeOK, NEW n \in Attempts, RecordJobError(n)
  PROVE  StatusesUnchanged \/ \E verdict : Closing({n}, verdict)
<1>1. UNCHANGED <<attemptCount, channel, answeredAt>> /\ emitted[n] # {}
  BY DEF RecordJobError, NewEvent
<1>2. CASE attStatus[n] \in TERMINAL_STATUSES
  BY <1>1, <1>2 DEF RecordJobError, StatusesUnchanged
<1>3. CASE attStatus[n] \notin TERMINAL_STATUSES
  <2> DEFINE verdict == [m \in {n} |-> "FAILED"]
  <2>1. CloseAttempts({n}, verdict)
    BY <1>3 DEF RecordJobError
  <2>2. verdict[n] = "FAILED" /\ "FAILED" \in TERMINAL_STATUSES
    BY DEF TERMINAL_STATUSES
  <2> HIDE DEF verdict
  <2> QED
    BY <1>1, <1>3, <2>1, <2>2 DEF Closing
<1> QED
  BY <1>2, <1>3

LEMMA HangupCloses ==
  ASSUME TypeOK, NEW n \in Attempts, RecordHangup(n)
  PROVE  StatusesUnchanged \/ \E verdict : Closing({n}, verdict)
<1>0. RowTypes /\ FlightTypes
  BY TypeParts
<1>1. UNCHANGED <<attemptCount, channel>> /\ emitted[n] # {}
  BY DEF RecordHangup, NewEvent
<1>2. CASE attStatus[n] \in TERMINAL_STATUSES
  BY <1>1, <1>2 DEF RecordHangup, StatusesUnchanged
<1>3. CASE attStatus[n] \notin TERMINAL_STATUSES
  <2> DEFINE cause == IF hangupCause[n] = "fatal" THEN "fatal" ELSE endCause[n]
             answered == DirectAnswerEvidence(n) \/ AnswerEvidenceFromRaw(n)
             verdict == [m \in {n} |-> deriveTerminalStatus(cause, answered)]
  <2>1. cause \in Causes
    BY <1>0 DEF RowTypes, FlightTypes, Causes, ReportedCauses
  <2>2. answered \in BOOLEAN /\ (answeredAt[n] => answered)
    BY <1>0, Zenon DEF RowTypes, FlightTypes, DirectAnswerEvidence, AnswerEvidenceFromRaw
  <2>3. CloseAttempts({n}, verdict)
    BY <1>3, Zenon DEF RecordHangup
  <2>4. verdict[n] \in TERMINAL_STATUSES /\ (verdict[n] = "NO_ANSWER" => ~answeredAt[n])
    <3>1. verdict[n] = deriveTerminalStatus(cause, answered)
      BY Zenon
    <3> HIDE DEF cause, answered, verdict
    <3> QED
      BY <2>1, <2>2, <3>1, VerdictIsTerminal, VerdictOfUnanswered
  <2>5. \A m \in Attempts : answeredAt[m] => answeredAt'[m]
    <3>1. \E b : answeredAt' = [answeredAt EXCEPT ![n] = @ \/ b]
      BY <1>3, Zenon DEF RecordHangup
    <3> QED
      BY <1>0, <3>1, Zenon DEF RowTypes
  <2> HIDE DEF verdict
  <2> QED
    BY <1>1, <1>3, <2>3, <2>4, <2>5 DEF Closing
<1> QED
  BY <1>2, <1>3

LEMMA SnapshotCloses ==
  ASSUME TypeOK, RecordProviderActiveSnapshot
  PROVE  \E S, verdict : Closing(S, verdict)
<1>0. RowTypes
  BY TypeParts
<1>1. PICK lost \in SUBSET {n \in Attempts : attStatus[n] \in ActiveStatuses} :
        CloseAttempts(lost, [n \in lost |-> closingStatus(hangupCause[n], answeredAt[n])])
  <2> DEFINE scanned == {n \in Attempts : /\ channel[n] = "freeswitch"
                                          /\ attStatus[n] \in ActiveStatuses
                                          /\ jobId[n]}
             absent == {n \in scanned : n \notin snapshot.active /\ n \in snapshot.settled}
             lost == {n \in absent : MissingTwice(n)}
  <2>1. lost \in SUBSET {n \in Attempts : attStatus[n] \in ActiveStatuses}
    OBVIOUS
  <2> QED
    BY <2>1, Zenon DEF RecordProviderActiveSnapshot
<1> DEFINE verdict == [n \in lost |-> closingStatus(hangupCause[n], answeredAt[n])]
<1>2. ASSUME NEW n \in lost
      PROVE  /\ attStatus[n] \notin TERMINAL_STATUSES /\ attStatus[n] \in ActiveStatuses
             /\ verdict[n] \in TERMINAL_STATUSES
             /\ verdict[n] = "NO_ANSWER" => ~answeredAt[n]
  <2>1. verdict[n] = closingStatus(hangupCause[n], answeredAt[n])
    BY Zenon
  <2>2. n \in Attempts /\ hangupCause[n] \in Causes /\ answeredAt[n] \in BOOLEAN
    BY <1>0 DEF RowTypes
  <2>3. attStatus[n] \notin TERMINAL_STATUSES /\ attStatus[n] \in ActiveStatuses
    BY DEF ActiveStatuses, TERMINAL_STATUSES
  <2> HIDE DEF verdict
  <2> QED
    BY <2>1, <2>2, <2>3, VerdictIsTerminal, VerdictOfUnanswered
<1>3. CloseAttempts(lost, verdict)
  BY <1>1
<1>4. UNCHANGED <<attemptCount, channel, answeredAt>>
  BY DEF RecordProviderActiveSnapshot
<1> HIDE DEF verdict
<1> QED
  BY <1>2, <1>3, <1>4 DEF Closing

LEMMA ReapCloses ==
  ASSUME TypeOK, ReapStaleActiveCalls
  PROVE  \E S, verdict : Closing(S, verdict)
<1>0. RowTypes
  BY TypeParts
<1> DEFINE answered(n) == answeredAt[n] \/ attStatus[n] = "IN_CALL"
           verdict == [n \in Overdue |-> closingStatus(hangupCause[n], answered(n))]
<1>1. CloseAttempts(Overdue, verdict) /\ UNCHANGED <<attemptCount, channel, answeredAt>>
  BY Zenon DEF ReapStaleActiveCalls
<1>2. Overdue \in SUBSET Attempts
  BY DEF Overdue
<1>3. ASSUME NEW n \in Overdue
      PROVE  /\ attStatus[n] \notin TERMINAL_STATUSES /\ attStatus[n] \in ActiveStatuses
             /\ verdict[n] \in TERMINAL_STATUSES
             /\ verdict[n] = "NO_ANSWER" => ~answeredAt[n]
  <2>1. verdict[n] = closingStatus(hangupCause[n], answered(n))
    BY Zenon
  <2>2. n \in Attempts /\ hangupCause[n] \in Causes
    BY <1>0, <1>2 DEF RowTypes
  <2>3. attStatus[n] \notin TERMINAL_STATUSES /\ attStatus[n] \in ActiveStatuses
    BY DEF Overdue, ActiveStatuses, TERMINAL_STATUSES
  <2>4. answered(n) \in BOOLEAN /\ (answeredAt[n] => answered(n))
    BY <1>0, <2>2, Zenon DEF RowTypes
  <2> HIDE DEF verdict, answered
  <2> QED
    BY <2>1, <2>2, <2>3, <2>4, VerdictIsTerminal, VerdictOfUnanswered
<1> HIDE DEF verdict
<1> QED
  BY <1>1, <1>2, <1>3 DEF Closing

(* What a step may do to the statuses of the task and its attempts.        *)
LEMMA StatusKinds ==
  ASSUME TypeOK, [Next]_vars
  PROVE  \/ StatusesUnchanged
         \/ \E ch \in Channels : Dispatch(ch)
         \/ \E n \in 0 .. MaxAttempts, status \in Statuses : StatusReport(n, status)
         \/ \E n \in 0 .. MaxAttempts : FinalizeLocalHangup(n)
         \/ \E n \in Attempts : RecordAnswer(n)
         \/ \E S, verdict : Closing(S, verdict)
         \/ \E w \in Workers : OutboxFails(w)
<1>1. ASSUME RowsUnchanged PROVE StatusesUnchanged
  BY <1>1 DEF RowsUnchanged, StatusesUnchanged, taskVars, attemptVars, recordVars
<1>2. ASSUME NEW n \in Attempts, RecordProgress(n) PROVE StatusesUnchanged
  BY <1>2 DEF RecordProgress, NewEvent, StatusesUnchanged
<1> QED
  BY <1>1, <1>2, StepKinds, JobErrorCloses, HangupCloses, SnapshotCloses, ReapCloses
     DEF RecordProviderCallEvent

(* Attempts are closed or answered, never put back to CALLING.             *)
LEMMA CallingOnlyEnds ==
  ASSUME TypeOK, [Next]_vars, ~\E ch \in Channels : Dispatch(ch)
  PROVE  /\ UNCHANGED channel
         /\ \A n \in Attempts : attStatus'[n] = "CALLING" => attStatus[n] = "CALLING"
<1>0. RowTypes
  BY TypeParts
<1> DEFINE OnlyEnds == /\ UNCHANGED channel
                       /\ \A n \in Attempts : attStatus'[n] = "CALLING" => attStatus[n] = "CALLING"
<1>1. CASE StatusesUnchanged
  BY <1>1 DEF StatusesUnchanged
<1>2. ASSUME NEW n \in 0 .. MaxAttempts, NEW status \in Statuses, StatusReport(n, status)
      PROVE  OnlyEnds
  <2>1. /\ UNCHANGED channel
        /\ attStatus' = [attStatus EXCEPT ![n] = "IN_CALL"] \/ UNCHANGED attStatus
    BY <1>2 DEF StatusReport, UpdateStatus
  <2> QED
    BY <1>0, <2>1 DEF RowTypes
<1>3. ASSUME NEW n \in 0 .. MaxAttempts, FinalizeLocalHangup(n) PROVE OnlyEnds
  BY <1>0, <1>3 DEF RowTypes, FinalizeLocalHangup
<1>4. ASSUME NEW n \in Attempts, RecordAnswer(n) PROVE OnlyEnds
  BY <1>0, <1>4 DEF RecordAnswer, NewEvent, RowTypes
<1>5. ASSUME NEW S, NEW verdict, Closing(S, verdict) PROVE OnlyEnds
  BY <1>5 DEF Closing, CloseAttempts, TERMINAL_STATUSES
<1>6. ASSUME NEW w \in Workers, OutboxFails(w) PROVE OnlyEnds
  BY <1>0, <1>6 DEF OutboxFails, RowTypes
<1> QED
  BY <1>1, <1>2, <1>3, <1>4, <1>5, <1>6, StatusKinds

LEMMA DispatchOpens ==
  ASSUME TypeOK, NotYetOpened, NEW ch \in Channels, Dispatch(ch)
  PROVE  Dispatcher!Environment \/ \E n \in Attempts : Dispatcher!Open(n)
<1> DEFINE n == attemptCount + 1
<1>0. RowTypes /\ n \in Attempts /\ outbox[n].status = "none"
  BY TypeParts DEF RowTypes, NotYetOpened, Dispatch
<1>1. /\ UNCHANGED <<jobId, marker, pc, ev, loaded, crashes, dials, chan, seen>>
      /\ attStatus' = [attStatus EXCEPT ![n] = "CALLING"]
      /\ channel' = [channel EXCEPT ![n] = ch]
      /\ outbox' = IF ch = "freeswitch" THEN [outbox EXCEPT ![n].status = "pending"] ELSE outbox
  BY DEF Dispatch, recordVars, switchVars
<1> HIDE DEF n
<1>2. CASE ch = "freeswitch"
  <2>1. [m \in Attempts |-> attStatus'[m] = "CALLING" /\ channel'[m] = "freeswitch"] =
        [[m \in Attempts |-> attStatus[m] = "CALLING" /\ channel[m] = "freeswitch"]
           EXCEPT ![n] = TRUE]
    BY <1>0, <1>1, <1>2 DEF RowTypes
  <2>2. UNCHANGED <<[m \in Attempts |-> seen[m] # {}], [m \in Attempts |-> chan[m] \in LiveChannel]>>
    BY <1>1
  <2> QED
    BY <1>0, <1>1, <1>2, <2>1, <2>2, Zenon DEF Dispatcher!Open, Dispatcher!SetOutbox,
       Dispatcher!workerVars, Dispatcher!switchVars
<1>3. CASE ch # "freeswitch"
  <2>1. \A m \in Attempts : attStatus'[m] = "CALLING" /\ channel'[m] = "freeswitch"
                              => attStatus[m] = "CALLING" /\ channel[m] = "freeswitch"
    BY <1>0, <1>1, <1>3 DEF RowTypes
  <2>2. WorkersUnchanged
    BY <1>1, <1>3 DEF WorkersUnchanged, outboxVars
  <2> QED
    BY <1>1, <2>1, <2>2, EnvironmentStep
<1> QED
  BY <1>2, <1>3

(* Channels start only with a worker's originate.                          *)
LEMMA ChannelsOnlyEnd ==
  ASSUME TypeOK, [Next]_vars, WorkersUnchanged
  PROVE  \/ \A n \in Attempts : chan'[n] \in LiveChannel => chan[n] \in LiveChannel
         \/ \E w \in Workers : \/ OutboxInternal(w) \/ OutboxFails(w)
                               \/ \E reply \in Replies : OutboxOriginates(w, reply)
<1>0. FlightTypes
  BY TypeParts
<1>1. ASSUME NEW n, FreeSwitch(n) \/ HangupAccepted(n)
      PROVE  \A m \in Attempts : chan'[m] \in LiveChannel => chan[m] \in LiveChannel
  BY <1>0, <1>1 DEF FlightTypes, LiveChannel, FreeSwitch, HangupAccepted, ChannelRings,
     ChannelAnswered, ChannelEnds, EndChannel, OriginateJobFails
<1>2. ASSUME NEW n, \/ RequestHangup(n) \/ FinalizeLocalHangup(n) \/ AgentReportsInCall(n)
                    \/ RecordProviderCallEvent(n) \/ Tick(n)
      PROVE  UNCHANGED chan
  BY <1>2 DEF RequestHangup, FinalizeLocalHangup, AgentReportsInCall, UpdateStatus, Tick,
     RecordProviderCallEvent, RecordProgress, RecordAnswer, RecordJobError, RecordHangup, NewEvent,
     switchVars
<1>3. ASSUME \/ TakeSnapshot \/ LoseSnapshot \/ RecordProviderActiveSnapshot
             \/ ReapStaleActiveCalls \/ OperatorUpdatesStatus
             \/ \E ch \in Channels : Dispatch(ch)
      PROVE  UNCHANGED chan
  BY <1>3 DEF TakeSnapshot, LoseSnapshot, RecordProviderActiveSnapshot, ReapStaleActiveCalls,
     OperatorUpdatesStatus, UpdateStatus, Dispatch, switchVars
<1>4. CASE UNCHANGED vars
  BY <1>4 DEF vars
<1> QED
  BY <1>1, <1>2, <1>3, <1>4 DEF Next

LEMMA EventsAreRecorded ==
  ASSUME TypeOK, EventsOfCalls, [Next]_vars
  PROVE  \A n \in Attempts : /\ seen[n] # {} => seen'[n] # {}
                             /\ seen'[n] # {} => seen[n] # {} \/ dials[n] > 0
<1>0. FlightTypes
  BY TypeParts
<1>1. ASSUME NEW n \in Attempts, RecordProviderCallEvent(n)
      PROVE  /\ emitted[n] # {}
             /\ \E e : seen' = [seen EXCEPT ![n] = @ \cup {e}]
  BY <1>1 DEF RecordProviderCallEvent, RecordProgress, RecordAnswer, RecordJobError, RecordHangup,
     NewEvent
<1>2. CASE \E n \in Attempts : RecordProviderCallEvent(n)
  BY <1>0, <1>1, <1>2 DEF FlightTypes, EventsOfCalls
<1>3. ASSUME ~\E n \in Attempts : RecordProviderCallEvent(n)
      PROVE  UNCHANGED seen
  <2>1. ASSUME RowsUnchanged PROVE UNCHANGED seen
    BY <2>1 DEF RowsUnchanged, recordVars
  <2>2. ASSUME NEW n, NEW status, StatusReport(n, status) PROVE UNCHANGED seen
    BY <2>2 DEF StatusReport, UpdateStatus, recordVars
  <2> QED
    BY <1>3, <2>1, <2>2, StepKinds DEF Dispatch, FinalizeLocalHangup,
       RecordProviderActiveSnapshot, ReapStaleActiveCalls, OutboxFails, recordVars
<1> QED
  BY <1>2, <1>3

LEMMA WorkerImplements ==
  ASSUME NEW w \in Workers,
         \/ OutboxInternal(w) \/ OutboxFails(w)
         \/ \E reply \in Replies : OutboxOriginates(w, reply)
  PROVE  Dispatcher!DispatchNext
<1>1. \/ Dispatcher!StartTick(w) \/ Dispatcher!WorkerStep(w)
      \/ Dispatcher!StatementThrows(w) \/ Dispatcher!Crash(w)
  BY Zenon DEF OutboxInternal, OutboxFails, OutboxOriginates, Dispatcher!WorkerStep
<1> QED
  BY <1>1, Zenon DEF Dispatcher!DispatchNext

LEMMA DispatcherStep ==
  ASSUME TypeOK, NotYetOpened, EventsOfCalls, [Next]_vars
  PROVE  Dispatcher!DispatchNext
<1>1. CASE \E ch \in Channels : Dispatch(ch)
  BY <1>1, DispatchOpens, Zenon DEF Dispatcher!DispatchNext
<1>2. CASE \E w \in Workers : \/ OutboxInternal(w) \/ OutboxFails(w)
                              \/ \E reply \in Replies : OutboxOriginates(w, reply)
  BY <1>2, WorkerImplements
<1>3. CASE /\ WorkersUnchanged
           /\ ~\E ch \in Channels : Dispatch(ch)
           /\ ~\E w \in Workers : \/ OutboxInternal(w) \/ OutboxFails(w)
                                  \/ \E reply \in Replies : OutboxOriginates(w, reply)
  <2>1. Dispatcher!Environment
    BY <1>3, CallingOnlyEnds, ChannelsOnlyEnd, EventsAreRecorded, EnvironmentStep
  <2> QED
    BY <2>1, Zenon DEF Dispatcher!DispatchNext
<1> QED
  BY <1>1, <1>2, <1>3, WorkerKinds

LEMMA DispatcherInit == Init => Dispatcher!DispatchInit
<1> SUFFICES ASSUME Init PROVE Dispatcher!DispatchInit
  OBVIOUS
<1>1. \A n \in Attempts : attStatus[n] # "CALLING" /\ seen[n] = {} /\ chan[n] \notin LiveChannel
  BY DEF Init, LiveChannel
<1>2. [n \in Attempts |-> attStatus[n] = "CALLING" /\ channel[n] = "freeswitch"]
        = [n \in Attempts |-> FALSE]
  BY <1>1
<1>3. [n \in Attempts |-> seen[n] # {}] = [n \in Attempts |-> FALSE]
  BY <1>1
<1>4. [n \in Attempts |-> chan[n] \in LiveChannel] = [n \in Attempts |-> FALSE]
  <2>1. \A n \in Attempts : (chan[n] \in LiveChannel) = FALSE
    BY <1>1
  <2> QED
    BY <2>1, Zenon
<1> QED
  BY <1>2, <1>3, <1>4, Zenon DEF Init, Dispatcher!DispatchInit

(* The workers inside the composed system - with real events, snapshots,   *)
(* hangups, reaping and redials around them - behave as OutboxDispatch     *)
(* describes, so that what DispatchSafety says holds of them.              *)
THEOREM ImplementsDispatch == Spec => DispatcherSpec
<1> DEFINE CallInv == TypeOK /\ NotYetOpened /\ EventsOfCalls
<1>1. Init => CallInv
  <2>1. Init => NotYetOpened /\ EventsOfCalls
    BY DEF Init, NotYetOpened, EventsOfCalls, Dispatcher!None, Attempts
  <2> QED
    BY <2>1, InitTypes
<1>2. CallInv /\ [Next]_vars => CallInv'
  BY TypeStep, OpenedStep, EventsStep
<1>3. CallInv /\ [Next]_vars => [Dispatcher!DispatchNext]_(Dispatcher!dispatchVars)
  BY DispatcherStep
<1> QED
  BY <1>1, <1>2, <1>3, DispatcherInit, PTL DEF Spec, DispatcherSpec, Dispatcher!DispatchSpec
-----------------------------------------------------------------------------
(* The task and its attempts agree and only move forward, when hangups and *)
(* reports of an earlier attempt are not left over at a redial and         *)
(* operators only close tasks.  Deliveries may be left over.               *)
OperatorsOnlyClose == OperatorStatuses \cap ActiveStatuses = {}

(* What has begun for an attempt has begun for one that was opened, and a  *)
(* hangup on its way is for the latest.                                    *)
BegunForOpened ==
  /\ hangups \subseteq {attemptCount}
  /\ \A n \in Attempts : dials[n] > 0 => n <= attemptCount

OpenedAreCalled ==
  /\ taskStatus = "PENDING" => attemptCount = 0
  /\ \A n \in Attempts : /\ n > attemptCount <=> attStatus[n] = "NONE"
                         /\ attStatus[n] # "PENDING"

InCallIsAnswered == \A n \in Attempts : attStatus[n] = "IN_CALL" => answeredAt[n]

(* The inductive invariant of the statuses.                                *)
Agreement ==
  OpenedAreCalled /\ InCallIsAnswered /\ ActiveTaskHasActiveAttempt /\ HistoryAgrees

CallInv == TypeOK /\ NotYetOpened /\ EventsOfCalls /\ BegunForOpened /\ Agreement

(* What no step does to the statuses, as an action.                        *)
AttemptsStayClosed ==
  \A n \in Attempts : attStatus[n] \in TERMINAL_STATUSES => attStatus'[n] = attStatus[n]

TaskMovesForward == Lifecycle!LifecycleNext \/ UNCHANGED <<taskStatus, attemptCount>>

USE DEF ActiveStatuses, TERMINAL_STATUSES
-----------------------------------------------------------------------------
LEMMA StatusFacts ==
  /\ TERMINAL_STATUSES \subseteq Statuses /\ ActiveStatuses \subseteq Statuses
  /\ \A s \in Statuses : s \in TERMINAL_STATUSES \/ s \in ActiveStatuses \/ s = "PENDING"
  /\ \A s \in Statuses : "CALLING" \in STATUS_TRANSITIONS[s] <=> s \in {"PENDING", "FAILED", "NO_ANSWER"}
  /\ \A s \in Statuses : "IN_CALL" \in STATUS_TRANSITIONS[s] => s = "CALLING"
  /\ \A s, t \in Statuses : t \in STATUS_TRANSITIONS[s] =>
       /\ t # "PENDING"
       /\ t \in TERMINAL_STATUSES => s \notin TERMINAL_STATUSES
       /\ t = "NO_ANSWER" => s = "CALLING"
BY DEF Statuses, STATUS_TRANSITIONS

LEMMA DispatchAgrees ==
  ASSUME CallInv, NEW ch \in Channels, Dispatch(ch)
  PROVE  Agreement' /\ AttemptsStayClosed /\ TaskMovesForward
<1> DEFINE n == attemptCount + 1
<1>0. RowTypes /\ Attempts \subseteq Nat /\ attemptCount \in Nat
  BY TypeParts DEF CallInv, RowTypes, Attempts
<1>1. /\ taskStatus \in {"PENDING", "FAILED", "NO_ANSWER"}
      /\ n \in Attempts
      /\ taskStatus' = "CALLING"
      /\ attemptCount' = n
      /\ attStatus' = [attStatus EXCEPT ![n] = "CALLING"]
      /\ UNCHANGED <<answeredAt, history>>
  BY <1>0, StatusFacts DEF RowTypes, Dispatch, recordVars
<1>2. attStatus[n] = "NONE"
  BY <1>0, <1>1 DEF CallInv, Agreement, OpenedAreCalled
<1>3. \A m \in Attempts : m # n => attStatus'[m] = attStatus[m]
  BY <1>0, <1>1 DEF RowTypes
<1>4. attStatus'[n] = "CALLING"
  BY <1>0, <1>1 DEF RowTypes
<1>5. history[n] = "none"
  BY <1>0, <1>1, <1>2 DEF RowTypes, CallInv, Agreement, HistoryAgrees
<1>6. OpenedAreCalled'
  BY <1>0, <1>1, <1>3, <1>4 DEF CallInv, Agreement, OpenedAreCalled
<1>7. InCallIsAnswered' /\ HistoryAgrees'
  BY <1>0, <1>1, <1>3, <1>4, <1>5 DEF CallInv, Agreement, InCallIsAnswered, HistoryAgrees
<1>8. ActiveTaskHasActiveAttempt'
  BY <1>1, <1>4 DEF ActiveTaskHasActiveAttempt
<1>9. AttemptsStayClosed
  BY <1>2, <1>3 DEF AttemptsStayClosed
<1>10. TaskMovesForward
  BY <1>1 DEF TaskMovesForward, Lifecycle!LifecycleNext, Lifecycle!Redial
<1> QED
  BY <1>6, <1>7, <1>8, <1>9, <1>10 DEF Agreement

LEMMA ReportAgrees ==
  ASSUME "requests" \notin Stale, OperatorsOnlyClose, CallInv,
         NEW n \in 0 .. MaxAttempts, NEW status \in Statuses, StatusReport(n, status)
  PROVE  Agreement' /\ AttemptsStayClosed /\ TaskMovesForward
<1>0. RowTypes
  BY TypeParts DEF CallInv
<1>1. /\ status \in STATUS_TRANSITIONS[taskStatus]
      /\ taskStatus' = status
      /\ UNCHANGED <<attemptCount, history>>
  BY DEF StatusReport, UpdateStatus, recordVars
<1>2. CASE n = 0
  <2>1. UNCHANGED <<attStatus, answeredAt>>
    BY <1>2 DEF StatusReport, UpdateStatus
  <2>2. status \in TERMINAL_STATUSES
    BY <1>0, <1>1, <1>2, StatusFacts DEF StatusReport, OperatorsOnlyClose, RowTypes, Attempts
  <2>3. Agreement'
    BY <1>1, <2>1, <2>2 DEF CallInv, Agreement, OpenedAreCalled, InCallIsAnswered, HistoryAgrees,
       ActiveTaskHasActiveAttempt
  <2>4. TaskMovesForward
    BY <1>0, <1>1, <2>2, StatusFacts DEF RowTypes, TaskMovesForward, Lifecycle!LifecycleNext,
       Lifecycle!Close, Lifecycle!TERMINAL_STATUSES
  <2> QED
    BY <2>1, <2>3, <2>4 DEF AttemptsStayClosed
<1>3. CASE n # 0
  <2>1. n \in Attempts /\ status = "IN_CALL" /\ attemptCount = n
    BY <1>3 DEF StatusReport, IsLatest
  <2>2. taskStatus = "CALLING" /\ attStatus[n] = "CALLING"
    BY <1>0, <1>1, <2>1, StatusFacts DEF RowTypes, CallInv, Agreement, ActiveTaskHasActiveAttempt
  <2>3. /\ attStatus' = [attStatus EXCEPT ![n] = "IN_CALL"]
        /\ answeredAt' = [answeredAt EXCEPT ![n] = @ \/ status = "IN_CALL"]
    BY <1>3, <2>1 DEF StatusReport, UpdateStatus
  <2>4. attStatus'[n] = "IN_CALL" /\ \A m \in Attempts : m # n => attStatus'[m] = attStatus[m]
    BY <1>0, <2>1, <2>3 DEF RowTypes
  <2>5. answeredAt'[n] = TRUE /\ \A m \in Attempts : m # n => answeredAt'[m] = answeredAt[m]
    BY <1>0, <2>1, <2>3, Zenon DEF RowTypes
  <2>6. history[n] = "none"
    BY <1>0, <2>1, <2>2 DEF RowTypes, CallInv, Agreement, HistoryAgrees
  <2>7. OpenedAreCalled'
    BY <1>1, <2>1, <2>2, <2>4 DEF CallInv, Agreement, OpenedAreCalled
  <2>8. InCallIsAnswered' /\ HistoryAgrees' /\ ActiveTaskHasActiveAttempt'
    BY <1>1, <2>1, <2>4, <2>5, <2>6 DEF CallInv, Agreement, InCallIsAnswered, HistoryAgrees,
       ActiveTaskHasActiveAttempt
  <2>9. AttemptsStayClosed
    BY <2>2, <2>4 DEF AttemptsStayClosed
  <2>10. TaskMovesForward
    BY <1>1, <2>1, <2>2 DEF TaskMovesForward, Lifecycle!LifecycleNext, Lifecycle!Connect
  <2> QED
    BY <2>7, <2>8, <2>9, <2>10 DEF Agreement
<1> QED
  BY <1>2, <1>3

LEMMA FinalizeAgrees ==
  ASSUME CallInv, NEW n \in 0 .. MaxAttempts, FinalizeLocalHangup(n)
  PROVE  Agreement' /\ AttemptsStayClosed /\ TaskMovesForward
<1>0. RowTypes /\ n = attemptCount
  BY TypeParts DEF CallInv, BegunForOpened, FinalizeLocalHangup
<1>1. CASE ~Open
  BY <1>1 DEF FinalizeLocalHangup, CallInv, Agreement, OpenedAreCalled, InCallIsAnswered,
     HistoryAgrees, ActiveTaskHasActiveAttempt, AttemptsStayClosed, TaskMovesForward
<1>2. CASE Open
  <2>1. /\ taskStatus' = "COMPLETED"
        /\ attStatus' = [m \in Attempts |-> IF m = n THEN "COMPLETED" ELSE attStatus[m]]
        /\ history' = [m \in Attempts |-> IF m = n THEN "COMPLETED" ELSE history[m]]
        /\ UNCHANGED <<attemptCount, answeredAt>>
    BY <1>2 DEF FinalizeLocalHangup
  <2>2. n \in Attempts => attStatus[n] \in ActiveStatuses
    BY <1>0, <1>2, StatusFacts DEF Open, RowTypes, Attempts, CallInv, Agreement, OpenedAreCalled,
       ActiveTaskHasActiveAttempt
  <2>3. OpenedAreCalled'
    BY <1>0, <2>1, <2>2 DEF CallInv, Agreement, OpenedAreCalled
  <2>4. InCallIsAnswered' /\ HistoryAgrees' /\ ActiveTaskHasActiveAttempt'
    BY <1>0, <2>1 DEF CallInv, Agreement, InCallIsAnswered, HistoryAgrees,
       ActiveTaskHasActiveAttempt
  <2>5. AttemptsStayClosed
    BY <2>1, <2>2 DEF AttemptsStayClosed
  <2>6. TaskMovesForward
    BY <1>0, <1>2, <2>1 DEF Open, RowTypes, TaskMovesForward, Lifecycle!LifecycleNext,
       Lifecycle!Close, Lifecycle!TERMINAL_STATUSES
  <2> QED
    BY <2>3, <2>4, <2>5, <2>6 DEF Agreement
<1> QED
  BY <1>1, <1>2

(* An attempt that FreeSWITCH has sent events for was opened.              *)
LEMMA EventsOfOpened ==
  ASSUME CallInv, NEW n \in Attempts, emitted[n] # {}
  PROVE  n <= attemptCount /\ attStatus[n] # "NONE"
<1>1. attemptCount \in Nat /\ n \in Nat
  BY TypeParts DEF CallInv, RowTypes, Attempts
<1> QED
  BY <1>1 DEF CallInv, EventsOfCalls, BegunForOpened, Agreement, OpenedAreCalled

LEMMA AnswerAgrees ==
  ASSUME CallInv, NEW n \in Attempts, RecordAnswer(n)
  PROVE  Agreement' /\ AttemptsStayClosed /\ TaskMovesForward
<1>0. RowTypes
  BY TypeParts DEF CallInv
<1>1. UNCHANGED <<attemptCount, history>> /\ emitted[n] # {}
  BY DEF RecordAnswer, NewEvent
<1>2. CASE attStatus[n] \in TERMINAL_STATUSES
  <2>1. UNCHANGED <<taskStatus, attStatus, answeredAt>>
    BY <1>2 DEF RecordAnswer
  <2> QED
    BY <1>1, <2>1 DEF CallInv, Agreement, OpenedAreCalled, InCallIsAnswered, HistoryAgrees,
       ActiveTaskHasActiveAttempt, AttemptsStayClosed, TaskMovesForward
<1>3. CASE attStatus[n] \notin TERMINAL_STATUSES
  <2>1. /\ attStatus' = [attStatus EXCEPT ![n] = "IN_CALL"]
        /\ answeredAt' = [answeredAt EXCEPT ![n] = TRUE]
        /\ IF IsLatest(n) /\ Open THEN taskStatus' = "IN_CALL" ELSE UNCHANGED taskStatus
    BY <1>3 DEF RecordAnswer
  <2>2. attStatus'[n] = "IN_CALL" /\ \A m \in Attempts : m # n => attStatus'[m] = attStatus[m]
    BY <1>0, <2>1 DEF RowTypes
  <2>3. answeredAt'[n] = TRUE /\ \A m \in Attempts : m # n => answeredAt'[m] = answeredAt[m]
    BY <1>0, <2>1, Zenon DEF RowTypes
  <2>4. attStatus[n] # "NONE" /\ n <= attemptCount
    BY <1>1, EventsOfOpened
  <2>5. history[n] = "none"
    BY <1>0, <1>3 DEF RowTypes, CallInv, Agreement, HistoryAgrees
  <2>6. IsLatest(n) /\ Open => taskStatus \in ActiveStatuses
    BY <1>0, StatusFacts DEF RowTypes, IsLatest, Open, Attempts, CallInv, Agreement, OpenedAreCalled
  <2>7. OpenedAreCalled'
    BY <1>1, <2>1, <2>2, <2>4 DEF CallInv, Agreement, OpenedAreCalled
  <2>8. InCallIsAnswered' /\ HistoryAgrees'
    BY <1>1, <2>2, <2>3, <2>5 DEF CallInv, Agreement, InCallIsAnswered, HistoryAgrees
  <2>9. ActiveTaskHasActiveAttempt'
    BY <1>1, <2>1, <2>2 DEF CallInv, Agreement, ActiveTaskHasActiveAttempt, IsLatest, Open
  <2>10. AttemptsStayClosed
    BY <1>3, <2>2 DEF AttemptsStayClosed
  <2>11. TaskMovesForward
    BY <1>1, <2>1, <2>6 DEF TaskMovesForward, Lifecycle!LifecycleNext, Lifecycle!Connect
  <2> QED
    BY <2>7, <2>8, <2>9, <2>10, <2>11 DEF Agreement
<1> QED
  BY <1>2, <1>3

LEMMA ClosingAgrees ==
  ASSUME CallInv, NEW S, NEW verdict, Closing(S, verdict)
  PROVE  Agreement' /\ AttemptsStayClosed /\ TaskMovesForward
<1>0. RowTypes
  BY TypeParts DEF CallInv
<1>1. /\ S \in SUBSET Attempts
      /\ \A n \in S : /\ attStatus[n] \notin TERMINAL_STATUSES
                      /\ attStatus[n] # "NONE"
                      /\ verdict[n] \in TERMINAL_STATUSES
                      /\ verdict[n] = "NO_ANSWER" => ~answeredAt[n]
  BY EventsOfOpened DEF Closing
<1>2. /\ \A n \in Attempts : attStatus'[n] = IF n \in S THEN verdict[n] ELSE attStatus[n]
      /\ \A n \in Attempts : history'[n] = IF n \in S THEN verdict[n] ELSE history[n]
      /\ IF attemptCount \in S /\ Open
         THEN taskStatus' = verdict[attemptCount] ELSE UNCHANGED taskStatus
      /\ UNCHANGED attemptCount
  BY DEF Closing, CloseAttempts
<1>3. \A n \in Attempts : answeredAt[n] => answeredAt'[n]
  BY DEF Closing
<1>4. attemptCount \in S => taskStatus # "PENDING"
  BY <1>1 DEF CallInv, Agreement, OpenedAreCalled, Attempts
<1>5. OpenedAreCalled'
  BY <1>1, <1>2 DEF CallInv, Agreement, OpenedAreCalled
<1>6. InCallIsAnswered'
  BY <1>1, <1>2, <1>3 DEF CallInv, Agreement, InCallIsAnswered
<1>7. HistoryAgrees'
  BY <1>1, <1>2 DEF CallInv, Agreement, HistoryAgrees
<1>8. ActiveTaskHasActiveAttempt'
  BY <1>1, <1>2 DEF CallInv, Agreement, ActiveTaskHasActiveAttempt, Open
<1>9. AttemptsStayClosed
  BY <1>1, <1>2 DEF AttemptsStayClosed
<1>10. TaskMovesForward
  <2>1. CASE attemptCount \in S /\ Open
    <3>1. taskStatus \in ActiveStatuses
      BY <1>0, <1>4, <2>1, StatusFacts DEF RowTypes, Open
    <3>2. attStatus[attemptCount] = taskStatus
      BY <3>1 DEF CallInv, Agreement, ActiveTaskHasActiveAttempt
    <3>3. verdict[attemptCount] = "NO_ANSWER" => taskStatus = "CALLING"
      BY <1>1, <2>1, <3>1, <3>2 DEF CallInv, Agreement, InCallIsAnswered
    <3> QED
      BY <1>1, <1>2, <2>1, <3>1, <3>3 DEF TaskMovesForward, Lifecycle!LifecycleNext,
         Lifecycle!Close, Lifecycle!TERMINAL_STATUSES
  <2> QED
    BY <1>2, <2>1 DEF TaskMovesForward
<1> QED
  BY <1>5, <1>6, <1>7, <1>8, <1>9, <1>10 DEF Agreement

LEMMA OutboxFailsAgrees ==
  ASSUME CallInv, NEW w \in Workers, OutboxFails(w)
  PROVE  Agreement' /\ AttemptsStayClosed /\ TaskMovesForward
<1> DEFINE n == ev[w]
           fails == Dispatcher!TerminalFailure(w)
<1>0. RowTypes
  BY TypeParts DEF CallInv
<1>1. /\ IF fails /\ attStatus[n] = "CALLING"
         THEN attStatus' = [attStatus EXCEPT ![n] = "FAILED"] ELSE UNCHANGED attStatus
      /\ IF fails /\ taskStatus = "CALLING" THEN taskStatus' = "FAILED" ELSE UNCHANGED taskStatus
      /\ UNCHANGED <<attemptCount, answeredAt, history>>
  BY DEF OutboxFails, recordVars
<1> HIDE DEF n, fails
<1>2. \A m \in Attempts : attStatus'[m] = IF m = n /\ fails /\ attStatus[m] = "CALLING"
                                         THEN "FAILED" ELSE attStatus[m]
  BY <1>0, <1>1 DEF RowTypes
<1>3. \A m \in Attempts : attStatus[m] = "CALLING" => history[m] = "none"
  BY <1>0 DEF RowTypes, CallInv, Agreement, HistoryAgrees
<1>4. OpenedAreCalled'
  BY <1>1, <1>2 DEF CallInv, Agreement, OpenedAreCalled
<1>5. InCallIsAnswered' /\ HistoryAgrees'
  BY <1>1, <1>2, <1>3 DEF CallInv, Agreement, InCallIsAnswered, HistoryAgrees
<1>6. ActiveTaskHasActiveAttempt'
  BY <1>1, <1>2 DEF CallInv, Agreement, ActiveTaskHasActiveAttempt
<1>7. AttemptsStayClosed
  BY <1>2 DEF AttemptsStayClosed
<1>8. TaskMovesForward
  BY <1>1 DEF TaskMovesForward, Lifecycle!LifecycleNext, Lifecycle!Close,
     Lifecycle!TERMINAL_STATUSES
<1> QED
  BY <1>4, <1>5, <1>6, <1>7, <1>8 DEF Agreement

LEMMA AgreementStep ==
  ASSUME "requests" \notin Stale, OperatorsOnlyClose, CallInv, [Next]_vars
  PROVE  Agreement' /\ AttemptsStayClosed /\ TaskMovesForward
<1>0. TypeOK
  BY DEF CallInv
<1>1. CASE StatusesUnchanged
  BY <1>1 DEF StatusesUnchanged, CallInv, Agreement, OpenedAreCalled, InCallIsAnswered,
     HistoryAgrees, ActiveTaskHasActiveAttempt, AttemptsStayClosed, TaskMovesForward
<1> QED
  BY <1>0, <1>1, StatusKinds, DispatchAgrees, ReportAgrees, FinalizeAgrees, AnswerAgrees,
     ClosingAgrees, OutboxFailsAgrees
-----------------------------------------------------------------------------
LEMMA HangupsKinds ==
  ASSUME [Next]_vars, ~\E ch \in Channels : Dispatch(ch)
  PROVE  \/ hangups' \subseteq hangups
         \/ \E n \in 0 .. MaxAttempts : RequestHangup(n)
<1>1. ASSUME NEW n, HangupAccepted(n) \/ FinalizeLocalHangup(n) PROVE hangups' \subseteq hangups
  BY <1>1 DEF HangupAccepted, FinalizeLocalHangup
<1>2. ASSUME NEW n, AgentReportsInCall(n) \/ RecordProviderCallEvent(n) \/ Tick(n)
      PROVE  UNCHANGED hangups
  BY <1>2 DEF AgentReportsInCall, UpdateStatus, Tick, RecordProviderCallEvent, RecordProgress,
     RecordAnswer, RecordJobError, RecordHangup, NewEvent, flightVars
<1>3. ASSUME NEW n, FreeSwitch(n) PROVE UNCHANGED hangups
  BY <1>3 DEF FreeSwitch, ChannelRings, ChannelAnswered, ChannelEnds, OriginateJobFails, flightVars
<1>4. ASSUME \/ TakeSnapshot \/ LoseSnapshot \/ RecordProviderActiveSnapshot
             \/ ReapStaleActiveCalls \/ OperatorUpdatesStatus
      PROVE  UNCHANGED hangups
  BY <1>4 DEF TakeSnapshot, LoseSnapshot, RecordProviderActiveSnapshot, ReapStaleActiveCalls,
     OperatorUpdatesStatus, UpdateStatus, flightVars
<1>5. ASSUME NEW w, \/ OutboxInternal(w) \/ OutboxFails(w)
                    \/ \E reply \in Replies : OutboxOriginates(w, reply)
      PROVE  UNCHANGED hangups
  BY <1>5, Zenon DEF OutboxInternal, OutboxFails, OutboxOriginates, flightVars
<1>6. CASE UNCHANGED vars
  BY <1>6 DEF vars
<1> QED
  BY <1>1, <1>2, <1>3, <1>4, <1>5, <1>6 DEF Next

LEMMA DialsKinds ==
  ASSUME [Next]_vars
  PROVE  \/ UNCHANGED dials
         \/ \E w \in Workers :
              /\ dials' = [dials EXCEPT ![ev[w]] = IF @ < 2 THEN @ + 1 ELSE @]
              /\ UNCHANGED attemptCount
<1>1. ASSUME WorkersUnchanged \/ \E ch \in Channels : Dispatch(ch) PROVE UNCHANGED dials
  BY <1>1 DEF WorkersUnchanged, Dispatch, switchVars
<1>2. ASSUME NEW w \in Workers, OutboxInternal(w) \/ OutboxFails(w) PROVE UNCHANGED dials
  BY <1>2 DEF OutboxInternal, OutboxFails, Dispatcher!StartTick, Dispatcher!RecoverExpiredLeases,
     Dispatcher!RunBatch, Dispatcher!Claim, Dispatcher!ReadAttempt, Dispatcher!WriteMarker,
     Dispatcher!CommitJob, Dispatcher!MarkDispatchProcessed, Dispatcher!DeadLetterDispatch,
     Dispatcher!StatementThrows, Dispatcher!Crash, Dispatcher!HandleFailure, Dispatcher!switchVars
<1>3. ASSUME NEW w \in Workers, NEW reply \in Replies, OutboxOriginates(w, reply)
      PROVE  \/ UNCHANGED dials
             \/ /\ dials' = [dials EXCEPT ![ev[w]] = IF @ < 2 THEN @ + 1 ELSE @]
                /\ UNCHANGED attemptCount
  BY <1>3 DEF OutboxOriginates, Dispatcher!Originate, Dispatcher!switchVars, taskVars
<1> QED
  BY <1>1, <1>2, <1>3, WorkerKinds

LEMMA BegunStep ==
  ASSUME "requests" \notin Stale, CallInv, [Next]_vars
  PROVE  BegunForOpened'
<1>0. /\ TypeOK /\ WorkerTypes /\ RowTypes
      /\ Attempts \subseteq Nat /\ attemptCount \in Nat
  BY TypeParts DEF CallInv, RowTypes, Attempts
<1>1. \A n \in Attempts : dials'[n] > 0 => n <= attemptCount'
  <2>1. attemptCount' \in Nat /\ attemptCount' >= attemptCount
    <3>1. (\E ch \in Channels : Dispatch(ch)) => attemptCount' = attemptCount + 1
      BY DEF Dispatch
    <3> QED
      BY <1>0, <3>1, CountGrows
  <2>2. CASE UNCHANGED dials
    BY <1>0, <2>1, <2>2 DEF CallInv, BegunForOpened
  <2>3. ASSUME NEW w \in Workers, UNCHANGED attemptCount,
               dials' = [dials EXCEPT ![ev[w]] = IF @ < 2 THEN @ + 1 ELSE @]
        PROVE  \A n \in Attempts : dials'[n] > 0 => n <= attemptCount'
    <3>1. CASE ev[w] \in Attempts
      <4>1. \A n \in Attempts : n # ev[w] => dials'[n] = dials[n]
        BY <1>0, <2>3, <3>1 DEF WorkerTypes
      <4>2. ev[w] <= attemptCount
        BY <3>1 DEF CallInv, NotYetOpened
      <4> QED
        BY <2>3, <4>1, <4>2 DEF CallInv, BegunForOpened
    <3>2. CASE ev[w] \notin Attempts
      <4>1. UNCHANGED dials
        BY <1>0, <2>3, <3>2 DEF WorkerTypes
      <4> QED
        BY <2>3, <4>1 DEF CallInv, BegunForOpened
    <3> QED
      BY <3>1, <3>2
  <2> QED
    BY <2>2, <2>3, DialsKinds
<1>2. hangups' \subseteq {attemptCount'}
  <2>1. CASE \E ch \in Channels : Dispatch(ch)
    BY <2>1 DEF Dispatch, NothingLeftOver, flightVars
  <2>2. CASE ~\E ch \in Channels : Dispatch(ch)
    <3>1. attemptCount' = attemptCount
      BY <1>0, <2>2, CountGrows
    <3>2. ASSUME NEW n, RequestHangup(n) PROVE hangups' \subseteq hangups \cup {attemptCount}
      BY <3>2 DEF RequestHangup, IsLatest
    <3> QED
      BY <2>2, <3>1, <3>2, HangupsKinds DEF CallInv, BegunForOpened
  <2> QED
    BY <2>1, <2>2
<1> QED
  BY <1>1, <1>2 DEF BegunForOpened

LEMMA CallInvInit == Init => CallInv
<1> SUFFICES ASSUME Init PROVE CallInv
  OBVIOUS
<1>1. NotYetOpened /\ EventsOfCalls /\ BegunForOpened
  BY DEF Init, NotYetOpened, EventsOfCalls, BegunForOpened, Dispatcher!None, Attempts
<1>2. Agreement
  BY DEF Init, Agreement, OpenedAreCalled, InCallIsAnswered, ActiveTaskHasActiveAttempt,
     HistoryAgrees, Attempts
<1> QED
  BY <1>1, <1>2, InitTypes DEF CallInv

LEMMA CallInvStep ==
  ASSUME "requests" \notin Stale, OperatorsOnlyClose
  PROVE  CallInv /\ [Next]_vars => CallInv' /\ AttemptsStayClosed /\ TaskMovesForward
<1> SUFFICES ASSUME CallInv, [Next]_vars
             PROVE  CallInv' /\ AttemptsStayClosed /\ TaskMovesForward
  OBVIOUS
<1>1. TypeOK' /\ NotYetOpened' /\ EventsOfCalls'
  BY TypeStep, OpenedStep, EventsStep DEF CallInv
<1> QED
  BY <1>1, BegunStep, AgreementStep DEF CallInv

(* A task that is being called or in a call has a latest attempt in the    *)
(* same status, and the contact history never contradicts an attempt.      *)
THEOREM RowsAgree ==
  ASSUME "requests" \notin Stale, OperatorsOnlyClose
  PROVE  Spec => []TaskAndAttemptsAgree
<1>1. CallInv => TaskAndAttemptsAgree
  BY DEF CallInv, Agreement, TaskAndAttemptsAgree
<1>2. CallInv /\ [Next]_vars => CallInv'
  BY CallInvStep
<1> QED
  BY <1>1, <1>2, CallInvInit, PTL DEF Spec

(* The task row implements the abstract task: it is connected and closed   *)
(* at most once per attempt, and only failed or unanswered ones are dialled*)
(* again.                                                                  *)
THEOREM ImplementsLifecycle ==
  ASSUME "requests" \notin Stale, OperatorsOnlyClose
  PROVE  Spec => LifecycleSpec
<1>1. CallInv /\ [Next]_vars => CallInv'
  BY CallInvStep
<1>2. CallInv /\ [Next]_vars => [Lifecycle!LifecycleNext]_(Lifecycle!taskVars)
  BY CallInvStep DEF TaskMovesForward, Lifecycle!taskVars
<1>3. Init => Lifecycle!LifecycleInit
  BY DEF Init, Lifecycle!LifecycleInit
<1> QED
  BY <1>1, <1>2, <1>3, CallInvInit, PTL DEF Spec, LifecycleSpec, Lifecycle!LifecycleSpec

(* Nothing that is closed moves again, whatever arrives late.              *)
THEOREM ClosedForGood ==
  ASSUME "requests" \notin Stale, OperatorsOnlyClose
  PROVE  Spec => ClosedStaysClosed
<1> DEFINE StaysClosed ==
      /\ AttemptsStayClosed
      /\ taskStatus \in TERMINAL_STATUSES /\ taskStatus' # taskStatus
           => attemptCount' = attemptCount + 1
<1>1. CallInv /\ [Next]_vars => CallInv'
  BY CallInvStep
<1>2. CallInv /\ [Next]_vars => StaysClosed
  BY CallInvStep DEF TaskMovesForward, Lifecycle!LifecycleNext, Lifecycle!Redial,
     Lifecycle!Connect, Lifecycle!Close, Lifecycle!TERMINAL_STATUSES
<1> QED
  BY <1>1, <1>2, CallInvInit, PTL DEF Spec, ClosedStaysClosed, AttemptsStayClosed
-----------------------------------------------------------------------------
(* When a redial also waits for the outbox to settle, only the latest      *)
(* attempt is open and the task follows it.  A worker that gives a         *)
(* dispatch up then speaks for the latest attempt: its event is leased to  *)
(* it, and only the latest attempt has an unsettled event.                 *)
Unsettled(n) == outbox[n].status \in {"pending", "processing"}

UnsettledIsLatest == \A n \in Attempts : Unsettled(n) => n = attemptCount

OperatorsOnlyFinish == OperatorStatuses \subseteq {"CANCELLED", "COMPLETED"}

LatestInv ==
  /\ CallInv
  /\ Dispatcher!ExclusiveLease
  /\ UnsettledIsLatest
  /\ OlderAttemptsClosed
  /\ TaskFollowsLatestAttempt

(* What a worker does to leases.                                           *)
GivesBack(n) ==
  /\ outbox[n].status = "processing"
  /\ \A v \in Workers : ~Dispatcher!Holds(v, n)
  /\ Dispatcher!SetOutbox(n, "pending")
  /\ UNCHANGED <<pc, ev>>

Takes(w, n) ==
  /\ outbox[n].status = "pending"
  /\ pc' = [pc EXCEPT ![w] = "claimed"]
  /\ ev' = [ev EXCEPT ![w] = n]
  /\ outbox'[n].status = "processing"
  /\ \A m \in Attempts : m # n => outbox'[m] = outbox[m]

Releases(w) ==
  /\ pc[w] \in Dispatcher!Busy
  /\ \E status : Dispatcher!SetOutbox(ev[w], status)
  /\ Dispatcher!NextOfBatch(w)

Keeps(w) ==
  /\ UNCHANGED outbox
  /\ \A v \in Workers : v # w => pc'[v] = pc[v] /\ ev'[v] = ev[v]
  /\ \/ pc'[w] \notin Dispatcher!Busy
     \/ pc[w] \in Dispatcher!Busy /\ ev'[w] = ev[w]

LEMMA LeaseKinds ==
  ASSUME WorkerTypes, NEW w \in Workers,
         \/ OutboxInternal(w) \/ OutboxFails(w)
         \/ \E reply \in Replies : OutboxOriginates(w, reply)
  PROVE  \/ \E n \in Attempts : GivesBack(n) \/ Takes(w, n)
         \/ Releases(w)
         \/ Keeps(w)
<1> USE DEF WorkerTypes, Dispatcher!Busy, Dispatcher!PC
<1>1. ASSUME NEW n \in Attempts, Dispatcher!RecoverExpiredLeases(w, n) PROVE GivesBack(n)
  BY <1>1 DEF Dispatcher!RecoverExpiredLeases, Dispatcher!workerVars, GivesBack
<1>2. ASSUME NEW n \in Attempts, Dispatcher!Claim(w, n) PROVE Takes(w, n) \/ Keeps(w)
  <2>1. CASE outbox[n].status = "pending"
    BY <1>2, <2>1 DEF OutboxRows, Dispatcher!Claim, Dispatcher!Goto, Takes
  <2>2. CASE outbox[n].status # "pending"
    BY <1>2, <2>2 DEF Dispatcher!Claim, Dispatcher!Goto, Keeps
  <2> QED
    BY <2>1, <2>2
<1>3. ASSUME \/ Dispatcher!CommitJob(w) \/ Dispatcher!MarkDispatchProcessed(w)
             \/ Dispatcher!DeadLetterDispatch(w) \/ Dispatcher!HandleFailure(w)
      PROVE  Releases(w)
  BY <1>3 DEF Dispatcher!CommitJob, Dispatcher!MarkDispatchProcessed,
     Dispatcher!DeadLetterDispatch, Dispatcher!HandleFailure, Releases
<1>4. ASSUME NEW due \in SUBSET Attempts, Dispatcher!RunBatch(w, due) PROVE Keeps(w)
  BY <1>4 DEF Dispatcher!RunBatch, Dispatcher!Goto, Dispatcher!dbVars, Keeps
<1>5. ASSUME Dispatcher!Crash(w) PROVE Keeps(w)
  BY <1>5 DEF Dispatcher!Crash, Dispatcher!Goto, Dispatcher!dbVars, Keeps
<1>6. ASSUME \/ Dispatcher!ReadAttempt(w) \/ Dispatcher!WriteMarker(w)
             \/ Dispatcher!StatementThrows(w)
      PROVE  Keeps(w)
  BY <1>6 DEF Dispatcher!ReadAttempt, Dispatcher!WriteMarker, Dispatcher!StatementThrows,
     Dispatcher!Goto, Dispatcher!dbVars, Keeps
<1>7. ASSUME NEW reply \in Replies, Dispatcher!Originate(w, reply) PROVE Keeps(w)
  <2>1. /\ pc[w] = "marked"
        /\ \E label : Dispatcher!Goto(w, label)
        /\ UNCHANGED <<outbox, ev>>
    BY <1>7, Zenon DEF Dispatcher!Originate, Dispatcher!dbVars
  <2> QED
    BY <2>1 DEF Dispatcher!Goto, Keeps
<1>8. CASE OutboxInternal(w)
  BY <1>1, <1>2, <1>3, <1>4, <1>5, <1>6, <1>8, Zenon DEF OutboxInternal, Dispatcher!StartTick
<1>9. CASE OutboxFails(w) \/ \E reply \in Replies : OutboxOriginates(w, reply)
  BY <1>3, <1>7, <1>9, Zenon DEF OutboxFails, OutboxOriginates
<1> QED
  BY <1>8, <1>9

(* The leases stay exclusive, and whose event is unsettled does not change.*)
LEMMA LeasesStep ==
  ASSUME WorkerTypes, Dispatcher!ExclusiveLease, NEW w \in Workers,
         \/ \E n \in Attempts : GivesBack(n) \/ Takes(w, n)
         \/ Releases(w)
         \/ Keeps(w)
  PROVE  /\ Dispatcher!ExclusiveLease'
         /\ \A n \in Attempts : Unsettled(n)' => Unsettled(n)
<1> USE DEF WorkerTypes, OutboxRows, Unsettled
<1>1. ASSUME NEW n \in Attempts, GivesBack(n)
      PROVE  /\ Dispatcher!ExclusiveLease'
             /\ \A m \in Attempts : Unsettled(m)' => Unsettled(m)
  BY <1>1 DEF GivesBack, Dispatcher!SetOutbox, Dispatcher!ExclusiveLease, Dispatcher!Holds
<1>2. ASSUME NEW n \in Attempts, Takes(w, n)
      PROVE  /\ Dispatcher!ExclusiveLease'
             /\ \A m \in Attempts : Unsettled(m)' => Unsettled(m)
  <2>1. \A v \in Workers : ~Dispatcher!Holds(v, n)
    BY <1>2 DEF Takes, Dispatcher!ExclusiveLease
  <2>2. /\ \A m \in Attempts : m # n => outbox'[m] = outbox[m]
        /\ outbox[n].status = "pending" /\ outbox'[n].status = "processing"
        /\ pc'[w] = "claimed" /\ ev'[w] = n
        /\ \A v \in Workers : v # w => pc'[v] = pc[v] /\ ev'[v] = ev[v]
    BY <1>2 DEF Takes
  <2>3. \A m \in Attempts : Unsettled(m)' => Unsettled(m)
    BY <2>2
  <2>4. Dispatcher!ExclusiveLease'
    BY <2>1, <2>2 DEF Dispatcher!ExclusiveLease, Dispatcher!Holds
  <2> QED
    BY <2>3, <2>4
<1>3. ASSUME Releases(w)
      PROVE  /\ Dispatcher!ExclusiveLease'
             /\ \A m \in Attempts : Unsettled(m)' => Unsettled(m)
  <2>1. /\ pc'[w] \notin Dispatcher!Busy
        /\ \A v \in Workers : v # w => pc'[v] = pc[v] /\ ev'[v] = ev[v]
    BY <1>3 DEF Releases, Dispatcher!NextOfBatch, Dispatcher!Goto, Dispatcher!Busy, Dispatcher!PC
  <2>2. /\ ev[w] \in Attempts
        /\ outbox[ev[w]].status = "processing"
        /\ \A v \in Workers : v # w /\ pc[v] \in Dispatcher!Busy => ev[v] # ev[w]
    BY <1>3 DEF Releases, Dispatcher!ExclusiveLease, Dispatcher!Holds
  <2>3. \A m \in Attempts : m # ev[w] => outbox'[m] = outbox[m]
    BY <1>3 DEF Releases, Dispatcher!SetOutbox
  <2>4. \A v \in Workers : pc'[v] \in Dispatcher!Busy =>
          v # w /\ pc[v] \in Dispatcher!Busy /\ ev'[v] = ev[v] /\ ev[v] # ev[w]
    BY <2>1, <2>2
  <2>5. \A m \in Attempts : Unsettled(m)' => Unsettled(m)
    BY <2>2, <2>3
  <2>6. Dispatcher!ExclusiveLease'
    BY <2>3, <2>4 DEF Dispatcher!ExclusiveLease, Dispatcher!Holds
  <2> QED
    BY <2>5, <2>6
<1>4. ASSUME Keeps(w)
      PROVE  /\ Dispatcher!ExclusiveLease'
             /\ \A m \in Attempts : Unsettled(m)' => Unsettled(m)
  <2>1. UNCHANGED outbox
    BY <1>4 DEF Keeps
  <2>2. ASSUME NEW v \in Workers, pc'[v] \in Dispatcher!Busy
        PROVE  pc[v] \in Dispatcher!Busy /\ ev'[v] = ev[v]
    BY <1>4, <2>2 DEF Keeps
  <2>3. Dispatcher!ExclusiveLease'
    BY <2>1, <2>2 DEF Dispatcher!ExclusiveLease, Dispatcher!Holds
  <2>4. \A m \in Attempts : Unsettled(m)' => Unsettled(m)
    BY <2>1
  <2> QED
    BY <2>3, <2>4
<1> QED
  BY <1>1, <1>2, <1>3, <1>4

LEMMA SettledStep ==
  ASSUME "deliveries" \notin Stale, LatestInv, [Next]_vars
  PROVE  Dispatcher!ExclusiveLease' /\ UnsettledIsLatest'
<1>0. TypeOK /\ WorkerTypes /\ Dispatcher!ExclusiveLease
  BY TypeParts DEF LatestInv, CallInv
<1>1. CASE \E ch \in Channels : Dispatch(ch)
  <2>1. PICK ch \in Channels : Dispatch(ch)
    BY <1>1
  <2> DEFINE n == attemptCount + 1
  <2>2. /\ n \in Attempts /\ attemptCount' = n
        /\ \A m \in Attempts : ~Unsettled(m)
        /\ UNCHANGED <<pc, ev>>
        /\ outbox' = [outbox EXCEPT ![n].status = "pending"] \/ UNCHANGED outbox
    BY <2>1 DEF Dispatch, NothingLeftOver, Unsettled
  <2> HIDE DEF n
  <2>3. \A m \in Attempts : m # n => outbox'[m] = outbox[m]
    BY <1>0, <2>2 DEF WorkerTypes, OutboxRows
  <2>4. \A m \in Attempts : ~\E w \in Workers : Dispatcher!Holds(w, m)
    BY <1>0, <2>2 DEF Dispatcher!ExclusiveLease, Unsettled
  <2>5. Dispatcher!ExclusiveLease'
    BY <1>0, <2>2, <2>4 DEF Dispatcher!ExclusiveLease, Dispatcher!Holds
  <2>6. UnsettledIsLatest'
    BY <2>2, <2>3 DEF UnsettledIsLatest, Unsettled
  <2> QED
    BY <2>5, <2>6
<1>2. CASE ~\E ch \in Channels : Dispatch(ch)
  <2>1. attemptCount' = attemptCount
    BY <1>0, <1>2, CountGrows
  <2>2. CASE WorkersUnchanged
    BY <1>0, <2>1, <2>2 DEF LatestInv, WorkersUnchanged, outboxVars, Dispatcher!ExclusiveLease,
       Dispatcher!Holds, UnsettledIsLatest, Unsettled
  <2>3. CASE \E w \in Workers : \/ OutboxInternal(w) \/ OutboxFails(w)
                                \/ \E reply \in Replies : OutboxOriginates(w, reply)
    <3>1. /\ Dispatcher!ExclusiveLease'
          /\ \A n \in Attempts : Unsettled(n)' => Unsettled(n)
      BY <1>0, <2>3, LeaseKinds, LeasesStep
    <3> QED
      BY <2>1, <3>1 DEF LatestInv, UnsettledIsLatest
  <2> QED
    BY <1>2, <2>2, <2>3, WorkerKinds
<1> QED
  BY <1>1, <1>2

(* What TaskFollowsLatestAttempt says of an attempt that is not closed.    *)
LEMMA OpenAttemptSpeaks ==
  ASSUME LatestInv, attemptCount \in Attempts, attStatus[attemptCount] \notin TERMINAL_STATUSES
  PROVE  /\ attStatus[attemptCount] \in ActiveStatuses
         /\ taskStatus \in {attStatus[attemptCount]} \cup OperatorStatuses
<1>1. RowTypes /\ attemptCount # 0 /\ attemptCount \in Nat
  BY TypeParts DEF LatestInv, CallInv, Attempts
<1>2. attStatus[attemptCount] \in AttemptStatuses
  BY <1>1 DEF RowTypes
<1>3. attStatus[attemptCount] \notin {"NONE", "PENDING"}
  BY <1>1 DEF LatestInv, CallInv, Agreement, OpenedAreCalled
<1> QED
  BY <1>1, <1>2, <1>3 DEF AttemptStatuses, Statuses, LatestInv, TaskFollowsLatestAttempt

LEMMA DispatchFollows ==
  ASSUME LatestInv, OperatorsOnlyFinish, NEW ch \in Channels, Dispatch(ch)
  PROVE  OlderAttemptsClosed' /\ TaskFollowsLatestAttempt'
<1> DEFINE n == attemptCount + 1
<1>0. RowTypes /\ Attempts \subseteq Nat /\ attemptCount \in Nat
  BY TypeParts DEF LatestInv, CallInv, RowTypes, Attempts
<1>1. /\ taskStatus \in {"PENDING", "FAILED", "NO_ANSWER"}
      /\ n \in Attempts
      /\ taskStatus' = "CALLING"
      /\ attemptCount' = n
      /\ attStatus' = [attStatus EXCEPT ![n] = "CALLING"]
  BY <1>0, StatusFacts DEF RowTypes, Dispatch
<1>2. attemptCount \in Attempts => attStatus[attemptCount] \in TERMINAL_STATUSES
  <2>1. attemptCount \in Attempts => taskStatus # "PENDING"
    BY DEF LatestInv, CallInv, Agreement, OpenedAreCalled, Attempts
  <2> QED
    BY <1>1, <2>1, OpenAttemptSpeaks DEF OperatorsOnlyFinish
<1>3. \A m \in Attempts : m < n => attStatus[m] \in TERMINAL_STATUSES
  BY <1>0, <1>2 DEF LatestInv, OlderAttemptsClosed
<1>4. attStatus'[n] = "CALLING" /\ \A m \in Attempts : m # n => attStatus'[m] = attStatus[m]
  BY <1>0, <1>1 DEF RowTypes
<1> QED
  BY <1>0, <1>1, <1>3, <1>4 DEF OlderAttemptsClosed, TaskFollowsLatestAttempt

LEMMA OtherStepFollows ==
  ASSUME "requests" \notin Stale, OperatorsOnlyFinish, LatestInv, [Next]_vars,
         ~\E ch \in Channels : Dispatch(ch)
  PROVE  TaskFollowsLatestAttempt'
<1> DEFINE n == attemptCount
<1>0. /\ TypeOK /\ CallInv /\ RowTypes /\ attemptCount' = n
      /\ n # 0 => n \in Attempts
  BY TypeParts, CountGrows DEF LatestInv, CallInv, RowTypes, Attempts
<1>1. SUFFICES ASSUME n # 0, attStatus'[n] \in ActiveStatuses
               PROVE  taskStatus' \in {attStatus'[n]} \cup OperatorStatuses
  BY <1>0 DEF TaskFollowsLatestAttempt
<1>2. attStatus[n] \notin TERMINAL_STATUSES
  <2>1. AttemptsStayClosed
    BY <1>0, AgreementStep DEF OperatorsOnlyFinish, OperatorsOnlyClose
  <2> QED
    BY <1>0, <1>1, <2>1 DEF AttemptsStayClosed
<1>3. attStatus[n] \in ActiveStatuses /\ taskStatus \in {attStatus[n]} \cup OperatorStatuses
  BY <1>0, <1>1, <1>2, OpenAttemptSpeaks
<1> HIDE DEF n
<1>4. CASE StatusesUnchanged
  BY <1>3, <1>4 DEF StatusesUnchanged
<1>5. ASSUME NEW m \in 0 .. MaxAttempts, NEW status \in Statuses, StatusReport(m, status)
      PROVE  taskStatus' \in {attStatus'[n]} \cup OperatorStatuses
  <2>1. taskStatus' = status
    BY <1>5 DEF StatusReport, UpdateStatus
  <2>2. CASE m = 0
    BY <1>5, <2>1, <2>2 DEF StatusReport, Attempts
  <2>3. CASE m # 0
    <3>1. m = n /\ status = "IN_CALL" /\ attStatus' = [attStatus EXCEPT ![m] = status]
      BY <1>5, <2>3 DEF StatusReport, UpdateStatus, IsLatest, n
    <3> QED
      BY <1>0, <1>1, <2>1, <3>1 DEF RowTypes
  <2> QED
    BY <2>2, <2>3
<1>6. ASSUME NEW m \in 0 .. MaxAttempts, FinalizeLocalHangup(m)
      PROVE  taskStatus' \in {attStatus'[n]} \cup OperatorStatuses
  <2>1. m = n
    BY <1>0, <1>6 DEF CallInv, BegunForOpened, FinalizeLocalHangup, n
  <2> QED
    BY <1>0, <1>1, <1>3, <1>6, <2>1 DEF FinalizeLocalHangup
<1>7. ASSUME NEW m \in Attempts, RecordAnswer(m)
      PROVE  taskStatus' \in {attStatus'[n]} \cup OperatorStatuses
  <2>1. CASE m = n
    <3>1. /\ attStatus' = [attStatus EXCEPT ![n] = "IN_CALL"]
          /\ IF Open THEN taskStatus' = "IN_CALL" ELSE UNCHANGED taskStatus
      BY <1>2, <1>7, <2>1 DEF RecordAnswer, IsLatest, n
    <3>2. attStatus'[n] = "IN_CALL"
      BY <1>0, <1>1, <3>1 DEF RowTypes
    <3> QED
      BY <1>3, <3>1, <3>2 DEF Open
  <2>2. CASE m # n
    <3>1. UNCHANGED taskStatus /\ attStatus'[n] = attStatus[n]
      BY <1>0, <1>1, <1>7, <2>2 DEF RecordAnswer, IsLatest, RowTypes, n
    <3> QED
      BY <1>3, <3>1
  <2> QED
    BY <2>1, <2>2
<1>8. ASSUME NEW S, NEW verdict, Closing(S, verdict)
      PROVE  taskStatus' \in {attStatus'[n]} \cup OperatorStatuses
  <2>1. n \notin S
    BY <1>0, <1>1, <1>8 DEF Closing, CloseAttempts
  <2>2. UNCHANGED taskStatus /\ attStatus'[n] = attStatus[n]
    BY <1>0, <1>1, <1>8, <2>1 DEF Closing, CloseAttempts, n
  <2> QED
    BY <1>3, <2>2
<1>9. ASSUME NEW w \in Workers, OutboxFails(w)
      PROVE  taskStatus' \in {attStatus'[n]} \cup OperatorStatuses
  <2>1. ev[w] = n
    <3>1. pc[w] \in {"retry", "reject"}
      BY <1>9 DEF OutboxFails
    <3>2. pc[w] \in Dispatcher!Busy
      BY <3>1 DEF Dispatcher!Busy, Dispatcher!PC
    <3>3. ev[w] \in Attempts /\ outbox[ev[w]].status = "processing"
      BY <3>2 DEF LatestInv, Dispatcher!ExclusiveLease, Dispatcher!Holds
    <3> QED
      BY <3>3 DEF LatestInv, UnsettledIsLatest, Unsettled, n
  <2>2. CASE Dispatcher!TerminalFailure(w) /\ attStatus[n] = "CALLING"
    <3>1. attStatus' = [attStatus EXCEPT ![n] = "FAILED"]
      BY <1>9, <2>1, <2>2 DEF OutboxFails
    <3> QED
      BY <1>0, <1>1, <3>1 DEF RowTypes
  <2>3. CASE ~(Dispatcher!TerminalFailure(w) /\ attStatus[n] = "CALLING")
    <3>1. taskStatus = "CALLING" => attStatus[n] = "CALLING"
      BY <1>0 DEF CallInv, Agreement, ActiveTaskHasActiveAttempt, n
    <3>2. UNCHANGED <<attStatus, taskStatus>>
      BY <1>9, <2>1, <2>3, <3>1 DEF OutboxFails
    <3> QED
      BY <1>3, <3>2
  <2> QED
    BY <2>2, <2>3
<1> QED
  BY <1>0, <1>4, <1>5, <1>6, <1>7, <1>8, <1>9, StatusKinds

LEMMA OtherStepKeepsOlderClosed ==
  ASSUME "requests" \notin Stale, OperatorsOnlyFinish, LatestInv, [Next]_vars,
         ~\E ch \in Channels : Dispatch(ch)
  PROVE  OlderAttemptsClosed'
<1>1. AttemptsStayClosed
  BY AgreementStep DEF LatestInv, OperatorsOnlyFinish, OperatorsOnlyClose
<1>2. attemptCount' = attemptCount
  BY CountGrows DEF LatestInv, CallInv
<1> QED
  BY <1>1, <1>2 DEF LatestInv, OlderAttemptsClosed, AttemptsStayClosed

LEMMA LatestInvStep ==
  ASSUME Stale = {}, OperatorsOnlyFinish
  PROVE  LatestInv /\ [Next]_vars => LatestInv'
<1> SUFFICES ASSUME LatestInv, [Next]_vars PROVE LatestInv'
  OBVIOUS
<1>1. CallInv'
  BY CallInvStep DEF LatestInv, OperatorsOnlyFinish, OperatorsOnlyClose
<1>2. Dispatcher!ExclusiveLease' /\ UnsettledIsLatest'
  BY SettledStep
<1>3. OlderAttemptsClosed' /\ TaskFollowsLatestAttempt'
  BY DispatchFollows, OtherStepFollows, OtherStepKeepsOlderClosed
<1> QED
  BY <1>1, <1>2, <1>3 DEF LatestInv

(* Without stale work only the latest attempt is open, and the task is in  *)
(* its status: any number of redials over any mix of channels.             *)
THEOREM LatestAttemptSpeaks ==
  ASSUME Stale = {}, OperatorsOnlyFinish
  PROVE  Spec => [](OlderAttemptsClosed /\ TaskFollowsLatestAttempt)
<1>1. Init => LatestInv
  <2> SUFFICES ASSUME Init PROVE LatestInv
    OBVIOUS
  <2>1. Dispatcher!ExclusiveLease
    BY DEF Init, Dispatcher!ExclusiveLease, Dispatcher!Holds, Dispatcher!Busy
  <2>2. UnsettledIsLatest /\ OlderAttemptsClosed /\ TaskFollowsLatestAttempt
    BY DEF Init, UnsettledIsLatest, Unsettled, OlderAttemptsClosed, TaskFollowsLatestAttempt,
       Attempts
  <2> QED
    BY <2>1, <2>2, CallInvInit DEF LatestInv
<1>2. LatestInv /\ [Next]_vars => LatestInv'
  BY LatestInvStep
<1>3. LatestInv => OlderAttemptsClosed /\ TaskFollowsLatestAttempt
  BY DEF LatestInv
<1> QED
  BY <1>1, <1>2, <1>3, PTL DEF Spec
-----------------------------------------------------------------------------
(* A call is placed once: who is about to place one has written a marker   *)
(* that was not there, and a placed call has left it.                      *)
PlacedOnce ==
  /\ \A w \in Workers : pc[w] = "fresh" => ~marker[ev[w]]
  /\ \A w \in Workers : pc[w] = "marked" => chan[ev[w]] = "none" /\ marker[ev[w]]
  /\ \A w \in Workers : pc[w] = "placed" => chan[ev[w]] # "none"
  /\ \A n \in Attempts : chan[n] # "none" => marker[n]
  /\ \A n \in Attempts : jobId[n] => chan[n] # "none"

(* Only placed calls are missed, and one that was missed before and is not *)
(* in the snapshot under way has ended.                                    *)
MissedIsOver ==
  /\ \A n \in Attempts : missing[n] > 0 => jobId[n]
  /\ \A n \in Attempts :
       snapshot.sent /\ missing[n] > 0 /\ n \notin snapshot.active => chan[n] = "gone"

MissingInv == TypeOK /\ NotYetOpened /\ Dispatcher!ExclusiveLease /\ PlacedOnce /\ MissedIsOver

(* Channels come into being by an originate alone, and end for good.       *)
ChannelsMoveOn ==
  \A n \in Attempts : /\ chan'[n] = "none" <=> chan[n] = "none"
                      /\ chan[n] = "gone" => chan'[n] = "gone"

LEMMA ChannelKinds ==
  ASSUME TypeOK, [Next]_vars
  PROVE  \/ ChannelsMoveOn
         \/ \E w \in Workers, reply \in Replies : OutboxOriginates(w, reply)
<1>0. FlightTypes
  BY TypeParts
<1>1. ASSUME NEW n, FreeSwitch(n) \/ HangupAccepted(n) PROVE ChannelsMoveOn
  BY <1>0, <1>1 DEF FlightTypes, ChannelsMoveOn, FreeSwitch, HangupAccepted, ChannelRings,
     ChannelAnswered, ChannelEnds, EndChannel, OriginateJobFails
<1>2. ASSUME NEW n, \/ RequestHangup(n) \/ FinalizeLocalHangup(n) \/ AgentReportsInCall(n)
                    \/ RecordProviderCallEvent(n) \/ Tick(n)
      PROVE  UNCHANGED chan
  BY <1>2 DEF RequestHangup, FinalizeLocalHangup, AgentReportsInCall, UpdateStatus, Tick,
     RecordProviderCallEvent, RecordProgress, RecordAnswer, RecordJobError, RecordHangup, NewEvent,
     switchVars
<1>3. ASSUME \/ TakeSnapshot \/ LoseSnapshot \/ RecordProviderActiveSnapshot
             \/ ReapStaleActiveCalls \/ OperatorUpdatesStatus
             \/ \E ch \in Channels : Dispatch(ch)
      PROVE  UNCHANGED chan
  BY <1>3 DEF TakeSnapshot, LoseSnapshot, RecordProviderActiveSnapshot, ReapStaleActiveCalls,
     OperatorUpdatesStatus, UpdateStatus, Dispatch, switchVars
<1>4. CASE UNCHANGED vars
  BY <1>4 DEF vars, ChannelsMoveOn
<1>5. ASSUME NEW w \in Workers, OutboxInternal(w) \/ OutboxFails(w) PROVE UNCHANGED chan
  BY <1>5 DEF OutboxInternal, OutboxFails
<1>6. ASSUME UNCHANGED chan PROVE ChannelsMoveOn
  BY <1>6 DEF ChannelsMoveOn
<1>. QED
  BY <1>1, <1>2, <1>3, <1>4, <1>5, <1>6 DEF Next

(* What a worker's step is to the marker and the job id.                   *)
MarkerStep(w) ==
  /\ \A v \in Workers : v # w => pc'[v] = pc[v] /\ ev'[v] = ev[v]
  /\ \/ pc'[w] \notin {"fresh", "marked", "placed"} /\ UNCHANGED <<marker, jobId>>
     \/ /\ pc[w] = "placed" /\ pc'[w] \notin {"fresh", "marked", "placed"}
        /\ UNCHANGED marker /\ jobId' = [jobId EXCEPT ![ev[w]] = TRUE]
     \/ pc'[w] = "fresh" /\ ~marker[ev[w]] /\ UNCHANGED <<marker, jobId, ev>>
     \/ /\ pc[w] = "fresh" /\ pc'[w] = "marked" /\ marker' = [marker EXCEPT ![ev[w]] = TRUE]
        /\ UNCHANGED <<jobId, ev>>

LEMMA MarkerKinds ==
  ASSUME WorkerTypes, NEW w \in Workers, OutboxInternal(w) \/ OutboxFails(w)
  PROVE  UNCHANGED chan /\ (MarkerStep(w) \/ UNCHANGED <<pc, ev, marker, jobId>>)
<1>. USE DEF WorkerTypes, Dispatcher!PC
<1>1. UNCHANGED chan
  BY Zenon DEF OutboxInternal, OutboxFails
<1>2. ASSUME NEW n \in Attempts, Dispatcher!RecoverExpiredLeases(w, n)
      PROVE  UNCHANGED <<pc, ev, marker, jobId>>
  BY <1>2 DEF Dispatcher!RecoverExpiredLeases, Dispatcher!workerVars
<1>3. ASSUME NEW due, Dispatcher!RunBatch(w, due) PROVE MarkerStep(w)
  BY <1>3 DEF Dispatcher!RunBatch, Dispatcher!Goto, Dispatcher!dbVars, MarkerStep
<1>4. ASSUME NEW n \in Attempts, Dispatcher!Claim(w, n) PROVE MarkerStep(w)
  <2>1. /\ \E label \in {"claimed", "batch", "idle"} : Dispatcher!Goto(w, label)
        /\ \A v \in Workers : v # w => ev'[v] = ev[v]
        /\ UNCHANGED <<marker, jobId>>
    <3>1. CASE outbox[n].status = "pending"
      BY <1>4, <3>1 DEF Dispatcher!Claim
    <3>2. CASE outbox[n].status # "pending"
      BY <1>4, <3>2 DEF Dispatcher!Claim
    <3>. QED
      BY <3>1, <3>2
  <2>. QED
    BY <2>1 DEF Dispatcher!Goto, MarkerStep
<1>5. ASSUME Dispatcher!ReadAttempt(w) PROVE MarkerStep(w)
  BY <1>5 DEF Dispatcher!ReadAttempt, Dispatcher!Goto, Dispatcher!dbVars, MarkerStep
<1>6. ASSUME Dispatcher!WriteMarker(w) PROVE MarkerStep(w)
  BY <1>6 DEF Dispatcher!WriteMarker, Dispatcher!Goto, MarkerStep
<1>7. ASSUME Dispatcher!CommitJob(w) PROVE MarkerStep(w)
  BY <1>7 DEF Dispatcher!CommitJob, Dispatcher!NextOfBatch, Dispatcher!Goto, MarkerStep
<1>8. ASSUME \/ Dispatcher!MarkDispatchProcessed(w) \/ Dispatcher!DeadLetterDispatch(w)
             \/ Dispatcher!HandleFailure(w)
      PROVE  MarkerStep(w)
  BY <1>8 DEF Dispatcher!MarkDispatchProcessed, Dispatcher!DeadLetterDispatch,
     Dispatcher!HandleFailure, Dispatcher!NextOfBatch, Dispatcher!Goto, MarkerStep
<1>9. ASSUME Dispatcher!StatementThrows(w) \/ Dispatcher!Crash(w) PROVE MarkerStep(w)
  BY <1>9 DEF Dispatcher!StatementThrows, Dispatcher!Crash, Dispatcher!Goto, Dispatcher!dbVars,
     MarkerStep
<1>10. CASE OutboxInternal(w)
  BY <1>1, <1>2, <1>3, <1>4, <1>5, <1>6, <1>7, <1>8, <1>9, <1>10, Zenon DEF OutboxInternal,
     Dispatcher!StartTick
<1>11. CASE OutboxFails(w)
  BY <1>1, <1>8, <1>11, Zenon DEF OutboxFails
<1>. QED
  BY <1>10, <1>11

LEMMA LeasesStayExclusive ==
  ASSUME TypeOK, NotYetOpened, Dispatcher!ExclusiveLease, [Next]_vars
  PROVE  Dispatcher!ExclusiveLease'
<1>0. WorkerTypes /\ RowTypes
  BY TypeParts
<1>1. ASSUME NEW ch \in Channels, Dispatch(ch) PROVE Dispatcher!ExclusiveLease'
  <2>. DEFINE n == attemptCount + 1
  <2>1. /\ n \in Attempts /\ UNCHANGED <<pc, ev>>
        /\ outbox' = [outbox EXCEPT ![n].status = "pending"] \/ UNCHANGED outbox
    BY <1>1 DEF Dispatch
  <2>2. n > attemptCount
    BY <1>0 DEF RowTypes
  <2>. HIDE DEF n
  <2>3. outbox[n].status = "none" /\ \A m \in Attempts : m # n => outbox'[m] = outbox[m]
    BY <1>0, <2>1, <2>2 DEF NotYetOpened, WorkerTypes, OutboxRows
  <2>. QED
    BY <2>1, <2>3 DEF Dispatcher!ExclusiveLease, Dispatcher!Holds
<1>2. CASE WorkersUnchanged
  BY <1>2 DEF WorkersUnchanged, outboxVars, Dispatcher!ExclusiveLease, Dispatcher!Holds
<1>3. ASSUME NEW w \in Workers, \/ OutboxInternal(w) \/ OutboxFails(w)
                                \/ \E reply \in Replies : OutboxOriginates(w, reply)
      PROVE  Dispatcher!ExclusiveLease'
  BY <1>0, <1>3, LeaseKinds, LeasesStep
<1>. QED
  BY <1>1, <1>2, <1>3, WorkerKinds

LEMMA OriginatesOnce ==
  ASSUME TypeOK, Dispatcher!ExclusiveLease, PlacedOnce, NEW w \in Workers, NEW reply \in Replies,
         OutboxOriginates(w, reply)
  PROVE  /\ ev[w] \in Attempts /\ chan[ev[w]] = "none"
         /\ PlacedOnce'
<1>0. FlightTypes /\ WorkerTypes
  BY TypeParts
<1>1. pc[w] = "marked" /\ ev[w] \in Attempts /\ chan[ev[w]] = "none" /\ marker[ev[w]]
  <2>1. pc[w] = "marked"
    BY DEF OutboxOriginates
  <2>. QED
    BY <2>1 DEF PlacedOnce, Dispatcher!ExclusiveLease, Dispatcher!Busy, Dispatcher!PC
<1>2. /\ \A v \in Workers : v # w => pc'[v] = pc[v]
      /\ \/ pc'[w] \in {"retry", "reject"} /\ UNCHANGED chan
         \/ pc'[w] \in {"placed", "retry", "reject"} /\ chan' = [chan EXCEPT ![ev[w]] = "queued"]
      /\ UNCHANGED <<marker, jobId, ev>>
  <2>1. ~(chan[ev[w]] \in LiveChannel)
    BY <1>1 DEF LiveChannel
  <2>2. \E label \in {"placed", "retry", "reject"} :
          /\ Dispatcher!Goto(w, label)
          /\ label = "placed" => reply \in {"accepted", "lost", "garbled"}
    BY <1>1, <2>1 DEF OutboxOriginates, Dispatcher!Originate
  <2>3. UNCHANGED <<marker, jobId, ev>>
    BY DEF OutboxOriginates, Dispatcher!Originate, Dispatcher!dbVars
  <2>4. \/ reply \in {"accepted", "lost", "garbled"} /\ chan' = [chan EXCEPT ![ev[w]] = "queued"]
        \/ reply \notin {"accepted", "lost", "garbled"} /\ UNCHANGED chan
    BY <1>1, <2>1 DEF OutboxOriginates
  <2>. QED
    BY <1>0, <2>2, <2>3, <2>4 DEF WorkerTypes, Dispatcher!Goto, Dispatcher!PC
<1>3. \A v \in Workers : v # w /\ pc[v] \in {"fresh", "marked", "placed"} =>
        ev[v] \in Attempts /\ ev[v] # ev[w]
  BY <1>1 DEF Dispatcher!ExclusiveLease, Dispatcher!Holds, Dispatcher!Busy, Dispatcher!PC
<1>. QED
  BY <1>0, <1>1, <1>2, <1>3 DEF PlacedOnce, FlightTypes, WorkerTypes

LEMMA PlacedStep ==
  ASSUME TypeOK, Dispatcher!ExclusiveLease, PlacedOnce, [Next]_vars
  PROVE  PlacedOnce'
<1>0. FlightTypes /\ WorkerTypes
  BY TypeParts
<1>1. CASE UNCHANGED <<pc, ev, marker, jobId>>
  <2>1. CASE ChannelsMoveOn
    <3>1. \A w \in Workers : pc[w] \in {"marked", "placed"} => ev[w] \in Attempts
      BY DEF Dispatcher!ExclusiveLease, Dispatcher!Busy, Dispatcher!PC
    <3>. QED
      BY <1>1, <2>1, <3>1 DEF PlacedOnce, ChannelsMoveOn
  <2>2. CASE \E w \in Workers, reply \in Replies : OutboxOriginates(w, reply)
    BY <2>2, OriginatesOnce
  <2>. QED
    BY <2>1, <2>2, ChannelKinds
<1>2. ASSUME NEW w \in Workers, OutboxInternal(w) \/ OutboxFails(w) PROVE PlacedOnce'
  <2>1. UNCHANGED chan /\ (MarkerStep(w) \/ UNCHANGED <<pc, ev, marker, jobId>>)
    BY <1>0, <1>2, MarkerKinds
  <2>2. \A v \in Workers : pc[v] \in {"fresh", "marked", "placed"} =>
          ev[v] \in Attempts /\ (pc[w] \in {"fresh", "placed"} /\ v # w => ev[v] # ev[w])
    BY DEF Dispatcher!ExclusiveLease, Dispatcher!Holds, Dispatcher!Busy, Dispatcher!PC
  <2>3. CASE MarkerStep(w)
    BY <1>0, <2>1, <2>2, <2>3 DEF MarkerStep, PlacedOnce, WorkerTypes
  <2>. QED
    BY <1>1, <2>1, <2>3
<1>3. ASSUME NEW ch \in Channels, Dispatch(ch) PROVE UNCHANGED <<pc, ev, marker, jobId>>
  BY <1>3 DEF Dispatch
<1>. QED
  BY <1>1, <1>2, <1>3, OriginatesOnce, WorkerKinds DEF WorkersUnchanged, outboxVars

(* The counts of missing snapshots, and the snapshot on its way.           *)
LEMMA CountKinds ==
  ASSUME TypeOK, [Next]_vars
  PROVE  \/ UNCHANGED snapshot /\ \A n \in Attempts : missing'[n] \in {0, missing[n]}
         \/ snapshot' = NoSnapshot /\ UNCHANGED missing
         \/ TakeSnapshot
         \/ RecordProviderActiveSnapshot
<1>0. RowTypes /\ FlightTypes
  BY TypeParts
<1>1. ASSUME UNCHANGED <<snapshot, missing>>
      PROVE  UNCHANGED snapshot /\ \A n \in Attempts : missing'[n] \in {0, missing[n]}
  BY <1>1
<1>2. ASSUME NEW n \in Attempts, RecordProviderCallEvent(n)
      PROVE  UNCHANGED snapshot /\ \A m \in Attempts : missing'[m] \in {0, missing[m]}
  <2>1. UNCHANGED snapshot /\ \E k \in {0, missing[n]} : missing' = [missing EXCEPT ![n] = k]
    BY <1>2 DEF RecordProviderCallEvent, RecordProgress, RecordAnswer, RecordJobError, RecordHangup,
       NewEvent, flightVars
  <2>. QED
    BY <1>0, <2>1 DEF RowTypes
<1>3. ASSUME NEW n, \/ RequestHangup(n) \/ HangupAccepted(n) \/ FinalizeLocalHangup(n)
                    \/ AgentReportsInCall(n) \/ FreeSwitch(n) \/ Tick(n)
      PROVE  UNCHANGED <<snapshot, missing>>
  BY <1>3, Zenon DEF RequestHangup, HangupAccepted, FinalizeLocalHangup, AgentReportsInCall,
     UpdateStatus, FreeSwitch, ChannelRings, ChannelAnswered, ChannelEnds, OriginateJobFails, Tick,
     flightVars, attemptVars
<1>4. ASSUME \/ ReapStaleActiveCalls \/ OperatorUpdatesStatus \/ \E ch \in Channels : Dispatch(ch)
      PROVE  UNCHANGED <<snapshot, missing>>
  BY <1>4, Zenon DEF ReapStaleActiveCalls, OperatorUpdatesStatus, UpdateStatus, Dispatch, flightVars
<1>5. ASSUME NEW w, \/ OutboxInternal(w) \/ OutboxFails(w)
                    \/ \E reply \in Replies : OutboxOriginates(w, reply)
      PROVE  UNCHANGED <<snapshot, missing>>
  BY <1>5, Zenon DEF OutboxInternal, OutboxFails, OutboxOriginates, flightVars, attemptVars
<1>6. CASE LoseSnapshot
  BY <1>6 DEF LoseSnapshot, attemptVars
<1>7. CASE UNCHANGED vars
  BY <1>7 DEF vars
<1>. QED
  BY <1>1, <1>2, <1>3, <1>4, <1>5, <1>6, <1>7 DEF Next

LEMMA JobsStay == ASSUME TypeOK, [Next]_vars PROVE \A n \in Attempts : jobId[n] => jobId'[n]
<1>0. WorkerTypes
  BY TypeParts
<1>1. ASSUME NEW w \in Workers, OutboxInternal(w) \/ OutboxFails(w)
      PROVE  \A n \in Attempts : jobId[n] => jobId'[n]
  <2>1. MarkerStep(w) \/ UNCHANGED jobId
    BY <1>0, <1>1, MarkerKinds
  <2>. QED
    BY <1>0, <2>1 DEF MarkerStep, WorkerTypes
<1>2. ASSUME NEW w \in Workers, NEW reply \in Replies, OutboxOriginates(w, reply)
      PROVE  UNCHANGED jobId
  BY <1>2 DEF OutboxOriginates, Dispatcher!Originate, Dispatcher!dbVars
<1>3. ASSUME NEW ch \in Channels, Dispatch(ch) PROVE UNCHANGED jobId
  BY <1>3 DEF Dispatch
<1>. QED
  BY <1>1, <1>2, <1>3, WorkerKinds DEF WorkersUnchanged, outboxVars

(* The second missing snapshot was taken after the first was read, when    *)
(* the call had been placed: what it does not show has ended.              *)
LEMMA MissedStep ==
  ASSUME TypeOK, Dispatcher!ExclusiveLease, PlacedOnce, MissedIsOver, [Next]_vars
  PROVE  /\ MissedIsOver'
         /\ \A n \in Attempts : missing'[n] = 2 /\ missing[n] # 2 => chan[n] = "gone"
<1>0. RowTypes /\ FlightTypes /\ WorkerTypes
  BY TypeParts
<1>1. \A n \in Attempts : chan[n] = "gone" => chan'[n] = "gone"
  <2>1. ASSUME NEW w \in Workers, NEW reply \in Replies, OutboxOriginates(w, reply)
        PROVE  \A n \in Attempts : chan[n] = "gone" => chan'[n] = "gone"
    BY <1>0, <2>1, OriginatesOnce DEF OutboxOriginates, FlightTypes
  <2>. QED
    BY <2>1, ChannelKinds DEF ChannelsMoveOn
<1>2. \A n \in Attempts : jobId[n] => jobId'[n]
  BY JobsStay
<1>3. CASE UNCHANGED snapshot /\ \A n \in Attempts : missing'[n] \in {0, missing[n]}
  BY <1>0, <1>1, <1>2, <1>3 DEF MissedIsOver, RowTypes
<1>4. CASE snapshot' = NoSnapshot /\ UNCHANGED missing
  BY <1>1, <1>2, <1>4 DEF MissedIsOver, NoSnapshot
<1>5. CASE TakeSnapshot
  <2>1. /\ \A n \in Attempts : chan[n] # "queued"
        /\ snapshot'.active = {n \in Attempts : chan[n] \in {"ringing", "answered"}}
        /\ UNCHANGED <<missing, chan>>
    BY <1>5 DEF TakeSnapshot, attemptVars, switchVars
  <2>2. \A n \in Attempts : missing[n] > 0 => chan[n] \in {"ringing", "answered", "gone"}
    BY <1>0, <2>1 DEF MissedIsOver, PlacedOnce, FlightTypes, ChannelStates
  <2>. QED
    BY <1>2, <2>1, <2>2 DEF MissedIsOver
<1>6. CASE RecordProviderActiveSnapshot
  <2>. DEFINE scanned == {n \in Attempts : /\ channel[n] = "freeswitch"
                                           /\ attStatus[n] \in ActiveStatuses
                                           /\ jobId[n]}
              absent == {n \in scanned : n \notin snapshot.active /\ n \in snapshot.settled}
              lost == {n \in absent : MissingTwice(n)}
  <2>1. /\ snapshot.sent /\ snapshot' = NoSnapshot /\ UNCHANGED <<jobId, chan>>
        /\ missing' = [n \in Attempts |->
                         IF n \in absent THEN IF n \in lost THEN 2 ELSE 1
                         ELSE IF n \in scanned THEN 0 ELSE missing[n]]
    BY <1>6 DEF RecordProviderActiveSnapshot, outboxVars, switchVars
  <2>2. \A n \in absent : jobId[n] /\ n \notin snapshot.active
    OBVIOUS
  <2>3. \A n \in lost : n \in absent /\ missing[n] > 0
    BY <1>0 DEF MissingTwice, RowTypes
  <2>. HIDE DEF scanned, absent, lost
  <2>4. \A n \in Attempts : \/ n \in absent /\ (n \in lost \/ missing'[n] = 1)
                            \/ missing'[n] \in {0, missing[n]}
    BY <2>1
  <2>5. MissedIsOver'
    BY <1>0, <2>1, <2>2, <2>4 DEF MissedIsOver, NoSnapshot, RowTypes
  <2>6. ASSUME NEW n \in Attempts, missing'[n] = 2, missing[n] # 2 PROVE chan[n] = "gone"
    <3>1. n \in lost
      BY <2>4, <2>6
    <3>. QED
      BY <2>1, <2>2, <2>3, <3>1 DEF MissedIsOver
  <2>. QED
    BY <2>5, <2>6
<1>. QED
  BY <1>3, <1>4, <1>5, <1>6, CountKinds

(* Two snapshots in a row that do not show a call mean that it has ended,  *)
(* whatever the outbox, the hangups and the redials do meanwhile: there is *)
(* nothing to assume of what is left over.                                 *)
THEOREM OnlyTheDeadAreGivenUp == Spec => ReconcilesOnlyDeadCalls
<1>1. Init => MissingInv
  <2>. SUFFICES ASSUME Init PROVE MissingInv
    OBVIOUS
  <2>1. TypeOK /\ NotYetOpened
    BY InitTypes DEF Init, NotYetOpened, Attempts, Dispatcher!None
  <2>2. Dispatcher!ExclusiveLease
    BY DEF Init, Dispatcher!ExclusiveLease, Dispatcher!Holds, Dispatcher!Busy
  <2>3. PlacedOnce /\ MissedIsOver
    BY DEF Init, PlacedOnce, MissedIsOver
  <2>. QED
    BY <2>1, <2>2, <2>3 DEF MissingInv
<1>2. MissingInv /\ [Next]_vars =>
        /\ MissingInv'
        /\ \A n \in Attempts : missing'[n] = 2 /\ missing[n] # 2 => chan[n] = "gone"
  BY TypeStep, OpenedStep, LeasesStayExclusive, PlacedStep, MissedStep DEF MissingInv
<1>. QED
  BY <1>1, <1>2, PTL DEF Spec, ReconcilesOnlyDeadCalls
-----------------------------------------------------------------------------
(* What an open attempt's row says of its call: nothing of its end, and of *)
(* its answer only what happened.  calledAt may be left over from an       *)
(* earlier attempt; when it is the latest attempt's it is as true.         *)
CauseOfClosed ==
  \A n \in Attempts : attStatus[n] \notin TERMINAL_STATUSES => hangupCause[n] = "none"

OnSwitch ==
  \A n \in Attempts : outbox[n].status # "none" \/ dials[n] > 0 => channel[n] = "freeswitch"

(* The voice agent's report stands for an answer on the web.               *)
TrulyAnswered(n) == picked[n] \/ channel[n] = "web"

AnswersAreTrue ==
  /\ \A n \in Attempts : "ANSWER" \in emitted[n] => picked[n]
  /\ \A n \in Attempts : answeredAt[n] => TrulyAnswered(n) /\ n <= attemptCount
  /\ calledAt \in {NoTime} \cup 1 .. attemptCount
  /\ calledAt # NoTime /\ calledAt = attemptCount => TrulyAnswered(attemptCount)

VerdictInv == CallInv /\ Dispatcher!ExclusiveLease /\ CauseOfClosed /\ OnSwitch /\ AnswersAreTrue

LEMMA PickedStep ==
  ASSUME TypeOK, \A n \in Attempts : "ANSWER" \in emitted[n] => picked[n], [Next]_vars
  PROVE  \A n \in Attempts : /\ picked[n] => picked'[n]
                             /\ "ANSWER" \in emitted'[n] => picked'[n]
<1>0. FlightTypes
  BY TypeParts
<1>1. ASSUME NEW n \in 0 .. MaxAttempts, FreeSwitch(n) \/ HangupAccepted(n)
      PROVE  \A m \in Attempts : /\ picked[m] => picked'[m]
                                 /\ "ANSWER" \in emitted'[m] => picked'[m]
  BY <1>0, <1>1 DEF FlightTypes, FreeSwitch, HangupAccepted, ChannelRings, ChannelAnswered,
     ChannelEnds, EndChannel, OriginateJobFails
<1>2. ASSUME UNCHANGED <<picked, emitted>>
      PROVE  \A m \in Attempts : /\ picked[m] => picked'[m]
                                 /\ "ANSWER" \in emitted'[m] => picked'[m]
  BY <1>2
<1>3. ASSUME NEW n, \/ RequestHangup(n) \/ FinalizeLocalHangup(n) \/ AgentReportsInCall(n)
                    \/ RecordProviderCallEvent(n) \/ Tick(n)
      PROVE  UNCHANGED <<picked, emitted>>
  BY <1>3 DEF RequestHangup, FinalizeLocalHangup, AgentReportsInCall, UpdateStatus, Tick,
     RecordProviderCallEvent, RecordProgress, RecordAnswer, RecordJobError, RecordHangup, NewEvent,
     switchVars
<1>4. ASSUME \/ TakeSnapshot \/ LoseSnapshot \/ RecordProviderActiveSnapshot
             \/ ReapStaleActiveCalls \/ OperatorUpdatesStatus
             \/ \E ch \in Channels : Dispatch(ch)
      PROVE  UNCHANGED <<picked, emitted>>
  BY <1>4 DEF TakeSnapshot, LoseSnapshot, RecordProviderActiveSnapshot, ReapStaleActiveCalls,
     OperatorUpdatesStatus, UpdateStatus, Dispatch, switchVars
<1>5. ASSUME NEW w, \/ OutboxInternal(w) \/ OutboxFails(w)
                    \/ \E reply \in Replies : OutboxOriginates(w, reply)
      PROVE  UNCHANGED <<picked, emitted>>
  BY <1>5, Zenon DEF OutboxInternal, OutboxFails, OutboxOriginates
<1>6. CASE UNCHANGED vars
  BY <1>6 DEF vars
<1>. QED
  BY <1>1, <1>2, <1>3, <1>4, <1>5, <1>6, AttemptsAreNumbers DEF Next

(* An attempt is marked as answered, and the task's first answer is dated, *)
(* by an answer alone.                                                     *)
AnswerDated(n) ==
  /\ TrulyAnswered(n) /\ n <= attemptCount
  /\ UNCHANGED answeredAt \/ answeredAt' = [answeredAt EXCEPT ![n] = TRUE]
  /\ UNCHANGED calledAt \/ (calledAt' = n /\ n = attemptCount)

LEMMA AnswersDated ==
  ASSUME "requests" \notin Stale, OperatorsOnlyClose, CallInv, AnswersAreTrue, [Next]_vars
  PROVE  UNCHANGED <<answeredAt, calledAt>> \/ \E n \in Attempts : AnswerDated(n)
<1>0. RowTypes /\ FlightTypes
  BY TypeParts DEF CallInv
<1>. Attempts \subseteq Nat /\ attemptCount \in Nat
  BY <1>0 DEF Attempts, RowTypes
<1>1. CASE RowsUnchanged
  BY <1>1 DEF RowsUnchanged, taskVars, attemptVars
<1>2. CASE OperatorUpdatesStatus
  <2>1. \E status \in OperatorStatuses : status # "IN_CALL" /\ UpdateStatus(0, status)
    BY <1>2 DEF OperatorUpdatesStatus, OperatorsOnlyClose
  <2>. QED
    BY <2>1 DEF UpdateStatus
<1>3. ASSUME NEW n \in Attempts, AgentReportsInCall(n) PROVE AnswerDated(n)
  <2>1. /\ TrulyAnswered(n) /\ n = attemptCount /\ n # 0
        /\ UpdateStatus(n, "IN_CALL")
    BY <1>3 DEF AgentReportsInCall, TrulyAnswered, IsLatest, Attempts
  <2>2. answeredAt' = [answeredAt EXCEPT ![n] = TRUE] /\ (UNCHANGED calledAt \/ calledAt' = n)
    <3>1. answeredAt' = [answeredAt EXCEPT ![n] = @ \/ "IN_CALL" = "IN_CALL"]
      BY <2>1 DEF UpdateStatus
    <3>2. UNCHANGED calledAt \/ calledAt' = n
      BY <2>1 DEF UpdateStatus
    <3>. QED
      BY <3>1, <3>2
  <2>. QED
    BY <2>1, <2>2 DEF AnswerDated
<1>4. ASSUME NEW n \in Attempts, RecordAnswer(n)
      PROVE  UNCHANGED <<answeredAt, calledAt>> \/ AnswerDated(n)
  <2>1. picked[n] /\ n <= attemptCount
    BY <1>4, EventsOfOpened DEF RecordAnswer, NewEvent, AnswersAreTrue, CallInv
  <2>2. \/ UNCHANGED <<answeredAt, calledAt>>
        \/ /\ answeredAt' = [answeredAt EXCEPT ![n] = TRUE]
           /\ UNCHANGED calledAt \/ (calledAt' = n /\ n = attemptCount)
    <3>1. CASE attStatus[n] \in TERMINAL_STATUSES
      BY <1>4, <3>1 DEF RecordAnswer
    <3>2. CASE attStatus[n] \notin TERMINAL_STATUSES
      <4>1. answeredAt' = [answeredAt EXCEPT ![n] = TRUE]
        BY <1>4, <3>2, Zenon DEF RecordAnswer
      <4>2. UNCHANGED calledAt \/ (calledAt' = n /\ n = attemptCount)
        BY <1>4, <3>2 DEF RecordAnswer, IsLatest
      <4>. QED
        BY <4>1, <4>2
    <3>. QED
      BY <3>1, <3>2
  <2>. QED
    BY <2>1, <2>2 DEF AnswerDated, TrulyAnswered
<1>5. ASSUME NEW n \in Attempts, RecordHangup(n)
      PROVE  UNCHANGED <<answeredAt, calledAt>> \/ AnswerDated(n)
  <2>. DEFINE Later(b) == /\ answeredAt' = [answeredAt EXCEPT ![n] = @ \/ b]
                          /\ calledAt' = IF b /\ IsLatest(n) /\ calledAt = NoTime THEN n ELSE calledAt
  <2>1. \/ UNCHANGED <<answeredAt, calledAt>>
        \/ \E b \in BOOLEAN : (b => picked[n]) /\ Later(b)
    <3>1. CASE attStatus[n] \in TERMINAL_STATUSES
      BY <1>5, <3>1 DEF RecordHangup
    <3>2. CASE attStatus[n] \notin TERMINAL_STATUSES
      <4>. DEFINE answered == DirectAnswerEvidence(n) \/ AnswerEvidenceFromRaw(n)
      <4>1. PICK plausible \in BOOLEAN :
              Later(plausible /\ answered /\ ~DirectAnswerEvidence(n))
        BY <1>5, <3>2, Zenon DEF RecordHangup
      <4>2. plausible /\ answered /\ ~DirectAnswerEvidence(n) => picked[n]
        BY Zenon DEF AnswerEvidenceFromRaw
      <4>3. (plausible /\ answered /\ ~DirectAnswerEvidence(n)) \in BOOLEAN
        OBVIOUS
      <4>. HIDE DEF Later, answered
      <4>. QED
        BY <4>1, <4>2, <4>3
    <3>. QED
      BY <3>1, <3>2
  <2>2. ASSUME Later(FALSE) PROVE UNCHANGED <<answeredAt, calledAt>>
    BY <1>0, <2>2 DEF RowTypes
  <2>3. ASSUME picked[n], Later(TRUE) PROVE AnswerDated(n)
    <3>1. n <= attemptCount
      BY <1>5, EventsOfOpened DEF RecordHangup, NewEvent, CallInv
    <3>. QED
      BY <1>0, <2>3, <3>1 DEF RowTypes, AnswerDated, TrulyAnswered, IsLatest
  <2>. HIDE DEF Later
  <2>. QED
    BY <2>1, <2>2, <2>3
<1>6. ASSUME NEW n \in Attempts, RecordProgress(n) \/ RecordJobError(n)
      PROVE  UNCHANGED <<answeredAt, calledAt>>
  BY <1>6 DEF RecordProgress, RecordJobError
<1>7. ASSUME \/ RecordProviderActiveSnapshot \/ ReapStaleActiveCalls
             \/ \E ch \in Channels : Dispatch(ch)
             \/ \E n \in 0 .. MaxAttempts : FinalizeLocalHangup(n)
             \/ \E w \in Workers : OutboxFails(w)
      PROVE  UNCHANGED <<answeredAt, calledAt>>
  BY <1>7, Zenon DEF RecordProviderActiveSnapshot, ReapStaleActiveCalls, Dispatch,
     FinalizeLocalHangup, OutboxFails
<1>8. ASSUME NEW n, RequestHangup(n) \/ HangupAccepted(n) \/ Tick(n) \/ FreeSwitch(n)
      PROVE  UNCHANGED <<answeredAt, calledAt>>
  BY <1>8, Zenon DEF RequestHangup, HangupAccepted, Tick, FreeSwitch, ChannelRings, ChannelAnswered,
     ChannelEnds, OriginateJobFails, taskVars, attemptVars
<1>9. ASSUME TakeSnapshot \/ LoseSnapshot PROVE UNCHANGED <<answeredAt, calledAt>>
  BY <1>9, Zenon DEF TakeSnapshot, LoseSnapshot, taskVars, attemptVars
<1>10. ASSUME NEW w, OutboxInternal(w) \/ \E reply \in Replies : OutboxOriginates(w, reply)
      PROVE  UNCHANGED <<answeredAt, calledAt>>
  BY <1>10, Zenon DEF OutboxInternal, OutboxOriginates, taskVars, attemptVars
<1>11. CASE UNCHANGED vars
  BY <1>11 DEF vars
<1>. QED
  BY <1>2, <1>3, <1>4, <1>5, <1>6, <1>7, <1>8, <1>9, <1>10, <1>11
     DEF Next, RecordProviderCallEvent

(* A cause is written with the end of its attempt.                         *)
LEMMA CausesComeLast ==
  ASSUME TypeOK, [Next]_vars
  PROVE  \A n \in Attempts : hangupCause'[n] # hangupCause[n] => attStatus'[n] \in TERMINAL_STATUSES
<1>0. RowTypes /\ FlightTypes
  BY TypeParts
<1>. DEFINE Last == \A n \in Attempts :
                      hangupCause'[n] # hangupCause[n] => attStatus'[n] \in TERMINAL_STATUSES
<1>1. ASSUME UNCHANGED hangupCause PROVE Last
  BY <1>1
<1>2. ASSUME NEW n \in Attempts, NEW verdict, verdict \in TERMINAL_STATUSES,
             CloseAttempts({n}, [m \in {n} |-> verdict]),
             \E c : hangupCause' = [hangupCause EXCEPT ![n] = c]
      PROVE  Last
  <2>1. attStatus' = [m \in Attempts |-> IF m \in {n} THEN [k \in {n} |-> verdict][m]
                                         ELSE attStatus[m]]
    BY <1>2 DEF CloseAttempts
  <2>. QED
    BY <1>0, <1>2, <2>1 DEF RowTypes
<1>3. ASSUME NEW n \in Attempts, RecordJobError(n) PROVE Last
  <2>1. CASE attStatus[n] \in TERMINAL_STATUSES
    BY <1>1, <1>3, <2>1 DEF RecordJobError
  <2>2. CASE attStatus[n] \notin TERMINAL_STATUSES
    <3>1. /\ CloseAttempts({n}, [m \in {n} |-> "FAILED"])
          /\ \E c : hangupCause' = [hangupCause EXCEPT ![n] = c]
      BY <1>3, <2>2, Zenon DEF RecordJobError
    <3>. QED
      BY <1>2, <3>1
  <2>. QED
    BY <2>1, <2>2
<1>4. ASSUME NEW n \in Attempts, RecordHangup(n) PROVE Last
  <2>1. CASE attStatus[n] \in TERMINAL_STATUSES
    BY <1>1, <1>4, <2>1 DEF RecordHangup
  <2>2. CASE attStatus[n] \notin TERMINAL_STATUSES
    <3>. DEFINE cause == IF hangupCause[n] = "fatal" THEN "fatal" ELSE endCause[n]
                answered == DirectAnswerEvidence(n) \/ AnswerEvidenceFromRaw(n)
                verdict == deriveTerminalStatus(cause, answered)
    <3>1. /\ CloseAttempts({n}, [m \in {n} |-> verdict])
          /\ \E c : hangupCause' = [hangupCause EXCEPT ![n] = c]
      BY <1>4, <2>2, Zenon DEF RecordHangup
    <3>2. cause \in Causes /\ answered \in BOOLEAN
      BY <1>0, Zenon DEF RowTypes, FlightTypes, Causes, ReportedCauses, DirectAnswerEvidence,
         AnswerEvidenceFromRaw
    <3>. HIDE DEF cause, answered
    <3>3. verdict \in TERMINAL_STATUSES
      BY <3>2, VerdictIsTerminal
    <3>. HIDE DEF verdict
    <3>. QED
      BY <1>2, <3>1, <3>3
  <2>. QED
    BY <2>1, <2>2
<1>5. CASE RecordProviderActiveSnapshot
  <2>. DEFINE scanned == {n \in Attempts : /\ channel[n] = "freeswitch"
                                           /\ attStatus[n] \in ActiveStatuses
                                           /\ jobId[n]}
              absent == {n \in scanned : n \notin snapshot.active /\ n \in snapshot.settled}
              lost == {n \in absent : MissingTwice(n)}
              verdict == [n \in lost |-> closingStatus(hangupCause[n], answeredAt[n])]
  <2>1. /\ attStatus' = [n \in Attempts |-> IF n \in lost THEN verdict[n] ELSE attStatus[n]]
        /\ \A n \in Attempts : n \notin lost => hangupCause'[n] = hangupCause[n]
    BY <1>5 DEF RecordProviderActiveSnapshot, CloseAttempts
  <2>2. lost \subseteq Attempts
    OBVIOUS
  <2>3. \A n \in lost : verdict[n] \in TERMINAL_STATUSES
    BY <1>0, <2>2, VerdictIsTerminal DEF RowTypes
  <2>. HIDE DEF lost, verdict
  <2>. QED
    BY <2>1, <2>3
<1>6. CASE ReapStaleActiveCalls
  <2>. DEFINE answered(n) == answeredAt[n] \/ attStatus[n] = "IN_CALL"
              verdict == [n \in Overdue |-> closingStatus(hangupCause[n], answered(n))]
  <2>1. /\ attStatus' = [n \in Attempts |-> IF n \in Overdue THEN verdict[n] ELSE attStatus[n]]
        /\ \A n \in Attempts : n \notin Overdue => hangupCause'[n] = hangupCause[n]
    BY <1>6 DEF ReapStaleActiveCalls, CloseAttempts
  <2>2. Overdue \subseteq Attempts /\ \A n \in Attempts : answered(n) \in BOOLEAN
    BY <1>0, Zenon DEF Overdue, RowTypes
  <2>3. \A n \in Overdue : verdict[n] \in TERMINAL_STATUSES
    BY <1>0, <2>2, VerdictIsTerminal DEF RowTypes
  <2>. HIDE DEF verdict
  <2>. QED
    BY <2>1, <2>3
<1>7. ASSUME NEW w \in Workers, OutboxFails(w) PROVE Last
  <2>1. \/ UNCHANGED hangupCause
        \/ /\ attStatus' = [attStatus EXCEPT ![ev[w]] = "FAILED"]
           /\ hangupCause' = [hangupCause EXCEPT ![ev[w]] = "unlisted"]
    BY <1>7, Zenon DEF OutboxFails
  <2>. QED
    BY <1>0, <1>1, <2>1 DEF RowTypes
<1>8. ASSUME \/ RowsUnchanged
             \/ \E ch \in Channels : Dispatch(ch)
             \/ \E n \in 0 .. MaxAttempts, status \in Statuses : StatusReport(n, status)
             \/ \E n \in 0 .. MaxAttempts : FinalizeLocalHangup(n)
             \/ \E n \in Attempts : RecordProgress(n) \/ RecordAnswer(n)
      PROVE  UNCHANGED hangupCause
  BY <1>8, Zenon DEF RowsUnchanged, attemptVars, Dispatch, StatusReport, UpdateStatus,
     FinalizeLocalHangup, RecordProgress, RecordAnswer
<1>. HIDE DEF Last
<1>9. Last
  <2>1. CASE \E n \in Attempts : RecordProviderCallEvent(n)
    BY <1>1, <1>3, <1>4, <1>8, <2>1 DEF RecordProviderCallEvent
  <2>2. CASE \/ RowsUnchanged
             \/ \E ch \in Channels : Dispatch(ch)
             \/ \E n \in 0 .. MaxAttempts, status \in Statuses : StatusReport(n, status)
             \/ \E n \in 0 .. MaxAttempts : FinalizeLocalHangup(n)
    BY <1>1, <1>8, <2>2, Zenon
  <2>3. CASE \E w \in Workers : OutboxFails(w)
    BY <1>7, <2>3
  <2>4. CASE RecordProviderActiveSnapshot \/ ReapStaleActiveCalls
    BY <1>5, <1>6, <2>4 DEF Last
  <2>. QED
    BY <2>1, <2>2, <2>3, <2>4, StepKinds
<1>. QED
  BY <1>9 DEF Last

LEMMA OnSwitchStep ==
  ASSUME CallInv, Dispatcher!ExclusiveLease, OnSwitch, [Next]_vars
  PROVE  OnSwitch'
<1>0. RowTypes /\ WorkerTypes /\ TypeOK /\ attemptCount \in Nat /\ Attempts \subseteq Nat
  BY TypeParts DEF CallInv, RowTypes, Attempts
<1>1. ASSUME NEW ch \in Channels, Dispatch(ch) PROVE OnSwitch'
  <2>. DEFINE n == attemptCount + 1
  <2>1. /\ n \in Attempts /\ UNCHANGED dials
        /\ channel' = [channel EXCEPT ![n] = ch]
        /\ IF ch = "freeswitch" THEN outbox' = [outbox EXCEPT ![n].status = "pending"]
           ELSE UNCHANGED outbox
    BY <1>1 DEF Dispatch, switchVars
  <2>2. outbox[n].status = "none" /\ ~(dials[n] > 0)
    <3>1. n > attemptCount /\ ~(n <= attemptCount)
      BY <1>0
    <3>. QED
      BY <2>1, <3>1 DEF CallInv, NotYetOpened, BegunForOpened
  <2>3. \/ outbox' = [outbox EXCEPT ![n].status = "pending"] /\ ch = "freeswitch"
        \/ UNCHANGED outbox
    BY <2>1
  <2>. HIDE DEF n
  <2>4. \A m \in Attempts : m # n => outbox'[m] = outbox[m] /\ channel'[m] = channel[m]
    BY <1>0, <2>1, <2>3 DEF RowTypes, WorkerTypes, OutboxRows
  <2>5. ch = "freeswitch" => channel'[n] = "freeswitch"
    BY <1>0, <2>1 DEF RowTypes
  <2>. QED
    BY <2>1, <2>2, <2>3, <2>4, <2>5 DEF OnSwitch
<1>2. CASE ~\E ch \in Channels : Dispatch(ch)
  <2>1. UNCHANGED channel
    BY <1>0, <1>2, CallingOnlyEnds
  <2>2. CASE WorkersUnchanged
    BY <2>1, <2>2 DEF WorkersUnchanged, outboxVars, OnSwitch
  <2>3. ASSUME NEW w \in Workers, \/ OutboxInternal(w) \/ OutboxFails(w)
                                  \/ \E reply \in Replies : OutboxOriginates(w, reply)
        PROVE  OnSwitch'
    <3>1. pc[w] \in Dispatcher!Busy => ev[w] \in Attempts /\ outbox[ev[w]].status = "processing"
      BY DEF Dispatcher!ExclusiveLease, Dispatcher!Holds
    <3>2. \A n \in Attempts : outbox'[n].status # "none" => outbox[n].status # "none"
      <4>1. ASSUME NEW n \in Attempts, GivesBack(n) \/ Takes(w, n)
            PROVE  outbox[n].status # "none" /\ \A m \in Attempts : m # n => outbox'[m] = outbox[m]
        BY <1>0, <4>1 DEF GivesBack, Takes, Dispatcher!SetOutbox, WorkerTypes, OutboxRows
      <4>2. ASSUME Releases(w)
            PROVE  /\ outbox[ev[w]].status # "none"
                   /\ \A m \in Attempts : m # ev[w] => outbox'[m] = outbox[m]
        BY <1>0, <3>1, <4>2 DEF Releases, Dispatcher!SetOutbox, WorkerTypes, OutboxRows
      <4>3. ASSUME Keeps(w) PROVE UNCHANGED outbox
        BY <4>3 DEF Keeps
      <4>. QED
        BY <1>0, <2>3, <4>1, <4>2, <4>3, LeaseKinds
    <3>3. \A n \in Attempts : dials'[n] > 0 => dials[n] > 0 \/ outbox[n].status # "none"
      <4>1. ASSUME OutboxInternal(w) \/ OutboxFails(w) PROVE UNCHANGED dials
        BY <4>1 DEF OutboxInternal, OutboxFails, Dispatcher!StartTick,
           Dispatcher!RecoverExpiredLeases, Dispatcher!RunBatch, Dispatcher!Claim,
           Dispatcher!ReadAttempt, Dispatcher!WriteMarker, Dispatcher!CommitJob,
           Dispatcher!MarkDispatchProcessed, Dispatcher!DeadLetterDispatch,
           Dispatcher!StatementThrows, Dispatcher!Crash, Dispatcher!HandleFailure,
           Dispatcher!switchVars
      <4>2. ASSUME NEW reply \in Replies, OutboxOriginates(w, reply)
            PROVE  /\ pc[w] \in Dispatcher!Busy
                   /\ \/ UNCHANGED dials
                      \/ dials' = [dials EXCEPT ![ev[w]] = IF @ < 2 THEN @ + 1 ELSE @]
        BY <4>2 DEF OutboxOriginates, Dispatcher!Originate, Dispatcher!switchVars,
           Dispatcher!Busy, Dispatcher!PC
      <4>. QED
        BY <1>0, <2>3, <3>1, <4>1, <4>2 DEF WorkerTypes
    <3>. QED
      BY <2>1, <3>2, <3>3 DEF OnSwitch
  <2>. QED
    BY <1>2, <2>2, <2>3, WorkerKinds
<1>. QED
  BY <1>1, <1>2

LEMMA AnswersTrueStep ==
  ASSUME "requests" \notin Stale, OperatorsOnlyClose, CallInv, AnswersAreTrue, [Next]_vars
  PROVE  AnswersAreTrue'
<1>0. /\ RowTypes /\ TypeOK /\ attemptCount \in Nat /\ Attempts \subseteq Nat
      /\ \A n \in Attempts : n <= MaxAttempts /\ n >= 1
  BY TypeParts DEF CallInv, RowTypes, Attempts
<1>1. \A n \in Attempts : (picked[n] => picked'[n]) /\ ("ANSWER" \in emitted'[n] => picked'[n])
  BY <1>0, PickedStep DEF AnswersAreTrue
<1>2. UNCHANGED <<answeredAt, calledAt>> \/ \E n \in Attempts : AnswerDated(n)
  BY <1>0, AnswersDated
<1>3. CASE \E ch \in Channels : Dispatch(ch)
  <2>1. /\ UNCHANGED <<calledAt, answeredAt, picked>> /\ attemptCount' = attemptCount + 1
        /\ \E ch : channel' = [channel EXCEPT ![attemptCount + 1] = ch]
    BY <1>3 DEF Dispatch, switchVars
  <2>2. ASSUME NEW m \in Attempts, answeredAt[m] PROVE TrulyAnswered(m)' /\ m <= attemptCount + 1
    BY <1>0, <2>1, <2>2 DEF AnswersAreTrue, TrulyAnswered, RowTypes
  <2>3. calledAt \in {NoTime} \cup 1 .. attemptCount + 1 /\ calledAt # attemptCount + 1
    BY <1>0 DEF AnswersAreTrue, NoTime
  <2>. QED
    BY <1>0, <1>1, <2>1, <2>2, <2>3 DEF AnswersAreTrue
<1>4. CASE ~\E ch \in Channels : Dispatch(ch)
  <2>1. UNCHANGED <<attemptCount, channel>>
    BY <1>0, <1>4, CallingOnlyEnds, CountGrows
  <2>2. \A n \in Attempts : TrulyAnswered(n) => TrulyAnswered(n)'
    BY <1>1, <2>1 DEF TrulyAnswered
  <2>3. calledAt # NoTime /\ calledAt = attemptCount => attemptCount \in Attempts
    BY <1>0 DEF AnswersAreTrue, RowTypes, Attempts
  <2>4. CASE UNCHANGED <<answeredAt, calledAt>>
    BY <1>1, <2>1, <2>2, <2>3, <2>4 DEF AnswersAreTrue
  <2>5. ASSUME NEW n \in Attempts, AnswerDated(n) PROVE AnswersAreTrue'
    <3>1. \A m \in Attempts : answeredAt'[m] => TrulyAnswered(m)' /\ m <= attemptCount'
      BY <1>0, <2>1, <2>2, <2>5 DEF AnswerDated, AnswersAreTrue, RowTypes
    <3>2. calledAt' \in {NoTime} \cup 1 .. attemptCount'
      BY <1>0, <2>1, <2>5 DEF AnswerDated, AnswersAreTrue
    <3>3. calledAt' # NoTime /\ calledAt' = attemptCount' => TrulyAnswered(attemptCount)'
      BY <2>1, <2>2, <2>3, <2>5 DEF AnswerDated, AnswersAreTrue
    <3>. QED
      BY <1>1, <2>1, <3>1, <3>2, <3>3 DEF AnswersAreTrue
  <2>. QED
    BY <1>2, <2>4, <2>5
<1>. QED
  BY <1>3, <1>4

(* An attempt that stays open is given no cause.                           *)
LEMMA CauseStep ==
  ASSUME "requests" \notin Stale, OperatorsOnlyClose, CallInv, CauseOfClosed, [Next]_vars
  PROVE  CauseOfClosed'
<1>1. AttemptsStayClosed
  BY CallInvStep
<1>2. \A n \in Attempts : hangupCause'[n] # hangupCause[n] => attStatus'[n] \in TERMINAL_STATUSES
  BY CausesComeLast DEF CallInv
<1>. QED
  BY <1>1, <1>2 DEF CauseOfClosed, AttemptsStayClosed

LEMMA VerdictInvStep ==
  ASSUME "requests" \notin Stale, OperatorsOnlyClose, VerdictInv, [Next]_vars
  PROVE  VerdictInv'
<1>1. TypeOK /\ CallInv /\ Dispatcher!ExclusiveLease /\ CauseOfClosed /\ OnSwitch /\ AnswersAreTrue
  BY DEF VerdictInv, CallInv
<1>. NotYetOpened
  BY DEF VerdictInv, CallInv
<1>2. CallInv'
  BY <1>1, CallInvStep
<1>3. (Dispatcher!ExclusiveLease)'
  BY <1>1, LeasesStayExclusive
<1>4. CauseOfClosed' /\ OnSwitch'
  BY <1>1, CauseStep, OnSwitchStep
<1>5. AnswersAreTrue'
  BY <1>1, AnswersTrueStep
<1>. QED
  BY <1>2, <1>3, <1>4, <1>5 DEF VerdictInv

(* Only the hangup's own recording notes it.                               *)
LEMMA HangupsAreRecorded ==
  ASSUME TypeOK, [Next]_vars, NEW n \in Attempts, "HANGUP" \in seen'[n] \ seen[n]
  PROVE  RecordHangup(n)
<1>0. RowTypes
  BY TypeParts
<1>1. ASSUME NEW m \in Attempts, RecordProviderCallEvent(m) PROVE RecordHangup(n)
  <2>1. ASSUME NEW e \in {"PROGRESS", "ANSWER", "JOB_ERR", "HANGUP"}, NewEvent(m, e)
        PROVE  e = "HANGUP" /\ m = n
    BY <1>0, <2>1 DEF NewEvent, RowTypes
  <2>. QED
    BY <1>1, <2>1 DEF RecordProviderCallEvent, RecordProgress, RecordAnswer, RecordJobError,
       RecordHangup
<1>2. CASE ~\E m \in Attempts : RecordProviderCallEvent(m)
  <2>1. UNCHANGED seen
    BY <1>2, StepKinds, Zenon DEF RowsUnchanged, recordVars, Dispatch, StatusReport, UpdateStatus,
       FinalizeLocalHangup, RecordProviderActiveSnapshot, ReapStaleActiveCalls, OutboxFails
  <2>. QED
    BY <2>1
<1>. QED
  BY <1>1, <1>2

(* The hangup of an open attempt is classified by the cause its channel    *)
(* ended with and by whether it was picked up, unless the task carries the *)
(* answer time of an earlier attempt.                                      *)
VerdictOfCall(n) ==
  "HANGUP" \in seen'[n] \ seen[n] /\ attStatus[n] \notin TERMINAL_STATUSES
    /\ (IsLatest(n) => calledAt \notin 1 .. n - 1)
    => attStatus'[n] = deriveTerminalStatus(endCause[n], picked[n])

LEMMA VerdictStep ==
  ASSUME VerdictInv, [Next]_vars, NEW n \in Attempts
  PROVE  VerdictOfCall(n)
<1>0. RowTypes /\ FlightTypes /\ TypeOK
  BY TypeParts DEF VerdictInv, CallInv
<1>. SUFFICES ASSUME "HANGUP" \in seen'[n] \ seen[n], attStatus[n] \notin TERMINAL_STATUSES,
                     IsLatest(n) => calledAt \notin 1 .. n - 1
              PROVE  attStatus'[n] = deriveTerminalStatus(endCause[n], picked[n])
  BY DEF VerdictOfCall
<1>1. RecordHangup(n)
  BY <1>0, HangupsAreRecorded
<1>2. channel[n] = "freeswitch"
  <2>1. emitted[n] # {}
    BY <1>1 DEF RecordHangup, NewEvent
  <2>. QED
    BY <2>1 DEF VerdictInv, CallInv, EventsOfCalls, OnSwitch
<1>3. DirectAnswerEvidence(n) => picked[n]
  BY <1>0, <1>2 DEF DirectAnswerEvidence, IsLatest, VerdictInv, AnswersAreTrue, TrulyAnswered,
     RowTypes, Attempts, NoTime
<1>4. hangupCause[n] = "none"
  BY DEF VerdictInv, CauseOfClosed
<1>. DEFINE cause == IF hangupCause[n] = "fatal" THEN "fatal" ELSE endCause[n]
            answered == DirectAnswerEvidence(n) \/ AnswerEvidenceFromRaw(n)
            verdict == deriveTerminalStatus(cause, answered)
<1>5. CloseAttempts({n}, [m \in {n} |-> verdict])
  BY <1>1, Zenon DEF RecordHangup
<1>6. cause = endCause[n] /\ answered = picked[n]
  <2>1. answered <=> picked[n]
    BY <1>3 DEF AnswerEvidenceFromRaw
  <2>2. answered \in BOOLEAN /\ picked[n] \in BOOLEAN
    BY <1>0, Zenon DEF RowTypes, FlightTypes, DirectAnswerEvidence, AnswerEvidenceFromRaw
  <2>. HIDE DEF answered
  <2>. QED
    BY <1>4, <2>1, <2>2
<1>7. verdict = deriveTerminalStatus(endCause[n], picked[n])
  BY <1>6, Zenon
<1>. HIDE DEF verdict
<1>. QED
  BY <1>5, <1>7 DEF CloseAttempts

LEMMA VerdictInvInit == Init => VerdictInv
<1>. SUFFICES ASSUME Init PROVE VerdictInv
  OBVIOUS
<1>1. Dispatcher!ExclusiveLease
  BY DEF Init, Dispatcher!ExclusiveLease, Dispatcher!Holds, Dispatcher!Busy
<1>2. CauseOfClosed /\ OnSwitch /\ AnswersAreTrue
  BY DEF Init, CauseOfClosed, OnSwitch, AnswersAreTrue
<1>. QED
  BY <1>1, <1>2, CallInvInit DEF VerdictInv

(* Whatever order the events come in, the hangup of an attempt is          *)
(* classified by what happened on that call.  The one exception is an      *)
(* answer time that an earlier attempt left on the task.                   *)
VerdictUnlessStale == [][\A n \in Attempts : VerdictOfCall(n)]_vars

(* So it is for any number of attempts, events lost, late or out of order  *)
(* (recordProviderCallEvent).                                              *)
THEOREM VerdictsAreTrue ==
  ASSUME "requests" \notin Stale, OperatorsOnlyClose
  PROVE  Spec => VerdictUnlessStale
<1>1. VerdictInv /\ [Next]_vars => VerdictInv'
  BY VerdictInvStep
<1>2. VerdictInv /\ [Next]_vars => \A n \in Attempts : VerdictOfCall(n)
  BY VerdictStep
<1>. QED
  BY <1>1, <1>2, VerdictInvInit, PTL DEF Spec, VerdictUnlessStale

(* On a task that is dialled once there is no earlier attempt, and no      *)
(* exception.                                                              *)
THEOREM FirstVerdict ==
  ASSUME "requests" \notin Stale, OperatorsOnlyClose, MaxAttempts = 1
  PROVE  Spec => VerdictMatchesCall
<1>. DEFINE Matches == \A n \in Attempts :
              /\ "HANGUP" \in seen'[n] \ seen[n]
              /\ attStatus[n] \notin TERMINAL_STATUSES
              => attStatus'[n] = deriveTerminalStatus(endCause[n], picked[n])
<1>1. VerdictInv /\ [Next]_vars => VerdictInv'
  BY VerdictInvStep
<1>2. VerdictInv /\ [Next]_vars => Matches
  <2>1. \A n \in Attempts : 1 .. n - 1 = {}
    BY DEF Attempts
  <2>. QED
    BY <2>1, VerdictStep DEF VerdictOfCall
<1>. QED
  BY <1>1, <1>2, VerdictInvInit, PTL DEF Spec, VerdictMatchesCall
=============================================================================
