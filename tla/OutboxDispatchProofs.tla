------------------------ MODULE OutboxDispatchProofs ------------------------
(***************************************************************************)
(* Proofs about the outbox worker (OutboxDispatch.tla), for any set of     *)
(* attempts and workers and any number of tries and crashes.               *)
(***************************************************************************)
EXTENDS OutboxDispatch, TLAPS

USE AttemptsAssumption, TriesAssumption, RepliesAssumption, LeaseAssumption

LEMMA InitTypeOK == DispatchInit => DispatchTypeOK
BY DEF DispatchInit, DispatchTypeOK, EventStatus, PC, None, NotLoaded

OutboxRows == [Attempts -> [status : EventStatus, attempts : 0 .. MaxTries]]

LEMMA SetOutboxType ==
  ASSUME NEW n, NEW s \in EventStatus, outbox \in OutboxRows, SetOutbox(n, s)
  PROVE  outbox' \in OutboxRows
<1>1. \A m \in Attempts : [outbox[m] EXCEPT !.status = s]
                           \in [status : EventStatus, attempts : 0 .. MaxTries]
  BY DEF OutboxRows
<1> QED
  BY <1>1 DEF SetOutbox, OutboxRows

LEMMA NextTypeOK == DispatchTypeOK /\ [DispatchNext]_dispatchVars => DispatchTypeOK'
<1> SUFFICES ASSUME DispatchTypeOK, [DispatchNext]_dispatchVars PROVE DispatchTypeOK'
  OBVIOUS
<1> USE DEF DispatchTypeOK, PC, EventStatus
<1>1. ASSUME NEW w \in Workers, NEW n \in Attempts, RecoverExpiredLeases(w, n)
      PROVE DispatchTypeOK'
  BY <1>1 DEF RecoverExpiredLeases, SetOutbox, workerVars, switchVars
<1>2. ASSUME NEW w \in Workers, NEW due \in SUBSET Attempts, RunBatch(w, due)
      PROVE DispatchTypeOK'
  BY <1>2 DEF RunBatch, Goto, dbVars, switchVars
<1>3. ASSUME NEW w \in Workers, NEW n \in Attempts, Claim(w, n)
      PROVE DispatchTypeOK'
  <2> USE <1>3 DEF Claim, switchVars
  <2>1. pc' \in [Workers -> PC]
    BY DEF Goto
  <2>2. outbox' \in [Attempts -> [status : EventStatus, attempts : 0 .. MaxTries]]
    BY DEF Increment
  <2>3. loaded' \in [Workers -> [Attempts -> (0 .. MaxTries) \cup {NotLoaded}]]
    OBVIOUS
  <2> QED
    BY <2>1, <2>2, <2>3
<1>4. ASSUME NEW w \in Workers, ReadAttempt(w) PROVE DispatchTypeOK'
  BY <1>4 DEF ReadAttempt, Goto, dbVars, switchVars
<1>5. ASSUME NEW w \in Workers, WriteMarker(w) PROVE DispatchTypeOK'
  BY <1>5 DEF WriteMarker, Goto, switchVars
<1>6. ASSUME NEW w \in Workers, NEW reply \in Replies, Originate(w, reply)
      PROVE DispatchTypeOK'
  <2> USE <1>6 DEF Originate, dbVars, switchVars
  <2>1. pc' \in [Workers -> PC]
    BY DEF Goto, AllReplies
  <2>2. live' \in [Attempts -> BOOLEAN]
    OBVIOUS
  <2>3. dials' \in [Attempts -> 0 .. 2]
    <3>1. \/ UNCHANGED dials
          \/ dials' = [dials EXCEPT ![ev[w]] = IF @ < 2 THEN @ + 1 ELSE @]
      OBVIOUS
    <3>2. \A n \in Attempts : (IF dials[n] < 2 THEN dials[n] + 1 ELSE dials[n]) \in 0 .. 2
      OBVIOUS
    <3> QED
      BY <3>1, <3>2
  <2> QED
    BY <2>1, <2>2, <2>3
<1>7. ASSUME NEW w \in Workers, CommitJob(w) PROVE DispatchTypeOK'
  BY ZenonT(40), <1>7 DEF CommitJob, SetOutbox, NextOfBatch, Goto, switchVars
<1>8. ASSUME NEW w \in Workers, MarkDispatchProcessed(w) PROVE DispatchTypeOK'
  BY <1>8 DEF MarkDispatchProcessed, SetOutbox, NextOfBatch, Goto, switchVars
<1>9. ASSUME NEW w \in Workers, DeadLetterDispatch(w) PROVE DispatchTypeOK'
  BY <1>9 DEF DeadLetterDispatch, SetOutbox, NextOfBatch, Goto, switchVars
<1>10. ASSUME NEW w \in Workers, HandleFailure(w) PROVE DispatchTypeOK'
  <2> USE <1>10 DEF HandleFailure, switchVars
  <2>1. calling' \in [Attempts -> BOOLEAN]
    BY Zenon
  <2>2. outbox' \in [Attempts -> [status : EventStatus, attempts : 0 .. MaxTries]]
    <3>1. PICK s \in EventStatus : SetOutbox(ev[w], s)
      OBVIOUS
    <3> QED
      BY <3>1, SetOutboxType DEF OutboxRows
  <2>3. /\ pc' \in [Workers -> PC]
        /\ ev' \in [Workers -> Attempts \cup {None}]
        /\ loaded' \in [Workers -> [Attempts -> (0 .. MaxTries) \cup {NotLoaded}]]
    BY DEF NextOfBatch, Goto
  <2> QED
    BY <2>1, <2>2, <2>3
<1>11. ASSUME NEW w \in Workers, StatementThrows(w) PROVE DispatchTypeOK'
  BY <1>11 DEF StatementThrows, Goto, dbVars, switchVars
<1>12. ASSUME NEW w \in Workers, Crash(w) PROVE DispatchTypeOK'
  BY <1>12 DEF Crash, Goto, dbVars, switchVars
<1>13. ASSUME NEW n \in Attempts, Open(n) PROVE DispatchTypeOK'
  BY <1>13 DEF Open, SetOutbox, workerVars, switchVars
<1>14. CASE Environment
  BY <1>14 DEF Environment, workerVars
<1>15. CASE UNCHANGED dispatchVars
  BY <1>15 DEF dispatchVars
<1> QED
  BY <1>1, <1>2, <1>3, <1>4, <1>5, <1>6, <1>7, <1>8, <1>9, <1>10, <1>11, <1>12,
     <1>13, <1>14, <1>15
  DEF DispatchNext, WorkerStep, StartTick

(* Rows, worker memory and channels keep their types in every behaviour of *)
(* the dispatch protocol, expiring leases included.                        *)
THEOREM DispatchTypes == DispatchSpec => []DispatchTypeOK
<1>1. DispatchInit => DispatchTypeOK
  BY InitTypeOK
<1>2. DispatchTypeOK /\ [DispatchNext]_dispatchVars => DispatchTypeOK'
  BY NextTypeOK
<1> QED
  BY <1>1, <1>2, PTL DEF DispatchSpec
-----------------------------------------------------------------------------
(* A worker that owns an event owns it alone.                              *)
LEMMA HolderAlone ==
  ASSUME ExclusiveLease, NEW w \in Workers, pc[w] \in Busy
  PROVE  /\ ev[w] \in Attempts
         /\ \A v \in Workers : v # w /\ pc[v] \in Busy => ev[v] # ev[w]
BY DEF ExclusiveLease, Holds

(* The last step of an event's processing gives the lease up and touches   *)
(* no other event.                                                         *)
LEMMA ReleaseKeepsLeases ==
  ASSUME DispatchTypeOK, ExclusiveLease, NEW w \in Workers, pc[w] \in Busy,
         NEW s, SetOutbox(ev[w], s), NextOfBatch(w)
  PROVE  ExclusiveLease'
<1>1. /\ pc'[w] \notin Busy
      /\ \A v \in Workers : v # w => pc'[v] = pc[v] /\ ev'[v] = ev[v]
  BY DEF DispatchTypeOK, NextOfBatch, Goto, Busy, PC
<1>2. \A m \in Attempts : m # ev[w] => outbox'[m] = outbox[m]
  BY DEF DispatchTypeOK, SetOutbox
<1>3. \A v \in Workers : pc'[v] \in Busy => /\ v # w /\ pc[v] \in Busy
                                            /\ ev'[v] = ev[v] /\ ev[v] # ev[w]
  BY <1>1, HolderAlone
<1>4. \A v \in Workers : pc'[v] \in Busy => ev'[v] \in Attempts
  BY <1>3 DEF ExclusiveLease
<1>5. ASSUME NEW v \in Workers, NEW n \in Attempts, Holds(v, n)'
      PROVE  /\ outbox'[n].status = "processing"
             /\ \A u \in Workers : Holds(u, n)' => u = v
  BY <1>2, <1>3, <1>5 DEF ExclusiveLease, Holds
<1> QED
  BY <1>4, <1>5 DEF ExclusiveLease

LEMMA LeaseStep ==
  ASSUME ~SlowLease, DispatchTypeOK, ExclusiveLease, [DispatchNext]_dispatchVars
  PROVE  ExclusiveLease'
<1> USE DEF DispatchTypeOK, ExclusiveLease, Holds, PC, Busy
<1>1. ASSUME NEW w \in Workers, NEW n \in Attempts, RecoverExpiredLeases(w, n)
      PROVE  ExclusiveLease'
  BY <1>1 DEF RecoverExpiredLeases, SetOutbox, workerVars, switchVars
<1>2. ASSUME NEW w \in Workers, NEW due \in SUBSET Attempts, RunBatch(w, due)
      PROVE  ExclusiveLease'
  BY <1>2 DEF RunBatch, Goto, dbVars, switchVars
<1>3. ASSUME NEW w \in Workers, NEW n \in Attempts, Claim(w, n)
      PROVE  ExclusiveLease'
  <2>1. CASE outbox[n].status = "pending"
    <3>1. /\ pc' = [pc EXCEPT ![w] = "claimed"]
          /\ ev' = [ev EXCEPT ![w] = n]
          /\ outbox'[n].status = "processing"
          /\ \A m \in Attempts : m # n => outbox'[m] = outbox[m]
      BY <1>3, <2>1 DEF Claim, Goto
    <3>2. \A v \in Workers : ~Holds(v, n)
      BY <2>1
    <3> QED
      BY <3>1, <3>2
  <2>2. CASE outbox[n].status # "pending"
    <3>1. /\ pc'[w] \in {"batch", "idle"}
          /\ \A v \in Workers : v # w => pc'[v] = pc[v]
          /\ UNCHANGED <<outbox, ev>>
      BY <1>3, <2>2 DEF Claim, Goto
    <3> QED
      BY <3>1
  <2> QED
    BY <2>1, <2>2
<1>4. ASSUME NEW w \in Workers, ReadAttempt(w)
      PROVE  ExclusiveLease'
  BY <1>4 DEF ReadAttempt, Goto, dbVars, switchVars
<1>5. ASSUME NEW w \in Workers, WriteMarker(w)
      PROVE  ExclusiveLease'
  BY <1>5 DEF WriteMarker, Goto, switchVars
<1>6. ASSUME NEW w \in Workers, NEW reply \in Replies, Originate(w, reply)
      PROVE  ExclusiveLease'
  <2>1. /\ pc[w] \in Busy /\ pc'[w] \in Busy
        /\ \A v \in Workers : v # w => pc'[v] = pc[v]
        /\ UNCHANGED <<outbox, ev>>
    BY <1>6 DEF Originate, Goto, dbVars, AllReplies
  <2> QED
    BY <2>1
<1>7. ASSUME NEW w \in Workers, CommitJob(w)
      PROVE  ExclusiveLease'
  BY <1>7, ReleaseKeepsLeases DEF CommitJob, SetOutbox
<1>8. ASSUME NEW w \in Workers, MarkDispatchProcessed(w)
      PROVE  ExclusiveLease'
  BY <1>8, ReleaseKeepsLeases DEF MarkDispatchProcessed, SetOutbox
<1>9. ASSUME NEW w \in Workers, DeadLetterDispatch(w)
      PROVE  ExclusiveLease'
  BY <1>9, ReleaseKeepsLeases DEF DeadLetterDispatch, SetOutbox
<1>10. ASSUME NEW w \in Workers, HandleFailure(w)
      PROVE  ExclusiveLease'
  BY <1>10, ReleaseKeepsLeases DEF HandleFailure, SetOutbox
<1>11. ASSUME NEW w \in Workers, StatementThrows(w)
      PROVE  ExclusiveLease'
  BY <1>11 DEF StatementThrows, Goto, dbVars, switchVars
<1>12. ASSUME NEW w \in Workers, Crash(w)
      PROVE  ExclusiveLease'
  BY <1>12 DEF Crash, Goto, dbVars, switchVars
<1>13. ASSUME NEW n \in Attempts, Open(n)
      PROVE  ExclusiveLease'
  BY <1>13 DEF Open, SetOutbox, workerVars, switchVars
<1>14. CASE Environment
  BY <1>14 DEF Environment, workerVars
<1>15. CASE UNCHANGED dispatchVars
  BY <1>15 DEF dispatchVars
<1> QED
  BY <1>1, <1>2, <1>3, <1>4, <1>5, <1>6, <1>7, <1>8, <1>9, <1>10, <1>11, <1>12,
     <1>13, <1>14, <1>15
  DEF DispatchNext, WorkerStep, StartTick

LEMMA MarkerStep ==
  ASSUME DispatchTypeOK, ExclusiveLease, MarkerBeforeDial, [DispatchNext]_dispatchVars
  PROVE  MarkerBeforeDial'
<1> USE DEF DispatchTypeOK, ExclusiveLease, MarkerBeforeDial, Holds, PC, Busy
<1>1. ASSUME NEW w \in Workers, NEW n \in Attempts, RecoverExpiredLeases(w, n)
      PROVE  MarkerBeforeDial'
  BY <1>1 DEF RecoverExpiredLeases, SetOutbox, workerVars, switchVars
<1>2. ASSUME NEW w \in Workers, NEW due \in SUBSET Attempts, RunBatch(w, due)
      PROVE  MarkerBeforeDial'
  BY <1>2 DEF RunBatch, Goto, dbVars, switchVars
<1>3. ASSUME NEW w \in Workers, NEW n \in Attempts, Claim(w, n)
      PROVE  MarkerBeforeDial'
  <2>1. /\ pc'[w] \in {"claimed", "batch", "idle"}
        /\ \A v \in Workers : v # w => pc'[v] = pc[v] /\ ev'[v] = ev[v]
        /\ UNCHANGED <<marker, dials>>
    BY <1>3 DEF Claim, Goto, switchVars
  <2> QED
    BY <2>1
<1>4. ASSUME NEW w \in Workers, ReadAttempt(w)
      PROVE  MarkerBeforeDial'
  BY <1>4 DEF ReadAttempt, Goto, dbVars, switchVars
<1>5. ASSUME NEW w \in Workers, WriteMarker(w)
      PROVE  MarkerBeforeDial'
  <2>1. /\ pc[w] = "fresh" /\ pc'[w] = "marked"
        /\ \A v \in Workers : v # w => pc'[v] = pc[v]
        /\ marker' = [marker EXCEPT ![ev[w]] = TRUE]
        /\ UNCHANGED <<dials, ev>>
    BY <1>5 DEF WriteMarker, Goto, switchVars
  <2>2. ev[w] \in Attempts /\ \A v \in Workers : v # w /\ pc[v] \in Busy => ev[v] # ev[w]
    <3>1. pc[w] \in Busy
      BY <2>1
    <3> HIDE DEF ExclusiveLease, Busy
    <3> QED
      BY <3>1, HolderAlone
  <2>3. dials[ev[w]] = 0
    <3>1. ~marker[ev[w]]
      BY <2>1
    <3>2. dials[ev[w]] \in 0 .. 2 /\ ~(dials[ev[w]] > 0)
      BY <2>2, <3>1
    <3> QED
      BY <3>2
  <2>4. \A n \in Attempts : dials'[n] > 0 => marker'[n]
    BY <2>1
  <2>5. \A v \in Workers : pc'[v] = "fresh" => ~marker'[ev'[v]]
    BY <2>1, <2>2
  <2>6. \A v \in Workers : pc'[v] = "marked" => marker'[ev'[v]] /\ dials'[ev'[v]] = 0
    BY <2>1, <2>2, <2>3
  <2> QED
    BY <2>4, <2>5, <2>6
<1>6. ASSUME NEW w \in Workers, NEW reply \in Replies, Originate(w, reply)
      PROVE  MarkerBeforeDial'
  <2>1. /\ pc[w] = "marked" /\ pc'[w] \notin {"fresh", "marked"}
        /\ \A v \in Workers : v # w => pc'[v] = pc[v]
        /\ \A m \in Attempts : m # ev[w] => dials'[m] = dials[m]
        /\ UNCHANGED <<marker, ev>>
    BY <1>6 DEF Originate, Goto, dbVars, switchVars, AllReplies
  <2>2. ev[w] \in Attempts /\ \A v \in Workers : v # w /\ pc[v] \in Busy => ev[v] # ev[w]
    <3>1. pc[w] \in Busy
      BY <2>1
    <3> HIDE DEF ExclusiveLease, Busy
    <3> QED
      BY <3>1, HolderAlone
  <2>3. \A n \in Attempts : dials'[n] > 0 => marker'[n]
    BY <2>1
  <2>4. \A v \in Workers : pc'[v] = "fresh" => ~marker'[ev'[v]]
    BY <2>1
  <2>5. \A v \in Workers : pc'[v] = "marked" => marker'[ev'[v]] /\ dials'[ev'[v]] = 0
    BY <2>1, <2>2
  <2> QED
    BY <2>3, <2>4, <2>5
<1>7. ASSUME NEW w \in Workers, CommitJob(w)
      PROVE  MarkerBeforeDial'
  BY <1>7 DEF CommitJob, SetOutbox, NextOfBatch, Goto, switchVars
<1>8. ASSUME NEW w \in Workers, MarkDispatchProcessed(w)
      PROVE  MarkerBeforeDial'
  BY <1>8 DEF MarkDispatchProcessed, SetOutbox, NextOfBatch, Goto, switchVars
<1>9. ASSUME NEW w \in Workers, DeadLetterDispatch(w)
      PROVE  MarkerBeforeDial'
  BY <1>9 DEF DeadLetterDispatch, SetOutbox, NextOfBatch, Goto, switchVars
<1>10. ASSUME NEW w \in Workers, HandleFailure(w)
      PROVE  MarkerBeforeDial'
  BY <1>10 DEF HandleFailure, SetOutbox, NextOfBatch, Goto, switchVars
<1>11. ASSUME NEW w \in Workers, StatementThrows(w)
      PROVE  MarkerBeforeDial'
  BY <1>11 DEF StatementThrows, Goto, dbVars, switchVars
<1>12. ASSUME NEW w \in Workers, Crash(w)
      PROVE  MarkerBeforeDial'
  BY <1>12 DEF Crash, Goto, dbVars, switchVars
<1>13. ASSUME NEW n \in Attempts, Open(n)
      PROVE  MarkerBeforeDial'
  BY <1>13 DEF Open, SetOutbox, workerVars, switchVars
<1>14. CASE Environment
  BY <1>14 DEF Environment, workerVars
<1>15. CASE UNCHANGED dispatchVars
  BY <1>15 DEF dispatchVars
<1> QED
  BY <1>1, <1>2, <1>3, <1>4, <1>5, <1>6, <1>7, <1>8, <1>9, <1>10, <1>11, <1>12,
     <1>13, <1>14, <1>15
  DEF DispatchNext, WorkerStep, StartTick

LEMMA EvidenceStep ==
  ASSUME DispatchTypeOK, ExclusiveLease, MarkerBeforeDial, PlacementEvidence, [DispatchNext]_dispatchVars
  PROVE  PlacementEvidence'
<1> USE DEF DispatchTypeOK, ExclusiveLease, MarkerBeforeDial, PlacementEvidence, Holds, PC, Busy
<1>1. ASSUME NEW w \in Workers, NEW n \in Attempts, RecoverExpiredLeases(w, n)
      PROVE  PlacementEvidence'
  BY <1>1 DEF RecoverExpiredLeases, SetOutbox, workerVars, switchVars
<1>2. ASSUME NEW w \in Workers, NEW due \in SUBSET Attempts, RunBatch(w, due)
      PROVE  PlacementEvidence'
  BY <1>2 DEF RunBatch, Goto, dbVars, switchVars
<1>3. ASSUME NEW w \in Workers, NEW n \in Attempts, Claim(w, n)
      PROVE  PlacementEvidence'
  BY SMTT(20), <1>3 DEF Claim, Goto, switchVars
<1>4. ASSUME NEW w \in Workers, ReadAttempt(w)
      PROVE  PlacementEvidence'
  BY <1>4 DEF ReadAttempt, Goto, dbVars, switchVars
<1>5. ASSUME NEW w \in Workers, WriteMarker(w)
      PROVE  PlacementEvidence'
  BY <1>5 DEF WriteMarker, Goto, switchVars
<1>6. ASSUME NEW w \in Workers, NEW reply \in Replies, Originate(w, reply)
      PROVE  PlacementEvidence'
  <2>1. /\ pc[w] = "marked" /\ ev[w] \in Attempts
        /\ \A v \in Workers : v # w => pc'[v] = pc[v]
        /\ UNCHANGED <<calling, evidence, jobId, marker, ev>>
    BY <1>6 DEF Originate, Goto, dbVars
  <2>2. \/ UNCHANGED <<live, dials>> /\ (pc'[w] = "done" => live[ev[w]])
                                   /\ pc'[w] \notin {"placed", "ambiguous"}
        \/ /\ live' = [live EXCEPT ![ev[w]] = TRUE]
           /\ dials'[ev[w]] > 0
           /\ \A m \in Attempts : m # ev[w] => dials'[m] = dials[m]
           /\ pc'[w] # "ambiguous"
    BY <1>6, <2>1 DEF Originate, Goto, switchVars, AllReplies
  <2>3. \A n \in Attempts : dials[n] > 0 => dials'[n] > 0
    BY <2>1, <2>2
  <2>4. \A n \in Attempts : jobId'[n] \/ evidence'[n] \/ live'[n] => dials'[n] > 0
    BY <2>1, <2>2, <2>3
  <2>5. \A v \in Workers : ev[v] \in Attempts \/ pc'[v] \notin Busy
    BY <2>1
  <2>6. \A v \in Workers :
          pc'[v] = "placed" \/ (pc'[v] = "done" /\ calling'[ev'[v]]) => dials'[ev'[v]] > 0
    BY <2>1, <2>2, <2>3, <2>5
  <2>7. \A v \in Workers : pc'[v] = "ambiguous" => marker'[ev'[v]]
    BY <2>1, <2>2
  <2> QED
    BY <2>4, <2>6, <2>7
<1>7. ASSUME NEW w \in Workers, CommitJob(w)
      PROVE  PlacementEvidence'
  BY <1>7 DEF CommitJob, SetOutbox, NextOfBatch, Goto, switchVars
<1>8. ASSUME NEW w \in Workers, MarkDispatchProcessed(w)
      PROVE  PlacementEvidence'
  BY <1>8 DEF MarkDispatchProcessed, SetOutbox, NextOfBatch, Goto, switchVars
<1>9. ASSUME NEW w \in Workers, DeadLetterDispatch(w)
      PROVE  PlacementEvidence'
  BY <1>9 DEF DeadLetterDispatch, SetOutbox, NextOfBatch, Goto, switchVars
<1>10. ASSUME NEW w \in Workers, HandleFailure(w)
      PROVE  PlacementEvidence'
  BY <1>10 DEF HandleFailure, SetOutbox, NextOfBatch, Goto, switchVars
<1>11. ASSUME NEW w \in Workers, StatementThrows(w)
      PROVE  PlacementEvidence'
  BY <1>11 DEF StatementThrows, Goto, dbVars, switchVars
<1>12. ASSUME NEW w \in Workers, Crash(w)
      PROVE  PlacementEvidence'
  BY <1>12 DEF Crash, Goto, dbVars, switchVars
<1>13. ASSUME NEW n \in Attempts, Open(n)
      PROVE  PlacementEvidence'
  BY <1>13 DEF Open, SetOutbox, workerVars, switchVars
<1>14. CASE Environment
  <2>1. /\ \A n \in Attempts : /\ calling'[n] => calling[n]
                               /\ live'[n] => live[n]
                               /\ evidence'[n] => evidence[n] \/ dials[n] > 0
        /\ UNCHANGED <<jobId, marker, pc, ev, dials>>
    BY <1>14 DEF Environment, workerVars
  <2> QED
    BY <2>1
<1>15. CASE UNCHANGED dispatchVars
  BY <1>15 DEF dispatchVars
<1> QED
  BY <1>1, <1>2, <1>3, <1>4, <1>5, <1>6, <1>7, <1>8, <1>9, <1>10, <1>11, <1>12,
     <1>13, <1>14, <1>15
  DEF DispatchNext, WorkerStep, StartTick

LEMMA OutcomeStep ==
  ASSUME DispatchTypeOK, ExclusiveLease, MarkerBeforeDial, PlacementEvidence,
         AtMostOneDial, AcknowledgedMeansPlaced, GivenUpMeansClosedOrStarted,
         [DispatchNext]_dispatchVars
  PROVE  (AtMostOneDial /\ AcknowledgedMeansPlaced /\ GivenUpMeansClosedOrStarted)'
<1> DEFINE Outcome == AtMostOneDial /\ AcknowledgedMeansPlaced /\ GivenUpMeansClosedOrStarted
<1>0. SUFFICES Outcome'
  OBVIOUS
<1> USE DEF DispatchTypeOK, AtMostOneDial, AcknowledgedMeansPlaced, GivenUpMeansClosedOrStarted
<1>1. ASSUME NEW w \in Workers, NEW n \in Attempts, RecoverExpiredLeases(w, n)
      PROVE  Outcome'
  BY <1>1 DEF RecoverExpiredLeases, SetOutbox, workerVars, switchVars
<1>2. ASSUME NEW w \in Workers, NEW due \in SUBSET Attempts, RunBatch(w, due)
      PROVE  Outcome'
  BY <1>2 DEF RunBatch, dbVars, switchVars
<1>3. ASSUME NEW w \in Workers, NEW n \in Attempts, Claim(w, n)
      PROVE  Outcome'
  BY <1>3 DEF Claim, switchVars
<1>4. ASSUME NEW w \in Workers, ReadAttempt(w)
      PROVE  Outcome'
  BY <1>4 DEF ReadAttempt, dbVars, switchVars
<1>5. ASSUME NEW w \in Workers, WriteMarker(w)
      PROVE  Outcome'
  BY <1>5 DEF WriteMarker, switchVars
<1>6. ASSUME NEW w \in Workers, NEW reply \in Replies, Originate(w, reply)
      PROVE  Outcome'
  <2>1. /\ pc[w] = "marked"
        /\ \/ UNCHANGED dials
           \/ dials' = [dials EXCEPT ![ev[w]] = IF @ < 2 THEN @ + 1 ELSE @]
        /\ UNCHANGED <<calling, marker, outbox>>
    BY <1>6 DEF Originate, dbVars, switchVars
  <2>2. dials[ev[w]] = 0
    BY <2>1 DEF MarkerBeforeDial
  <2>3. \A n \in Attempts : dials'[n] <= 1 /\ dials'[n] >= dials[n]
    BY <2>1, <2>2
  <2> QED
    BY <2>1, <2>3
<1>7. ASSUME NEW w \in Workers, CommitJob(w)
      PROVE  Outcome'
  <2>1. /\ dials[ev[w]] > 0
        /\ outbox' = [outbox EXCEPT ![ev[w]].status = "processed"]
        /\ UNCHANGED <<calling, marker, dials>>
    BY <1>7 DEF CommitJob, SetOutbox, switchVars, PlacementEvidence
  <2> QED
    BY <2>1
<1>8. ASSUME NEW w \in Workers, MarkDispatchProcessed(w)
      PROVE  Outcome'
  <2>1. /\ calling[ev[w]] => dials[ev[w]] > 0
        /\ outbox' = [outbox EXCEPT ![ev[w]].status = "processed"]
        /\ UNCHANGED <<calling, marker, dials>>
    BY <1>8 DEF MarkDispatchProcessed, SetOutbox, switchVars, PlacementEvidence
  <2>2. \A n \in Attempts : n # ev[w] => outbox'[n] = outbox[n]
    BY <2>1
  <2>3. \A n \in Attempts : outbox'[n].status = "failed" => n # ev[w]
    BY <2>1
  <2>4. ASSUME NEW n \in Attempts, outbox'[n].status = "processed", calling'[n]
        PROVE  dials'[n] >= 1
    <3>1. CASE n = ev[w]
      <4>1. calling[ev[w]]
        BY <2>1, <2>4, <3>1, Zenon
      <4>2. dials[ev[w]] > 0 /\ dials'[n] = dials[ev[w]]
        BY <2>1, <3>1, <4>1, Zenon
      <4>3. dials[ev[w]] \in Int
        BY <3>1
      <4> QED
        BY <4>2, <4>3
    <3>2. CASE n # ev[w]
      BY <2>1, <2>2, <2>4, <3>2
    <3> QED
      BY <3>1, <3>2
  <2> QED
    BY <2>1, <2>2, <2>3, <2>4
<1>9. ASSUME NEW w \in Workers, DeadLetterDispatch(w)
      PROVE  Outcome'
  <2>1. /\ marker[ev[w]]
        /\ outbox' = [outbox EXCEPT ![ev[w]].status = "failed"]
        /\ UNCHANGED <<calling, marker, dials>>
    BY <1>9 DEF DeadLetterDispatch, SetOutbox, switchVars, PlacementEvidence
  <2> QED
    BY <2>1
<1>10. ASSUME NEW w \in Workers, HandleFailure(w)
      PROVE  Outcome'
  <2> DEFINE terminal == TerminalFailure(w)
  <2>1. /\ calling' = [calling EXCEPT ![ev[w]] = @ /\ ~terminal]
        /\ outbox' = [outbox EXCEPT ![ev[w]].status =
                         IF terminal THEN "failed" ELSE "pending"]
        /\ UNCHANGED <<marker, dials>>
    BY <1>10 DEF HandleFailure, SetOutbox, switchVars
  <2> HIDE DEF terminal
  <2>2. \A n \in Attempts : calling'[n] => calling[n] /\ ~(terminal /\ n = ev[w])
    BY <2>1
  <2>3. ASSUME NEW n \in Attempts
        PROVE  outbox'[n].status = IF n # ev[w] THEN outbox[n].status
                                   ELSE IF terminal THEN "failed" ELSE "pending"
    BY <2>1
  <2> QED
    BY <2>1, <2>2, <2>3
<1>11. ASSUME NEW w \in Workers, StatementThrows(w)
      PROVE  Outcome'
  BY <1>11 DEF StatementThrows, dbVars, switchVars
<1>12. ASSUME NEW w \in Workers, Crash(w)
      PROVE  Outcome'
  BY <1>12 DEF Crash, dbVars, switchVars
<1>13. ASSUME NEW n \in Attempts, Open(n)
      PROVE  Outcome'
  BY <1>13 DEF Open, SetOutbox, workerVars, switchVars
<1>14. CASE Environment
  <2>1. /\ \A n \in Attempts : calling'[n] => calling[n]
        /\ UNCHANGED <<marker, outbox, dials>>
    BY <1>14 DEF Environment
  <2> QED
    BY <2>1
<1>15. CASE UNCHANGED dispatchVars
  BY <1>15 DEF dispatchVars
<1> QED
  BY <1>1, <1>2, <1>3, <1>4, <1>5, <1>6, <1>7, <1>8, <1>9, <1>10, <1>11, <1>12,
     <1>13, <1>14, <1>15
  DEF DispatchNext, WorkerStep, StartTick

DispatchInv ==
  /\ DispatchTypeOK /\ ExclusiveLease /\ MarkerBeforeDial /\ PlacementEvidence
  /\ AtMostOneDial /\ AcknowledgedMeansPlaced /\ GivenUpMeansClosedOrStarted

LEMMA InitInv == DispatchInit => DispatchInv
<1> SUFFICES ASSUME DispatchInit PROVE DispatchInv
  OBVIOUS
<1>1. DispatchTypeOK
  BY InitTypeOK
<1>2. ExclusiveLease /\ MarkerBeforeDial /\ PlacementEvidence
  BY DEF DispatchInit, ExclusiveLease, MarkerBeforeDial, PlacementEvidence, Holds, Busy, PC
<1>3. AtMostOneDial /\ AcknowledgedMeansPlaced /\ GivenUpMeansClosedOrStarted
  BY DEF DispatchInit, AtMostOneDial, AcknowledgedMeansPlaced, GivenUpMeansClosedOrStarted
<1> QED
  BY <1>1, <1>2, <1>3 DEF DispatchInv

(* As long as no lease runs out under a live worker, nobody is rung twice  *)
(* for one attempt, whatever crashes, failures and redeliveries happen;    *)
(* an acknowledged dispatch was placed, and one that was given up has      *)
(* closed its attempt or left the marker for the reaper.                   *)
THEOREM DispatchSafety ==
  ~SlowLease => (DispatchSpec => [](/\ AtMostOneDial
                                    /\ AcknowledgedMeansPlaced
                                    /\ GivenUpMeansClosedOrStarted
                                    /\ DispatchEvidence))
<1> SUFFICES ASSUME ~SlowLease
             PROVE  DispatchSpec => [](/\ AtMostOneDial
                                       /\ AcknowledgedMeansPlaced
                                       /\ GivenUpMeansClosedOrStarted
                                       /\ DispatchEvidence)
  OBVIOUS
<1>1. DispatchInit => DispatchInv
  BY InitInv
<1>2. DispatchInv /\ [DispatchNext]_dispatchVars => DispatchInv'
  BY NextTypeOK, LeaseStep, MarkerStep, EvidenceStep, OutcomeStep DEF DispatchInv
<1>3. DispatchInv => /\ AtMostOneDial
                     /\ AcknowledgedMeansPlaced
                     /\ GivenUpMeansClosedOrStarted
                     /\ DispatchEvidence
  BY DEF DispatchInv, DispatchEvidence
<1> QED
  BY <1>1, <1>2, <1>3, PTL DEF DispatchSpec
=============================================================================
