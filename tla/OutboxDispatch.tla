--------------------------- MODULE OutboxDispatch ---------------------------
(***************************************************************************)
(* How the outbox worker turns a 'call.dispatch_requested' event into a    *)
(* real phone call (apps/api/src/tasks/outbox.worker.ts).                  *)
(*                                                                         *)
(* Several worker processes poll the same outbox table.  A worker leases   *)
(* an event with a compare-and-set, reads the call attempt, writes the     *)
(* dispatchStartedAt marker, asks FreeSWITCH to originate the call and     *)
(* commits the provider job id.  Every database statement and the call to  *)
(* FreeSWITCH is a step of its own, and the process may die, or a          *)
(* statement may throw, between any two of them.                           *)
(*                                                                         *)
(* What the rest of the system does to a call attempt is the action        *)
(* Environment: OutboundCall.tla replaces it with the real operations and  *)
(* shows that they are instances of it.                                    *)
(***************************************************************************)
EXTENDS Integers, FiniteSets

CONSTANTS
  Attempts,    \* the call attempts on the freeswitch channel, one dispatch event each
  Workers,     \* the outbox worker processes
  MaxTries,    \* OUTBOX_MAX_ATTEMPTS
  MaxCrashes,  \* bound on the worker crashes explored
  Replies,     \* what FreeSWITCH may answer to originate, a subset of AllReplies
  SlowLease    \* may OUTBOX_LEASE_MS elapse while the lease holder still works?

(***************************************************************************)
(* "accepted"  +OK with a job id: the call is placed                       *)
(* "lost"      the call is placed but the reply never arrives (timeout or  *)
(*             closed connection): a retryable error                       *)
(* "garbled"   the call is placed but the reply has no job id or breaks    *)
(*             the protocol: a non-retryable error                         *)
(* "refused"   nothing is placed, retryable error                          *)
(* "rejected"  nothing is placed, non-retryable error                      *)
(***************************************************************************)
AllReplies == {"accepted", "lost", "garbled", "refused", "rejected"}

ASSUME AttemptsAssumption == Attempts \subseteq Nat /\ IsFiniteSet(Attempts)
ASSUME TriesAssumption == MaxTries \in Nat \ {0} /\ MaxCrashes \in Nat
ASSUME RepliesAssumption == Replies \subseteq AllReplies
ASSUME LeaseAssumption == SlowLease \in BOOLEAN

VARIABLES
  \* database rows
  calling,    \* calling[n]: the attempt's status column is CALLING
  evidence,   \* evidence[n]: a 'call.provider_event' row exists for the attempt
  jobId,      \* jobId[n]: the attempt's providerJobId is set
  marker,     \* marker[n]: the attempt's dispatchStartedAt is set
  outbox,     \* outbox[n]: the attempt's dispatch event, status and delivery count
  \* worker processes
  pc,         \* pc[w]: the statement the worker executes next
  ev,         \* ev[w]: the attempt whose event it has leased, or None
  loaded,     \* loaded[w][n]: event.attempts as findMany read it, or NotLoaded
  crashes,    \* crashes so far, for the bound
  \* FreeSWITCH
  live,       \* live[n]: a channel with origination_uuid n exists
  dials       \* dials[n]: calls placed for attempt n (history; 2 means many)

dbVars == <<calling, evidence, jobId, marker, outbox>>
workerVars == <<pc, ev, loaded, crashes>>
switchVars == <<live, dials>>
dispatchVars == <<calling, evidence, jobId, marker, outbox, pc, ev, loaded,
                  crashes, live, dials>>

None == 0 - 1
NotLoaded == 0 - 1

EventStatus == {"none", "pending", "processing", "processed", "failed"}

PC == {"idle", "batch", "claimed", "fresh", "marked", "placed", "done",
       "ambiguous", "retry", "reject"}

(* The worker is inside processEvent: it believes that it owns the event.  *)
Busy == PC \ {"idle", "batch"}

Holds(w, n) == pc[w] \in Busy /\ ev[w] = n

DispatchInit ==
  /\ calling = [n \in Attempts |-> FALSE]
  /\ evidence = [n \in Attempts |-> FALSE]
  /\ jobId = [n \in Attempts |-> FALSE]
  /\ marker = [n \in Attempts |-> FALSE]
  /\ outbox = [n \in Attempts |-> [status |-> "none", attempts |-> 0]]
  /\ pc = [w \in Workers |-> "idle"]
  /\ ev = [w \in Workers |-> None]
  /\ loaded = [w \in Workers |-> [n \in Attempts |-> NotLoaded]]
  /\ crashes = 0
  /\ live = [n \in Attempts |-> FALSE]
  /\ dials = [n \in Attempts |-> 0]
-----------------------------------------------------------------------------
(* Helpers of the worker's steps.                                          *)

Goto(w, label) == pc' = [pc EXCEPT ![w] = label]

SetOutbox(n, s) == outbox' = [outbox EXCEPT ![n].status = s]

(* processEvent returned: on to the next event of the batch, if there is one. *)
NextOfBatch(w) ==
  LET rest == [loaded[w] EXCEPT ![ev[w]] = NotLoaded]
  IN  /\ loaded' = [loaded EXCEPT ![w] = rest]
      /\ ev' = [ev EXCEPT ![w] = None]
      /\ Goto(w, IF \E n \in Attempts : rest[n] # NotLoaded THEN "batch" ELSE "idle")

(* Mutant: off by one.                                                     *)
IncrementPastBound(k) == IF k <= MaxTries THEN k + 1 ELSE k

(* The delivery count only matters up to MaxTries, so it saturates there.  *)
Increment(k) == IF k < MaxTries THEN k + 1 ELSE k
-----------------------------------------------------------------------------
(* Mutant: only the leases that carry this worker's own id are given back. *)
RecoverOwnLeases(w, n) ==
  /\ pc[w] = "idle"
  /\ outbox[n].status = "processing"
  /\ ev[w] = n
  /\ SetOutbox(n, "pending")
  /\ UNCHANGED <<calling, evidence, jobId, marker, workerVars, switchVars>>

(* A tick starts by giving back the events whose lease has run out.  The   *)
(* lease is a wall-clock age only: nothing tells a crashed holder from a   *)
(* slow one, so with SlowLease a live holder can lose its event.           *)
RecoverExpiredLeases(w, n) ==
  /\ pc[w] = "idle"
  /\ outbox[n].status = "processing"
  /\ SlowLease \/ \A v \in Workers : ~Holds(v, n)
  /\ SetOutbox(n, "pending")
  /\ UNCHANGED <<calling, evidence, jobId, marker, workerVars, switchVars>>

(* Then it reads the pending events that are due (which ones are due       *)
(* depends on the back-off, so any nonempty set of pending ones).          *)
RunBatch(w, due) ==
  /\ pc[w] = "idle"
  /\ due # {}
  /\ \A n \in due : outbox[n].status = "pending"
  /\ loaded' = [loaded EXCEPT ![w] =
                  [n \in Attempts |-> IF n \in due THEN outbox[n].attempts
                                                   ELSE NotLoaded]]
  /\ Goto(w, "batch")
  /\ UNCHANGED <<dbVars, switchVars, ev, crashes>>

(* Mutant: the claim does not compare the status.                          *)
ClaimBlindly(w, n) ==
  /\ pc[w] = "batch"
  /\ loaded[w][n] # NotLoaded
  /\ outbox' = [outbox EXCEPT ![n] = [status |-> "processing", attempts |-> Increment(@.attempts)]]
  /\ ev' = [ev EXCEPT ![w] = n]
  /\ Goto(w, "claimed")
  /\ UNCHANGED <<loaded, calling, evidence, jobId, marker, crashes, switchVars>>

(* The events of the batch are handled oldest first.  The claim is a       *)
(* compare-and-set on the status; the rest of the row is what findMany     *)
(* read earlier.                                                           *)
Claim(w, n) ==
  /\ pc[w] = "batch"
  /\ loaded[w][n] # NotLoaded
  /\ \A m \in Attempts : loaded[w][m] # NotLoaded => n <= m
  /\ IF outbox[n].status = "pending"
     THEN /\ outbox' = [outbox EXCEPT ![n] =
                          [status |-> "processing", attempts |-> Increment(@.attempts)]]
          /\ ev' = [ev EXCEPT ![w] = n]
          /\ Goto(w, "claimed")
          /\ UNCHANGED loaded
     ELSE LET rest == [loaded[w] EXCEPT ![n] = NotLoaded]
          IN  /\ loaded' = [loaded EXCEPT ![w] = rest]
              /\ Goto(w, IF \E m \in Attempts : rest[m] # NotLoaded
                           THEN "batch" ELSE "idle")
              /\ UNCHANGED <<outbox, ev>>
  /\ UNCHANGED <<calling, evidence, jobId, marker, crashes, switchVars>>

(* Mutant: the marker alone is taken for proof that the call was placed.   *)
ReadAttemptTrusting(w) ==
  /\ pc[w] = "claimed"
  /\ Goto(w, IF jobId[ev[w]] \/ ~calling[ev[w]] \/ marker[ev[w]] THEN "done" ELSE "fresh")
  /\ UNCHANGED <<dbVars, switchVars, ev, loaded, crashes>>

(* deliver() reads the attempt.  Guard 1: already placed, or no longer     *)
(* CALLING.  Guard 2: a delivery has started before and its outcome is     *)
(* unknown; a recorded provider event shows that the call was placed, and  *)
(* without one the event is dead-lettered.                                 *)
ReadAttempt(w) ==
  LET n == ev[w]
  IN  /\ pc[w] = "claimed"
      /\ Goto(w, IF jobId[n] \/ ~calling[n] THEN "done"
                 ELSE IF marker[n] THEN IF evidence[n] THEN "done" ELSE "ambiguous"
                 ELSE "fresh")
      /\ UNCHANGED <<dbVars, switchVars, ev, loaded, crashes>>

(* Mutant: the marker is only written together with the job id.            *)
WriteMarkerLater(w) ==
  /\ pc[w] = "fresh"
  /\ Goto(w, "marked")
  /\ UNCHANGED <<dbVars, switchVars, ev, loaded, crashes>>

(* The marker is committed on its own, before originate.                   *)
WriteMarker(w) ==
  /\ pc[w] = "fresh"
  /\ marker' = [marker EXCEPT ![ev[w]] = TRUE]
  /\ Goto(w, "marked")
  /\ UNCHANGED <<calling, evidence, jobId, outbox, switchVars, ev, loaded, crashes>>

(* originate(): FreeSWITCH refuses a second channel with the same UUID     *)
(* while the first one is alive, which the worker takes for success.       *)
Originate(w, reply) ==
  LET n == ev[w]
  IN  /\ pc[w] = "marked"
      /\ \/ /\ live[n]
            /\ Goto(w, CASE reply \in {"lost", "refused"}      -> "retry"
                         [] reply = "garbled"                   -> "reject"
                         [] reply \in {"accepted", "rejected"}  -> "done")
            /\ UNCHANGED switchVars
         \/ /\ ~live[n]
            /\ reply \in {"accepted", "lost", "garbled"}
            /\ live' = [live EXCEPT ![n] = TRUE]
            /\ dials' = [dials EXCEPT ![n] = IF @ < 2 THEN @ + 1 ELSE @]
            /\ Goto(w, CASE reply = "accepted" -> "placed"
                         [] reply = "lost"     -> "retry"
                         [] reply = "garbled"  -> "reject")
         \/ /\ ~live[n]
            /\ reply \in {"refused", "rejected"}
            /\ Goto(w, IF reply = "refused" THEN "retry" ELSE "reject")
            /\ UNCHANGED switchVars
      /\ UNCHANGED <<dbVars, ev, loaded, crashes>>

(* One transaction: the job id and the end of the event.                   *)
CommitJob(w) ==
  /\ pc[w] = "placed"
  /\ jobId' = [jobId EXCEPT ![ev[w]] = TRUE]
  /\ SetOutbox(ev[w], "processed")
  /\ NextOfBatch(w)
  /\ UNCHANGED <<calling, evidence, marker, crashes, switchVars>>

MarkDispatchProcessed(w) ==
  /\ pc[w] = "done"
  /\ SetOutbox(ev[w], "processed")
  /\ NextOfBatch(w)
  /\ UNCHANGED <<calling, evidence, jobId, marker, crashes, switchVars>>

(* The attempt keeps its CALLING status: only the event is closed.         *)
DeadLetterDispatch(w) ==
  /\ pc[w] = "ambiguous"
  /\ SetOutbox(ev[w], "failed")
  /\ NextOfBatch(w)
  /\ UNCHANGED <<calling, evidence, jobId, marker, crashes, switchVars>>

(* Any statement of deliver() may throw.                                   *)
StatementThrows(w) ==
  /\ pc[w] \in {"claimed", "fresh", "placed", "done", "ambiguous"}
  /\ Goto(w, "retry")
  /\ UNCHANGED <<dbVars, switchVars, ev, loaded, crashes>>

(* handleFailure(): the number of deliveries is the one findMany read,     *)
(* plus one.  The event is closed by its id alone, whoever holds the lease *)
(* by now, and a terminal failure closes an attempt that is still CALLING. *)
TerminalFailure(w) == pc[w] = "reject" \/ loaded[w][ev[w]] + 1 >= MaxTries

(* Mutant: a terminal failure closes the event and forgets the attempt.    *)
HandleFailureEventOnly(w) ==
  /\ pc[w] \in {"retry", "reject"}
  /\ SetOutbox(ev[w], IF TerminalFailure(w) THEN "failed" ELSE "pending")
  /\ NextOfBatch(w)
  /\ UNCHANGED <<calling, evidence, jobId, marker, crashes, switchVars>>

HandleFailure(w) ==
  LET n == ev[w]
  IN  /\ pc[w] \in {"retry", "reject"}
      /\ SetOutbox(n, IF TerminalFailure(w) THEN "failed" ELSE "pending")
      /\ calling' = [calling EXCEPT ![n] = @ /\ ~TerminalFailure(w)]
      /\ NextOfBatch(w)
      /\ UNCHANGED <<evidence, jobId, marker, crashes, switchVars>>

(* The process dies, or an exception escapes processEvent and ends the     *)
(* batch: what the worker held in memory is gone, the lease stays.         *)
Crash(w) ==
  /\ pc[w] # "idle"
  /\ crashes < MaxCrashes
  /\ crashes' = crashes + 1
  /\ Goto(w, "idle")
  /\ ev' = [ev EXCEPT ![w] = None]
  /\ loaded' = [loaded EXCEPT ![w] = [n \in Attempts |-> NotLoaded]]
  /\ UNCHANGED <<dbVars, switchVars>>

WorkerStep(w) ==
  \/ \E n \in Attempts : Claim(w, n)
  \/ ReadAttempt(w)
  \/ WriteMarker(w)
  \/ \E reply \in Replies : Originate(w, reply)
  \/ CommitJob(w)
  \/ MarkDispatchProcessed(w)
  \/ DeadLetterDispatch(w)
  \/ HandleFailure(w)

StartTick(w) ==
  \/ \E n \in Attempts : RecoverExpiredLeases(w, n)
  \/ \E due \in SUBSET Attempts : RunBatch(w, due)
-----------------------------------------------------------------------------
(* The rest of the system.  TasksService.dispatch opens an attempt and     *)
(* writes its event in the same transaction.                               *)
Open(n) ==
  /\ outbox[n].status = "none"
  /\ calling' = [calling EXCEPT ![n] = TRUE]
  /\ SetOutbox(n, "pending")
  /\ UNCHANGED <<evidence, jobId, marker, workerVars, switchVars>>

(* Attempts leave CALLING and do not come back; channels end; provider     *)
(* events are recorded, and only for calls that were placed.               *)
Environment ==
  /\ \E c, l \in [Attempts -> BOOLEAN] :
       /\ \A n \in Attempts : (c[n] => calling[n]) /\ (l[n] => live[n])
       /\ calling' = c
       /\ live' = l
  /\ \E e \in [Attempts -> BOOLEAN] :
       /\ \A n \in Attempts : (evidence[n] => e[n]) /\ (e[n] => evidence[n] \/ dials[n] > 0)
       /\ evidence' = e
  /\ UNCHANGED <<jobId, marker, outbox, workerVars, dials>>

DispatchNext ==
  \/ \E w \in Workers : StartTick(w) \/ WorkerStep(w) \/ StatementThrows(w) \/ Crash(w)
  \/ \E n \in Attempts : Open(n)
  \/ Environment

DispatchSpec == DispatchInit /\ [][DispatchNext]_dispatchVars

(* What a worker process does as long as it runs: a tick every second, and *)
(* each statement returns or throws.                                       *)
Progress(w) == StartTick(w) \/ WorkerStep(w)
-----------------------------------------------------------------------------
(* Every variable keeps the type of the column, row or memory it models.   *)
DispatchTypeOK ==
  /\ calling \in [Attempts -> BOOLEAN]
  /\ evidence \in [Attempts -> BOOLEAN]
  /\ jobId \in [Attempts -> BOOLEAN]
  /\ marker \in [Attempts -> BOOLEAN]
  /\ outbox \in [Attempts -> [status : EventStatus, attempts : 0 .. MaxTries]]
  /\ pc \in [Workers -> PC]
  /\ ev \in [Workers -> Attempts \cup {None}]
  /\ loaded \in [Workers -> [Attempts -> (0 .. MaxTries) \cup {NotLoaded}]]
  /\ crashes \in Nat
  /\ live \in [Attempts -> BOOLEAN]
  /\ dials \in [Attempts -> 0 .. 2]

(* The same person is never rung twice for one attempt, however often the  *)
(* event is redelivered after a crash (deliver(), guards 1 and 2).         *)
AtMostOneDial == \A n \in Attempts : dials[n] <= 1

(* An event is never acknowledged in vain: if the attempt still waits in   *)
(* CALLING, its call really was placed (markDispatchProcessed, commit).    *)
AcknowledgedMeansPlaced ==
  \A n \in Attempts :
    outbox[n].status = "processed" /\ calling[n] => dials[n] >= 1

(* An event that is given up leaves the attempt open only in the ambiguous *)
(* case, in which a delivery had started: every other failure closes the   *)
(* attempt with it (handleFailure, deadLetterDispatch).                    *)
GivenUpMeansClosedOrStarted ==
  \A n \in Attempts :
    outbox[n].status = "failed" /\ calling[n] => marker[n]

(* Every requested dispatch comes to be settled: processed or failed       *)
(* (runBatch, recoverExpiredLeases and handleFailure together).            *)
DispatchesSettled ==
  \A n \in Attempts : outbox[n].status \in {"none", "processed", "failed"}

(* Why the above holds.  A lease has one holder, as long as it does not    *)
(* run out under a live worker (claim and recoverExpiredLeases).           *)
ExclusiveLease ==
  /\ \A w \in Workers : pc[w] \in Busy => ev[w] \in Attempts
  /\ \A w \in Workers, n \in Attempts :
       Holds(w, n) => /\ outbox[n].status = "processing"
                      /\ \A v \in Workers : Holds(v, n) => v = w

(* The marker is on disk before the call is placed, so that whoever finds  *)
(* no marker may dial.                                                     *)
MarkerBeforeDial ==
  /\ \A n \in Attempts : dials[n] > 0 => marker[n]
  /\ \A w \in Workers : pc[w] = "fresh" => ~marker[ev[w]]
  /\ \A w \in Workers : pc[w] = "marked" => marker[ev[w]] /\ dials[ev[w]] = 0

(* What the guards of deliver() take for proof of a placed call is proof.  *)
PlacementEvidence ==
  /\ \A n \in Attempts : jobId[n] \/ evidence[n] \/ live[n] => dials[n] > 0
  /\ \A w \in Workers :
       pc[w] = "placed" \/ (pc[w] = "done" /\ calling[ev[w]]) => dials[ev[w]] > 0
  /\ \A w \in Workers : pc[w] = "ambiguous" => marker[ev[w]]

(* The three together: who may dial, who has dialled, and what shows it.   *)
DispatchEvidence == ExclusiveLease /\ MarkerBeforeDial /\ PlacementEvidence
=============================================================================
