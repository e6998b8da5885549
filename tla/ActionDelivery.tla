---------------------------- MODULE ActionDelivery ----------------------------
(* The sms, api and crm actions of a call flow: the voice agent hands an       *)
(* action to the API once, the API writes it to the outbox under the agent's   *)
(* idempotency key, the outbox workers deliver it at least once.  A crm action *)
(* the API has not accepted is executed by the voice agent itself.             *)
EXTENDS Naturals, FiniteSets

CONSTANTS
  Actions,      \* action nodes executed
  Workers,      \* outbox worker processes
  MaxAttempts,  \* OUTBOX_MAX_ATTEMPTS
  MaxFaults,    \* crashes, and statements that throw: a bound of the model
  SlowDelivery  \* a delivery may outlast its lease of a minute

VARIABLES
  node,     \* the action nodes: kind, whether well configured, how far
  request,  \* what is on its way to the API
  row,      \* rows of outbox_events, by idempotency key
  worker,
  keys,     \* Idempotency-Key headers the receiver of an action has seen
  effects,  \* times the action was carried out, up to 3
  unsure,   \* history: an outcome was unknown to the one who had to act on it
  faults

vars == <<node, request, row, worker, keys, effects, unsure, faults>>

Kinds == {"sms", "api", "crm"}
Settled == {"processed", "failed"}
NoRow == [status |-> "none", attempts |-> 0]
Idle == [at |-> "idle", action |-> "none", attempts |-> 0]

\* A batch is read before its events are claimed, so that handleFailure may count too few
\* tries: each worker and each fault can add one to the limit.
Tries == 0..MaxAttempts + MaxFaults + Cardinality(Workers)

TypeOK ==
  /\ node \in [Actions -> [kind : Kinds, valid : BOOLEAN,
                           at : {"idle", "asking", "tool", "done", "raised"}]]
  /\ request \in [Actions -> {"none", "sent"}]
  /\ row \in [Actions -> [status : {"none", "pending", "processing"} \cup Settled,
                          attempts : Tries]]
  /\ worker \in [Workers -> [at : {"idle", "batch", "deliver", "record", "finish", "fail"},
                             action : Actions \cup {"none"}, attempts : Tries]]
  /\ keys \in [Actions -> SUBSET Nat]
  /\ effects \in [Actions -> 0..3]
  /\ unsure \subseteq Actions
  /\ faults \in 0..MaxFaults

Init ==
  /\ node \in [Actions -> {n \in [kind : Kinds, valid : BOOLEAN, at : {"idle"}] :
                           n.kind = "sms" => n.valid}]
  /\ request = [a \in Actions |-> "none"]
  /\ row = [a \in Actions |-> NoRow]
  /\ worker = [w \in Workers |-> Idle]
  /\ keys = [a \in Actions |-> {}]
  /\ effects = [a \in Actions |-> 0]
  /\ unsure = {}
  /\ faults = 0

CarryOut(a) == effects' = [effects EXCEPT ![a] = IF @ < 3 THEN @ + 1 ELSE @]

-----------------------------------------------------------------------------
(* Voice agent: _exec_action, execute_action                                   *)

Ask(a) ==
  /\ node[a].at = "idle"
  /\ node' = [node EXCEPT ![a].at = "asking"]
  /\ request' = [request EXCEPT ![a] = "sent"]
  /\ UNCHANGED <<row, worker, keys, effects, unsure, faults>>

\* What the node does with the answer.
Answered(a, accepted) ==
  node' = IF node[a].at # "asking" THEN node
          ELSE [node EXCEPT ![a].at = IF accepted THEN "done"
                                      ELSE IF node[a].kind = "crm" THEN "tool" ELSE "raised"]

\* enqueueAction: the row is looked up by its key before it is created.
EnqueueAction(a) ==
  /\ request[a] = "sent"
  /\ row' = IF row[a].status # "none" THEN row
            ELSE [row EXCEPT ![a] = [status |-> "pending", attempts |-> 0]]
  /\ request' = [request EXCEPT ![a] = "none"]
  /\ \/ Answered(a, TRUE) /\ UNCHANGED unsure
     \/ Answered(a, FALSE) /\ unsure' = unsure \cup {a}  \* the reply is lost
  /\ UNCHANGED <<worker, keys, effects, faults>>

RequestRefused(a) ==
  /\ request[a] = "sent"
  /\ request' = [request EXCEPT ![a] = "none"]
  /\ Answered(a, FALSE)
  /\ UNCHANGED <<row, worker, keys, effects, unsure, faults>>

\* The client gives up after ten seconds; the request is not withdrawn.
RequestTimesOut(a) ==
  /\ node[a].at = "asking" /\ request[a] = "sent"
  /\ Answered(a, FALSE)
  /\ unsure' = unsure \cup {a}
  /\ UNCHANGED <<request, row, worker, keys, effects, faults>>

DispatchTool(a) ==
  /\ node[a].at = "tool"
  /\ node' = [node EXCEPT ![a].at = "done"]
  /\ CarryOut(a)
  /\ UNCHANGED <<request, row, worker, keys, unsure, faults>>

-----------------------------------------------------------------------------
(* Outbox worker                                                               *)

Held(a) == \E w \in Workers : worker[w].action = a /\ worker[w].at \notin {"idle", "batch"}

\* The leases that runBatch takes back, by their age.
Expired(a) == row[a].status = "processing" /\ (SlowDelivery \/ ~Held(a))

\* runBatch recovers leases and reads pending rows; this one is about to be processed.
RunBatch(w, a) ==
  /\ worker[w].at = "idle"
  /\ row[a].status = "pending" \/ Expired(a)
  /\ row' = [row EXCEPT ![a].status = "pending"]
  /\ worker' = [worker EXCEPT ![w] = [at |-> "batch", action |-> a, attempts |-> row[a].attempts]]
  /\ UNCHANGED <<node, request, keys, effects, unsure, faults>>

Claim(w) ==
  LET a == worker[w].action IN
  /\ worker[w].at = "batch"
  /\ IF row[a].status = "pending"
     THEN /\ row' = [row EXCEPT ![a] = [status |-> "processing", attempts |-> @.attempts + 1]]
          /\ worker' = [worker EXCEPT ![w].at = "deliver"]
     ELSE worker' = [worker EXCEPT ![w] = Idle] /\ UNCHANGED row
  /\ UNCHANGED <<node, request, keys, effects, unsure, faults>>

\* event.deduplicationKey
Key(w) == 0

\* Configuration errors and an allowlist that forbids the host throw before any call; the
\* call succeeds, fails, or is carried out with its reply lost.
Deliver(w) ==
  LET a == worker[w].action IN
  /\ worker[w].at = "deliver"
  /\ \/ node[a].valid /\ CarryOut(a) /\ worker' = [worker EXCEPT ![w].at = "record"]
        /\ UNCHANGED unsure
     \/ node[a].valid /\ CarryOut(a) /\ worker' = [worker EXCEPT ![w].at = "fail"]
        /\ unsure' = unsure \cup {a}
     \/ worker' = [worker EXCEPT ![w].at = "fail"] /\ UNCHANGED <<effects, unsure>>
  /\ keys' = [keys EXCEPT ![a] = IF node[a].valid /\ node[a].kind # "crm"
                                 THEN @ \cup {Key(w)} ELSE @]
  /\ UNCHANGED <<node, request, row, faults>>

\* recordActionDelivered
RecordActionDelivered(w) ==
  /\ worker[w].at = "record"
  /\ worker' = [worker EXCEPT ![w].at = "finish"]
  /\ UNCHANGED <<node, request, row, keys, effects, unsure, faults>>

MarkProcessed(w) ==
  /\ worker[w].at = "finish"
  /\ row' = [row EXCEPT ![worker[w].action].status = "processed"]
  /\ worker' = [worker EXCEPT ![w] = Idle]
  /\ UNCHANGED <<node, request, keys, effects, unsure, faults>>

\* attempts is that of the batch; a BadRequest is not retried.
HandleFailure(w) ==
  LET a == worker[w].action IN
  /\ worker[w].at = "fail"
  /\ row' = [row EXCEPT ![a].status =
               IF ~node[a].valid \/ worker[w].attempts + 1 >= MaxAttempts
               THEN "failed" ELSE "pending"]
  /\ worker' = [worker EXCEPT ![w] = Idle]
  /\ UNCHANGED <<node, request, keys, effects, unsure, faults>>

\* A statement after the delivery throws: the failure is handled like one of the delivery.
StatementThrows(w) ==
  /\ worker[w].at \in {"record", "finish"}
  /\ faults < MaxFaults /\ faults' = faults + 1
  /\ worker' = [worker EXCEPT ![w].at = "fail"]
  /\ unsure' = unsure \cup {worker[w].action}
  /\ UNCHANGED <<node, request, row, keys, effects>>

\* The process dies, or handleFailure throws and ends the batch.
Crash(w) ==
  /\ worker[w].at # "idle"
  /\ faults < MaxFaults /\ faults' = faults + 1
  /\ worker' = [worker EXCEPT ![w] = Idle]
  /\ unsure' = IF worker[w].at = "batch" THEN unsure ELSE unsure \cup {worker[w].action}
  /\ UNCHANGED <<node, request, row, keys, effects>>

WorkerStep(w) ==
  \/ \E a \in Actions : RunBatch(w, a)
  \/ Claim(w) \/ Deliver(w) \/ RecordActionDelivered(w) \/ MarkProcessed(w) \/ HandleFailure(w)

Next ==
  \/ \E a \in Actions : Ask(a) \/ EnqueueAction(a) \/ RequestRefused(a)
                        \/ RequestTimesOut(a) \/ DispatchTool(a)
  \/ \E w \in Workers : WorkerStep(w) \/ StatementThrows(w) \/ Crash(w)

Spec == Init /\ [][Next]_vars

-----------------------------------------------------------------------------
\* deliver, recordActionDelivered: an event is acknowledged only when its action was carried
\* out, and a node is passed only when its action was carried out or is in the outbox.
NothingSilent ==
  \A a \in Actions :
    /\ row[a].status = "processed" => effects[a] > 0
    /\ node[a].at = "done" => effects[a] > 0 \/ row[a].status # "none"

\* deliverSms, deliverWebhook: through retries, crashes and lease recoveries a receiver sees
\* one key per action, so that it can tell a repetition; an action is carried out twice only
\* when the outcome of an earlier try was unknown.
RepeatsAreKnown ==
  \A a \in Actions : /\ \A k, l \in keys[a] : k = l
                     /\ effects[a] > 1 => a \in unsure

\* processEvent, handleFailure: while leases outlast deliveries a settled event never moves.
SettledForGood == \A a \in Actions : row[a].status \in Settled => row'[a] = row[a]

\* recoverExpiredLeases, handleFailure: every accepted action comes to be delivered or given
\* up; to hold again and again.
ActionsSettled == \A a \in Actions : row[a].status \in Settled \cup {"none"}
=============================================================================
