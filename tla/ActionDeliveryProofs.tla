------------------------- MODULE ActionDeliveryProofs -------------------------
(***************************************************************************)
(* Theorems about ActionDelivery, for every set of actions and workers and *)
(* every number of tries and faults.                                       *)
(***************************************************************************)
EXTENDS ActionDelivery, TLAPS

NodeAt == {"idle", "asking", "tool", "done", "raised"}
RowStatus == {"none", "pending", "processing"} \cup Settled
Holding == {"deliver", "record", "finish", "fail"}
Delivered == {"record", "finish"}
WorkerAt == {"idle", "batch"} \cup Holding

NodeRecord == [kind : Kinds, valid : BOOLEAN, at : NodeAt]
RowRecord == [status : RowStatus, attempts : Nat]
WorkerRecord == [at : WorkerAt, action : Actions \cup {"none"}, attempts : Nat]

(* Types, as far as the arguments below need them: how many tries a row    *)
(* has had is left open.                                                   *)
TypeInv ==
  /\ node \in [Actions -> NodeRecord]
  /\ request \in [Actions -> {"none", "sent"}]
  /\ row \in [Actions -> RowRecord]
  /\ worker \in [Workers -> WorkerRecord]
  /\ \A w \in Workers : worker[w].at # "idle" => worker[w].action \in Actions
  /\ keys \in [Actions -> SUBSET {0}]
  /\ effects \in [Actions -> 0 .. 3]
  /\ unsure \subseteq Actions

(* An event that a worker delivers or has delivered is processing, and it  *)
(* has no other holder: the claim is a compare-and-set, and what is held   *)
(* is not given back.                                                      *)
LeaseInv ==
  /\ \A w \in Workers : worker[w].at \in Holding => row[worker[w].action].status = "processing"
  /\ \A v, w \in Workers :
       v # w /\ worker[v].at \in Holding /\ worker[w].at \in Holding
         => worker[v].action # worker[w].action

(* What the worker acknowledges next has been carried out.                 *)
EvidenceInv ==
  /\ \A w \in Workers : worker[w].at \in Delivered => effects[worker[w].action] > 0
  /\ NothingSilent

(* The one request of an action is made, and consumed, once; workers deal  *)
(* with what a request has put into the outbox.                            *)
RequestInv ==
  /\ \A a \in Actions :
       /\ node[a].at = "idle" => request[a] = "none" /\ row[a].status = "none"
       /\ node[a].at = "asking" => request[a] = "sent"
       /\ request[a] = "sent" => row[a].status = "none"
  /\ \A w \in Workers : worker[w].at # "idle" => row[worker[w].action].status # "none"

(* Who may have carried an action out when nobody had to guess.            *)
ByOutbox(a) ==
  \/ row[a].status = "processed"
  \/ \E w \in Workers : worker[w].at \in Delivered /\ worker[w].action = a

ByAgent(a) == node[a].at = "done" /\ row[a].status = "none" /\ request[a] = "none"

OnceInv ==
  \A a \in Actions \ unsure :
    /\ effects[a] # 0 => effects[a] = 1 /\ (ByOutbox(a) \/ ByAgent(a))
    /\ node[a].at = "tool" => row[a].status = "none" /\ request[a] = "none"

-----------------------------------------------------------------------------
LEMMA InitInv == Init => TypeInv /\ LeaseInv /\ EvidenceInv /\ RequestInv /\ OnceInv
<1>. SUFFICES ASSUME Init PROVE TypeInv /\ LeaseInv /\ EvidenceInv /\ RequestInv /\ OnceInv
  OBVIOUS
<1>1. TypeInv
  BY DEF Init, TypeInv, NodeAt, RowStatus, Kinds, NoRow, Idle, NodeRecord, RowRecord, WorkerRecord,
         WorkerAt
<1>2. LeaseInv
  BY DEF Init, LeaseInv, Holding, Idle
<1>3. EvidenceInv /\ RequestInv /\ OnceInv
  BY DEF Init, EvidenceInv, NothingSilent, Delivered, RequestInv, OnceInv, NoRow, Idle, Settled
<1>. QED
  BY <1>1, <1>2, <1>3

(* What an assignment to one field of one row, worker or node leaves and   *)
(* changes.                                                                *)
LEMMA RowMoves ==
  ASSUME TypeInv, NEW a \in Actions, NEW s \in RowStatus, row' = [row EXCEPT ![a].status = s]
  PROVE  /\ row' \in [Actions -> RowRecord]
         /\ row'[a].status = s
         /\ row'[a].attempts = row[a].attempts
         /\ \A b \in Actions \ {a} : row'[b] = row[b]
<1>1. row \in [Actions -> RowRecord] /\ row[a] \in RowRecord
  BY DEF TypeInv
<1>. DEFINE new == [row[a] EXCEPT !.status = s]
<1>2. new \in RowRecord /\ new.status = s /\ new.attempts = row[a].attempts
  BY <1>1 DEF RowRecord
<1>3. row' = [row EXCEPT ![a] = new]
  OBVIOUS
<1>. HIDE DEF new
<1>. QED
  BY <1>1, <1>2, <1>3

LEMMA WorkerMoves ==
  ASSUME TypeInv, NEW w \in Workers, NEW s \in WorkerAt \ {"idle"}, worker[w].at # "idle",
         worker' = [worker EXCEPT ![w].at = s]
  PROVE  /\ worker' \in [Workers -> WorkerRecord]
         /\ worker[w].action \in Actions
         /\ worker'[w].at = s
         /\ worker'[w].action = worker[w].action
         /\ \A v \in Workers \ {w} : worker'[v] = worker[v]
         /\ \A v \in Workers : worker'[v].at # "idle" => worker'[v].action \in Actions
<1>1. worker \in [Workers -> WorkerRecord] /\ worker[w] \in WorkerRecord
  BY DEF TypeInv
<1>. DEFINE new == [worker[w] EXCEPT !.at = s]
<1>2. new \in WorkerRecord /\ new.at = s /\ new.action = worker[w].action
  BY <1>1 DEF WorkerRecord
<1>3. worker' = [worker EXCEPT ![w] = new]
  OBVIOUS
<1>4. worker[w].action \in Actions
  BY DEF TypeInv
<1>. HIDE DEF new
<1>5. /\ worker' \in [Workers -> WorkerRecord]
      /\ worker'[w] = new
      /\ \A v \in Workers \ {w} : worker'[v] = worker[v]
  BY <1>1, <1>2, <1>3
<1>6. ASSUME NEW v \in Workers, worker'[v].at # "idle" PROVE worker'[v].action \in Actions
  BY <1>2, <1>4, <1>5, <1>6 DEF TypeInv
<1>. QED
  BY <1>2, <1>4, <1>5, <1>6

LEMMA WorkerIdles ==
  ASSUME TypeInv, NEW w \in Workers, worker' = [worker EXCEPT ![w] = Idle]
  PROVE  /\ worker' \in [Workers -> WorkerRecord]
         /\ worker'[w].at = "idle"
         /\ \A v \in Workers \ {w} : worker'[v] = worker[v]
         /\ \A v \in Workers : worker'[v].at # "idle" => worker'[v].action \in Actions
<1>1. Idle \in WorkerRecord /\ Idle.at = "idle"
  BY DEF Idle, WorkerRecord, WorkerAt
<1>2. /\ worker' \in [Workers -> WorkerRecord]
      /\ worker'[w] = Idle
      /\ \A v \in Workers \ {w} : worker'[v] = worker[v]
  BY <1>1 DEF TypeInv
<1>3. ASSUME NEW v \in Workers, worker'[v].at # "idle" PROVE worker'[v].action \in Actions
  BY <1>1, <1>2, <1>3 DEF TypeInv
<1>. QED
  BY <1>1, <1>2, <1>3

LEMMA NodeMoves ==
  ASSUME TypeInv, NEW a \in Actions, NEW s \in NodeAt, node' = [node EXCEPT ![a].at = s]
  PROVE  /\ node' \in [Actions -> NodeRecord]
         /\ node'[a].at = s
         /\ \A b \in Actions \ {a} : node'[b] = node[b]
<1>1. node \in [Actions -> NodeRecord] /\ node[a] \in NodeRecord
  BY DEF TypeInv
<1>. DEFINE new == [node[a] EXCEPT !.at = s]
<1>2. new \in NodeRecord /\ new.at = s
  BY <1>1 DEF NodeRecord
<1>3. node' = [node EXCEPT ![a] = new]
  OBVIOUS
<1>. HIDE DEF new
<1>. QED
  BY <1>1, <1>2, <1>3

LEMMA AnsweredMoves ==
  ASSUME TypeInv, NEW a \in Actions, NEW accepted \in BOOLEAN, Answered(a, accepted)
  PROVE  /\ node' \in [Actions -> NodeRecord]
         /\ node[a].at # "asking" => node'[a] = node[a]
         /\ node[a].at = "asking" =>
              IF accepted THEN node'[a].at = "done" ELSE node'[a].at \in {"tool", "raised"}
         /\ \A b \in Actions \ {a} : node'[b] = node[b]
<1>. DEFINE to == IF accepted THEN "done" ELSE IF node[a].kind = "crm" THEN "tool" ELSE "raised"
<1>1. to \in NodeAt
  BY DEF NodeAt
<1>2. IF accepted THEN to = "done" ELSE to \in {"tool", "raised"}
  OBVIOUS
<1>3. CASE node[a].at # "asking"
  BY <1>3 DEF Answered, TypeInv
<1>4. CASE node[a].at = "asking"
  <2>1. node' = [node EXCEPT ![a].at = to]
    BY <1>4 DEF Answered
  <2>. HIDE DEF to
  <2>. QED
    BY <1>1, <1>2, <1>4, <2>1, NodeMoves
<1>. QED
  BY <1>3, <1>4

LEMMA CarryOutCounts ==
  ASSUME TypeInv, NEW a \in Actions, CarryOut(a)
  PROVE  /\ effects' \in [Actions -> 0 .. 3]
         /\ effects'[a] > 0
         /\ effects[a] = 0 => effects'[a] = 1
         /\ \A b \in Actions \ {a} : effects'[b] = effects[b]
<1>1. effects \in [Actions -> 0 .. 3] /\ effects[a] \in 0 .. 3
  BY DEF TypeInv
<1>2. effects' = [effects EXCEPT ![a] = IF effects[a] < 3 THEN effects[a] + 1 ELSE effects[a]]
  BY DEF CarryOut
<1>. QED
  BY <1>1, <1>2

LEMMA StepTypeInv == TypeInv /\ [Next]_vars => TypeInv'
<1>. SUFFICES ASSUME TypeInv, [Next]_vars PROVE TypeInv'
  OBVIOUS
<1>1. ASSUME NEW a \in Actions, Ask(a) PROVE TypeInv'
  <2>1. node' \in [Actions -> NodeRecord]
    BY <1>1, NodeMoves DEF Ask, NodeAt
  <2>. QED
    BY <1>1, <2>1 DEF Ask, TypeInv
<1>2. ASSUME NEW a \in Actions, EnqueueAction(a) PROVE TypeInv'
  <2>1. node' \in [Actions -> NodeRecord]
    BY <1>2, AnsweredMoves DEF EnqueueAction
  <2>2. [status |-> "pending", attempts |-> 0] \in RowRecord
    BY DEF RowRecord, RowStatus
  <2>3. row' = row \/ row' = [row EXCEPT ![a] = [status |-> "pending", attempts |-> 0]]
    BY <1>2 DEF EnqueueAction
  <2>4. row' \in [Actions -> RowRecord]
    BY <2>2, <2>3 DEF TypeInv
  <2>. QED
    BY <1>2, <2>1, <2>4 DEF EnqueueAction, TypeInv
<1>3. ASSUME NEW a \in Actions, RequestRefused(a) \/ RequestTimesOut(a) PROVE TypeInv'
  <2>1. node' \in [Actions -> NodeRecord]
    BY <1>3, AnsweredMoves DEF RequestRefused, RequestTimesOut
  <2>. QED
    BY <1>3, <2>1 DEF RequestRefused, RequestTimesOut, TypeInv
<1>4. ASSUME NEW a \in Actions, DispatchTool(a) PROVE TypeInv'
  <2>1. node' \in [Actions -> NodeRecord] /\ effects' \in [Actions -> 0 .. 3]
    BY <1>4, NodeMoves, CarryOutCounts DEF DispatchTool, NodeAt
  <2>. QED
    BY <1>4, <2>1 DEF DispatchTool, TypeInv
<1>5. ASSUME NEW w \in Workers, NEW a \in Actions, RunBatch(w, a) PROVE TypeInv'
  <2>1. row' \in [Actions -> RowRecord]
    BY <1>5, RowMoves DEF RunBatch, RowStatus
  <2>2. [at |-> "batch", action |-> a, attempts |-> row[a].attempts] \in WorkerRecord
    BY DEF TypeInv, RowRecord, WorkerRecord, WorkerAt
  <2>. QED
    BY <1>5, <2>1, <2>2 DEF RunBatch, TypeInv
<1>6. ASSUME NEW w \in Workers, Claim(w) PROVE TypeInv'
  <2>. DEFINE a == worker[w].action
              new == [status |-> "processing", attempts |-> row[a].attempts + 1]
  <2>1. a \in Actions /\ worker[w].at # "idle"
    BY <1>6 DEF Claim, TypeInv
  <2>2. new \in RowRecord
    BY <2>1 DEF TypeInv, RowRecord, RowStatus
  <2>3. \/ row' = [row EXCEPT ![a] = new] /\ worker' = [worker EXCEPT ![w].at = "deliver"]
        \/ row' = row /\ worker' = [worker EXCEPT ![w] = Idle]
    BY <1>6 DEF Claim
  <2>4. UNCHANGED <<node, request, keys, effects, unsure>>
    BY <1>6 DEF Claim
  <2>5. row' \in [Actions -> RowRecord]
    BY <2>2, <2>3 DEF TypeInv
  <2>6. "deliver" \in WorkerAt \ {"idle"}
    BY DEF WorkerAt, Holding
  <2>7. /\ worker' \in [Workers -> WorkerRecord]
        /\ \A v \in Workers : worker'[v].at # "idle" => worker'[v].action \in Actions
    BY <2>1, <2>3, <2>6, WorkerMoves, WorkerIdles
  <2>. QED
    BY <2>4, <2>5, <2>7 DEF TypeInv
<1>7. ASSUME NEW w \in Workers, Deliver(w) PROVE TypeInv'
  <2>. DEFINE a == worker[w].action
  <2>1. a \in Actions /\ worker[w].at # "idle"
    BY <1>7 DEF Deliver, TypeInv
  <2>2. {"record", "fail"} \subseteq WorkerAt \ {"idle"}
    BY DEF WorkerAt, Holding
  <2>3. \E s \in {"record", "fail"} : worker' = [worker EXCEPT ![w].at = s]
    BY <1>7 DEF Deliver
  <2>4. /\ worker' \in [Workers -> WorkerRecord]
        /\ \A v \in Workers : worker'[v].at # "idle" => worker'[v].action \in Actions
    BY <2>1, <2>2, <2>3, WorkerMoves
  <2>5. effects' \in [Actions -> 0 .. 3]
    BY <1>7, <2>1, CarryOutCounts DEF Deliver, TypeInv
  <2>6. keys' \in [Actions -> SUBSET {0}]
    BY <1>7, <2>1 DEF Deliver, Key, TypeInv
  <2>7. unsure' \subseteq Actions
    BY <1>7, <2>1 DEF Deliver, TypeInv
  <2>. QED
    BY <1>7, <2>4, <2>5, <2>6, <2>7 DEF Deliver, TypeInv
<1>8. ASSUME NEW w \in Workers, RecordActionDelivered(w) \/ StatementThrows(w) PROVE TypeInv'
  <2>1. worker[w].at # "idle" /\ {"finish", "fail"} \subseteq WorkerAt \ {"idle"}
    BY <1>8 DEF RecordActionDelivered, StatementThrows, WorkerAt, Holding
  <2>2. \E s \in {"finish", "fail"} : worker' = [worker EXCEPT ![w].at = s]
    BY <1>8 DEF RecordActionDelivered, StatementThrows
  <2>3. /\ worker' \in [Workers -> WorkerRecord]
        /\ worker[w].action \in Actions
        /\ \A v \in Workers : worker'[v].at # "idle" => worker'[v].action \in Actions
    BY <2>1, <2>2, WorkerMoves
  <2>. QED
    BY <1>8, <2>3 DEF RecordActionDelivered, StatementThrows, TypeInv
<1>9. ASSUME NEW w \in Workers, MarkProcessed(w) \/ HandleFailure(w) \/ Crash(w) PROVE TypeInv'
  <2>1. worker[w].action \in Actions
    BY <1>9 DEF MarkProcessed, HandleFailure, Crash, TypeInv
  <2>2. worker' = [worker EXCEPT ![w] = Idle]
    BY <1>9 DEF MarkProcessed, HandleFailure, Crash
  <2>3. /\ worker' \in [Workers -> WorkerRecord]
        /\ \A v \in Workers : worker'[v].at # "idle" => worker'[v].action \in Actions
    BY <2>2, WorkerIdles
  <2>4. \/ row' = row
        \/ \E s \in {"processed", "failed", "pending"} :
             row' = [row EXCEPT ![worker[w].action].status = s]
    BY <1>9 DEF MarkProcessed, HandleFailure, Crash
  <2>5. row' \in [Actions -> RowRecord]
    BY <2>1, <2>4, RowMoves DEF RowStatus, Settled, TypeInv
  <2>6. unsure' \subseteq Actions
    BY <1>9, <2>1 DEF MarkProcessed, HandleFailure, Crash, TypeInv
  <2>. QED
    BY <1>9, <2>3, <2>5, <2>6 DEF MarkProcessed, HandleFailure, Crash, TypeInv
<1>10. CASE UNCHANGED vars
  BY <1>10 DEF vars, TypeInv
<1>. QED
  BY <1>1, <1>2, <1>3, <1>4, <1>5, <1>6, <1>7, <1>8, <1>9, <1>10 DEF Next, WorkerStep

-----------------------------------------------------------------------------
(* What a step of one worker leaves to the others.                         *)
OthersKeep(w) == \A v \in Workers \ {w} : worker'[v] = worker[v]

LEMMA StepLease == ~SlowDelivery /\ TypeInv /\ LeaseInv /\ [Next]_vars => LeaseInv'
<1>. SUFFICES ASSUME ~SlowDelivery, TypeInv, LeaseInv, [Next]_vars PROVE LeaseInv'
  OBVIOUS
<1>1. ASSUME NEW a \in Actions,
             Ask(a) \/ EnqueueAction(a) \/ RequestRefused(a) \/ RequestTimesOut(a)
               \/ DispatchTool(a)
      PROVE  LeaseInv'
  <2>1. worker' = worker
    BY <1>1 DEF Ask, EnqueueAction, RequestRefused, RequestTimesOut, DispatchTool
  <2>2. row' = row \/ (row[a].status = "none" /\ \A b \in Actions \ {a} : row'[b] = row[b])
    BY <1>1 DEF Ask, EnqueueAction, RequestRefused, RequestTimesOut, DispatchTool, TypeInv
  <2>3. ASSUME NEW w \in Workers, worker[w].at \in Holding
        PROVE  row'[worker[w].action].status = "processing"
    <3>1. worker[w].action \in Actions /\ row[worker[w].action].status = "processing"
      BY <2>3 DEF LeaseInv, TypeInv, Holding
    <3>. QED
      BY <2>2, <3>1
  <2>. QED
    BY <2>1, <2>3 DEF LeaseInv
<1>2. ASSUME NEW w \in Workers, NEW a \in Actions, RunBatch(w, a) PROVE LeaseInv'
  <2>1. /\ worker'[w].at = "batch"
        /\ OthersKeep(w)
    BY <1>2 DEF RunBatch, OthersKeep, TypeInv
  <2>2. \A v \in Workers : worker[v].at \in Holding => worker[v].action # a
    BY <1>2 DEF RunBatch, Expired, Held, LeaseInv, Holding
  <2>3. \A b \in Actions \ {a} : row'[b] = row[b]
    BY <1>2 DEF RunBatch, TypeInv
  <2>4. ASSUME NEW v \in Workers, worker'[v].at \in Holding
        PROVE  v # w /\ row'[worker'[v].action].status = "processing"
    <3>1. v # w /\ worker'[v] = worker[v]
      BY <2>1, <2>4 DEF Holding, OthersKeep
    <3>2. worker[v].action \in Actions \ {a} /\ row[worker[v].action].status = "processing"
      BY <2>2, <2>4, <3>1 DEF LeaseInv, TypeInv, Holding
    <3>. QED
      BY <2>3, <3>1, <3>2
  <2>. QED
    BY <2>1, <2>4 DEF LeaseInv, OthersKeep
<1>3. ASSUME NEW w \in Workers, Claim(w) PROVE LeaseInv'
  <2>. DEFINE a == worker[w].action
  <2>1. a \in Actions /\ worker[w].at = "batch"
    BY <1>3 DEF Claim, TypeInv
  <2>2. CASE row[a].status = "pending"
    <3>1. /\ row' = [row EXCEPT ![a] = [status |-> "processing", attempts |-> @.attempts + 1]]
          /\ worker' = [worker EXCEPT ![w].at = "deliver"]
      BY <1>3, <2>2 DEF Claim
    <3>2. row'[a].status = "processing" /\ \A b \in Actions \ {a} : row'[b] = row[b]
      BY <2>1, <3>1 DEF TypeInv
    <3>3. worker'[w].at = "deliver" /\ worker'[w].action = a /\ OthersKeep(w)
      BY <2>1, <3>1, WorkerMoves DEF WorkerAt, Holding, OthersKeep
    <3>4. \A v \in Workers \ {w} : worker[v].at \in Holding => worker[v].action \in Actions \ {a}
      BY <2>2 DEF LeaseInv, TypeInv, Holding
    <3>. QED
      BY <2>1, <3>2, <3>3, <3>4 DEF LeaseInv, OthersKeep
  <2>3. CASE row[a].status # "pending"
    <3>1. row' = row /\ worker' = [worker EXCEPT ![w] = Idle]
      BY <1>3, <2>3 DEF Claim
    <3>2. worker'[w].at = "idle" /\ OthersKeep(w)
      BY <3>1, WorkerIdles DEF OthersKeep
    <3>. QED
      BY <3>1, <3>2 DEF LeaseInv, OthersKeep, Holding
  <2>. QED
    BY <2>2, <2>3
<1>4. ASSUME NEW w \in Workers, Deliver(w) \/ RecordActionDelivered(w) \/ StatementThrows(w)
      PROVE  LeaseInv'
  <2>1. worker[w].at \in Holding /\ worker[w].at # "idle" /\ row' = row
    BY <1>4 DEF Deliver, RecordActionDelivered, StatementThrows, Holding
  <2>2. \E s \in {"record", "finish", "fail"} : worker' = [worker EXCEPT ![w].at = s]
    BY <1>4 DEF Deliver, RecordActionDelivered, StatementThrows
  <2>3. {"record", "finish", "fail"} \subseteq WorkerAt \ {"idle"}
    BY DEF WorkerAt, Holding
  <2>4. worker'[w].action = worker[w].action /\ OthersKeep(w)
    BY <2>1, <2>2, <2>3, WorkerMoves DEF OthersKeep
  <2>. QED
    BY <2>1, <2>4 DEF LeaseInv, OthersKeep
<1>5. ASSUME NEW w \in Workers, MarkProcessed(w) \/ HandleFailure(w) PROVE LeaseInv'
  <2>. DEFINE a == worker[w].action
  <2>1. worker[w].at \in Holding /\ a \in Actions
    BY <1>5 DEF MarkProcessed, HandleFailure, Holding, TypeInv
  <2>2. \A b \in Actions \ {a} : row'[b] = row[b]
    BY <1>5 DEF MarkProcessed, HandleFailure, TypeInv
  <2>3. worker'[w].at = "idle" /\ OthersKeep(w)
    BY <1>5, WorkerIdles DEF MarkProcessed, HandleFailure, OthersKeep
  <2>4. \A v \in Workers \ {w} : worker[v].at \in Holding => worker[v].action \in Actions \ {a}
    BY <2>1 DEF LeaseInv, TypeInv, Holding
  <2>. QED
    BY <2>2, <2>3, <2>4 DEF LeaseInv, OthersKeep, Holding
<1>6. ASSUME NEW w \in Workers, Crash(w) PROVE LeaseInv'
  <2>1. worker'[w].at = "idle" /\ OthersKeep(w) /\ row' = row
    BY <1>6, WorkerIdles DEF Crash, OthersKeep
  <2>. QED
    BY <2>1 DEF LeaseInv, OthersKeep, Holding
<1>7. CASE UNCHANGED vars
  BY <1>7 DEF vars, LeaseInv
<1>. QED
  BY <1>1, <1>2, <1>3, <1>4, <1>5, <1>6, <1>7 DEF Next, WorkerStep

(* Rows are written for good: none goes back to "none", and a worker makes *)
(* none.                                                                   *)
LEMMA RowsStay ==
  ASSUME TypeInv, RequestInv, [Next]_vars, NEW a \in Actions
  PROVE  row[a].status # "none" => row'[a].status # "none"
<1>1. ASSUME NEW b \in Actions,
             Ask(b) \/ EnqueueAction(b) \/ RequestRefused(b) \/ RequestTimesOut(b)
               \/ DispatchTool(b)
      PROVE  row[a].status # "none" => row'[a] = row[a]
  BY <1>1 DEF Ask, EnqueueAction, RequestRefused, RequestTimesOut, DispatchTool, TypeInv
<1>2. ASSUME NEW w \in Workers, WorkerStep(w) \/ StatementThrows(w) \/ Crash(w)
      PROVE  row'[a] = row[a] \/ row'[a].status # "none"
  <2>1. ASSUME NEW b \in Actions, RunBatch(w, b)
        PROVE  row'[a] = row[a] \/ row'[a].status # "none"
    <3>1. row' = [row EXCEPT ![b].status = "pending"] /\ "pending" \in RowStatus
      BY <2>1 DEF RunBatch, RowStatus
    <3>. QED
      BY <3>1, RowMoves
  <2>2. CASE Claim(w)
    BY <2>2 DEF Claim, TypeInv
  <2>3. CASE MarkProcessed(w) \/ HandleFailure(w)
    <3>1. worker[w].action \in Actions
      BY <2>3 DEF MarkProcessed, HandleFailure, TypeInv
    <3>2. PICK s \in {"processed", "failed", "pending"} :
            row' = [row EXCEPT ![worker[w].action].status = s]
      BY <2>3 DEF MarkProcessed, HandleFailure
    <3>3. s \in RowStatus /\ s # "none"
      BY DEF RowStatus, Settled
    <3>. QED
      BY <3>1, <3>2, <3>3, RowMoves
  <2>4. CASE Deliver(w) \/ RecordActionDelivered(w) \/ StatementThrows(w) \/ Crash(w)
    BY <2>4 DEF Deliver, RecordActionDelivered, StatementThrows, Crash
  <2>. QED
    BY <1>2, <2>1, <2>2, <2>3, <2>4 DEF WorkerStep
<1>3. CASE UNCHANGED vars
  BY <1>3 DEF vars
<1>. QED
  BY <1>1, <1>2, <1>3 DEF Next

LEMMA NoneStays ==
  ASSUME TypeInv, RequestInv, NEW w \in Workers,
         WorkerStep(w) \/ StatementThrows(w) \/ Crash(w), NEW a \in Actions
  PROVE  row[a].status = "none" => row'[a] = row[a]
<1>1. ASSUME NEW b \in Actions, RunBatch(w, b) PROVE row[a].status = "none" => row'[a] = row[a]
  <2>1. row[b].status # "none"
    BY <1>1 DEF RunBatch, Expired
  <2>. QED
    BY <1>1, <2>1 DEF RunBatch, TypeInv
<1>2. CASE Claim(w) \/ MarkProcessed(w) \/ HandleFailure(w)
  <2>1. worker[w].action \in Actions /\ row[worker[w].action].status # "none"
    BY <1>2 DEF Claim, MarkProcessed, HandleFailure, RequestInv, TypeInv
  <2>. QED
    BY <1>2, <2>1 DEF Claim, MarkProcessed, HandleFailure, TypeInv
<1>3. CASE Deliver(w) \/ RecordActionDelivered(w) \/ StatementThrows(w) \/ Crash(w)
  BY <1>3 DEF Deliver, RecordActionDelivered, StatementThrows, Crash
<1>. QED
  BY <1>1, <1>2, <1>3 DEF WorkerStep

LEMMA StepRequest == TypeInv /\ RequestInv /\ [Next]_vars => RequestInv'
<1>. SUFFICES ASSUME TypeInv, RequestInv, [Next]_vars PROVE RequestInv'
  OBVIOUS
<1>. DEFINE Asked ==
       \A a \in Actions :
         /\ node[a].at = "idle" => request[a] = "none" /\ row[a].status = "none"
         /\ node[a].at = "asking" => request[a] = "sent"
         /\ request[a] = "sent" => row[a].status = "none"
<1>0. Asked
  BY DEF RequestInv
<1>1. ASSUME NEW a \in Actions, Ask(a) PROVE Asked'
  <2>1. node'[a].at = "asking" /\ \A b \in Actions \ {a} : node'[b] = node[b]
    BY <1>1, NodeMoves DEF Ask, NodeAt
  <2>. QED
    BY <1>0, <1>1, <2>1 DEF Ask, TypeInv
<1>2. ASSUME NEW a \in Actions, EnqueueAction(a) \/ RequestRefused(a) PROVE Asked'
  <2>1. /\ node'[a].at \notin {"idle", "asking"}
        /\ \A b \in Actions \ {a} : node'[b] = node[b]
    BY <1>2, AnsweredMoves DEF EnqueueAction, RequestRefused, RequestInv
  <2>2. /\ request'[a] = "none"
        /\ \A b \in Actions \ {a} : request'[b] = request[b] /\ row'[b] = row[b]
    BY <1>2 DEF EnqueueAction, RequestRefused, TypeInv
  <2>. QED
    BY <1>0, <2>1, <2>2
<1>3. ASSUME NEW a \in Actions, RequestTimesOut(a) PROVE Asked'
  <2>1. /\ node'[a].at \in {"tool", "raised"}
        /\ \A b \in Actions \ {a} : node'[b] = node[b]
    BY <1>3, AnsweredMoves DEF RequestTimesOut
  <2>. QED
    BY <1>0, <1>3, <2>1 DEF RequestTimesOut
<1>4. ASSUME NEW a \in Actions, DispatchTool(a) PROVE Asked'
  <2>1. node'[a].at = "done" /\ \A b \in Actions \ {a} : node'[b] = node[b]
    BY <1>4, NodeMoves DEF DispatchTool, NodeAt
  <2>. QED
    BY <1>0, <1>4, <2>1 DEF DispatchTool
<1>5. ASSUME NEW w \in Workers, WorkerStep(w) \/ StatementThrows(w) \/ Crash(w) PROVE Asked'
  <2>1. UNCHANGED <<node, request>>
    BY <1>5 DEF WorkerStep, RunBatch, Claim, Deliver, RecordActionDelivered, MarkProcessed,
                HandleFailure, StatementThrows, Crash
  <2>. QED
    BY <1>0, <1>5, <2>1, NoneStays
<1>6. ASSUME UNCHANGED vars PROVE Asked'
  BY <1>0, <1>6 DEF vars
<1>7. Asked'
  BY <1>1, <1>2, <1>3, <1>4, <1>5, <1>6 DEF Next
<1>. HIDE DEF Asked
<1>8. ASSUME NEW w \in Workers, worker'[w].at # "idle"
      PROVE  row'[worker'[w].action].status # "none"
  <2>1. CASE worker'[w] = worker[w]
    BY <1>8, <2>1, RowsStay DEF RequestInv, TypeInv
  <2>2. ASSUME NEW a \in Actions, RunBatch(w, a) PROVE row'[worker'[w].action].status # "none"
    BY <2>2 DEF RunBatch, TypeInv
  <2>3. CASE Claim(w) \/ Deliver(w) \/ RecordActionDelivered(w) \/ StatementThrows(w)
    <3>1. worker[w].action \in Actions /\ worker[w].at # "idle"
      BY <2>3 DEF Claim, Deliver, RecordActionDelivered, StatementThrows, TypeInv
    <3>2. \/ worker' = [worker EXCEPT ![w] = Idle]
          \/ \E s \in Holding : worker' = [worker EXCEPT ![w].at = s]
      BY <2>3 DEF Claim, Deliver, RecordActionDelivered, StatementThrows, Holding
    <3>3. worker'[w].action = worker[w].action
      BY <1>8, <3>1, <3>2, WorkerMoves, WorkerIdles DEF WorkerAt, Holding
    <3>. QED
      BY <3>1, <3>3, RowsStay DEF RequestInv
  <2>4. CASE MarkProcessed(w) \/ HandleFailure(w) \/ Crash(w)
    BY <1>8, <2>4, WorkerIdles DEF MarkProcessed, HandleFailure, Crash
  <2>5. ASSUME NEW v \in Workers \ {w}, WorkerStep(v) \/ StatementThrows(v) \/ Crash(v)
        PROVE  worker'[w] = worker[w]
    BY <2>5 DEF WorkerStep, RunBatch, Claim, Deliver, RecordActionDelivered, MarkProcessed,
                HandleFailure, StatementThrows, Crash, TypeInv
  <2>6. ASSUME NEW a \in Actions,
               Ask(a) \/ EnqueueAction(a) \/ RequestRefused(a) \/ RequestTimesOut(a)
                 \/ DispatchTool(a)
        PROVE  worker' = worker
    BY <2>6 DEF Ask, EnqueueAction, RequestRefused, RequestTimesOut, DispatchTool
  <2>7. CASE UNCHANGED vars
    BY <2>1, <2>7 DEF vars
  <2>. QED
    BY <2>1, <2>2, <2>3, <2>4, <2>5, <2>6, <2>7 DEF Next, WorkerStep
<1>. QED
  BY <1>7, <1>8 DEF RequestInv, Asked

LEMMA EffectsStay ==
  ASSUME TypeInv, [Next]_vars, NEW a \in Actions, effects[a] > 0
  PROVE  effects'[a] > 0
<1>1. ASSUME NEW b \in Actions, CarryOut(b) PROVE effects'[a] > 0
  BY <1>1, CarryOutCounts
<1>2. CASE effects' = effects
  BY <1>2
<1>3. ASSUME NEW b \in Actions, DispatchTool(b) PROVE effects'[a] > 0
  BY <1>1, <1>3 DEF DispatchTool
<1>4. ASSUME NEW w \in Workers, Deliver(w) PROVE effects'[a] > 0
  BY <1>1, <1>2, <1>4 DEF Deliver, TypeInv
<1>. QED
  BY <1>2, <1>3, <1>4 DEF Next, WorkerStep, Ask, EnqueueAction, RequestRefused, RequestTimesOut,
     RunBatch, Claim, RecordActionDelivered, MarkProcessed, HandleFailure, StatementThrows, Crash,
     vars

LEMMA StepEvidence == TypeInv /\ RequestInv /\ EvidenceInv /\ [Next]_vars => EvidenceInv'
<1>. SUFFICES ASSUME TypeInv, RequestInv, EvidenceInv, [Next]_vars PROVE EvidenceInv'
  OBVIOUS
<1>1. ASSUME NEW w \in Workers, worker'[w].at \in Delivered PROVE effects'[worker'[w].action] > 0
  <2>1. CASE worker'[w] = worker[w]
    BY <1>1, <2>1, EffectsStay DEF EvidenceInv, TypeInv, Delivered
  <2>2. CASE Deliver(w)
    <3>1. /\ worker[w].at # "idle" /\ worker[w].action \in Actions
          /\ {"record", "fail"} \subseteq WorkerAt \ {"idle"}
      BY <2>2 DEF Deliver, TypeInv, WorkerAt, Holding
    <3>2. \/ worker' = [worker EXCEPT ![w].at = "fail"]
          \/ worker' = [worker EXCEPT ![w].at = "record"] /\ CarryOut(worker[w].action)
      BY <2>2 DEF Deliver
    <3>3. worker' # [worker EXCEPT ![w].at = "fail"]
      BY <1>1, <3>1, WorkerMoves DEF Delivered
    <3>. QED
      BY <3>1, <3>2, <3>3, WorkerMoves, CarryOutCounts
  <2>3. CASE RecordActionDelivered(w)
    <3>1. /\ worker[w].at \in Delivered /\ worker[w].at # "idle"
          /\ "finish" \in WorkerAt \ {"idle"}
          /\ worker' = [worker EXCEPT ![w].at = "finish"]
      BY <2>3 DEF RecordActionDelivered, Delivered, WorkerAt, Holding
    <3>. QED
      BY <3>1, WorkerMoves, EffectsStay DEF EvidenceInv
  <2>4. CASE Claim(w) \/ StatementThrows(w) \/ \E a \in Actions : RunBatch(w, a)
    <3>1. {"deliver", "fail"} \subseteq WorkerAt \ {"idle"}
      BY DEF WorkerAt, Holding
    <3>2. CASE \E a \in Actions : RunBatch(w, a)
      BY <1>1, <3>2 DEF RunBatch, Delivered, TypeInv
    <3>3. CASE Claim(w)
      <4>1. worker[w].at # "idle" /\ (\/ worker' = [worker EXCEPT ![w].at = "deliver"]
                                     \/ worker' = [worker EXCEPT ![w] = Idle])
        BY <3>3 DEF Claim
      <4>. QED
        BY <1>1, <3>1, <4>1, WorkerMoves, WorkerIdles DEF Delivered
    <3>4. CASE StatementThrows(w)
      <4>1. worker[w].at # "idle" /\ worker' = [worker EXCEPT ![w].at = "fail"]
        BY <3>4 DEF StatementThrows
      <4>. QED
        BY <1>1, <3>1, <4>1, WorkerMoves DEF Delivered
    <3>. QED
      BY <2>4, <3>2, <3>3, <3>4
  <2>5. CASE MarkProcessed(w) \/ HandleFailure(w) \/ Crash(w)
    BY <1>1, <2>5, WorkerIdles DEF MarkProcessed, HandleFailure, Crash, Delivered
  <2>6. ASSUME NEW v \in Workers \ {w}, WorkerStep(v) \/ StatementThrows(v) \/ Crash(v)
        PROVE  worker'[w] = worker[w]
    BY <2>6 DEF WorkerStep, RunBatch, Claim, Deliver, RecordActionDelivered, MarkProcessed,
                HandleFailure, StatementThrows, Crash, TypeInv
  <2>7. ASSUME NEW a \in Actions,
               Ask(a) \/ EnqueueAction(a) \/ RequestRefused(a) \/ RequestTimesOut(a)
                 \/ DispatchTool(a)
        PROVE  worker' = worker
    BY <2>7 DEF Ask, EnqueueAction, RequestRefused, RequestTimesOut, DispatchTool
  <2>. QED
    BY <2>1, <2>2, <2>3, <2>4, <2>5, <2>6, <2>7 DEF Next, WorkerStep, vars
<1>2. ASSUME NEW a \in Actions, row'[a].status = "processed" PROVE effects'[a] > 0
  <2>1. CASE row'[a].status = row[a].status
    BY <1>2, <2>1, EffectsStay DEF EvidenceInv, NothingSilent
  <2>2. ASSUME NEW w \in Workers, MarkProcessed(w) PROVE effects'[a] > 0
    <3>1. worker[w].at \in Delivered /\ worker[w].action \in Actions
      BY <2>2 DEF MarkProcessed, Delivered, TypeInv
    <3>2. CASE a = worker[w].action
      BY <3>1, <3>2, EffectsStay DEF EvidenceInv
    <3>3. CASE a # worker[w].action
      BY <2>1, <2>2, <3>1, <3>3 DEF MarkProcessed, TypeInv
    <3>. QED
      BY <3>2, <3>3
  <2>3. ASSUME NEW w \in Workers, NEW b \in Actions, RunBatch(w, b)
        PROVE  row'[a].status = row[a].status
    <3>1. row' = [row EXCEPT ![b].status = "pending"] /\ "pending" \in RowStatus
      BY <2>3 DEF RunBatch, RowStatus
    <3>. QED
      BY <1>2, <3>1, RowMoves
  <2>4. ASSUME NEW w \in Workers, Claim(w) PROVE row'[a].status = row[a].status
    BY <1>2, <2>4 DEF Claim, TypeInv
  <2>5. ASSUME NEW w \in Workers, HandleFailure(w) PROVE row'[a].status = row[a].status
    <3>1. worker[w].action \in Actions
      BY <2>5 DEF HandleFailure, TypeInv
    <3>2. PICK s \in {"failed", "pending"} : row' = [row EXCEPT ![worker[w].action].status = s]
      BY <2>5 DEF HandleFailure
    <3>3. s \in RowStatus
      BY DEF RowStatus, Settled
    <3>. QED
      BY <1>2, <3>1, <3>2, <3>3, RowMoves
  <2>6. ASSUME NEW b \in Actions, EnqueueAction(b) PROVE row'[a].status = row[a].status
    BY <1>2, <2>6 DEF EnqueueAction, TypeInv
  <2>7. CASE row' = row
    BY <2>1, <2>7
  <2>. QED
    BY <2>1, <2>2, <2>3, <2>4, <2>5, <2>6, <2>7 DEF Next, WorkerStep, Ask, RequestRefused,
       RequestTimesOut, DispatchTool, Deliver, RecordActionDelivered, StatementThrows, Crash, vars
<1>3. ASSUME NEW a \in Actions, node'[a].at = "done"
      PROVE  effects'[a] > 0 \/ row'[a].status # "none"
  <2>1. CASE node'[a] = node[a]
    BY <1>3, <2>1, EffectsStay, RowsStay DEF EvidenceInv, NothingSilent
  <2>2. CASE EnqueueAction(a)
    BY <2>2 DEF EnqueueAction, TypeInv
  <2>3. CASE DispatchTool(a)
    BY <2>3, CarryOutCounts DEF DispatchTool
  <2>4. CASE Ask(a)
    BY <1>3, <2>4, NodeMoves DEF Ask, NodeAt
  <2>5. CASE RequestRefused(a) \/ RequestTimesOut(a)
    <3>1. Answered(a, FALSE)
      BY <2>5 DEF RequestRefused, RequestTimesOut
    <3>2. node'[a] = node[a] \/ node'[a].at \in {"tool", "raised"}
      BY <3>1, AnsweredMoves
    <3>. QED
      BY <1>3, <2>1, <3>2
  <2>6. ASSUME NEW b \in Actions \ {a},
               Ask(b) \/ EnqueueAction(b) \/ RequestRefused(b) \/ RequestTimesOut(b)
                 \/ DispatchTool(b)
        PROVE  node'[a] = node[a]
    BY <2>6 DEF Ask, EnqueueAction, RequestRefused, RequestTimesOut, DispatchTool, Answered, TypeInv
  <2>7. ASSUME NEW w \in Workers, WorkerStep(w) \/ StatementThrows(w) \/ Crash(w)
        PROVE  node' = node
    BY <2>7 DEF WorkerStep, RunBatch, Claim, Deliver, RecordActionDelivered, MarkProcessed,
                HandleFailure, StatementThrows, Crash
  <2>. QED
    BY <2>1, <2>2, <2>3, <2>4, <2>5, <2>6, <2>7 DEF Next, vars
<1>. QED
  BY <1>1, <1>2, <1>3 DEF EvidenceInv, NothingSilent

(* One delivery is no repetition: while an action's outcomes have all been  *)
(* known, a worker about to deliver it, or to report its failure, is its   *)
(* only holder, and neither another nor the agent has carried it out.      *)
LEMMA HolderIsFirst ==
  ASSUME TypeInv, LeaseInv, OnceInv, NEW w \in Workers, worker[w].at \in {"deliver", "fail"},
         worker[w].action \notin unsure
  PROVE  effects[worker[w].action] = 0 /\ node[worker[w].action].at # "tool"
<1>. DEFINE a == worker[w].action
<1>1. a \in Actions \ unsure /\ row[a].status = "processing"
  BY DEF TypeInv, LeaseInv, Holding
<1>2. ~ByAgent(a)
  BY <1>1 DEF ByAgent
<1>3. ~ByOutbox(a)
  BY <1>1 DEF ByOutbox, LeaseInv, Holding, Delivered
<1>. QED
  BY <1>1, <1>2, <1>3 DEF OnceInv

LEMMA StepOnce ==
  TypeInv /\ LeaseInv /\ RequestInv /\ OnceInv /\ [Next]_vars => OnceInv'
<1>. SUFFICES ASSUME TypeInv, LeaseInv, RequestInv, OnceInv, [Next]_vars,
                     NEW a \in Actions, a \notin unsure'
              PROVE  /\ effects'[a] # 0 => effects'[a] = 1 /\ (ByOutbox(a)' \/ ByAgent(a)')
                     /\ node'[a].at = "tool" => row'[a].status = "none" /\ request'[a] = "none"
  BY DEF OnceInv
<1>. DEFINE Goal ==
       /\ effects'[a] # 0 => effects'[a] = 1 /\ (ByOutbox(a)' \/ ByAgent(a)')
       /\ node'[a].at = "tool" => row'[a].status = "none" /\ request'[a] = "none"
<1>1. a \notin unsure
  BY DEF Next, WorkerStep, Ask, EnqueueAction, RequestRefused, RequestTimesOut, DispatchTool,
     RunBatch, Claim, Deliver, RecordActionDelivered, MarkProcessed, HandleFailure,
     StatementThrows, Crash, vars
<1>2. /\ effects[a] # 0 => effects[a] = 1 /\ (ByOutbox(a) \/ ByAgent(a))
      /\ node[a].at = "tool" => row[a].status = "none" /\ request[a] = "none"
  BY <1>1 DEF OnceInv
<1>3. ASSUME row[a].status = "none" PROVE ~ByOutbox(a)
  BY <1>3 DEF ByOutbox, LeaseInv, Holding, Delivered
<1>4. ASSUME UNCHANGED <<row, worker>> PROVE ByOutbox(a)' <=> ByOutbox(a)
  BY <1>4 DEF ByOutbox
<1>5. ASSUME NEW b \in Actions,
             Ask(b) \/ EnqueueAction(b) \/ RequestRefused(b) \/ RequestTimesOut(b)
               \/ DispatchTool(b)
      PROVE  Goal
  <2>1. worker' = worker
    BY <1>5 DEF Ask, EnqueueAction, RequestRefused, RequestTimesOut, DispatchTool
  <2>2. CASE a # b
    <3>1. /\ node'[a] = node[a] /\ row'[a] = row[a] /\ request'[a] = request[a]
          /\ effects'[a] = effects[a]
      BY <1>5, <2>2 DEF Ask, EnqueueAction, RequestRefused, RequestTimesOut, DispatchTool,
                        Answered, CarryOut, TypeInv
    <3>. QED
      BY <1>2, <2>1, <3>1 DEF ByOutbox, ByAgent
  <2>3. CASE a = b /\ Ask(b)
    <3>1. node'[a].at = "asking" /\ node[a].at = "idle" /\ UNCHANGED <<row, effects>>
      BY <2>3, NodeMoves DEF Ask, NodeAt
    <3>. QED
      BY <1>2, <1>4, <2>1, <3>1 DEF ByAgent
  <2>4. CASE a = b /\ (EnqueueAction(b) \/ RequestRefused(b))
    <3>1. request[a] = "sent" /\ row[a].status = "none" /\ effects' = effects
      BY <2>4 DEF EnqueueAction, RequestRefused, RequestInv
    <3>2. effects'[a] = 0 /\ node[a].at # "tool"
      BY <1>2, <1>3, <3>1 DEF ByAgent
    <3>3. CASE EnqueueAction(b)
      <4>1. Answered(a, TRUE)
        BY <2>4, <3>3 DEF EnqueueAction
      <4>2. node'[a].at # "tool"
        BY <3>2, <4>1, AnsweredMoves
      <4>. QED
        BY <3>2, <4>2
    <3>4. CASE RequestRefused(b)
      <4>1. row'[a].status = "none" /\ request'[a] = "none"
        BY <2>4, <3>1, <3>4 DEF RequestRefused, TypeInv
      <4>. QED
        BY <3>2, <4>1
    <3>. QED
      BY <2>4, <3>3, <3>4
  <2>5. CASE a = b /\ RequestTimesOut(b)
    BY <2>5 DEF RequestTimesOut
  <2>6. CASE a = b /\ DispatchTool(b)
    <3>1. row[a].status = "none" /\ request[a] = "none" /\ node[a].at = "tool"
      BY <1>2, <2>6 DEF DispatchTool
    <3>2. effects[a] = 0
      BY <1>2, <1>3, <3>1 DEF ByAgent
    <3>3. effects'[a] = 1
      BY <2>6, <3>2, CarryOutCounts DEF DispatchTool
    <3>4. node'[a].at = "done" /\ row'[a].status = "none" /\ request'[a] = "none"
      BY <2>6, <3>1, NodeMoves DEF DispatchTool, NodeAt
    <3>. QED
      BY <3>3, <3>4 DEF ByAgent
  <2>. QED
    BY <1>5, <2>2, <2>3, <2>4, <2>5, <2>6
<1>6. ASSUME NEW w \in Workers, NEW b \in Actions, RunBatch(w, b) PROVE Goal
  <2>1. /\ UNCHANGED <<node, request, effects>>
        /\ row[b].status \in {"pending", "processing"}
        /\ worker[w].at = "idle"
        /\ \A v \in Workers \ {w} : worker'[v] = worker[v]
    BY <1>6 DEF RunBatch, Expired, TypeInv
  <2>2. CASE a = b
    <3>1. ByOutbox(a) => ByOutbox(a)'
      BY <2>1, <2>2 DEF ByOutbox, Delivered
    <3>. QED
      BY <1>2, <2>1, <2>2, <3>1 DEF ByAgent
  <2>3. CASE a # b
    <3>1. row'[a] = row[a]
      BY <1>6, <2>3 DEF RunBatch, TypeInv
    <3>2. ByOutbox(a) => ByOutbox(a)'
      BY <2>1, <3>1 DEF ByOutbox, Delivered
    <3>. QED
      BY <1>2, <2>1, <3>1, <3>2 DEF ByAgent
  <2>. QED
    BY <2>2, <2>3
<1>7. ASSUME NEW w \in Workers, Claim(w) PROVE Goal
  <2>1. UNCHANGED <<node, request, effects>> /\ worker[w].at = "batch"
    BY <1>7 DEF Claim
  <2>2. /\ worker[w].action \in Actions
        /\ \A v \in Workers \ {w} : worker'[v] = worker[v]
    <3>1. \/ worker' = [worker EXCEPT ![w].at = "deliver"]
          \/ worker' = [worker EXCEPT ![w] = Idle]
      BY <1>7 DEF Claim
    <3>. QED
      BY <2>1, <3>1, WorkerMoves, WorkerIdles DEF WorkerAt, Holding, TypeInv
  <2>3. row'[a] = row[a] \/ row[a].status = "pending"
    BY <1>7, <2>2 DEF Claim, TypeInv
  <2>4. ByOutbox(a) => ByOutbox(a)'
    BY <2>1, <2>2, <2>3 DEF ByOutbox, Delivered
  <2>. QED
    BY <1>2, <2>1, <2>3, <2>4 DEF ByAgent
<1>8. ASSUME NEW w \in Workers, Deliver(w) PROVE Goal
  <2>1. /\ worker[w].at = "deliver" /\ worker[w].action \in Actions
        /\ UNCHANGED <<node, request, row>>
    BY <1>8 DEF Deliver, TypeInv
  <2>2. \E s \in {"record", "fail"} :
          /\ worker' = [worker EXCEPT ![w].at = s]
          /\ s = "record" => CarryOut(worker[w].action)
          /\ s = "fail" => effects' = effects \/ worker[w].action \in unsure'
    BY <1>8 DEF Deliver
  <2>3. PICK s \in {"record", "fail"} :
          /\ worker' = [worker EXCEPT ![w].at = s]
          /\ s = "record" => CarryOut(worker[w].action)
          /\ s = "fail" => effects' = effects \/ worker[w].action \in unsure'
    BY <2>2
  <2>4. /\ worker'[w].at = s /\ worker'[w].action = worker[w].action
        /\ \A v \in Workers \ {w} : worker'[v] = worker[v]
    BY <2>1, <2>3, WorkerMoves DEF WorkerAt, Holding
  <2>5. CASE worker[w].action = a
    <3>1. effects[a] = 0 /\ node[a].at # "tool"
      BY <1>1, <2>1, <2>5, HolderIsFirst
    <3>2. CASE s = "record"
      <4>1. effects'[a] = 1 /\ worker'[w].at \in Delivered /\ worker'[w].action = a
        BY <2>3, <2>4, <2>5, <3>1, <3>2, CarryOutCounts DEF Delivered
      <4>. QED
        BY <2>1, <3>1, <4>1 DEF ByOutbox
    <3>3. CASE s = "fail"
      BY <2>1, <2>3, <2>5, <3>1, <3>3
    <3>. QED
      BY <3>2, <3>3
  <2>6. CASE worker[w].action # a
    <3>1. effects'[a] = effects[a]
      BY <1>8, <2>1, <2>6 DEF Deliver, CarryOut, TypeInv
    <3>2. ByOutbox(a) => ByOutbox(a)'
      BY <2>1, <2>4 DEF ByOutbox, Delivered
    <3>. QED
      BY <1>2, <2>1, <3>1, <3>2 DEF ByAgent
  <2>. QED
    BY <2>5, <2>6
<1>9. ASSUME NEW w \in Workers, RecordActionDelivered(w) PROVE Goal
  <2>1. /\ worker[w].at # "idle" /\ "finish" \in WorkerAt \ {"idle"}
        /\ worker' = [worker EXCEPT ![w].at = "finish"]
        /\ UNCHANGED <<node, request, row, effects>>
    BY <1>9 DEF RecordActionDelivered, WorkerAt, Holding
  <2>2. ByOutbox(a) => ByOutbox(a)'
    BY <2>1, WorkerMoves DEF ByOutbox, Delivered
  <2>. QED
    BY <1>2, <2>1, <2>2 DEF ByAgent
<1>10. ASSUME NEW w \in Workers, MarkProcessed(w) \/ HandleFailure(w) PROVE Goal
  <2>1. /\ worker[w].at \in Holding /\ worker[w].action \in Actions
        /\ row[worker[w].action].status = "processing"
        /\ UNCHANGED <<node, request, effects>>
    BY <1>10 DEF MarkProcessed, HandleFailure, Holding, LeaseInv, TypeInv
  <2>2. \A v \in Workers \ {w} : worker'[v] = worker[v]
    BY <1>10, WorkerIdles DEF MarkProcessed, HandleFailure
  <2>3. CASE worker[w].action # a
    <3>1. row'[a] = row[a]
      BY <1>10, <2>1, <2>3 DEF MarkProcessed, HandleFailure, TypeInv
    <3>2. ByOutbox(a) => ByOutbox(a)'
      BY <2>2, <2>3, <3>1 DEF ByOutbox
    <3>. QED
      BY <1>2, <2>1, <3>1, <3>2 DEF ByAgent
  <2>4. CASE worker[w].action = a /\ MarkProcessed(w)
    <3>1. row'[a].status = "processed"
      BY <2>1, <2>4, RowMoves DEF MarkProcessed, RowStatus, Settled
    <3>. QED
      BY <1>2, <2>1, <2>4, <3>1 DEF ByOutbox
  <2>5. CASE worker[w].action = a /\ HandleFailure(w)
    BY <1>1, <2>1, <2>5, HolderIsFirst DEF HandleFailure
  <2>. QED
    BY <1>10, <2>3, <2>4, <2>5
<1>11. ASSUME NEW w \in Workers, StatementThrows(w) \/ Crash(w) PROVE Goal
  <2>1. /\ UNCHANGED <<node, request, row, effects>>
        /\ worker[w].at # "idle"
        /\ worker[w].at \in Delivered => worker[w].action # a
    BY <1>11 DEF StatementThrows, Crash, Delivered
  <2>2. \A v \in Workers \ {w} : worker'[v] = worker[v]
    <3>1. \/ worker' = [worker EXCEPT ![w].at = "fail"]
          \/ worker' = [worker EXCEPT ![w] = Idle]
      BY <1>11 DEF StatementThrows, Crash
    <3>. QED
      BY <2>1, <3>1, WorkerMoves, WorkerIdles DEF WorkerAt, Holding
  <2>3. ByOutbox(a) => ByOutbox(a)'
    BY <2>1, <2>2 DEF ByOutbox
  <2>. QED
    BY <1>2, <2>1, <2>3 DEF ByAgent
<1>12. CASE UNCHANGED vars
  BY <1>2, <1>4, <1>12 DEF vars, ByAgent
<1>. QED
  BY <1>5, <1>6, <1>7, <1>8, <1>9, <1>10, <1>11, <1>12 DEF Next, WorkerStep

-----------------------------------------------------------------------------
(* deliver, recordActionDelivered, _exec_action: an event is acknowledged   *)
(* only when its action was carried out, and a node is passed only when its *)
(* action was carried out or is in the outbox, even if leases expire under *)
(* live workers.                                                           *)
THEOREM NothingIsSilent == Spec => []NothingSilent
<1>1. EvidenceInv => NothingSilent
  BY DEF EvidenceInv
<1>. QED
  BY InitInv, StepTypeInv, StepRequest, StepEvidence, <1>1, PTL DEF Spec

(* deliverSms, deliverWebhook: when no lease runs out under a live worker,  *)
(* an action is carried out twice only if somebody had to act without      *)
(* knowing what had become of an earlier try, and then under its one key.  *)
THEOREM RepetitionsAreKnown == ASSUME ~SlowDelivery PROVE Spec => []RepeatsAreKnown
<1>1. TypeInv /\ OnceInv => RepeatsAreKnown
  <2>. SUFFICES ASSUME TypeInv, OnceInv, NEW a \in Actions
                PROVE  /\ \A k, l \in keys[a] : k = l
                       /\ effects[a] > 1 => a \in unsure
    BY DEF RepeatsAreKnown
  <2>1. \A k, l \in keys[a] : k = l
    BY DEF TypeInv
  <2>2. effects[a] > 1 => a \in unsure
    BY DEF OnceInv, TypeInv
  <2>. QED
    BY <2>1, <2>2
<1>2. TypeInv /\ LeaseInv /\ [Next]_vars => LeaseInv'
  BY StepLease
<1>. QED
  BY InitInv, StepTypeInv, <1>2, StepRequest, StepOnce, <1>1, PTL DEF Spec

(* processEvent, handleFailure, runBatch: under the same hypothesis an      *)
(* event that is settled is never claimed, given back or failed again.     *)
THEOREM SettledStays == ASSUME ~SlowDelivery PROVE Spec => [][SettledForGood]_vars
<1>1. TypeInv /\ LeaseInv /\ RequestInv /\ [Next]_vars => [SettledForGood]_vars
  <2>. SUFFICES ASSUME TypeInv, LeaseInv, RequestInv, Next, NEW a \in Actions,
                       row[a].status \in Settled
                PROVE  row'[a] = row[a]
    BY DEF SettledForGood
  <2>1. row[a].status \notin {"none", "pending", "processing"}
    BY DEF Settled
  <2>2. ASSUME NEW b \in Actions,
               Ask(b) \/ EnqueueAction(b) \/ RequestRefused(b) \/ RequestTimesOut(b)
                 \/ DispatchTool(b)
        PROVE  row'[a] = row[a]
    BY <2>1, <2>2 DEF Ask, EnqueueAction, RequestRefused, RequestTimesOut, DispatchTool, TypeInv
  <2>3. ASSUME NEW w \in Workers, NEW b \in Actions, RunBatch(w, b) PROVE row'[a] = row[a]
    <3>1. row[b].status \in {"pending", "processing"}
      BY <2>3 DEF RunBatch, Expired
    <3>. QED
      BY <2>1, <2>3, <3>1 DEF RunBatch, TypeInv
  <2>4. ASSUME NEW w \in Workers, Claim(w) PROVE row'[a] = row[a]
    BY <2>1, <2>4 DEF Claim, TypeInv
  <2>5. ASSUME NEW w \in Workers, MarkProcessed(w) \/ HandleFailure(w) PROVE row'[a] = row[a]
    <3>1. row[worker[w].action].status = "processing" /\ worker[w].action \in Actions
      BY <2>5 DEF MarkProcessed, HandleFailure, LeaseInv, Holding, TypeInv
    <3>. QED
      BY <2>1, <2>5, <3>1 DEF MarkProcessed, HandleFailure, TypeInv
  <2>6. CASE row' = row
    BY <2>6
  <2>. QED
    BY <2>2, <2>3, <2>4, <2>5, <2>6 DEF Next, WorkerStep, Deliver, RecordActionDelivered,
       StatementThrows, Crash
<1>2. TypeInv /\ LeaseInv /\ [Next]_vars => LeaseInv'
  BY StepLease
<1>. QED
  BY InitInv, StepTypeInv, <1>2, StepRequest, <1>1, PTL DEF Spec
=============================================================================
