---------------------------- MODULE TaskScheduling ----------------------------
(* Creation and dispatch of tasks under the outbound rules: the API creates    *)
(* tasks and dispatches them on demand, the scheduler dispatches those that    *)
(* are due, a batch per tick.  Both read the rules and count the callee's      *)
(* tasks of the day, and write afterwards.                                     *)
(* A day has Slots slots, each with one tick of the scheduler; times are       *)
(* relative to the start of today, -1 is any time before it.  Weekends and     *)
(* holidays close whole days and are left out.                                 *)
EXTENDS Integers, FiniteSetsExt

CONSTANTS
  To,           \* the tasks that may be created, a sequence of their callees
  Whitelist,    \* callees that the blocklist and the daily limit pass over
  Limit,        \* dailyCallLimitPerCallee
  BatchSize,    \* TASK_SCHEDULER_BATCH_SIZE
  Slots, StartTime, EndTime,  \* callWindow
  Offered       \* times tasks are created for

VARIABLES
  task,       \* rows of outbound_tasks
  blocked,    \* blockedNumbers of the configuration row
  now,        \* current slot of today
  worker,     \* dispatch() under way in the API ("operator") and in the scheduler
  batch,      \* tasks the scheduler's tick has yet to dispatch
  ticked      \* the scheduler's timer has fired in this slot

vars == <<task, blocked, now, worker, batch, ticked>>

Tasks == DOMAIN To
Callees == {To[t] : t \in Tasks}
Dispatchers == {"operator", "scheduler"}
NoDispatch == [task |-> 0, read |-> "none", counted |-> FALSE]

\* "new" is a create() between its check and its insert; FAILED stands for NO_ANSWER too.
\* counted: dispatched today, after a count of the tasks scheduled for today.
TypeOK ==
  /\ task \in [Tasks -> [status : {"none", "new", "PENDING", "CALLING", "FAILED", "CANCELLED"},
                         at : -1..2 * Slots - 1, counted : BOOLEAN]]
  /\ blocked \subseteq Callees
  /\ now \in 0..Slots - 1
  /\ worker \in [Dispatchers -> [task : Tasks \cup {0}, read : {"none", "PENDING", "FAILED"},
                                 counted : BOOLEAN]]
  /\ batch \subseteq Tasks
  /\ ticked \in BOOLEAN

Init ==
  /\ task = [t \in Tasks |-> [status |-> "none", at |-> -1, counted |-> FALSE]]
  /\ blocked = {}
  /\ now = 0
  /\ worker = [d \in Dispatchers |-> NoDispatch]
  /\ batch = {}
  /\ ticked = FALSE

-----------------------------------------------------------------------------
\* Both ends are inside, the window may span midnight, equal ends switch it off.
InCallWindow(at) ==
  LET slot == at % Slots IN
  \/ StartTime = EndTime
  \/ (StartTime < EndTime /\ slot >= StartTime /\ slot <= EndTime)
  \/ (StartTime > EndTime /\ (slot >= StartTime \/ slot <= EndTime))

Existing == {t \in Tasks : task[t].status \notin {"none", "new"}}
DayOf(at) == IF at < 0 THEN -1 ELSE at \div Slots

CountScheduledTasksForCallee(t, at) ==
  Cardinality({u \in Existing \ {t} : To[u] = To[t] /\ DayOf(task[u].at) = DayOf(at)
                                      /\ task[u].status # "CANCELLED"})

OutboundPolicyAllowed(t, at) ==
  /\ InCallWindow(at)
  /\ \/ To[t] \in Whitelist
     \/ To[t] \notin blocked /\ CountScheduledTasksForCallee(t, at) < Limit

CheckCreate(t, at) ==
  /\ task[t].status = "none"
  /\ OutboundPolicyAllowed(t, at)
  /\ task' = [task EXCEPT ![t] = [status |-> "new", at |-> at, counted |-> FALSE]]
  /\ UNCHANGED <<blocked, now, worker, batch, ticked>>

Create(t) ==
  /\ task[t].status = "new"
  /\ task' = [task EXCEPT ![t].status = "PENDING"]
  /\ UNCHANGED <<blocked, now, worker, batch, ticked>>

\* update() of the configuration adds a number.
Block(c) ==
  /\ c \notin blocked \cup Whitelist
  /\ blocked' = blocked \cup {c}
  /\ UNCHANGED <<task, now, worker, batch, ticked>>

\* dispatch(), as far as the checks: the row, its status, the rules at this moment.  A row
\* that changes between its read and the count is found out by the claim.
Check(d, t) ==
  /\ worker[d] = NoDispatch
  /\ worker' = IF task[t].status \in {"PENDING", "FAILED"} /\ OutboundPolicyAllowed(t, now)
               THEN [worker EXCEPT ![d] = [task |-> t, read |-> task[t].status,
                                           counted |-> DayOf(task[t].at) = 0]]
               ELSE worker
  /\ UNCHANGED <<task, blocked, now, ticked>>

DispatchByOperator(t) ==
  /\ worker["operator"] = NoDispatch
  /\ task[t].status \in {"PENDING", "FAILED"} /\ OutboundPolicyAllowed(t, now)
  /\ Check("operator", t)
  /\ UNCHANGED batch

\* The transaction: compare and set of the status, the attempt and its outbox event.
Claim(d) ==
  LET w == worker[d] IN
  /\ w # NoDispatch
  /\ task' = IF task[w.task].status = w.read
             THEN [task EXCEPT ![w.task].status = "CALLING", ![w.task].counted = w.counted]
             ELSE task
  /\ worker' = [worker EXCEPT ![d] = NoDispatch]
  /\ UNCHANGED <<blocked, now, batch, ticked>>

-----------------------------------------------------------------------------
Due == {t \in Tasks : task[t].status = "PENDING" /\ task[t].at <= now}

\* The oldest due tasks, as many as a batch takes; createdAt decides between equals.
DueBatches ==
  {b \in kSubset(Min({BatchSize, Cardinality(Due)}), Due) :
     \A t \in b, u \in Due \ b : task[t].at <= task[u].at}

\* A tick while the one before is still processing does nothing.
RunDueTasks ==
  /\ ~ticked
  /\ batch = {} /\ worker["scheduler"] = NoDispatch
  /\ batch' \in DueBatches
  /\ ticked' = TRUE
  /\ UNCHANGED <<task, blocked, now, worker>>

\* Whatever dispatch() throws, the tick goes on with the next task.
DispatchNext ==
  /\ worker["scheduler"] = NoDispatch
  /\ \E t \in batch :
       /\ \A u \in batch : task[t].at <= task[u].at
       /\ Check("scheduler", t)
       /\ batch' = batch \ {t}

-----------------------------------------------------------------------------
CallEnds(t) ==
  /\ task[t].status = "CALLING"
  /\ task' = [task EXCEPT ![t].status = "FAILED"]
  /\ UNCHANGED <<blocked, now, worker, batch, ticked>>

Cancel(t) ==
  /\ task[t].status \in {"PENDING", "CALLING"}
  /\ task' = [task EXCEPT ![t].status = "CANCELLED"]
  /\ UNCHANGED <<blocked, now, worker, batch, ticked>>

\* remove() deletes the row whatever its status, a call under way included; from then on it
\* counts and is dispatched as little as a cancelled one.
Remove(t) ==
  /\ t \in Existing
  /\ task' = [task EXCEPT ![t].status = "CANCELLED", ![t].counted = FALSE]
  /\ UNCHANGED <<blocked, now, worker, batch, ticked>>

Clock ==
  /\ ticked /\ batch = {} /\ worker["scheduler"] = NoDispatch
  /\ ticked' = FALSE
  /\ IF now + 1 < Slots
     THEN now' = now + 1 /\ UNCHANGED <<task, worker>>
     ELSE /\ now' = 0
          /\ task' = [t \in Tasks |->
               [task[t] EXCEPT !.at = Max({-1, @ - Slots}), !.counted = FALSE]]
          /\ worker' = [d \in Dispatchers |-> [worker[d] EXCEPT !.counted = FALSE]]
  /\ UNCHANGED <<blocked, batch>>

SchedulerStep == RunDueTasks \/ DispatchNext \/ Claim("scheduler")

Next ==
  \/ \E t \in Tasks : \/ \E at \in Offered : CheckCreate(t, at)
                      \/ Create(t) \/ DispatchByOperator(t)
                      \/ CallEnds(t) \/ Cancel(t) \/ Remove(t)
  \/ \E c \in Callees : Block(c)
  \/ Claim("operator") \/ SchedulerStep \/ Clock

\* The interval timer and the clock do not stop, and the scheduler's queries return.
Progress == SchedulerStep \/ Clock

Spec == Init /\ [][Next]_vars

-----------------------------------------------------------------------------
\* countScheduledTasksForCallee, dispatch: however creations and dispatches interleave, no
\* more tasks of a callee are dispatched on the day they are scheduled for than the limit.
DailyLimitHolds ==
  \A c \in Callees \ Whitelist :
    Cardinality({t \in Tasks : /\ To[t] = c /\ task[t].counted
                               /\ task[t].status \in {"CALLING", "FAILED"}}) <= Limit

Stuck == {t \in Due : To[t] \in blocked}

\* dispatchDuePending: a due task whose callee is not blocked is dispatched in the end,
\* even when creations that overlapped made one task too many for the day, unless tasks
\* of blocked callees, which stay PENDING, fill the batch; to hold again and again.
DueAreDispatched == Due \subseteq Stuck \/ Cardinality(Stuck) >= BatchSize
=============================================================================
