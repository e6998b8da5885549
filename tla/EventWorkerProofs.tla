--------------------------- MODULE EventWorkerProofs ---------------------------
(***************************************************************************)
(* Theorems about EventWorker, for every number of events, queue size,     *)
(* number of delivery attempts and number of restarts.                     *)
(***************************************************************************)
EXTENDS EventWorker, TLAPS

Item == [event : Events, attempts : 0 .. deliveryMaxAttempts - 1]

(* What recording an event does to the API's list: nothing, or one more at *)
(* the end (recordProviderCallEvent, as the worker sees it).               *)
LEMMA RecordAppends ==
  ASSUME recorded \in Seq(Events), NEW e \in Events
  PROVE  /\ Record(e) \in Seq(Events)
         /\ Len(recorded) <= Len(Record(e))
         /\ \A i \in 1 .. Len(recorded) : Record(e)[i] = recorded[i]
         /\ \A i \in 1 .. Len(Record(e)) :
              i > Len(recorded) => Record(e)[i] = e /\ i = Len(recorded) + 1 /\ ~Recorded(e)
         /\ \E i \in 1 .. Len(Record(e)) : Record(e)[i] = e
<1>1. CASE Recorded(e)
  BY <1>1 DEF Record, Recorded
<1>2. CASE ~Recorded(e)
  <2>1. Record(e) = Append(recorded, e)
    BY <1>2 DEF Record
  <2>2. /\ Len(Append(recorded, e)) = Len(recorded) + 1
        /\ Append(recorded, e)[Len(recorded) + 1] = e
        /\ \A i \in 1 .. Len(recorded) : Append(recorded, e)[i] = recorded[i]
    OBVIOUS
  <2>3. Len(recorded) \in Nat
    OBVIOUS
  <2>4. Append(recorded, e) \in Seq(Events)
    OBVIOUS
  <2>. QED
    BY <1>2, <2>1, <2>2, <2>3, <2>4
<1>. QED
  BY <1>1, <1>2

(* The drain loop waits for a post only with an item at the head, and has  *)
(* an event in hand exactly while it writes a dead letter.                 *)
LoopPhases ==
  /\ drain \in {"posting", "backoff"} => queue # <<>>
  /\ inHand # NoEvent <=> drain = "deadLetter"

TypeInv == TypeOK /\ LoopPhases

LEMMA InitTypeInv == Init => TypeInv
<1>. SUFFICES ASSUME Init PROVE TypeInv
  OBVIOUS
<1>1. /\ state \in WorkerState
      /\ {socket, reconnectTimer, heartbeatFresh, deliveryHealthy, snapshotting} \subseteq BOOLEAN
      /\ drain \in DrainStates
      /\ inHand \in Events \cup {NoEvent}
      /\ inTransit \subseteq Events
  BY DEF Init, WorkerState, ConnectedStates, HandshakeStates, DrainStates
<1>2. fate \in [Events -> Fates]
  BY DEF Init, Fates
<1>3. /\ queue \in Seq([event : Events, attempts : 0 .. deliveryMaxAttempts - 1])
      /\ recorded \in Seq(Events)
      /\ Len(queue) = 0
  BY DEF Init
<1>4. Len(queue) <= maxQueueSize /\ sent \in 0 .. MaxEvents /\ restarts \in 0 .. MaxRestarts
  BY <1>3, EventWorkerAssumption DEF Init
<1>5. LoopPhases
  BY DEF Init, LoopPhases
<1>. QED
  BY <1>1, <1>2, <1>3, <1>4, <1>5 DEF TypeInv, TypeOK

(* The API's rows keep their types whatever becomes of a request.          *)
LEMMA ApiUnknownType ==
  ASSUME recorded \in Seq(Events), inTransit \subseteq Events, NEW e \in Events, ApiUnknown(e)
  PROVE  recorded' \in Seq(Events) /\ inTransit' \subseteq Events
BY RecordAppends DEF ApiUnknown, apiVars

LEMMA HeadIsItem ==
  ASSUME TypeInv, drain = "posting"
  PROVE  /\ queue \in Seq(Item)
         /\ queue # <<>>
         /\ Len(queue) \in Nat \ {0}
         /\ Head(queue) \in Item
         /\ Head(queue) = queue[1]
         /\ Tail(queue) \in Seq(Item)
         /\ Len(Tail(queue)) = Len(queue) - 1
         /\ \A i \in 1 .. Len(Tail(queue)) : Tail(queue)[i] = queue[i + 1]
<1>1. queue \in Seq(Item) /\ queue # <<>>
  BY DEF TypeInv, TypeOK, LoopPhases, Item
<1>. QED
  BY <1>1

LEMMA StepTypeInv == TypeInv /\ [Next]_vars => TypeInv'
<1>. SUFFICES ASSUME TypeInv, [Next]_vars PROVE TypeInv'
  OBVIOUS
<1>. USE EventWorkerAssumption
<1>. USE DEF TypeInv, TypeOK, LoopPhases, NoEvent
<1>1. CASE LinkFails \/ Reconnect \/ Handshake \/ Subscribe \/ Stop
  <2>1. state' \in WorkerState /\ {socket', reconnectTimer', heartbeatFresh'} \subseteq BOOLEAN
    BY <1>1 DEF LinkFails, Disconnect, Reconnect, Handshake, Subscribe, Stop, WorkerState,
                ConnectedStates, HandshakeStates, connectionVars
  <2>2. UNCHANGED <<deliveryHealthy, queue, drain, inHand, snapshotting, sent, fate, inTransit,
                    recorded, restarts>>
    BY <1>1 DEF LinkFails, Disconnect, Reconnect, Handshake, Subscribe, Stop, deliveryVars, apiVars
  <2>. QED
    BY <2>1, <2>2
<1>2. CASE Heartbeat \/ HeartbeatGoesStale \/ StartSnapshot \/ FinishSnapshot
  <2>1. {heartbeatFresh', deliveryHealthy', snapshotting'} \subseteq BOOLEAN
    BY <1>2 DEF Heartbeat, HeartbeatGoesStale, StartSnapshot, FinishSnapshot
  <2>2. UNCHANGED <<state, socket, reconnectTimer, queue, drain, inHand, sent, fate, inTransit,
                    recorded, restarts>>
    BY <1>2 DEF Heartbeat, HeartbeatGoesStale, StartSnapshot, FinishSnapshot, connectionVars,
                deliveryVars, apiVars
  <2>. QED
    BY <2>1, <2>2
<1>3. CASE MissEvent
  <2>1. sent' \in 0 .. MaxEvents /\ fate' \in [Events -> Fates]
    <3>1. sent' = sent + 1 /\ sent < MaxEvents /\ fate' = [fate EXCEPT ![sent + 1] = "missed"]
      BY <1>3 DEF MissEvent
    <3>2. "missed" \in Fates
      BY DEF Fates
    <3>3. sent' \in 0 .. MaxEvents
      BY <3>1
    <3>4. fate' \in [Events -> Fates]
      BY <3>1, <3>2
    <3>. QED
      BY <3>3, <3>4
  <2>. QED
    BY <1>3, <2>1 DEF MissEvent, connectionVars, apiVars
<1>4. CASE ReceiveEvent
  <2>1. sent' \in 0 .. MaxEvents /\ fate' \in [Events -> Fates] /\ deliveryHealthy' \in BOOLEAN
    <3>1. sent' = sent + 1 /\ sent < MaxEvents
      BY <1>4 DEF ReceiveEvent
    <3>2. \E f \in {"dropped", "accepted"} : fate' = [fate EXCEPT ![sent + 1] = f]
      BY <1>4 DEF ReceiveEvent
    <3>3. {"dropped", "accepted"} \subseteq Fates
      BY DEF Fates
    <3>4. sent' \in 0 .. MaxEvents
      BY <3>1
    <3>5. fate' \in [Events -> Fates]
      BY <3>2, <3>3
    <3>6. deliveryHealthy' \in BOOLEAN
      BY <1>4 DEF ReceiveEvent
    <3>. QED
      BY <3>4, <3>5, <3>6
  <2>2. CASE Len(queue) >= maxQueueSize
    BY <1>4, <2>1, <2>2 DEF ReceiveEvent, connectionVars, apiVars
  <2>3. CASE ~(Len(queue) >= maxQueueSize)
    <3>. DEFINE new == [event |-> sent + 1, attempts |-> 0]
    <3>1. new \in [event : Events, attempts : 0 .. deliveryMaxAttempts - 1]
      BY <1>4 DEF ReceiveEvent, Events
    <3>2. queue' = Append(queue, new)
      BY <1>4, <2>3 DEF ReceiveEvent
    <3>. HIDE DEF new
    <3>3. /\ queue' \in Seq([event : Events, attempts : 0 .. deliveryMaxAttempts - 1])
          /\ Len(queue') <= maxQueueSize
          /\ queue' # <<>>
      BY SMTT(20), <2>3, <3>1, <3>2
    <3>4. drain' = IF drain = "idle" THEN "posting" ELSE drain
      BY <1>4, <2>3 DEF ReceiveEvent
    <3>5. drain' \in DrainStates /\ (inHand' # NoEvent <=> drain' = "deadLetter")
      BY <1>4, <3>4 DEF ReceiveEvent, DrainStates
    <3>. QED
      BY <1>4, <2>1, <3>3, <3>5 DEF ReceiveEvent, connectionVars, apiVars
  <2>. QED
    BY <2>2, <2>3
<1>5. CASE PostSucceeds
  <2>1. /\ Head(queue).event \in Events
        /\ Tail(queue) \in Seq([event : Events, attempts : 0 .. deliveryMaxAttempts - 1])
        /\ Len(Tail(queue)) <= maxQueueSize
    BY <1>5, HeadIsItem DEF PostSucceeds, Item
  <2>2. recorded' \in Seq(Events)
    BY <1>5, <2>1, RecordAppends DEF PostSucceeds
  <2>3. drain' \in {"posting", "idle"} /\ (drain' = "posting" => queue' # <<>>)
    BY <1>5 DEF PostSucceeds, NextItem
  <2>. QED
    BY <1>5, <2>1, <2>2, <2>3 DEF PostSucceeds, DrainStates, connectionVars
<1>6. CASE PostRetries
  <2>1. /\ Head(queue).event \in Events
        /\ Head(queue) = queue[1]
        /\ queue \in Seq(Item)
        /\ 1 \in 1 .. Len(queue)
    BY <1>6, HeadIsItem DEF PostRetries, Item
  <2>2. recorded' \in Seq(Events) /\ inTransit' \subseteq Events
    BY <1>6, <2>1, ApiUnknownType DEF PostRetries
  <2>0. queue[1] \in Item /\ queue[1].attempts + 1 < deliveryMaxAttempts
    BY <1>6, <2>1 DEF PostRetries
  <2>3. queue[1].attempts + 1 \in 0 .. deliveryMaxAttempts - 1
    BY <2>0 DEF Item
  <2>4. [queue[1] EXCEPT !.attempts = @ + 1] \in Item
    BY <2>0, <2>3 DEF Item
  <2>5. queue' \in Seq(Item) /\ Len(queue') = Len(queue) /\ queue' # <<>>
    BY <1>6, <2>1, <2>4 DEF PostRetries
  <2>. QED
    BY <1>6, <2>2, <2>5 DEF PostRetries, DrainStates, Item, connectionVars
<1>7. CASE PostGivesUp
  <2>1. /\ Head(queue).event \in Events
        /\ Tail(queue) \in Seq([event : Events, attempts : 0 .. deliveryMaxAttempts - 1])
        /\ Len(Tail(queue)) <= maxQueueSize
    BY <1>7, HeadIsItem DEF PostGivesUp, Item
  <2>2. recorded' \in Seq(Events) /\ inTransit' \subseteq Events
    BY <1>7, <2>1, ApiUnknownType DEF PostGivesUp, apiVars
  <2>3. Head(queue).event # NoEvent
    BY <2>1 DEF Events
  <2>. QED
    BY <1>7, <2>1, <2>2, <2>3 DEF PostGivesUp, DrainStates, connectionVars
<1>8. CASE BackoffElapses
  <2>1. drain' \in {"posting", "idle"} /\ (drain' = "posting" => queue' # <<>>)
    BY <1>8 DEF BackoffElapses, NextItem
  <2>. QED
    BY <1>8, <2>1 DEF BackoffElapses, DrainStates, connectionVars, apiVars
<1>9. ASSUME NEW sink \in {"deadLettered", "logged"}, WriteDeadLetter(sink)
      PROVE  TypeInv'
  <2>1. drain' \in {"posting", "idle"} /\ (drain' = "posting" => queue' # <<>>)
    BY <1>9 DEF WriteDeadLetter, NextItem
  <2>2. fate' \in [Events -> Fates]
    BY <1>9 DEF WriteDeadLetter, Fates, GivenUp
  <2>. QED
    BY <1>9, <2>1, <2>2 DEF WriteDeadLetter, DrainStates, connectionVars, apiVars
<1>10. ASSUME NEW e \in Events, ApiFinishesLate(e)
       PROVE  TypeInv'
  <2>1. recorded' \in Seq(Events) /\ inTransit' \subseteq Events
    BY <1>10, RecordAppends DEF ApiFinishesLate
  <2>. QED
    BY <1>10, <2>1 DEF ApiFinishesLate, connectionVars, deliveryVars
<1>11. CASE Restart
  <2>1. fate' \in [Events -> Fates]
    BY <1>11 DEF Restart, Fates, GivenUp
  <2>2. inTransit' \subseteq Events
    BY <1>11, HeadIsItem DEF Restart, Item
  <2>3. state' \in WorkerState /\ drain' \in DrainStates
    BY <1>11 DEF Restart, WorkerState, ConnectedStates, HandshakeStates, DrainStates
  <2>4. restarts' \in 0 .. MaxRestarts
    BY <1>11 DEF Restart
  <2>5. queue' \in Seq([event : Events, attempts : 0 .. deliveryMaxAttempts - 1])
        /\ Len(queue') = 0
    BY <1>11 DEF Restart
  <2>6. Len(queue') <= maxQueueSize
    BY <2>5
  <2>. QED
    BY <1>11, <2>1, <2>2, <2>3, <2>4, <2>5, <2>6 DEF Restart
<1>12. CASE UNCHANGED vars
  BY <1>12 DEF vars
<1>. QED
  BY <1>1, <1>2, <1>3, <1>4, <1>5, <1>6, <1>7, <1>8, <1>9, <1>10, <1>11, <1>12
     DEF Next, DrainQueue

(* Type correctness; the queue never exceeds its limit.                    *)
THEOREM EventWorkerTypes == Spec => []TypeOK
<1>1. TypeInv => TypeOK
  BY DEF TypeInv
<1>. QED
  BY InitTypeInv, StepTypeInv, <1>1, PTL DEF Spec
-----------------------------------------------------------------------------
(* A stopped worker holds neither socket nor timer, so that no timer of its *)
(* own revives it.                                                         *)
ConnectionInv == OneConnectionOrTimer /\ (stopped => ~socket /\ ~reconnectTimer)

(* The connection is never lost without a timer that brings it back        *)
(* (disconnect, scheduleReconnect, connect, onModuleDestroy).              *)
THEOREM ConnectionSafety == Spec => []OneConnectionOrTimer
<1>1. Init => ConnectionInv
  BY DEF Init, ConnectionInv, OneConnectionOrTimer, stopped
<1>2. TypeInv /\ ConnectionInv /\ [Next]_vars => ConnectionInv'
  <2>. SUFFICES ASSUME TypeInv, ConnectionInv, [Next]_vars PROVE ConnectionInv'
    OBVIOUS
  <2>1. socket \in BOOLEAN /\ reconnectTimer \in BOOLEAN
    BY DEF TypeInv, TypeOK
  <2>. USE DEF ConnectionInv, OneConnectionOrTimer, stopped
  <2>2. CASE LinkFails \/ Restart \/ Stop
    BY <2>2 DEF LinkFails, Disconnect, Restart, Stop
  <2>3. CASE Reconnect
    BY <2>1, <2>3 DEF Reconnect
  <2>4. CASE Handshake \/ Subscribe
    BY <2>4 DEF Handshake, Subscribe
  <2>5. CASE UNCHANGED connectionVars
    BY <2>5 DEF connectionVars
  <2>6. CASE Heartbeat \/ HeartbeatGoesStale \/ MissEvent \/ ReceiveEvent \/ StartSnapshot
             \/ FinishSnapshot \/ DrainQueue \/ (\E e \in Events : ApiFinishesLate(e))
    BY <2>5, <2>6 DEF Heartbeat, HeartbeatGoesStale, MissEvent, ReceiveEvent, StartSnapshot,
       FinishSnapshot, DrainQueue, PostSucceeds, PostRetries, PostGivesUp, BackoffElapses,
       WriteDeadLetter, ApiFinishesLate
  <2>7. CASE UNCHANGED vars
    BY <2>5, <2>7 DEF vars, connectionVars
  <2>. QED
    BY <2>2, <2>3, <2>4, <2>6, <2>7 DEF Next
<1>3. ConnectionInv => OneConnectionOrTimer
  BY DEF ConnectionInv
<1>. QED
  BY <1>1, <1>2, <1>3, InitTypeInv, StepTypeInv, PTL DEF Spec
-----------------------------------------------------------------------------
(* The loop that is stopped for good may sleep with a full queue, so that  *)
(* nothing but a restart may take the worker out of "stopped".             *)
DrainInv == DrainsWhilePending /\ (stopped => ~socket /\ ~reconnectTimer)

(* The drain loop never goes to sleep on an event it still has to deliver, *)
(* however arrivals, back-off, dead letters and reconnections fall between *)
(* its awaits (drainQueue, enqueue, onModuleDestroy).                      *)
THEOREM DrainSafety == Spec => []DrainsWhilePending
<1>1. Init => DrainInv
  BY DEF Init, DrainInv, DrainsWhilePending, stopped
<1>2. TypeInv /\ DrainInv /\ [Next]_vars => DrainInv'
  <2>. SUFFICES ASSUME TypeInv, DrainInv, [Next]_vars PROVE DrainInv'
    OBVIOUS
  <2>1. socket \in BOOLEAN /\ reconnectTimer \in BOOLEAN
    BY DEF TypeInv, TypeOK
  <2>. USE DEF DrainInv, DrainsWhilePending, stopped
  <2>2. CASE LinkFails \/ Handshake \/ Subscribe
    <3>1. state # "stopped" /\ UNCHANGED <<queue, drain>>
      BY <2>2 DEF LinkFails, Handshake, Subscribe, ConnectedStates, HandshakeStates, deliveryVars
    <3>2. state' # "stopped"
      BY <2>2 DEF LinkFails, Disconnect, Handshake, Subscribe
    <3>. QED
      BY <3>1, <3>2
  <2>3. CASE Reconnect
    BY <2>1, <2>3 DEF Reconnect, deliveryVars
  <2>4. CASE Stop \/ Restart
    BY <2>4 DEF Stop, Restart
  <2>5. CASE UNCHANGED <<connectionVars, queue, drain>>
    BY <2>5 DEF connectionVars
  <2>6. CASE Heartbeat \/ HeartbeatGoesStale \/ MissEvent \/ StartSnapshot \/ FinishSnapshot
             \/ (\E e \in Events : ApiFinishesLate(e)) \/ UNCHANGED vars
    BY <2>5, <2>6 DEF Heartbeat, HeartbeatGoesStale, MissEvent, StartSnapshot, FinishSnapshot,
       ApiFinishesLate, connectionVars, deliveryVars, vars
  <2>7. CASE ReceiveEvent
    BY <2>7 DEF ReceiveEvent, connectionVars
  <2>8. CASE DrainQueue
    <3>1. UNCHANGED connectionVars
      BY <2>8 DEF DrainQueue, PostSucceeds, PostRetries, PostGivesUp, BackoffElapses,
         WriteDeadLetter
    <3>2. \/ drain' = NextItem(queue')
          \/ drain' \in {"backoff", "deadLetter"}
      BY <2>8 DEF DrainQueue, PostSucceeds, PostRetries, PostGivesUp, BackoffElapses,
         WriteDeadLetter
    <3>. QED
      BY <3>1, <3>2 DEF NextItem, connectionVars
  <2>. QED
    BY <2>2, <2>3, <2>4, <2>6, <2>7, <2>8 DEF Next
<1>3. DrainInv => DrainsWhilePending
  BY DEF DrainInv
<1>. QED
  BY <1>1, <1>2, <1>3, InitTypeInv, StepTypeInv, PTL DEF Spec
-----------------------------------------------------------------------------
(* The parts of the inductive invariant behind AcceptedIsKept and          *)
(* RecordedInOrder.  Events get their numbers as they are sent; the event  *)
(* in hand, then the queue from its head, hold increasing numbers; what    *)
(* has been recorded or given up is older than all that waits, but for the *)
(* first of it, which may already be recorded without the worker knowing.  *)
Numbered == \A e \in Events : fate[e] = "unsent" <=> e > sent

Waiting ==
  /\ \A i \in 1 .. Len(queue) : fate[queue[i].event] = "accepted"
  /\ inHand # NoEvent => fate[inHand] = "accepted"

Sorted ==
  /\ \A i, j \in 1 .. Len(queue) : i < j => queue[i].event < queue[j].event
  /\ inHand # NoEvent => \A i \in 1 .. Len(queue) : inHand < queue[i].event

GivenUpFirst ==
  \A e \in Events : fate[e] \in GivenUp =>
    /\ \A i \in 1 .. Len(queue) : e < queue[i].event
    /\ inHand # NoEvent => e < inHand

RecordedFirst ==
  \A n \in 1 .. Len(recorded) :
    /\ fate[recorded[n]] \in GivenUp \cup {"accepted"}
    /\ \A i \in 1 .. Len(queue) : recorded[n] <= queue[i].event
    /\ inHand # NoEvent => recorded[n] <= inHand

Tried ==
  \A e \in inTransit :
    \/ Recorded(e)
    \/ fate[e] \in GivenUp
    \/ inHand # NoEvent /\ e = inHand
    \/ inHand = NoEvent /\ queue # <<>> /\ e = queue[1].event

OrderInv ==
  /\ Numbered /\ Waiting /\ Sorted /\ GivenUpFirst /\ RecordedFirst /\ Tried
  /\ AcceptedIsKept
  /\ RecordedInOrder
LEMMA InitOrder == Init => OrderInv
BY DEF Init, OrderInv, Numbered, Waiting, Sorted, GivenUpFirst, RecordedFirst, Tried, GivenUp,
       AcceptedIsKept, RecordedInOrder, NoEvent, Events

(* The events whose requests may still reach the API.                      *)
MayArrive(e) ==
  \/ Recorded(e)
  \/ fate[e] \in GivenUp
  \/ inHand # NoEvent /\ e = inHand
  \/ inHand = NoEvent /\ queue # <<>> /\ e = queue[1].event

LEMMA QueueShape ==
  ASSUME TypeInv
  PROVE  /\ queue \in Seq(Item)
         /\ Len(queue) \in Nat
         /\ \A i \in 1 .. Len(queue) : queue[i].event \in Events
         /\ queue # <<>> => Len(queue) >= 1
         /\ recorded \in Seq(Events)
         /\ Len(recorded) \in Nat
         /\ \A n \in 1 .. Len(recorded) : recorded[n] \in Events
         /\ inHand \in Events \cup {NoEvent}
         /\ NoEvent \notin Events
         /\ Events \subseteq Int
         /\ sent \in Int
<1>1. queue \in Seq(Item) /\ recorded \in Seq(Events) /\ inHand \in Events \cup {NoEvent}
  BY DEF TypeInv, TypeOK, Item
<1>2. Len(queue) \in Nat /\ (queue # <<>> => Len(queue) >= 1)
  BY <1>1
<1>3. \A i \in 1 .. Len(queue) : queue[i] \in Item
  BY <1>1
<1>4. Len(recorded) \in Nat /\ \A n \in 1 .. Len(recorded) : recorded[n] \in Events
  BY <1>1
<1>5. NoEvent \notin Events /\ Events \subseteq Int
  BY EventWorkerAssumption DEF NoEvent, Events
<1>6. sent \in Int
  BY EventWorkerAssumption DEF TypeInv, TypeOK
<1>. QED
  BY <1>1, <1>2, <1>3, <1>4, <1>5, <1>6 DEF Item

(* What may still arrive is not newer than anything that waits, and what   *)
(* is recorded already is not newer than it unless it was given up.        *)
LEMMA ArrivalBounds ==
  ASSUME TypeInv, OrderInv, NEW e \in Events, MayArrive(e)
  PROVE  /\ fate[e] \in GivenUp \cup {"accepted"}
         /\ \A i \in 1 .. Len(queue) : e <= queue[i].event
         /\ inHand # NoEvent => e <= inHand
         /\ fate[e] \notin GivenUp /\ ~Recorded(e) =>
              \A n \in 1 .. Len(recorded) : recorded[n] <= e
<1>. USE QueueShape
<1>1. CASE Recorded(e)
  <2>1. PICK n \in 1 .. Len(recorded) : recorded[n] = e
    BY <1>1 DEF Recorded
  <2>. QED
    BY <1>1, <2>1 DEF OrderInv, RecordedFirst
<1>2. CASE fate[e] \in GivenUp
  BY <1>2 DEF OrderInv, GivenUpFirst
<1>3. CASE inHand # NoEvent /\ e = inHand
  <2>1. fate[e] = "accepted"
    BY <1>3 DEF OrderInv, Waiting
  <2>2. \A i \in 1 .. Len(queue) : e < queue[i].event
    BY <1>3 DEF OrderInv, Sorted
  <2>3. \A i \in 1 .. Len(queue) : e <= queue[i].event
    BY <2>2
  <2>4. \A n \in 1 .. Len(recorded) : recorded[n] <= e
    BY <1>3 DEF OrderInv, RecordedFirst
  <2>. QED
    BY <1>3, <2>1, <2>3, <2>4
<1>4. CASE inHand = NoEvent /\ queue # <<>> /\ e = queue[1].event
  <2>1. 1 \in 1 .. Len(queue)
    BY <1>4
  <2>2. \A i \in 1 .. Len(queue) : i = 1 \/ 1 < i
    OBVIOUS
  <2>3. \A i \in 1 .. Len(queue) : e <= queue[i].event
    BY <1>4, <2>1, <2>2 DEF OrderInv, Sorted
  <2>. QED
    BY <1>4, <2>1, <2>3 DEF OrderInv, Waiting, RecordedFirst
<1>. QED
  BY <1>1, <1>2, <1>3, <1>4 DEF MayArrive

(* A request that arrives, late or not, keeps the API's list in order.     *)
LEMMA ArrivalStep ==
  ASSUME TypeInv, OrderInv, NEW e \in Events, MayArrive(e), recorded' \in {recorded, Record(e)}
  PROVE  /\ \A n \in 1 .. Len(recorded') :
              /\ recorded'[n] \in Events
              /\ fate[recorded'[n]] \in GivenUp \cup {"accepted"}
              /\ \A i \in 1 .. Len(queue) : recorded'[n] <= queue[i].event
              /\ inHand # NoEvent => recorded'[n] <= inHand
         /\ \A i, j \in 1 .. Len(recorded') :
              i < j /\ recorded'[i] > recorded'[j] => fate[recorded'[j]] \in GivenUp
         /\ \A x \in Events : Recorded(x) => Recorded(x)'
         /\ recorded' = Record(e) => Recorded(e)'
         /\ Len(recorded') \in Nat
<1>. USE QueueShape
<1>1. CASE recorded' = recorded
  <2>1. \A x \in Events : Recorded(x)' <=> Recorded(x)
    BY <1>1 DEF Recorded
  <2>2. recorded' = Record(e) => Recorded(e)
    BY <1>1, RecordAppends DEF Recorded
  <2>. QED
    BY <1>1, <2>1, <2>2 DEF OrderInv, RecordedFirst, RecordedInOrder
<1>2. CASE recorded' = Record(e)
  <2>1. /\ recorded' \in Seq(Events)
        /\ Len(recorded) <= Len(recorded')
        /\ \A i \in 1 .. Len(recorded) : recorded'[i] = recorded[i]
        /\ \A i \in 1 .. Len(recorded') :
             i > Len(recorded) => recorded'[i] = e /\ i = Len(recorded) + 1 /\ ~Recorded(e)
        /\ \E i \in 1 .. Len(recorded') : recorded'[i] = e
    BY <1>2, RecordAppends
  <2>2. Len(recorded') \in Nat
    BY <2>1
  <2>3. \A n \in 1 .. Len(recorded') :
          \/ n \in 1 .. Len(recorded) /\ recorded'[n] = recorded[n]
          \/ n = Len(recorded) + 1 /\ recorded'[n] = e /\ ~Recorded(e)
    BY <2>1, <2>2
  <2>4. \A n \in 1 .. Len(recorded') :
          /\ recorded'[n] \in Events
          /\ fate[recorded'[n]] \in GivenUp \cup {"accepted"}
          /\ \A i \in 1 .. Len(queue) : recorded'[n] <= queue[i].event
          /\ inHand # NoEvent => recorded'[n] <= inHand
    BY <2>3, ArrivalBounds DEF OrderInv, RecordedFirst
  <2>5. ASSUME NEW i \in 1 .. Len(recorded'), NEW j \in 1 .. Len(recorded'),
               i < j, recorded'[i] > recorded'[j]
        PROVE  fate[recorded'[j]] \in GivenUp
    <3>1. i \in 1 .. Len(recorded) /\ recorded'[i] = recorded[i]
      BY <2>2, <2>3, <2>5
    <3>2. CASE j \in 1 .. Len(recorded) /\ recorded'[j] = recorded[j]
      BY <2>5, <3>1, <3>2 DEF OrderInv, RecordedInOrder
    <3>3. CASE j = Len(recorded) + 1 /\ recorded'[j] = e /\ ~Recorded(e)
      <4>1. fate[e] \notin GivenUp => recorded[i] <= e
        BY <3>1, <3>3, ArrivalBounds
      <4>. QED
        BY <2>5, <3>1, <3>3, <4>1
    <3>. QED
      BY <2>3, <3>2, <3>3
  <2>6. ASSUME NEW x \in Events, Recorded(x)
        PROVE  Recorded(x)'
    <3>1. PICK n \in 1 .. Len(recorded) : recorded[n] = x
      BY <2>6 DEF Recorded
    <3>2. n \in 1 .. Len(recorded')
      BY <2>1, <2>2, <3>1
    <3>3. recorded'[n] = x
      BY <2>1, <3>1
    <3>. QED
      BY <3>2, <3>3 DEF Recorded
  <2>7. Recorded(e)'
    BY <2>1 DEF Recorded
  <2>. QED
    BY <2>2, <2>4, <2>5, <2>6, <2>7
<1>. QED
  BY <1>1, <1>2
-----------------------------------------------------------------------------
(* FreeSWITCH sends an event: it is missed, dropped or put at the end.     *)
LEMMA NewEventStep ==
  ASSUME TypeInv, OrderInv, sent < MaxEvents, sent' = sent + 1,
         NEW f \in {"missed", "dropped", "accepted"},
         fate' = [fate EXCEPT ![sent + 1] = f],
         \/ f # "accepted" /\ queue' = queue
         \/ f = "accepted" /\ queue' = Append(queue, [event |-> sent + 1, attempts |-> 0]),
         UNCHANGED <<inHand, inTransit, recorded>>
  PROVE  OrderInv'
<1>. DEFINE new == sent + 1
<1>1. new \in Events /\ fate \in [Events -> Fates]
  BY EventWorkerAssumption DEF TypeInv, TypeOK, Events
<1>2. fate[new] = "unsent" /\ "unsent" \notin GivenUp
  BY <1>1, QueueShape DEF OrderInv, Numbered, GivenUp
<1>3. fate'[new] = f /\ \A e \in Events : e # new => fate'[e] = fate[e]
  BY <1>1
<1>4. Len(queue) \in Nat /\ \A i \in 1 .. Len(queue) : queue[i].event \in Events
  BY QueueShape
<1>5. \A i \in 1 .. Len(queue) : i \in 1 .. Len(queue') /\ queue'[i] = queue[i]
  <2>1. CASE queue' = queue
    BY <2>1
  <2>2. CASE queue' = Append(queue, [event |-> sent + 1, attempts |-> 0])
    BY <2>2, <1>4, QueueShape
  <2>. QED
    BY <2>1, <2>2
<1>6. \A i \in 1 .. Len(queue') :
        i \in 1 .. Len(queue) \/ (i = Len(queue) + 1 /\ queue'[i].event = new /\ f = "accepted")
  <2>1. CASE queue' = queue
    BY <2>1
  <2>2. CASE f = "accepted" /\ queue' = Append(queue, [event |-> sent + 1, attempts |-> 0])
    BY <2>2, <1>4, QueueShape
  <2>. QED
    BY <2>1, <2>2
<1>7. f = "accepted" => \E i \in 1 .. Len(queue') : queue'[i].event = new
  <2>. SUFFICES ASSUME f = "accepted" PROVE \E i \in 1 .. Len(queue') : queue'[i].event = new
    OBVIOUS
  <2>1. queue' = Append(queue, [event |-> sent + 1, attempts |-> 0])
    OBVIOUS
  <2>2. Len(queue) + 1 \in 1 .. Len(queue') /\ queue'[Len(queue) + 1].event = new
    BY <2>1, <1>4, QueueShape
  <2>. QED
    BY <2>2
<1>8. queue # <<>> => queue' # <<>> /\ queue'[1] = queue[1]
  BY <1>5, QueueShape
<1>9. \A e \in Events : fate[e] # "unsent" => e <= sent /\ e # new /\ fate'[e] = fate[e]
  BY <1>1, <1>2, <1>3, QueueShape DEF OrderInv, Numbered
<1>10. f \notin GivenUp /\ "accepted" # "unsent" /\ f # "unsent"
  BY DEF GivenUp
<1>. HIDE DEF new
<1>11. Numbered'
  BY <1>1, <1>2, <1>3, <1>10, QueueShape DEF OrderInv, Numbered, new
<1>12. \A i \in 1 .. Len(queue) :
         /\ fate[queue[i].event] = "accepted"
         /\ queue[i].event <= sent
         /\ fate'[queue[i].event] = "accepted"
  BY <1>4, <1>9 DEF OrderInv, Waiting
<1>13. inHand # NoEvent => inHand \in Events /\ inHand <= sent /\ fate'[inHand] = "accepted"
  BY <1>9, QueueShape DEF OrderInv, Waiting
<1>14. Waiting'
  BY <1>3, <1>5, <1>6, <1>12, <1>13 DEF Waiting
<1>15. sent < new
  BY QueueShape DEF new
<1>16. Sorted'
  <2>1. \A i, j \in 1 .. Len(queue') : i < j => queue'[i].event < queue'[j].event
    <3>. SUFFICES ASSUME NEW i \in 1 .. Len(queue'), NEW j \in 1 .. Len(queue'), i < j
                  PROVE  queue'[i].event < queue'[j].event
      OBVIOUS
    <3>1. i \in 1 .. Len(queue)
      BY <1>4, <1>6
    <3>2. CASE j \in 1 .. Len(queue)
      BY <3>1, <3>2, <1>5 DEF OrderInv, Sorted
    <3>3. CASE queue'[j].event = new
      <4>1. queue'[i].event = queue[i].event /\ queue[i].event <= sent /\ queue[i].event \in Events
        BY <3>1, <1>4, <1>5, <1>12
      <4>. QED
        BY <3>3, <4>1, <1>1, <1>15, QueueShape
    <3>. QED
      BY <3>2, <3>3, <1>6
  <2>2. inHand # NoEvent => \A i \in 1 .. Len(queue') : inHand < queue'[i].event
    <3>. SUFFICES ASSUME inHand # NoEvent, NEW i \in 1 .. Len(queue')
                  PROVE  inHand < queue'[i].event
      OBVIOUS
    <3>1. CASE i \in 1 .. Len(queue)
      BY <3>1, <1>5 DEF OrderInv, Sorted
    <3>2. CASE queue'[i].event = new
      BY <3>2, <1>1, <1>13, <1>15, QueueShape
    <3>. QED
      BY <3>1, <3>2, <1>6
  <2>. QED
    BY <2>1, <2>2 DEF Sorted
<1>17. \A e \in Events : e <= sent =>
         ((\A i \in 1 .. Len(queue) : e <= queue[i].event)
            => \A i \in 1 .. Len(queue') : e <= queue'[i].event)
         /\ ((\A i \in 1 .. Len(queue) : e < queue[i].event)
            => \A i \in 1 .. Len(queue') : e < queue'[i].event)
  <2>1. \A e \in Events : e <= sent => e < new /\ e <= new
    BY <1>1, <1>15, QueueShape
  <2>. QED
    BY <1>5, <1>6, <2>1
<1>18. GivenUpFirst'
  <2>. SUFFICES ASSUME NEW e \in Events, fate'[e] \in GivenUp
                PROVE  /\ \A i \in 1 .. Len(queue') : e < queue'[i].event
                       /\ inHand # NoEvent => e < inHand
    BY DEF GivenUpFirst
  <2>1. e # new /\ fate[e] \in GivenUp
    BY <1>3, <1>10
  <2>2. e <= sent
    BY <2>1, <1>2, <1>9
  <2>. QED
    BY <2>1, <2>2, <1>17 DEF OrderInv, GivenUpFirst
<1>19. \A n \in 1 .. Len(recorded) :
         /\ recorded[n] \in Events
         /\ fate[recorded[n]] # "unsent"
  BY <1>2, QueueShape DEF OrderInv, RecordedFirst
<1>20. RecordedFirst'
  BY <1>9, <1>17, <1>19 DEF OrderInv, RecordedFirst
<1>21. Tried'
  <2>. SUFFICES ASSUME NEW e \in inTransit
                PROVE  \/ Recorded(e)
                       \/ fate'[e] \in GivenUp
                       \/ inHand # NoEvent /\ e = inHand
                       \/ inHand = NoEvent /\ queue' # <<>> /\ e = queue'[1].event
    BY DEF Tried, Recorded
  <2>1. e \in Events
    BY DEF TypeInv, TypeOK
  <2>2. fate[e] \in GivenUp => fate'[e] \in GivenUp
    BY <2>1, <1>2, <1>9
  <2>. QED
    BY <2>2, <1>8 DEF OrderInv, Tried
<1>22. AcceptedIsKept'
  <2>. SUFFICES ASSUME NEW e \in Events, fate'[e] = "accepted"
                PROVE  Pending(e)' \/ Recorded(e)'
    BY DEF AcceptedIsKept
  <2>1. CASE e = new
    BY <2>1, <1>3, <1>7 DEF Pending, InQueue
  <2>2. CASE e # new /\ InQueue(e)
    BY <2>2, <1>5 DEF Pending, InQueue
  <2>3. CASE e # new /\ ~InQueue(e)
    BY <2>3, <1>3 DEF OrderInv, AcceptedIsKept, Pending, Recorded
  <2>. QED
    BY <2>1, <2>2, <2>3
<1>23. RecordedInOrder'
  BY <1>9, <1>19 DEF OrderInv, RecordedInOrder
<1>. QED
  BY <1>11, <1>14, <1>16, <1>18, <1>20, <1>21, <1>22, <1>23 DEF OrderInv

(* The head of the queue may be on its way to the API while it is posted.  *)
LEMMA HeadMayArrive ==
  ASSUME TypeInv, drain = "posting"
  PROVE  /\ inHand = NoEvent
         /\ Head(queue).event = queue[1].event
         /\ queue[1].event \in Events
         /\ MayArrive(queue[1].event)
<1>1. inHand = NoEvent /\ queue # <<>>
  BY DEF TypeInv, LoopPhases
<1>2. Head(queue) = queue[1] /\ queue[1].event \in Events
  BY HeadIsItem DEF Item
<1>. QED
  BY <1>1, <1>2 DEF MayArrive

(* What ApiUnknown leaves behind, in the terms of ArrivalStep.             *)
LEMMA UnknownOutcome ==
  ASSUME NEW e \in Events, ApiUnknown(e)
  PROVE  recorded' \in {recorded, Record(e)} /\ inTransit' \subseteq inTransit \cup {e}
BY DEF ApiUnknown, apiVars

(* A failed post leaves the event at the head.                             *)
LEMMA RetryStep ==
  ASSUME TypeInv, OrderInv, PostRetries
  PROVE  OrderInv'
<1>. DEFINE head == queue[1].event
<1>1. /\ inHand = NoEvent /\ inHand' = NoEvent
      /\ fate' = fate /\ sent' = sent
      /\ queue' = [queue EXCEPT ![1].attempts = @ + 1]
      /\ head \in Events /\ MayArrive(head)
      /\ recorded' \in {recorded, Record(head)}
      /\ inTransit' \subseteq inTransit \cup {head}
  BY HeadMayArrive, UnknownOutcome DEF PostRetries
<1>2. Len(queue') = Len(queue) /\ queue # <<>> /\ queue' # <<>> /\ Len(queue) \in Nat
      /\ 1 \in 1 .. Len(queue)
  BY <1>1, HeadIsItem DEF PostRetries
<1>3. \A i \in 1 .. Len(queue) : queue'[i].event = queue[i].event
  BY <1>1, <1>2, HeadIsItem DEF PostRetries, Item
<1>. HIDE DEF head
<1>4. Numbered' /\ Waiting' /\ Sorted' /\ GivenUpFirst'
  BY <1>1, <1>2, <1>3 DEF OrderInv, Numbered, Waiting, Sorted, GivenUpFirst
<1>5. RecordedFirst' /\ RecordedInOrder'
  BY <1>1, <1>2, <1>3, ArrivalStep DEF RecordedFirst, RecordedInOrder
<1>6. \A x \in Events : Recorded(x) => Recorded(x)'
  BY <1>1, ArrivalStep
<1>7. Tried'
  <2>. SUFFICES ASSUME NEW e \in inTransit' PROVE MayArrive(e)'
    BY DEF Tried, MayArrive
  <2>1. CASE e = head
    BY <1>1, <1>2, <1>3, <2>1 DEF MayArrive, head
  <2>2. CASE e \in inTransit
    <3>1. e \in Events
      BY <2>2 DEF TypeInv, TypeOK
    <3>. QED
      BY <1>1, <1>2, <1>3, <1>6, <2>2, <3>1 DEF OrderInv, Tried, MayArrive
  <2>. QED
    BY <1>1, <2>1, <2>2
<1>8. AcceptedIsKept'
  <2>. SUFFICES ASSUME NEW e \in Events, fate[e] = "accepted" PROVE Pending(e)' \/ Recorded(e)'
    BY <1>1 DEF AcceptedIsKept
  <2>1. InQueue(e) => InQueue(e)'
    BY <1>2, <1>3 DEF InQueue
  <2>. QED
    BY <1>1, <1>6, <2>1 DEF OrderInv, AcceptedIsKept, Pending
<1>. QED
  BY <1>4, <1>5, <1>7, <1>8 DEF OrderInv

(* The head leaves the queue, recorded or into the hands of the            *)
(* dead-letter writer.                                                     *)
LEMMA ShiftStep ==
  ASSUME TypeInv, OrderInv, PostSucceeds \/ PostGivesUp
  PROVE  OrderInv'
<1>0. drain = "posting"
  BY DEF PostSucceeds, PostGivesUp
<1>h. PICK head \in Events : head = queue[1].event
  BY <1>0, HeadMayArrive
<1>1. /\ inHand = NoEvent
      /\ MayArrive(head) /\ Head(queue).event = head
  BY <1>0, <1>h, HeadMayArrive
<1>2. /\ fate' = fate /\ sent' = sent
      /\ queue' = Tail(queue)
      /\ recorded' \in {recorded, Record(head)}
      /\ inTransit' \subseteq inTransit \cup {head}
      /\ \/ inHand' = NoEvent /\ recorded' = Record(head)
         \/ inHand' = head
  <2>1. CASE PostSucceeds
    BY <1>1, <2>1 DEF PostSucceeds
  <2>2. CASE PostGivesUp
    <3>1. recorded' \in {recorded, Record(head)} /\ inTransit' \subseteq inTransit \cup {head}
      BY <1>1, <2>2, UnknownOutcome DEF PostGivesUp, apiVars
    <3>. QED
      BY <1>1, <2>2, <3>1 DEF PostGivesUp
  <2>. QED
    BY <2>1, <2>2
<1>3. /\ queue # <<>>
      /\ Len(queue) \in Nat \ {0}
      /\ Len(queue') = Len(queue) - 1
      /\ \A i \in 1 .. Len(queue') : queue'[i] = queue[i + 1]
  BY <1>0, <1>2, HeadIsItem
<1>4. \A i \in 1 .. Len(queue') : i + 1 \in 1 .. Len(queue) /\ 1 < i + 1
  BY <1>3
<1>5. \A i \in 1 .. Len(queue) : i = 1 \/ (i - 1 \in 1 .. Len(queue') /\ queue'[i - 1] = queue[i])
  <2>1. \A i \in 1 .. Len(queue) : i # 1 => i - 1 \in 1 .. Len(queue') /\ (i - 1) + 1 = i
    BY <1>3
  <2>. QED
    BY <1>3, <2>1
<1>6. 1 \in 1 .. Len(queue)
  BY <1>3
<1>7. \A i \in 1 .. Len(queue') : head < queue'[i].event
  BY <1>h, <1>3, <1>4, <1>6 DEF OrderInv, Sorted
<1>8. fate[head] = "accepted"
  BY <1>h, <1>6 DEF OrderInv, Waiting
<1>9. Numbered'
  BY <1>2 DEF OrderInv, Numbered
<1>10. Waiting'
  BY <1>2, <1>3, <1>4, <1>8 DEF OrderInv, Waiting
<1>11. Sorted'
  <2>1. \A i, j \in 1 .. Len(queue') : i < j => i + 1 < j + 1
    BY <1>3
  <2>2. \A i, j \in 1 .. Len(queue') : i < j => queue'[i].event < queue'[j].event
    BY <1>3, <1>4, <2>1 DEF OrderInv, Sorted
  <2>. QED
    BY <1>2, <1>7, <2>2 DEF Sorted
<1>12. GivenUpFirst'
  <2>1. \A e \in Events : fate[e] \in GivenUp => e < head
    BY <1>h, <1>6 DEF OrderInv, GivenUpFirst
  <2>. QED
    BY <1>2, <1>3, <1>4, <2>1 DEF OrderInv, GivenUpFirst
<1>13. RecordedFirst' /\ RecordedInOrder'
  <2>1. /\ \A n \in 1 .. Len(recorded') :
             /\ fate[recorded'[n]] \in GivenUp \cup {"accepted"}
             /\ \A i \in 1 .. Len(queue) : recorded'[n] <= queue[i].event
        /\ \A i, j \in 1 .. Len(recorded') :
             i < j /\ recorded'[i] > recorded'[j] => fate[recorded'[j]] \in GivenUp
    BY <1>1, <1>2, ArrivalStep
  <2>2. \A n \in 1 .. Len(recorded') : recorded'[n] <= head
    BY <1>h, <1>6, <2>1
  <2>. QED
    BY <1>2, <1>3, <1>4, <2>1, <2>2 DEF RecordedFirst, RecordedInOrder
<1>14. /\ \A x \in Events : Recorded(x) => Recorded(x)'
       /\ Recorded(head)' \/ inHand' = head
  BY <1>1, <1>2, ArrivalStep
<1>15. head # NoEvent
  BY <1>1, QueueShape
<1>16. Tried'
  <2>. SUFFICES ASSUME NEW e \in inTransit' PROVE MayArrive(e)'
    BY DEF Tried, MayArrive
  <2>1. CASE e = head
    BY <1>14, <1>15, <2>1 DEF MayArrive
  <2>2. CASE e \in inTransit /\ e # head
    <3>1. e \in Events
      BY <2>2 DEF TypeInv, TypeOK
    <3>2. Recorded(e) \/ fate[e] \in GivenUp
      BY <1>h, <1>1, <2>2 DEF OrderInv, Tried
    <3>. QED
      BY <1>2, <1>14, <3>1, <3>2 DEF MayArrive
  <2>. QED
    BY <1>2, <2>1, <2>2
<1>17. AcceptedIsKept'
  <2>. SUFFICES ASSUME NEW e \in Events, fate[e] = "accepted" PROVE Pending(e)' \/ Recorded(e)'
    BY <1>2 DEF AcceptedIsKept
  <2>1. CASE e = head
    BY <1>14, <2>1 DEF Pending
  <2>2. CASE e # head /\ InQueue(e)
    <3>1. PICK i \in 1 .. Len(queue) : queue[i].event = e
      BY <2>2 DEF InQueue
    <3>2. i # 1
      BY <1>h, <2>2, <3>1
    <3>. QED
      BY <1>5, <3>1, <3>2 DEF Pending, InQueue
  <2>3. CASE ~InQueue(e)
    <3>1. e # inHand
      BY <1>1, QueueShape
    <3>. QED
      BY <1>14, <2>3, <3>1 DEF OrderInv, AcceptedIsKept, Pending
  <2>. QED
    BY <2>1, <2>2, <2>3
<1>. QED
  BY <1>9, <1>10, <1>11, <1>12, <1>13, <1>16, <1>17 DEF OrderInv

(* The event in hand is given up, before all that is still in the queue.   *)
LEMMA DeadLetterStep ==
  ASSUME TypeInv, OrderInv, NEW sink \in {"deadLettered", "logged"}, WriteDeadLetter(sink)
  PROVE  OrderInv'
<1>1. PICK item \in Events : item = inHand
  BY QueueShape DEF WriteDeadLetter, TypeInv, LoopPhases
<1>2. /\ inHand # NoEvent /\ inHand' = NoEvent
      /\ fate' = [fate EXCEPT ![item] = sink] /\ sent' = sent
      /\ queue' = queue /\ recorded' = recorded /\ inTransit' = inTransit
  BY <1>1, QueueShape DEF WriteDeadLetter, apiVars
<1>3. fate \in [Events -> Fates] /\ sink \in GivenUp
  BY DEF TypeInv, TypeOK, GivenUp
<1>4. fate'[item] = sink /\ \A e \in Events : e # item => fate'[e] = fate[e]
  BY <1>1, <1>2, <1>3
<1>5. fate[item] = "accepted" /\ \A i \in 1 .. Len(queue) : item < queue[i].event
  BY <1>1, <1>2 DEF OrderInv, Waiting, Sorted
<1>6. /\ \A i \in 1 .. Len(queue) : queue[i].event \in Events /\ queue[i].event # item
      /\ \A n \in 1 .. Len(recorded) : recorded[n] \in Events
  BY <1>1, <1>5, QueueShape
<1>7. "accepted" # "unsent" /\ sink # "unsent" /\ sink # "accepted"
  OBVIOUS
<1>8. Numbered'
  BY <1>2, <1>4, <1>5, <1>7 DEF OrderInv, Numbered
<1>9. Waiting' /\ Sorted'
  BY <1>2, <1>4, <1>6 DEF OrderInv, Waiting, Sorted
<1>10. GivenUpFirst'
  BY <1>2, <1>4, <1>5 DEF OrderInv, GivenUpFirst
<1>11. RecordedFirst' /\ RecordedInOrder'
  BY <1>2, <1>3, <1>4, <1>6 DEF OrderInv, RecordedFirst, RecordedInOrder
<1>12. Tried'
  <2>. SUFFICES ASSUME NEW e \in inTransit PROVE MayArrive(e)'
    BY <1>2 DEF Tried, MayArrive
  <2>1. e \in Events
    BY DEF TypeInv, TypeOK
  <2>2. CASE e = item
    BY <1>3, <1>4, <2>2 DEF MayArrive
  <2>3. CASE e # item
    BY <1>1, <1>2, <1>4, <2>1, <2>3 DEF OrderInv, Tried, MayArrive, Recorded
  <2>. QED
    BY <2>2, <2>3
<1>13. AcceptedIsKept'
  BY <1>1, <1>2, <1>4, <1>7 DEF OrderInv, AcceptedIsKept, Pending, InQueue, Recorded
<1>. QED
  BY <1>8, <1>9, <1>10, <1>11, <1>12, <1>13 DEF OrderInv

(* A request that was given up by the worker reaches the API late.         *)
LEMMA LateStep ==
  ASSUME TypeInv, OrderInv, NEW e \in Events, ApiFinishesLate(e)
  PROVE  OrderInv'
<1>1. /\ fate' = fate /\ sent' = sent /\ queue' = queue /\ inHand' = inHand
      /\ recorded' \in {recorded, Record(e)} /\ inTransit' \subseteq inTransit
      /\ MayArrive(e)
  BY DEF ApiFinishesLate, deliveryVars, OrderInv, Tried, MayArrive
<1>2. Numbered' /\ Waiting' /\ Sorted' /\ GivenUpFirst'
  BY <1>1 DEF OrderInv, Numbered, Waiting, Sorted, GivenUpFirst
<1>3. RecordedFirst' /\ RecordedInOrder'
  BY <1>1, ArrivalStep DEF RecordedFirst, RecordedInOrder
<1>4. \A x \in Events : Recorded(x) => Recorded(x)'
  BY <1>1, ArrivalStep
<1>5. inTransit \subseteq Events
  BY DEF TypeInv, TypeOK
<1>6. Tried'
  <2>. SUFFICES ASSUME NEW x \in inTransit PROVE MayArrive(x)'
    BY <1>1 DEF Tried, MayArrive
  <2>. QED
    BY <1>1, <1>4, <1>5 DEF OrderInv, Tried, MayArrive
<1>7. AcceptedIsKept'
  BY <1>1, <1>4 DEF OrderInv, AcceptedIsKept, Pending, InQueue
<1>. QED
  BY <1>2, <1>3, <1>6, <1>7 DEF OrderInv

(* The process dies: what it held is given up, what it sent may arrive.    *)
LEMMA RestartStep ==
  ASSUME TypeInv, OrderInv, Restart
  PROVE  OrderInv'
<1>1. /\ fate' = [e \in Events |-> IF Pending(e) THEN "lost" ELSE fate[e]]
      /\ queue' = <<>> /\ inHand' = NoEvent /\ recorded' = recorded /\ sent' = sent
  BY DEF Restart
<1>2. \A e \in Events : Pending(e) => fate[e] = "accepted" /\ fate'[e] = "lost"
  BY <1>1, QueueShape DEF Pending, InQueue, OrderInv, Waiting
<1>3. \A e \in Events : ~Pending(e) => fate'[e] = fate[e]
  BY <1>1
<1>4. "lost" \in GivenUp /\ "accepted" \notin GivenUp /\ "unsent" \notin GivenUp
  BY DEF GivenUp
<1>5. \A e \in Events : fate[e] \in GivenUp => fate'[e] \in GivenUp
  BY <1>2, <1>3, <1>4
<1>6. Len(queue') = 0
  BY <1>1
<1>7. Waiting' /\ Sorted' /\ GivenUpFirst'
  BY <1>1, <1>6 DEF Waiting, Sorted, GivenUpFirst
<1>8. Numbered'
  BY <1>1, <1>2, <1>3, <1>4 DEF OrderInv, Numbered
<1>9. \A n \in 1 .. Len(recorded) : recorded[n] \in Events
  BY QueueShape
<1>10. RecordedFirst'
  BY <1>1, <1>2, <1>3, <1>4, <1>6, <1>9 DEF OrderInv, RecordedFirst
<1>11. RecordedInOrder'
  BY <1>1, <1>5, <1>9 DEF OrderInv, RecordedInOrder
<1>12. Tried'
  <2>. SUFFICES ASSUME NEW e \in inTransit' PROVE MayArrive(e)'
    BY DEF Tried, MayArrive
  <2>1. CASE e \in inTransit
    <3>1. e \in Events
      BY <2>1 DEF TypeInv, TypeOK
    <3>2. queue # <<>> /\ e = queue[1].event => InQueue(e)
      BY QueueShape DEF InQueue
    <3>3. Recorded(e) \/ fate[e] \in GivenUp \/ Pending(e)
      BY <2>1, <3>2 DEF OrderInv, Tried, Pending
    <3>. QED
      BY <1>1, <1>2, <1>4, <1>5, <3>1, <3>3 DEF MayArrive, Recorded
  <2>2. CASE drain = "posting" /\ e = Head(queue).event
    <3>1. e \in Events /\ e = queue[1].event /\ 1 \in 1 .. Len(queue)
      BY <2>2, HeadIsItem DEF Item
    <3>2. Pending(e)
      BY <3>1 DEF Pending, InQueue
    <3>. QED
      BY <1>2, <1>4, <3>1, <3>2 DEF MayArrive
  <2>. QED
    BY <2>1, <2>2 DEF Restart
<1>13. AcceptedIsKept'
  <2>. SUFFICES ASSUME NEW e \in Events, fate'[e] = "accepted" PROVE Recorded(e)'
    BY DEF AcceptedIsKept
  <2>1. ~Pending(e)
    BY <1>2
  <2>2. Recorded(e)
    BY <1>3, <2>1 DEF OrderInv, AcceptedIsKept
  <2>. QED
    BY <1>1, <2>2 DEF Recorded
<1>. QED
  BY <1>7, <1>8, <1>10, <1>11, <1>12, <1>13 DEF OrderInv

LEMMA StepOrder == TypeInv /\ OrderInv /\ [Next]_vars => OrderInv'
<1>. SUFFICES ASSUME TypeInv, OrderInv, [Next]_vars PROVE OrderInv'
  OBVIOUS
<1>1. ASSUME UNCHANGED <<queue, inHand, sent, fate, inTransit, recorded>>
      PROVE  OrderInv'
  BY <1>1 DEF OrderInv, Numbered, Waiting, Sorted, GivenUpFirst, RecordedFirst, Tried,
              AcceptedIsKept, RecordedInOrder, Pending, InQueue, Recorded
<1>2. CASE LinkFails \/ Reconnect \/ Handshake \/ Subscribe \/ Stop \/ Heartbeat
           \/ HeartbeatGoesStale \/ StartSnapshot \/ FinishSnapshot \/ BackoffElapses
           \/ UNCHANGED vars
  BY <1>1, <1>2 DEF LinkFails, Reconnect, Handshake, Subscribe, Stop, Heartbeat,
     HeartbeatGoesStale, StartSnapshot, FinishSnapshot, BackoffElapses, vars, deliveryVars, apiVars
<1>3. CASE MissEvent
  <2>. QED
    BY <1>3, NewEventStep DEF MissEvent, apiVars
<1>4. CASE ReceiveEvent
  <2>1. CASE Len(queue) >= maxQueueSize
    BY <1>4, <2>1, NewEventStep DEF ReceiveEvent, apiVars
  <2>2. CASE ~(Len(queue) >= maxQueueSize)
    BY <1>4, <2>2, NewEventStep DEF ReceiveEvent, apiVars
  <2>. QED
    BY <2>1, <2>2
<1>5. CASE DrainQueue
  BY <1>2, <1>5, RetryStep, ShiftStep, DeadLetterStep DEF DrainQueue
<1>6. CASE \E e \in Events : ApiFinishesLate(e)
  BY <1>6, LateStep
<1>7. CASE Restart
  BY <1>7, RestartStep
<1>. QED
  BY <1>2, <1>3, <1>4, <1>5, <1>6, <1>7 DEF Next

(* An accepted event is never lost between two awaits of the drain loop,   *)
(* and the API records events in order but for those that were given up.   *)
THEOREM DeliverySafety == Spec => [](AcceptedIsKept /\ RecordedInOrder)
<1>1. OrderInv => AcceptedIsKept /\ RecordedInOrder
  BY DEF OrderInv
<1>. QED
  BY InitTypeInv, StepTypeInv, InitOrder, StepOrder, <1>1, PTL DEF Spec
=============================================================================
