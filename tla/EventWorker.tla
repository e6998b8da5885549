------------------------------ MODULE EventWorker ------------------------------
(***************************************************************************)
(* The process that carries FreeSWITCH's call events to the API            *)
(* (apps/api/src/freeswitch/freeswitch-event-worker.service.ts): an ESL    *)
(* connection that authenticates, subscribes and reconnects, and a bounded *)
(* FIFO queue in memory that one loop drains over HTTP, with back-off and  *)
(* a dead-letter file.                                                     *)
(*                                                                         *)
(* Events are numbered in the order in which FreeSWITCH sends them; other  *)
(* frames (replies, events of calls the platform does not manage, frames   *)
(* that do not parse) change nothing below but the handshake.              *)
(***************************************************************************)
EXTENDS Integers, Sequences

CONSTANTS
  MaxEvents,     \* bound on the managed events FreeSWITCH sends
  maxQueueSize,
  deliveryMaxAttempts,
  MaxRestarts    \* bound on crashes and shutdowns, each followed by a restart

ASSUME EventWorkerAssumption ==
  /\ MaxEvents \in Nat
  /\ maxQueueSize \in Nat \ {0}
  /\ deliveryMaxAttempts \in Nat \ {0}
  /\ MaxRestarts \in Nat

Events == 1 .. MaxEvents

VARIABLES
  \* memory of the process
  state,
  socket,            \* a socket exists
  reconnectTimer,    \* the timer is set
  heartbeatFresh,    \* lastHeartbeatAt is younger than heartbeatStaleMs
  deliveryHealthy,
  queue,             \* [event, attempts], oldest first
  drain,             \* what drainQueue is waiting for
  inHand,            \* the event being written to the dead letters, or NoEvent
  snapshotting,      \* a snapshot is being collected and posted
  \* outside it
  sent,              \* number of events FreeSWITCH has sent
  fate,              \* fate[e]: what the worker has done with event e
  inTransit,         \* events of requests that the worker has given up waiting for
  recorded,          \* events in the order in which the API first recorded them
  restarts

connectionVars == <<state, socket, reconnectTimer>>
deliveryVars == <<queue, drain, inHand, fate>>
apiVars == <<inTransit, recorded>>
vars == <<state, socket, reconnectTimer, heartbeatFresh, deliveryHealthy, queue, drain, inHand,
          snapshotting, sent, fate, inTransit, recorded, restarts>>

NoEvent == 0
HandshakeStates == {"connecting", "auth-request", "auth-reply", "subscribe-reply"}
ConnectedStates == HandshakeStates \cup {"subscribed"}
WorkerState == ConnectedStates \cup {"idle", "stopped"}
DrainStates == {"idle", "posting", "backoff", "deadLetter"}
GivenUp == {"deadLettered", "logged", "lost"}
Fates == {"unsent", "missed", "dropped", "accepted"} \cup GivenUp

stopped == state = "stopped"

(* onModuleInit of an enabled worker has just called connect().            *)
Init ==
  /\ state = "connecting"
  /\ socket = TRUE
  /\ reconnectTimer = FALSE
  /\ heartbeatFresh = FALSE
  /\ deliveryHealthy = TRUE
  /\ queue = <<>>
  /\ drain = "idle"
  /\ inHand = NoEvent
  /\ snapshotting = FALSE
  /\ sent = 0
  /\ fate = [e \in Events |-> "unsent"]
  /\ inTransit = {}
  /\ recorded = <<>>
  /\ restarts = 0

InQueue(e) == \E i \in 1 .. Len(queue) : queue[i].event = e
Pending(e) == InQueue(e) \/ e = inHand
Recorded(e) == \E i \in 1 .. Len(recorded) : recorded[i] = e
-----------------------------------------------------------------------------
(* disconnect() ends in scheduleReconnect(), which keeps a timer that is   *)
(* already set.  The handlers of "end" and "close" run it again for the    *)
(* same socket in the same turn of the event loop, before the timer can    *)
(* fire, and change nothing more.                                          *)
Disconnect ==
  /\ socket' = FALSE
  /\ state' = "idle"
  /\ reconnectTimer' = TRUE

(* Error, end of stream, disconnect notice, a frame that breaks the        *)
(* protocol or a reply that is not +OK, at any point of the connection.    *)
LinkFails ==
  /\ state \in ConnectedStates
  /\ Disconnect
  /\ UNCHANGED <<heartbeatFresh, deliveryHealthy, deliveryVars, snapshotting, sent, apiVars,
                 restarts>>

(* Mutant: the timer that has fired is not forgotten.                      *)
TimerStaysSet ==
  /\ reconnectTimer
  /\ ~socket
  /\ socket' = TRUE
  /\ state' = "connecting"
  /\ UNCHANGED <<reconnectTimer, heartbeatFresh, deliveryHealthy, deliveryVars, snapshotting,
                 sent, apiVars, restarts>>

(* The timer fires and connect() opens a new socket.                       *)
Reconnect ==
  /\ reconnectTimer
  /\ reconnectTimer' = FALSE
  /\ IF socket THEN UNCHANGED <<socket, state>> ELSE socket' = TRUE /\ state' = "connecting"
  /\ UNCHANGED <<heartbeatFresh, deliveryHealthy, deliveryVars, snapshotting, sent, apiVars,
                 restarts>>

(* The socket connects, then handleFrame answers the greeting and the reply *)
(* to auth.                                                                *)
Handshake ==
  /\ \/ state = "connecting" /\ state' = "auth-request"
     \/ state = "auth-request" /\ state' = "auth-reply"
     \/ state = "auth-reply" /\ state' = "subscribe-reply"
  /\ UNCHANGED <<socket, reconnectTimer, heartbeatFresh, deliveryHealthy, deliveryVars,
                 snapshotting, sent, apiVars, restarts>>

(* Mutant: the reply to the subscription starts the handshake over.        *)
SubscribeStartsOver ==
  /\ state = "subscribe-reply"
  /\ state' = "auth-request"
  /\ UNCHANGED <<socket, reconnectTimer, heartbeatFresh, deliveryHealthy, deliveryVars,
                 snapshotting, sent, apiVars, restarts>>

Subscribe ==
  /\ state = "subscribe-reply"
  /\ state' = "subscribed"
  /\ heartbeatFresh' = TRUE
  /\ UNCHANGED <<socket, reconnectTimer, deliveryHealthy, deliveryVars, snapshotting, sent,
                 apiVars, restarts>>

(* Mutant: a heartbeat says nothing about deliveries.                      *)
HeartbeatOnly ==
  /\ state = "subscribed"
  /\ heartbeatFresh' = TRUE
  /\ UNCHANGED <<connectionVars, deliveryHealthy, deliveryVars, snapshotting, sent, apiVars,
                 restarts>>

Heartbeat ==
  /\ state = "subscribed"
  /\ heartbeatFresh' = TRUE
  /\ deliveryHealthy' = (deliveryHealthy \/ queue = <<>>)
  /\ UNCHANGED <<connectionVars, deliveryVars, snapshotting, sent, apiVars, restarts>>

HeartbeatGoesStale ==
  /\ heartbeatFresh
  /\ heartbeatFresh' = FALSE
  /\ UNCHANGED <<connectionVars, deliveryHealthy, deliveryVars, snapshotting, sent, apiVars,
                 restarts>>
-----------------------------------------------------------------------------
(* FreeSWITCH sends an event while nobody is subscribed.                   *)
MissEvent ==
  /\ sent < MaxEvents
  /\ state # "subscribed"
  /\ sent' = sent + 1
  /\ fate' = [fate EXCEPT ![sent + 1] = "missed"]
  /\ UNCHANGED <<connectionVars, heartbeatFresh, deliveryHealthy, queue, drain, inHand,
                 snapshotting, apiVars, restarts>>

(* Mutant: one event too many fits into the queue.                         *)
ReceiveWhenFull ==
  /\ sent < MaxEvents
  /\ state = "subscribed"
  /\ sent' = sent + 1
  /\ Len(queue) <= maxQueueSize
  /\ fate' = [fate EXCEPT ![sent + 1] = "accepted"]
  /\ queue' = Append(queue, [event |-> sent + 1, attempts |-> 0])
  /\ drain' = IF drain = "idle" THEN "posting" ELSE drain
  /\ UNCHANGED <<connectionVars, heartbeatFresh, deliveryHealthy, inHand, snapshotting, apiVars,
                 restarts>>

(* handleFrame parses an event and enqueue() takes it, unless the queue is *)
(* full; drainQueue() starts if it is not running.                         *)
ReceiveEvent ==
  /\ sent < MaxEvents
  /\ state = "subscribed"
  /\ sent' = sent + 1
  /\ IF Len(queue) >= maxQueueSize
     THEN /\ fate' = [fate EXCEPT ![sent + 1] = "dropped"]
          /\ deliveryHealthy' = FALSE
          /\ UNCHANGED <<queue, drain>>
     ELSE /\ fate' = [fate EXCEPT ![sent + 1] = "accepted"]
          /\ queue' = Append(queue, [event |-> sent + 1, attempts |-> 0])
          /\ drain' = IF drain = "idle" THEN "posting" ELSE drain
          /\ UNCHANGED deliveryHealthy
  /\ UNCHANGED <<connectionVars, heartbeatFresh, inHand, snapshotting, apiVars, restarts>>

(* Mutant: one item per run of the loop.                                   *)
NextItemLater(rest) == "idle"

(* The head of the loop, once the queue is rest.                           *)
NextItem(rest) == IF rest # <<>> /\ ~stopped THEN "posting" ELSE "idle"

(* Mutant: the API takes a repeated event for a new one.                   *)
RecordEveryTime(e) == Append(recorded, e)

(* provider-events is idempotent per event id.                             *)
Record(e) == IF Recorded(e) THEN recorded ELSE Append(recorded, e)

PostSucceeds ==
  /\ drain = "posting"
  /\ recorded' = Record(Head(queue).event)
  /\ queue' = Tail(queue)
  /\ deliveryHealthy' = TRUE
  /\ drain' = NextItem(Tail(queue))
  /\ UNCHANGED <<connectionVars, heartbeatFresh, inHand, snapshotting, sent, fate, inTransit,
                 restarts>>

(* What the API has made of a request that did not succeed for the worker: *)
(* nothing, or it recorded the event and the reply was lost, or it is      *)
(* still busy with it when the worker's timeout strikes.                   *)
ApiUnknown(e) ==
  \/ UNCHANGED apiVars
  \/ recorded' = Record(e) /\ UNCHANGED inTransit
  \/ inTransit' = inTransit \cup {e} /\ UNCHANGED recorded

(* Mutant: the attempts of a retried event are not counted.                *)
PostRetriesForever ==
  /\ drain = "posting"
  /\ ApiUnknown(Head(queue).event)
  /\ drain' = "backoff"
  /\ deliveryHealthy' = FALSE
  /\ UNCHANGED <<connectionVars, heartbeatFresh, queue, inHand, snapshotting, sent, fate, restarts>>

(* The post fails in a way worth a retry, and the event has attempts left. *)
PostRetries ==
  /\ drain = "posting"
  /\ Head(queue).attempts + 1 < deliveryMaxAttempts
  /\ ApiUnknown(Head(queue).event)
  /\ queue' = [queue EXCEPT ![1].attempts = @ + 1]
  /\ drain' = "backoff"
  /\ deliveryHealthy' = FALSE
  /\ UNCHANGED <<connectionVars, heartbeatFresh, inHand, snapshotting, sent, fate, restarts>>

BackoffElapses ==
  /\ drain = "backoff"
  /\ drain' = NextItem(queue)
  /\ UNCHANGED <<connectionVars, heartbeatFresh, deliveryHealthy, queue, inHand, snapshotting,
                 sent, fate, apiVars, restarts>>

(* Mutant: a rejected event is shifted and forgotten.                      *)
PostForgetsEvent ==
  /\ drain = "posting"
  /\ UNCHANGED apiVars
  /\ queue' = Tail(queue)
  /\ drain' = NextItem(Tail(queue))
  /\ deliveryHealthy' = FALSE
  /\ UNCHANGED <<connectionVars, heartbeatFresh, inHand, snapshotting, sent, fate, restarts>>

(* The API rejects the event (400, 422), or its attempts are exhausted.    *)
PostGivesUp ==
  LET e == Head(queue).event
  IN  /\ drain = "posting"
      /\ \/ UNCHANGED apiVars
         \/ Head(queue).attempts + 1 >= deliveryMaxAttempts /\ ApiUnknown(e)
      /\ queue' = Tail(queue)
      /\ inHand' = e
      /\ drain' = "deadLetter"
      /\ deliveryHealthy' = FALSE
      /\ UNCHANGED <<connectionVars, heartbeatFresh, snapshotting, sent, fate, restarts>>

(* writeDeadLetter: to the file, or with its payload to the log.           *)
WriteDeadLetter(sink) ==
  /\ drain = "deadLetter"
  /\ fate' = [fate EXCEPT ![inHand] = sink]
  /\ inHand' = NoEvent
  /\ drain' = NextItem(queue)
  /\ UNCHANGED <<connectionVars, heartbeatFresh, deliveryHealthy, queue, snapshotting, sent,
                 apiVars, restarts>>

DrainQueue ==
  \/ PostSucceeds \/ PostRetries \/ PostGivesUp \/ BackoffElapses
  \/ WriteDeadLetter("deadLettered") \/ WriteDeadLetter("logged")

(* A request that the worker no longer waits for is recorded after all, or *)
(* comes to nothing.                                                       *)
ApiFinishesLate(e) ==
  /\ e \in inTransit
  /\ inTransit' = inTransit \ {e}
  /\ recorded' \in {recorded, Record(e)}
  /\ UNCHANGED <<connectionVars, heartbeatFresh, deliveryHealthy, deliveryVars, snapshotting,
                 sent, restarts>>
-----------------------------------------------------------------------------
(* publishActiveSnapshot.  It does not look at the connection again when   *)
(* the channels are listed and posted.                                     *)
StartSnapshot ==
  /\ state = "subscribed"
  /\ ~snapshotting
  /\ snapshotting' = TRUE
  /\ UNCHANGED <<connectionVars, heartbeatFresh, deliveryHealthy, deliveryVars, sent, apiVars,
                 restarts>>

FinishSnapshot ==
  /\ snapshotting
  /\ snapshotting' = FALSE
  /\ deliveryHealthy' \in {TRUE, deliveryHealthy}
  /\ UNCHANGED <<connectionVars, heartbeatFresh, deliveryVars, sent, apiVars, restarts>>

(* onModuleDestroy: the drain loop stops at its next turn.                 *)
Stop ==
  /\ ~stopped
  /\ restarts < MaxRestarts
  /\ state' = "stopped"
  /\ socket' = FALSE
  /\ reconnectTimer' = FALSE
  /\ UNCHANGED <<heartbeatFresh, deliveryHealthy, deliveryVars, snapshotting, sent, apiVars,
                 restarts>>

(* The process ends, after a shutdown or by a crash, and is started again. *)
(* Its queue is lost, the request on the wire is not.                      *)
Restart ==
  /\ restarts < MaxRestarts
  /\ restarts' = restarts + 1
  /\ fate' = [e \in Events |-> IF Pending(e) THEN "lost" ELSE fate[e]]
  /\ inTransit' = IF drain = "posting" THEN inTransit \cup {Head(queue).event} ELSE inTransit
  /\ state' = "connecting"
  /\ socket' = TRUE
  /\ reconnectTimer' = FALSE
  /\ heartbeatFresh' = FALSE
  /\ deliveryHealthy' = TRUE
  /\ queue' = <<>>
  /\ drain' = "idle"
  /\ inHand' = NoEvent
  /\ snapshotting' = FALSE
  /\ UNCHANGED <<sent, recorded>>
-----------------------------------------------------------------------------
Next ==
  \/ LinkFails \/ Reconnect \/ Handshake \/ Subscribe
  \/ Heartbeat \/ HeartbeatGoesStale
  \/ MissEvent \/ ReceiveEvent
  \/ DrainQueue
  \/ \E e \in Events : ApiFinishesLate(e)
  \/ StartSnapshot \/ FinishSnapshot
  \/ Stop \/ Restart

Spec == Init /\ [][Next]_vars

(* Posts time out, back-off ends, the timer fires, a shutdown completes.   *)
(* FreeSWITCH is up again and again, for long enough to accept, answer and *)
(* send a heartbeat: the worker itself has no timeout for a silent peer.   *)
FairSpec ==
  /\ Spec
  /\ WF_vars(DrainQueue)
  /\ WF_vars(Reconnect)
  /\ WF_vars(stopped /\ Restart)
  /\ \A s \in HandshakeStates : SF_vars(state = s /\ Handshake)
  /\ SF_vars(Subscribe)
  /\ SF_vars(Heartbeat)
-----------------------------------------------------------------------------
(* health().ready of an enabled worker.                                    *)
ready == state = "subscribed" /\ heartbeatFresh /\ deliveryHealthy

(* Every variable keeps its type, and the queue its limit.                 *)
TypeOK ==
  /\ state \in WorkerState
  /\ {socket, reconnectTimer, heartbeatFresh, deliveryHealthy, snapshotting} \subseteq BOOLEAN
  /\ queue \in Seq([event : Events, attempts : 0 .. deliveryMaxAttempts - 1])
  /\ Len(queue) <= maxQueueSize
  /\ drain \in DrainStates
  /\ inHand \in Events \cup {NoEvent}
  /\ sent \in 0 .. MaxEvents
  /\ fate \in [Events -> Fates]
  /\ inTransit \subseteq Events
  /\ recorded \in Seq(Events)
  /\ restarts \in 0 .. MaxRestarts

(* Until it is stopped, the worker has a connection or exactly one armed   *)
(* timer: it never forgets to reconnect and never reconnects twice.        *)
OneConnectionOrTimer == ~stopped => (socket = ~reconnectTimer /\ (socket <=> state # "idle"))

(* An event that was accepted is in the queue, in the hands of the dead-   *)
(* letter writer, or recorded by the API: no step of the drain loop loses  *)
(* one between two awaits.                                                 *)
AcceptedIsKept == \A e \in Events : fate[e] = "accepted" => Pending(e) \/ Recorded(e)

(* The API sees the events in the order in which they happened, retries    *)
(* and late replies included, except for those the worker has given up.    *)
RecordedInOrder ==
  \A i, j \in 1 .. Len(recorded) :
    i < j /\ recorded[i] > recorded[j] => fate[recorded[j]] \in GivenUp

(* The loop is asleep only when there is nothing to deliver.               *)
DrainsWhilePending == queue # <<>> /\ ~stopped => drain # "idle"

(* Every accepted event leaves the worker: delivered, dead-lettered, or    *)
(* lost with the process.                                                  *)
EventsSettle == \A e \in Events : Pending(e) ~> ~Pending(e)

(* However often the link fails, the worker is subscribed again.           *)
Resubscribes == []<>(state = "subscribed")

(* A failed delivery does not keep a worker without work unready for ever. *)
HealthRecovers == ~deliveryHealthy ~> deliveryHealthy
=============================================================================
