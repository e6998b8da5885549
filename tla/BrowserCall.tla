---------------------------- MODULE BrowserCall ----------------------------
(***************************************************************************)
(* A call from the browser: the hook useWebCall with its socket            *)
(* (WebCallClient) and the microphone (useAudioRecorder).  startCall is a  *)
(* chain of awaits (book the call, open the playback context, ask for the  *)
(* microphone, connect) that nothing cancels; hangup, reset and leaving    *)
(* the page release what the refs point at when they run.  Calls numbers   *)
(* the invocations of startCall; a ref holds the number of the invocation  *)
(* whose object it points at, or 0.                                        *)
(***************************************************************************)
EXTENDS Naturals, FiniteSets

CONSTANTS
    Calls,          \* bound: 1 .. n, how often the user dials
    MaxQueue,       \* bound: chunks waiting in the playback queue
    Hasty           \* the user may hang up while the call is being set up

VARIABLES
    state,          \* stateRef
    stage,          \* per invocation: the await it is in
    live,           \* invocations whose microphone tracks are running
    mic,            \* mediaStreamRef
    recorder,       \* the recorder hook's state
    socket,         \* per invocation: its WebSocket
    client,         \* clientRef
    context,        \* playbackCtxRef
    queue,          \* chunks in activeSourcesRef, not yet played
    draining,       \* drainingRef, with drainTimerRef
    ending,         \* history: the server ended this call
    clipped,        \* history: audio received before the end was cut off
    hasty           \* history: a call was given up while it was being set up

vars == <<state, stage, live, mic, recorder, socket, client, context, queue, draining,
          ending, clipped, hasty>>
histories == <<ending, clipped, hasty>>

States == {"idle", "preparing", "dialing", "in-call", "ended", "error"}
Stages == {"none", "booking", "context", "asking", "graph", "connecting", "done"}
Final == {"idle", "ended", "error"}

Init ==
    /\ state = "idle"
    /\ stage = [k \in Calls |-> "none"]
    /\ live = {}
    /\ mic = 0
    /\ recorder = "idle"
    /\ socket = [k \in Calls |-> "none"]
    /\ client = 0
    /\ context = 0
    /\ queue = 0
    /\ draining = FALSE
    /\ ending = FALSE
    /\ clipped = FALSE
    /\ hasty = FALSE

----------------------------------------------------------------------------
Reaches(k, s) == stage' = [stage EXCEPT ![k] = s]
InSetUp == \E k \in Calls : stage[k] \notin {"none", "done"}

\* useAudioRecorder.stop: cleanup releases what the refs hold.
StopMic ==
    /\ live' = live \ {mic}
    /\ mic' = 0
    /\ recorder' = "idle"

\* WebCallClient.close: the handlers come off first, so the connection that
\* was being opened never settles its promise.
CloseClient ==
    /\ socket' = [k \in Calls |-> IF k = client THEN "closed" ELSE socket[k]]
    /\ client' = 0

\* releaseResources: timer, microphone, batch, socket, playback, context.
Release ==
    /\ draining' = FALSE
    /\ StopMic
    /\ CloseClient
    /\ queue' = 0
    /\ context' = 0

FinishCall(final) ==
    /\ Release
    /\ state' = final
    /\ clipped' = (clipped \/ (ending /\ queue > 0))
    /\ ending' = FALSE

\* startCall: refused while a call is on.
StartCall(k) ==
    /\ state \in Final
    /\ stage[k] = "none"
    /\ \A j \in Calls : j < k => stage[j] # "none"
    /\ state' = "preparing"
    /\ Reaches(k, "booking")
    /\ UNCHANGED <<live, mic, recorder, socket, client, context, queue, draining,
                   histories>>

\* POST /web-demo/calls answers: the state is dialing, whatever it is by now.
Booked(k) ==
    /\ stage[k] = "booking"
    /\ state' = "dialing"
    /\ Reaches(k, "context")
    /\ UNCHANGED <<live, mic, recorder, socket, client, context, queue, draining,
                   histories>>

\* Any await that throws ends in the catch.
BookingFails(k) ==
    /\ stage[k] = "booking"
    /\ Reaches(k, "done")
    /\ FinishCall("error")
    /\ UNCHANGED hasty

Connect(k) == [socket EXCEPT ![k] = "connecting"]

\* The playback context is there; the recorder is started, and a recorder that
\* is asking or recording already returns at once.
ContextReady(k) ==
    /\ stage[k] = "context"
    /\ context' = k
    /\ IF recorder \in {"requesting", "recording"}
       THEN /\ Reaches(k, "connecting")
            /\ socket' = Connect(k)
            /\ client' = k
            /\ UNCHANGED recorder
       ELSE /\ Reaches(k, "asking")
            /\ recorder' = "requesting"
            /\ UNCHANGED <<socket, client>>
    /\ UNCHANGED <<state, live, mic, queue, draining, histories>>

\* getUserMedia grants the microphone: its tracks run from here on.
MicGranted(k) ==
    /\ stage[k] = "asking"
    /\ live' = live \cup {k}
    /\ mic' = k
    /\ Reaches(k, "graph")
    /\ UNCHANGED <<state, recorder, socket, client, context, queue, draining, histories>>

\* The audio graph is built; start() returns, and the socket is opened.
GraphBuilt(k) ==
    /\ stage[k] = "graph"
    /\ recorder' = "recording"
    /\ Reaches(k, "connecting")
    /\ socket' = Connect(k)
    /\ client' = k
    /\ UNCHANGED <<state, live, mic, context, queue, draining, histories>>

\* start() swallows a refusal: the call goes on, until the hook's effect sees
\* the recorder's error.
MicRefused(k) ==
    /\ stage[k] \in {"asking", "graph"}
    /\ live' = live \ {mic}
    /\ mic' = 0
    /\ recorder' = "error"
    /\ Reaches(k, "connecting")
    /\ socket' = Connect(k)
    /\ client' = k
    /\ UNCHANGED <<state, context, queue, draining, histories>>

MicErrorSeen ==
    /\ recorder = "error"
    /\ state \in {"dialing", "in-call"}
    /\ FinishCall("error")
    /\ UNCHANGED <<stage, hasty>>

\* onopen sends the metadata and resolves; a closed socket has no handlers.
Opens(k) ==
    /\ stage[k] = "connecting"
    /\ socket[k] = "connecting"
    /\ socket' = [socket EXCEPT ![k] = "open"]
    /\ state' = "in-call"
    /\ Reaches(k, "done")
    /\ UNCHANGED <<live, mic, recorder, client, context, queue, draining, histories>>

ConnectionFails(k) ==
    /\ stage[k] = "connecting"
    /\ socket[k] = "connecting"
    /\ live' = live \ {mic} /\ mic' = 0 /\ recorder' = "idle"
    /\ socket' = [j \in Calls |-> IF j \in {client, k} THEN "closed" ELSE socket[j]]
    /\ client' = 0 /\ queue' = 0 /\ context' = 0 /\ draining' = FALSE
    /\ state' = "error"
    /\ Reaches(k, "done")
    /\ UNCHANGED histories

----------------------------------------------------------------------------
\* playChunk needs a context; the batch goes to whatever clientRef points at.
OnAudio(k) ==
    /\ socket[k] = "open"
    /\ context # 0
    /\ queue < MaxQueue
    /\ queue' = queue + 1
    /\ UNCHANGED <<state, stage, live, mic, recorder, socket, client, context, draining,
                   histories>>

Played ==
    /\ queue > 0
    /\ queue' = queue - 1
    /\ UNCHANGED <<state, stage, live, mic, recorder, socket, client, context, draining,
                   histories>>

\* clear_audio, the agent was interrupted: only the queue goes.
ClearAudio(k) ==
    /\ socket[k] = "open"
    /\ queue > 0
    /\ queue' = 0
    /\ UNCHANGED <<state, stage, live, mic, recorder, socket, client, context, draining,
                   histories>>

\* finishCallAfterPlayback, on `end` and on a close that was not asked for:
\* microphone and socket now, the rest when the queue has been played.
ServerEnds(k) ==
    /\ socket[k] = "open"
    /\ ~draining
    /\ StopMic
    /\ socket' = [j \in Calls |-> IF j \in {client, k} THEN "closed" ELSE socket[j]]
    /\ client' = 0
    /\ IF queue = 0
       THEN /\ context' = 0
            /\ state' = "ended"
            /\ UNCHANGED <<draining, ending>>
       ELSE /\ draining' = TRUE
            /\ ending' = TRUE
            /\ UNCHANGED <<context, state>>
    /\ UNCHANGED <<stage, queue, clipped, hasty>>

\* drainTimerRef fires after what was left to play.
Settle ==
    /\ draining
    /\ queue = 0
    /\ FinishCall("ended")
    /\ UNCHANGED <<stage, hasty>>

\* An error frame, or an error of the open socket.
ServerFails(k) ==
    /\ socket[k] = "open"
    /\ live' = live \ {mic} /\ mic' = 0 /\ recorder' = "idle"
    /\ socket' = [j \in Calls |-> IF j \in {client, k} THEN "closed" ELSE socket[j]]
    /\ client' = 0 /\ queue' = 0 /\ context' = 0 /\ draining' = FALSE
    /\ state' = "error"
    /\ UNCHANGED <<stage, histories>>

\* hangup(): not in a final state.  The user's own cut is not a clip.
Hangup ==
    /\ state \notin Final
    /\ InSetUp => Hasty
    /\ Release
    /\ state' = "ended"
    /\ ending' = FALSE
    /\ hasty' = (hasty \/ InSetUp)
    /\ UNCHANGED <<stage, clipped>>

\* reset(), after a call that has ended.
Reset ==
    /\ state \in {"ended", "error"}
    /\ Release
    /\ state' = "idle"
    /\ UNCHANGED <<stage, histories>>

Next ==
    \/ \E k \in Calls :
        \/ StartCall(k) \/ Booked(k) \/ BookingFails(k) \/ ContextReady(k)
        \/ MicGranted(k) \/ GraphBuilt(k) \/ MicRefused(k)
        \/ Opens(k) \/ ConnectionFails(k)
        \/ OnAudio(k) \/ ClearAudio(k) \/ ServerEnds(k) \/ ServerFails(k)
    \/ MicErrorSeen \/ Played \/ Settle \/ Hangup \/ Reset

\* Every await returns; audio plays, timers fire and effects run meanwhile.
Awaits ==
    \E k \in Calls :
        \/ Booked(k) \/ ContextReady(k) \/ MicGranted(k) \/ GraphBuilt(k)
        \/ Opens(k) \/ ConnectionFails(k)

Timers == MicErrorSeen \/ Played \/ Settle

Spec == Init /\ [][Next]_vars

----------------------------------------------------------------------------
TypeOK ==
    /\ state \in States
    /\ stage \in [Calls -> Stages]
    /\ live \subseteq Calls
    /\ mic \in Calls \cup {0} /\ client \in Calls \cup {0} /\ context \in Calls \cup {0}
    /\ recorder \in {"idle", "requesting", "recording", "error"}
    /\ socket \in [Calls -> {"none", "connecting", "open", "closed"}]
    /\ queue \in 0 .. MaxQueue
    /\ draining \in BOOLEAN

Silent ==
    /\ live = {}
    /\ \A k \in Calls : socket[k] \notin {"connecting", "open"}
    /\ queue = 0

\* hangup() stops the microphone, closes the socket and stops the playback
\* (useWebCall.ts:18): a call that is over is silent, also when it was given
\* up while it was being set up.
OverIsSilent == state \in Final => Silent

\* The same when every call is set up before it is hung up: no ending, of the
\* server, the network, the microphone or the user, leaves the microphone
\* running or a socket open.
OverIsSilentOnceUp == state \in Final /\ ~hasty => Silent

\* The last words are played to the end: what was received before the
\* server's end is not cut off (useWebCall.ts:174-178).
LastWordsPlayed == ~clipped \/ hasty

\* One conversation at a time, unless a call was given up half way.
OneCallAtATime == hasty \/
    /\ Cardinality({k \in Calls : socket[k] \in {"connecting", "open"}}) <= 1
    /\ Cardinality(live) <= 1

\* A call that is dialled is answered or over, and its playback settles.
NotDialling == state \notin {"preparing", "dialing"}
============================================================================
