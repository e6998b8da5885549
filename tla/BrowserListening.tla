-------------------------- MODULE BrowserListening --------------------------
(***************************************************************************)
(* Speech recognition in the browser: the hook useASR, its client          *)
(* ASRStreamClient with automatic reconnection, and the /asr-stream        *)
(* handler (demo_server.py).  One start(): sockets are numbered in the     *)
(* order they are opened, `ws` is the one the client holds; each has a     *)
(* five-second timer of its own, cleared only when that socket opens,      *)
(* which looks at whatever socket the client holds by then.                *)
(***************************************************************************)
EXTENDS Naturals

CONSTANTS
    MaxSockets,     \* bound: connections opened
    MaxRetries      \* config.maxRetries

Sockets == 1 .. MaxSockets

VARIABLES
    ui,             \* asrStateRef
    opened,         \* sockets opened so far
    sock,           \* per socket: its state
    ws,             \* the socket held, or 0
    timer,          \* sockets whose five-second timer runs
    retryCount, reconnectTimer, intentional,
    start,          \* the await start() is in
    mic,            \* the microphone is being captured
    speaking,       \* isSpeaking as shown
    voice,          \* per socket: the state of the server's VAD
    news,           \* per socket: the vad_state on its way, or none
    retried         \* history: the client has reconnected

vars == <<ui, opened, sock, ws, timer, retryCount, reconnectTimer, intentional, start, mic,
          speaking, voice, news, retried>>
server == <<voice, news>>

Init ==
    /\ ui = "idle"
    /\ opened = 0
    /\ sock = [i \in Sockets |-> "none"]
    /\ ws = 0
    /\ timer = {}
    /\ retryCount = 0
    /\ reconnectTimer = FALSE
    /\ intentional = FALSE
    /\ start = "none"
    /\ mic = FALSE
    /\ speaking = FALSE
    /\ voice = [i \in Sockets |-> FALSE]
    /\ news = [i \in Sockets |-> "none"]
    /\ retried = FALSE

----------------------------------------------------------------------------
\* connect(): a socket, and a timer for it.
NewSocket ==
    /\ opened < MaxSockets
    /\ opened' = opened + 1
    /\ sock' = [sock EXCEPT ![opened + 1] = "connecting"]
    /\ ws' = opened + 1
    /\ timer' = timer \cup {opened + 1}
    /\ intentional' = FALSE

\* start(): refused unless idle or in error; a client of its own, so that what
\* an earlier client left behind no longer reaches the hook.
Start ==
    /\ ui \in {"idle", "error"}
    /\ start = "none"
    /\ NewSocket
    /\ ui' = "connecting"
    /\ start' = "connecting"
    /\ UNCHANGED <<retryCount, reconnectTimer, mic, speaking, server, retried>>

\* onopen: connect() resolves, for the first socket into start(), which goes on
\* to the microphone; for a later one into scheduleReconnect, which ignores it.
Opened(i) ==
    /\ sock[i] = "connecting"
    /\ sock' = [sock EXCEPT ![i] = "open"]
    /\ timer' = timer \ {i}
    /\ retryCount' = 0
    /\ ui' = "listening"
    /\ start' = IF i = 1 /\ start = "connecting" THEN "microphone" ELSE start
    /\ UNCHANGED <<opened, ws, reconnectTimer, intentional, mic, speaking, server, retried>>

\* recorder.start() returns; it swallows a refusal.
MicrophoneOn ==
    /\ start = "microphone"
    /\ start' = "done"
    /\ mic' \in BOOLEAN
    /\ UNCHANGED <<ui, opened, sock, ws, timer, retryCount, reconnectTimer, intentional,
                   speaking, server, retried>>

\* onerror, always followed by onclose.
Errs(i) ==
    /\ sock[i] \in {"connecting", "open"}
    /\ sock' = [sock EXCEPT ![i] = "closing"]
    /\ ui' = "error"
    /\ UNCHANGED <<opened, ws, timer, retryCount, reconnectTimer, intentional, start, mic,
                   speaking, server, retried>>

ServerCloses(i) ==
    /\ sock[i] \in {"connecting", "open"}
    /\ sock' = [sock EXCEPT ![i] = "closing"]
    /\ UNCHANGED <<ui, opened, ws, timer, retryCount, reconnectTimer, intentional, start,
                   mic, speaking, server, retried>>

\* onclose: schedule a reconnection, or be disconnected.
OnClose(i) ==
    /\ sock[i] = "closing"
    /\ sock' = [sock EXCEPT ![i] = "closed"]
    /\ news' = [news EXCEPT ![i] = "none"]
    /\ IF ~intentional /\ retryCount < MaxRetries
       THEN /\ retryCount' = retryCount + 1
            /\ ui' = "reconnecting"
            /\ reconnectTimer' = TRUE
       ELSE /\ ui' = "idle"
            /\ UNCHANGED <<retryCount, reconnectTimer>>
    /\ UNCHANGED <<opened, ws, timer, intentional, start, mic, speaking, voice, retried>>

\* connect() again, unless the socket held is connecting or open.
Reconnect ==
    /\ reconnectTimer
    /\ reconnectTimer' = FALSE
    /\ IF ws # 0 /\ sock[ws] \in {"connecting", "open"}
       THEN UNCHANGED <<ui, opened, sock, ws, timer, intentional, retried>>
       ELSE NewSocket /\ ui' = "connecting" /\ retried' = TRUE
    /\ UNCHANGED <<retryCount, start, mic, speaking, server>>

\* The timer of socket i closes the socket held if that is connecting, and
\* rejects the connect() of i: start() ends in an error.
ConnectTimeout(i) ==
    /\ i \in timer
    /\ timer' = timer \ {i}
    /\ IF ws # 0 /\ sock[ws] = "connecting"
       THEN /\ sock' = [sock EXCEPT ![ws] = "closing"]
            /\ ui' = "error"
            /\ start' = IF i = 1 /\ start = "connecting" THEN "done" ELSE start
       ELSE UNCHANGED <<sock, ui, start>>
    /\ UNCHANGED <<opened, ws, retryCount, reconnectTimer, intentional, mic, speaking,
                   server, retried>>

\* stop(), and leaving the page: what is buffered is sent, the microphone and
\* the connection go.  The chain of start() is not cancelled.
Stop ==
    /\ ui # "idle"
    /\ intentional' = TRUE
    /\ reconnectTimer' = FALSE
    /\ sock' = [i \in Sockets |->
                  IF i = ws /\ sock[i] \in {"connecting", "open"} THEN "closing" ELSE sock[i]]
    /\ ws' = 0
    /\ mic' = FALSE
    /\ speaking' = FALSE
    /\ ui' = "idle"
    /\ start' = IF start = "microphone" THEN "microphone" ELSE "done"
    /\ UNCHANGED <<opened, timer, retryCount, server, retried>>

----------------------------------------------------------------------------
\* handle_asr: what the VAD says of a frame is pushed when it changes; frames
\* come only from a microphone that runs, over the socket held.
Frame(i, now) ==
    /\ ws = i /\ mic
    /\ sock[i] = "open"
    /\ voice[i] # now
    /\ news[i] = "none"
    /\ voice' = [voice EXCEPT ![i] = now]
    /\ news' = [news EXCEPT ![i] = IF now THEN "speaking" ELSE "silent"]
    /\ UNCHANGED <<ui, opened, sock, ws, timer, retryCount, reconnectTimer, intentional,
                   start, mic, speaking, retried>>

\* endSentence(): is_speaking false; the server ends the utterance.
EndSentence(i) ==
    /\ ws = i
    /\ sock[i] = "open"
    /\ voice[i]
    /\ news[i] = "none"
    /\ voice' = [voice EXCEPT ![i] = FALSE]
    /\ news' = [news EXCEPT ![i] = "silent"]
    /\ UNCHANGED <<ui, opened, sock, ws, timer, retryCount, reconnectTimer, intentional,
                   start, mic, speaking, retried>>

OnVadState(i) ==
    /\ sock[i] = "open"
    /\ news[i] # "none"
    /\ speaking' = (news[i] = "speaking")
    /\ news' = [news EXCEPT ![i] = "none"]
    /\ UNCHANGED <<ui, opened, sock, ws, timer, retryCount, reconnectTimer, intentional,
                   start, mic, voice, retried>>

Next ==
    \/ Start \/ MicrophoneOn \/ Reconnect \/ Stop
    \/ \E i \in Sockets :
        \/ Opened(i) \/ Errs(i) \/ ServerCloses(i) \/ OnClose(i) \/ ConnectTimeout(i)
        \/ \E now \in BOOLEAN : Frame(i, now)
        \/ EndSentence(i) \/ OnVadState(i)

\* Awaits return, timers fire, the browser delivers its events.
Progress ==
    \/ MicrophoneOn \/ Reconnect
    \/ \E i \in Sockets : Opened(i) \/ OnClose(i) \/ ConnectTimeout(i) \/ OnVadState(i)

Spec == Init /\ [][Next]_vars

----------------------------------------------------------------------------
TypeOK ==
    /\ ui \in {"idle", "connecting", "listening", "reconnecting", "error"}
    /\ opened \in 0 .. MaxSockets
    /\ sock \in [Sockets -> {"none", "connecting", "open", "closing", "closed"}]
    /\ ws \in Sockets \cup {0}
    /\ timer \subseteq Sockets
    /\ retryCount \in 0 .. MaxRetries
    /\ start \in {"none", "connecting", "microphone", "done"}
    /\ news \in [Sockets -> {"none", "speaking", "silent"}]

\* start() connects and then opens the microphone (useASR.ts:9-10): a page that
\* says it listens has got as far as the microphone.
ListeningHasMicrophone == ui = "listening" => start \in {"microphone", "done"} /\ ws # 0

\* The same unless the first connection failed: then the client reconnects, but
\* start() never hears of it and the microphone stays off
\* (voice-agent-client.ts:93-113, useASR.ts:148-166).
ListeningHasMicrophoneAtFirst == retried \/ ListeningHasMicrophone

\* After stop() no connection is opened again and none stays open, whatever
\* timers and closes are still to come (voice-agent-client.ts:130-142).
StoppedStaysClosed ==
    intentional => ws = 0 /\ ~reconnectTimer
                   /\ \A i \in Sockets : sock[i] \notin {"connecting", "open"}

\* The page never stays in a state of transition: it comes to listen, give up
\* or be idle, as long as there are connections left to open.
ConnectionSettled == ui \in {"listening", "idle", "error"} \/ opened = MaxSockets
============================================================================
