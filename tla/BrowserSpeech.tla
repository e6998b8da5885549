--------------------------- MODULE BrowserSpeech ---------------------------
(***************************************************************************)
(* Speech synthesis in the browser: the hook useTTS makes a client         *)
(* (TTSStreamClient) for every text, the client talks to the /tts-stream   *)
(* handler of the voice agent (demo_server.py) over a socket of its own.   *)
(* Messages are on their way in `up` and `down`; a chunk in the playback   *)
(* queue is the number of the text it belongs to.                          *)
(***************************************************************************)
EXTENDS Naturals, Sequences

CONSTANTS
    Texts,          \* 1 .. n: calls of speak(), in order
    Chunks,         \* bound: audio chunks of one text
    InFlight        \* bound: messages on their way down

VARIABLES
    ui,             \* ttsStateRef
    phase,          \* per text: the await speak() is in
    sock,           \* per client: its socket
    busy,           \* per client: _isSynthesizing
    clientRef,      \* the client the hook holds, or 0
    up, down,       \* per client: messages on their way
    synth,          \* per connection: chunks the server's task still makes, or none
    queue,          \* activeSourcesRef: owners of the chunks still to be heard
    stopped         \* history: texts that were stopped, or replaced, before their end

vars == <<ui, phase, sock, busy, clientRef, up, down, synth, queue, stopped>>

NoTask == Chunks + 1
Phases == {"none", "context", "connecting", "waiting", "done"}

Init ==
    /\ ui = "idle"
    /\ phase = [k \in Texts |-> "none"]
    /\ sock = [k \in Texts |-> "none"]
    /\ busy = [k \in Texts |-> FALSE]
    /\ clientRef = 0
    /\ up = [k \in Texts |-> <<>>]
    /\ down = [k \in Texts |-> <<>>]
    /\ synth = [k \in Texts |-> NoTask]
    /\ queue = <<>>
    /\ stopped = {}

----------------------------------------------------------------------------
Send(k, m) == IF sock[k] = "open" THEN [up EXCEPT ![k] = Append(@, m)] ELSE up

\* interrupt() of the client held: `cancel` if its socket is open, and
\* finishSynthesis, which resolves the speak() that waits.
Interrupt ==
    IF clientRef = 0
    THEN UNCHANGED <<busy, up, phase, stopped>>
    ELSE /\ up' = Send(clientRef, "cancel")
         /\ busy' = [busy EXCEPT ![clientRef] = FALSE]
         /\ phase' = [phase EXCEPT ![clientRef] = IF @ = "waiting" THEN "done" ELSE @]
         /\ stopped' = stopped \cup {clientRef}

\* speak(): a state that is synthesizing or playing is cut, then a new client
\* is made; one that is still connecting is neither.
Speak(k) ==
    /\ phase[k] = "none"
    /\ \A j \in Texts : j < k => phase[j] # "none"
    /\ clientRef' = k
    /\ IF ui \in {"synthesizing", "playing"}
       THEN /\ up' = Send(clientRef, "cancel")
            /\ busy' = [busy EXCEPT ![clientRef] = FALSE]
            /\ phase' = [j \in Texts |-> IF j = k THEN "context"
                            ELSE IF j = clientRef /\ phase[j] = "waiting" THEN "done"
                            ELSE phase[j]]
            /\ stopped' = stopped \cup {clientRef}
            /\ queue' = <<>>
            /\ ui' = IF phase[clientRef] = "waiting" THEN "idle" ELSE ui
       ELSE /\ phase' = [phase EXCEPT ![k] = "context"]
            /\ UNCHANGED <<up, busy, stopped, queue, ui>>
    /\ UNCHANGED <<sock, down, synth>>

ContextReady(k) ==
    /\ phase[k] = "context"
    /\ phase' = [phase EXCEPT ![k] = "connecting"]
    /\ sock' = [sock EXCEPT ![k] = "connecting"]
    /\ UNCHANGED <<ui, busy, clientRef, up, down, synth, queue, stopped>>

\* The connection is open: the request goes out, whatever stop() did meanwhile.
Opened(k) ==
    /\ phase[k] = "connecting"
    /\ sock' = [sock EXCEPT ![k] = "open"]
    /\ busy' = [busy EXCEPT ![k] = TRUE]
    /\ ui' = "synthesizing"
    /\ up' = [up EXCEPT ![k] = Append(@, "text")]
    /\ phase' = [phase EXCEPT ![k] = "waiting"]
    /\ UNCHANGED <<clientRef, down, synth, queue, stopped>>

\* The connection fails or times out: `error`, and `idle` over it at once
\* unless something is still playing.
ConnectFails(k) ==
    /\ phase[k] = "connecting"
    /\ sock' = [sock EXCEPT ![k] = "closed"]
    /\ phase' = [phase EXCEPT ![k] = "done"]
    /\ ui' = IF queue = <<>> THEN "idle" ELSE "error"
    /\ UNCHANGED <<busy, clientRef, up, down, synth, queue, stopped>>

\* What ends a synthesis also ends the speak() that waits for it.
Finished(k, q) ==
    /\ busy' = [busy EXCEPT ![k] = FALSE]
    /\ phase' = [phase EXCEPT ![k] = IF @ = "waiting" THEN "done" ELSE @]
    /\ ui' = IF q = <<>> THEN "idle" ELSE "playing"

\* handleMessage: audio is queued whoever asked for it.
OnChunk(k) ==
    /\ sock[k] = "open"
    /\ down[k] # <<>> /\ Head(down[k]) = "chunk"
    /\ down' = [down EXCEPT ![k] = Tail(@)]
    /\ queue' = Append(queue, k)
    /\ ui' = "playing"
    /\ UNCHANGED <<phase, sock, busy, clientRef, up, synth, stopped>>

OnFinal(k) ==
    /\ sock[k] = "open"
    /\ down[k] # <<>> /\ Head(down[k]) = "final"
    /\ down' = [down EXCEPT ![k] = Tail(@)]
    /\ Finished(k, queue)
    /\ UNCHANGED <<sock, clientRef, up, synth, queue, stopped>>

\* The socket closes under a synthesis, or 30 s pass: interrupt().  The status
\* callback leaves the state alone; the speak() that returns sets it when
\* nothing plays.
Lost(k) ==
    /\ sock[k] = "open"
    /\ sock' = [sock EXCEPT ![k] = "closed"]
    /\ down' = [down EXCEPT ![k] = <<>>]
    /\ up' = [up EXCEPT ![k] = <<>>]
    /\ synth' = [synth EXCEPT ![k] = NoTask]
    /\ busy' = [busy EXCEPT ![k] = FALSE]
    /\ phase' = [phase EXCEPT ![k] = IF @ = "waiting" THEN "done" ELSE @]
    /\ ui' = IF phase[k] = "waiting" /\ queue = <<>> THEN "idle" ELSE ui
    /\ UNCHANGED <<clientRef, queue, stopped>>

TimesOut(k) ==
    /\ busy[k]
    /\ up' = Send(k, "cancel")
    /\ busy' = [busy EXCEPT ![k] = FALSE]
    /\ phase' = [phase EXCEPT ![k] = IF @ = "waiting" THEN "done" ELSE @]
    /\ ui' = IF queue = <<>> THEN "idle" ELSE ui
    /\ stopped' = stopped \cup {k}
    /\ UNCHANGED <<sock, clientRef, down, synth, queue>>

\* onended of a source.
Played ==
    /\ queue # <<>>
    /\ queue' = Tail(queue)
    /\ ui' = IF Len(queue) = 1 /\ (clientRef = 0 \/ ~busy[clientRef]) THEN "idle" ELSE ui
    /\ UNCHANGED <<phase, sock, busy, clientRef, up, down, synth, stopped>>

Stop ==
    /\ ui # "idle" \/ (clientRef # 0 /\ phase[clientRef] \in {"context", "connecting"})
    /\ Interrupt
    /\ queue' = <<>>
    /\ ui' = "idle"
    /\ UNCHANGED <<sock, clientRef, down, synth>>

----------------------------------------------------------------------------
\* handle_tts: a text starts a task, a cancel interrupts the one that runs.
ServerReads(k) ==
    /\ sock[k] = "open"
    /\ up[k] # <<>>
    /\ up' = [up EXCEPT ![k] = Tail(@)]
    /\ \/ /\ Head(up[k]) = "text"
          /\ \E n \in 0 .. Chunks : synth' = [synth EXCEPT ![k] = n]
          /\ UNCHANGED down
       \/ /\ Head(up[k]) = "cancel"
          /\ synth' = [synth EXCEPT ![k] = NoTask]
          /\ UNCHANGED down
    /\ UNCHANGED <<ui, phase, sock, busy, clientRef, queue, stopped>>

\* on_chunk, and the final that ends a task, failed or not.
ServerSends(k) ==
    /\ sock[k] = "open"
    /\ synth[k] # NoTask
    /\ Len(down[k]) < InFlight
    /\ IF synth[k] = 0
       THEN /\ synth' = [synth EXCEPT ![k] = NoTask]
            /\ down' = [down EXCEPT ![k] = Append(@, "final")]
       ELSE /\ synth' = [synth EXCEPT ![k] = @ - 1]
            /\ down' = [down EXCEPT ![k] = Append(@, "chunk")]
    /\ UNCHANGED <<ui, phase, sock, busy, clientRef, up, queue, stopped>>

Next ==
    \/ \E k \in Texts :
        \/ Speak(k) \/ ContextReady(k) \/ Opened(k) \/ ConnectFails(k)
        \/ OnChunk(k) \/ OnFinal(k) \/ Lost(k) \/ TimesOut(k)
        \/ ServerReads(k) \/ ServerSends(k)
    \/ Played \/ Stop

\* Awaits return, the server works, audio plays, the client's timer fires.
Progress ==
    \/ \E k \in Texts :
        \/ ContextReady(k) \/ Opened(k) \/ ConnectFails(k) \/ OnChunk(k) \/ OnFinal(k)
        \/ TimesOut(k) \/ ServerReads(k) \/ ServerSends(k)
    \/ Played

Spec == Init /\ [][Next]_vars

----------------------------------------------------------------------------
TypeOK ==
    /\ ui \in {"idle", "synthesizing", "playing", "error"}
    /\ phase \in [Texts -> Phases]
    /\ sock \in [Texts -> {"none", "connecting", "open", "closed"}]
    /\ busy \in [Texts -> BOOLEAN]
    /\ clientRef \in Texts \cup {0}
    /\ synth \in [Texts -> 0 .. NoTask]
    /\ \A i \in 1 .. Len(queue) : queue[i] \in Texts

\* stop() stops all that is playing and cancels the synthesis (useTTS.ts:17-19):
\* a text that was stopped is not heard afterwards.
StoppedIsSilent == \A i \in 1 .. Len(queue) : queue[i] \notin stopped

\* The page is idle only when nothing is heard, however old and new clients'
\* messages, stops and timeouts interleave: the button offered fits the sound
\* (useTTS.ts:143-148, 182-196).
IdleIsSilent == ui = "idle" => queue = <<>>

\* Every text is spoken, stopped or given up: speak() returns and the page
\* comes to rest, again and again.
SpeechReturned ==
    /\ ui # "playing"
    /\ \A k \in Texts : phase[k] \in {"none", "done"}
============================================================================
