------------------------------ MODULE FlowDebug ------------------------------
(***************************************************************************)
(* Testing a flow by text: the debug panel of the flow builder             *)
(* (flow-debug-panel.tsx) and the /text-test handler of the voice agent    *)
(* (server.py).  Starts are numbered; each has a socket and a session of   *)
(* its own.  What the user types is left out.                              *)
(***************************************************************************)
EXTENDS Naturals, Sequences

CONSTANTS
    MaxRuns,        \* bound: starts
    MaxNews         \* bound: messages on their way to the panel

Runs == 1 .. MaxRuns

VARIABLES
    panel,          \* open, closed, or the page left
    ui,             \* the state of the panel
    run,            \* starts so far
    saving,         \* starts that await onSaveFlow
    sock,           \* per start: its socket
    held,           \* wsRef, the start whose socket it is, or 0
    session,        \* per start: its session on the server
    news,           \* per start: messages on their way
    shown,          \* starts with a message in the conversation
    stray           \* history: a start outlived its panel or a reset, or the panel
                    \* its page

vars == <<panel, ui, run, saving, sock, held, session, news, shown, stray>>

Init ==
    /\ panel = "open"
    /\ ui = "idle"
    /\ run = 0
    /\ saving = {}
    /\ sock = [r \in Runs |-> "none"]
    /\ held = 0
    /\ session = [r \in Runs |-> "none"]
    /\ news = [r \in Runs |-> <<>>]
    /\ shown = {}
    /\ stray = FALSE

----------------------------------------------------------------------------
\* cleanup(): close() on a socket that is still connecting makes it fail, on an
\* open one it follows the hangup.
Cleanup ==
    /\ held' = 0
    /\ sock' = [r \in Runs |->
                  IF r # held THEN sock[r]
                  ELSE IF sock[r] = "connecting" THEN "failing"
                  ELSE IF sock[r] = "open" THEN "closing" ELSE sock[r]]

\* handleStart, up to the await of onSaveFlow (saveNow, which never throws).
HandleStart ==
    /\ panel = "open" /\ ui = "idle"
    /\ run < MaxRuns
    /\ run' = run + 1
    /\ saving' = saving \cup {run'}
    /\ ui' = "saving"
    /\ UNCHANGED <<panel, sock, held, session, news, shown, stray>>

\* ... and after it, whatever has become of the panel meanwhile.
Saved(r) ==
    /\ r \in saving
    /\ saving' = saving \ {r}
    /\ sock' = [sock EXCEPT ![r] = "connecting"]
    /\ held' = r
    /\ ui' = "connecting"
    /\ UNCHANGED <<panel, run, session, news, shown, stray>>

OnOpen(r) ==
    /\ sock[r] = "connecting"
    /\ sock' = [sock EXCEPT ![r] = "open"]
    /\ ui' = "running"
    /\ UNCHANGED <<panel, run, saving, held, session, news, shown, stray>>

\* onerror, for a connection refused or closed while it was being made.
OnError(r) ==
    /\ sock[r] \in {"connecting", "failing"}
    /\ sock' = [sock EXCEPT ![r] = "closed"]
    /\ ui' = "error"
    /\ UNCHANGED <<panel, run, saving, held, session, news, shown, stray>>

\* onmessage: connected, what the agent says or does, end.
OnMessage(r) ==
    /\ sock[r] = "open"
    /\ news[r] # <<>>
    /\ news' = [news EXCEPT ![r] = Tail(@)]
    /\ shown' = IF Head(news[r]) \in {"say", "error"} THEN shown \cup {r} ELSE shown
    /\ ui' = IF Head(news[r]) = "end" THEN "ended" ELSE ui
    /\ UNCHANGED <<panel, run, saving, sock, held, session, stray>>

\* onclose: the state it tests is the one of the render that made the start, in
\* which no session ran: it changes nothing.
OnClose(r) ==
    /\ sock[r] = "closing"
    /\ sock' = [sock EXCEPT ![r] = "closed"]
    /\ UNCHANGED <<panel, ui, run, saving, held, session, news, shown, stray>>

HandleReset ==
    /\ panel = "open" /\ ui \in {"ended", "error"}
    /\ Cleanup
    /\ ui' = "idle"
    /\ shown' = {}
    /\ stray' = (stray \/ saving # {})
    /\ UNCHANGED <<panel, run, saving, session, news>>

HandleClose ==
    /\ panel = "open"
    /\ Cleanup
    /\ panel' = "closed"
    /\ stray' = (stray \/ saving # {})
    /\ UNCHANGED <<ui, run, saving, session, news, shown>>

\* The effect on `open`: a new test.
OpenPanel ==
    /\ panel = "closed"
    /\ panel' = "open"
    /\ ui' = "idle"
    /\ shown' = {}
    /\ UNCHANGED <<run, saving, sock, held, session, news, stray>>

\* Going to another page unmounts the panel; no effect closes its socket.
LeavePage ==
    /\ panel # "left"
    /\ panel' = "left"
    /\ stray' = (stray \/ saving # {} \/ held # 0)
    /\ UNCHANGED <<ui, run, saving, sock, held, session, news, shown>>

----------------------------------------------------------------------------
Room(r) == Len(news[r]) < MaxNews

\* The start frame: the flow is fetched and a session starts, or an error goes
\* out and the connection ends.
ServerStarts(r) ==
    /\ sock[r] \in {"open", "closing"}
    /\ session[r] = "none" /\ Room(r)
    /\ \/ session' = [session EXCEPT ![r] = "live"]
          /\ news' = [news EXCEPT ![r] = Append(@, "connected")]
          /\ UNCHANGED sock
       \/ session' = [session EXCEPT ![r] = "ended"]
          /\ news' = [news EXCEPT ![r] = Append(@, "error")]
          /\ sock' = [sock EXCEPT ![r] = "closing"]
    /\ UNCHANGED <<panel, ui, run, saving, held, shown, stray>>

\* The agent speaks, acts or ends the flow; the handler waits on.
ServerSends(r) ==
    /\ sock[r] = "open"
    /\ session[r] = "live" /\ Room(r)
    /\ \/ news' = [news EXCEPT ![r] = Append(@, "say")]
          /\ UNCHANGED session
       \/ news' = [news EXCEPT ![r] = Append(@, "end")]
          /\ session' = [session EXCEPT ![r] = "over"]
    /\ UNCHANGED <<panel, ui, run, saving, sock, held, shown, stray>>

\* The hangup frame or the end of the connection: end_session.
ServerEnds(r) ==
    /\ sock[r] \in {"closing", "closed"}
    /\ session[r] \in {"live", "over"}
    /\ session' = [session EXCEPT ![r] = "ended"]
    /\ UNCHANGED <<panel, ui, run, saving, sock, held, news, shown, stray>>

\* The network, or the server restarted.
Lost(r) ==
    /\ sock[r] = "open"
    /\ sock' = [sock EXCEPT ![r] = "closing"]
    /\ UNCHANGED <<panel, ui, run, saving, held, session, news, shown, stray>>

----------------------------------------------------------------------------
\* What happens to one start without the user: awaits return, events and
\* messages arrive, the server reads what it is sent.
Progress(r) ==
    \/ Saved(r) \/ OnOpen(r) \/ OnError(r) \/ OnMessage(r) \/ OnClose(r)
    \/ ServerStarts(r) \/ ServerEnds(r)

Next ==
    \/ HandleStart \/ HandleReset \/ HandleClose \/ OpenPanel \/ LeavePage
    \/ \E r \in Runs : Progress(r) \/ ServerSends(r) \/ Lost(r)

Spec == Init /\ [][Next]_vars

----------------------------------------------------------------------------
TypeOK ==
    /\ panel \in {"open", "closed", "left"}
    /\ ui \in {"idle", "saving", "connecting", "running", "ended", "error"}
    /\ run \in 0 .. MaxRuns
    /\ saving \subseteq Runs /\ shown \subseteq Runs
    /\ sock \in [Runs -> {"none", "connecting", "failing", "open", "closing", "closed"}]
    /\ held \in Runs \cup {0}
    /\ session \in [Runs -> {"none", "live", "over", "ended"}]
    /\ stray \in BOOLEAN

\* Each test is a new one: the conversation shows what one session said, the
\* last one started, whatever sockets are still closing; the exceptions are a
\* start whose panel was closed or reset while it saved, which goes on, and a
\* page left (flow-debug-panel.tsx:69-85, "每次打开都是一次全新测试").
FreshConversation == stray \/ shown \subseteq {run}

\* Sessions whose panel has let go of them come to an end
\* (flow-debug-panel.tsx:59-67, server.py:307-318); the exceptions are the same.
LetGoSessionsEnded ==
    stray \/ \A r \in Runs \ {held} : session[r] \in {"none", "ended"}
============================================================================
