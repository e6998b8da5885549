----------------------------- MODULE FlowEditor -----------------------------
(***************************************************************************)
(* Editing a flow in the dashboard: the history of the store               *)
(* (store/flow-store.ts), automatic and manual saving                      *)
(* (hooks/use-flow-storage.ts) and publishing (flow-builder.tsx).          *)
(* A content of the canvas is a number, 0 the one the page was loaded with *)
(* and k the one the k-th edit makes.                                      *)
(***************************************************************************)
EXTENDS Naturals, Sequences

CONSTANTS
    MaxEdits,       \* bound: edits made
    MaxHistory,     \* snapshots kept, 50 in the code
    MaxSaves        \* bound: requests to save under way at once

Contents == 0 .. MaxEdits
Saves == 1 .. MaxSaves

VARIABLES
    store,          \* the content on the canvas
    history, historyIndex,
    edits,          \* edits made
    lastSaved,      \* lastSavedSignatureRef
    initial,        \* the content the page was last given, initialSignature
    status,
    timer,          \* the two-second timer runs
    saves,          \* per slot: the save under way, [content, by, at]
    server,         \* the content the API holds
    published,      \* the content of the last version published
    publish,        \* how far handlePublish is, and the refresh it asks for
    fresh,          \* the content the refresh has read
    shown,          \* history: contents on the canvas since publish was clicked
    crossed         \* history: a save met another save, a refresh or an undo, or its
                    \*   answer was lost

vars == <<store, history, historyIndex, edits, lastSaved, initial, status, timer, saves,
          server, published, publish, fresh, shown, crossed>>
requests == <<saves, server, published, publish, fresh, initial>>

None == [content |-> 0, by |-> "none", at |-> "free"]

Init ==
    /\ store = 0
    /\ history = <<0>>
    /\ historyIndex = 1
    /\ edits = 0
    /\ lastSaved = 0
    /\ initial = 0
    /\ status = "idle"
    /\ timer = FALSE
    /\ saves = [s \in Saves |-> None]
    /\ server = 0
    /\ published = 0
    /\ publish = "none"
    /\ fresh = 0
    /\ shown = {}
    /\ crossed = FALSE

InFlight == {s \in Saves : saves[s] # None}

----------------------------------------------------------------------------
\* What follows a change of the canvas: the timer of the previous content is
\* cleared, and one is started unless the content is the one last saved.
Rendered(content) ==
    /\ store' = content
    /\ timer' = (content # lastSaved)
    /\ status' = IF content # lastSaved THEN "saving"
                 ELSE IF status = "saving" THEN "saved" ELSE status
    /\ shown' = IF publish = "none" THEN shown ELSE shown \cup {content}

\* pushHistory: the future is dropped, and the oldest snapshot when it is full.
PushHistory(content) ==
    LET kept == Append(SubSeq(history, 1, historyIndex), content)
    IN  IF Len(kept) > MaxHistory THEN Tail(kept) ELSE kept

\* addNode, updateNode, deleteNode, connectEdge, ...: a new content.
Edit ==
    /\ edits < MaxEdits
    /\ edits' = edits + 1
    /\ Rendered(edits + 1)
    /\ history' = PushHistory(edits + 1)
    /\ historyIndex' = Len(PushHistory(edits + 1))
    /\ UNCHANGED <<lastSaved, requests, crossed>>

\* onNodesChange, onEdgesChange: dragging and the delete key change the store
\* and leave the history alone.
Drag ==
    /\ edits < MaxEdits
    /\ edits' = edits + 1
    /\ Rendered(edits + 1)
    /\ UNCHANGED <<history, historyIndex, lastSaved, requests, crossed>>

Travel(index) ==
    /\ historyIndex' = index
    /\ Rendered(history[index])
    /\ crossed' = (crossed \/ (InFlight # {} /\ history[index] = lastSaved))
    /\ UNCHANGED <<history, edits, lastSaved, requests>>

Undo == historyIndex > 1 /\ Travel(historyIndex - 1)
Redo == historyIndex < Len(history) /\ Travel(historyIndex + 1)

----------------------------------------------------------------------------
\* updateRef.current(flowId, persistedFlow)
Send(who) ==
    \E s \in Saves \ InFlight :
        /\ saves' = [saves EXCEPT ![s] = [content |-> store, by |-> who, at |-> "sent"]]
        /\ crossed' = (crossed \/ InFlight # {} \/ publish = "refreshing")

TimerFires ==
    /\ timer
    /\ timer' = FALSE
    /\ Send("timer")
    /\ UNCHANGED <<initial, store, history, historyIndex, edits, lastSaved, status, server, published,
                   publish, fresh, shown>>

\* saveNow: nothing to do for a content already saved; otherwise the timer goes.
SaveNow(who) ==
    IF store = lastSaved
    THEN /\ status' = "saved"
         /\ crossed' = (crossed \/ InFlight # {})
         /\ UNCHANGED <<timer, saves>>
    ELSE /\ timer' = FALSE
         /\ status' = "saving"
         /\ Send(who)

\* The button, and the debug panel before a test.
SaveClicked ==
    /\ SaveNow("button")
    /\ UNCHANGED <<initial, store, history, historyIndex, edits, lastSaved, server, published, publish,
                   fresh, shown>>

\* PATCH /task-flows/:id takes effect; it may also fail before or after.
ServerSaves(s) ==
    /\ saves[s].at = "sent"
    /\ \/ /\ server' = saves[s].content
          /\ saves' = [saves EXCEPT ![s].at = "done"]
          /\ crossed' = crossed
       \/ \E applied \in BOOLEAN :
            /\ server' = IF applied THEN saves[s].content ELSE server
            /\ saves' = [saves EXCEPT ![s].at = "failed"]
            /\ crossed' = (crossed \/ applied)
    /\ UNCHANGED <<initial, store, history, historyIndex, edits, lastSaved, status, timer, published,
                   publish, fresh, shown>>

\* The await returns; saveNow swallows the error, so handlePublish goes on.
SaveReturns(s) ==
    /\ saves[s].at \in {"done", "failed"}
    /\ IF saves[s].at = "done"
       THEN lastSaved' = saves[s].content /\ status' = "saved"
       ELSE lastSaved' = lastSaved /\ status' = "error"
    /\ saves' = [saves EXCEPT ![s] = None]
    /\ publish' = IF saves[s].by = "publish" THEN "publishing" ELSE publish
    /\ crossed' = (crossed \/ (saves[s].by = "publish" /\ saves[s].at = "failed"))
    /\ UNCHANGED <<store, history, historyIndex, edits, timer, server, published, fresh, shown, initial>>

----------------------------------------------------------------------------
\* handlePublish: save, publish, refresh the page (one at a time here).
PublishClicked ==
    /\ publish = "none"
    /\ SaveNow("publish")
    /\ publish' = IF store = lastSaved THEN "publishing" ELSE "saving"
    /\ shown' = {store}
    /\ UNCHANGED <<initial, store, history, historyIndex, edits, lastSaved, server, published, fresh>>

\* POST /task-flows/:id/publish: what the API holds becomes a version, or the
\* request fails (validation, network) and the page is not refreshed.
Publishes ==
    /\ publish = "publishing"
    /\ \/ published' = server /\ publish' = "published"
       \/ published' = published /\ publish' = "none"
    /\ UNCHANGED <<initial, store, history, historyIndex, edits, lastSaved, status, timer, saves, server,
                   fresh, shown, crossed>>

\* router.refresh(): the flow is read again ...
RefreshReads ==
    /\ publish = "published"
    /\ publish' = "refreshing"
    /\ fresh' = server
    /\ crossed' = (crossed \/ InFlight # {})
    /\ UNCHANGED <<initial, store, history, historyIndex, edits, lastSaved, status, timer, saves, server,
                   published, shown>>

\* ... and takes the place of what is on the canvas, its history included.
RefreshArrives ==
    /\ publish = "refreshing"
    /\ publish' = "none"
    /\ store' = fresh
    /\ history' = <<fresh>>
    /\ historyIndex' = 1
    /\ initial' = fresh
    /\ IF fresh # initial
       THEN lastSaved' = fresh /\ status' = "idle" /\ timer' = FALSE
       ELSE /\ lastSaved' = lastSaved
            /\ timer' = (fresh # lastSaved)
            /\ status' = IF fresh # lastSaved THEN "saving"
                         ELSE IF status = "saving" THEN "saved" ELSE status
    /\ shown' = {}
    /\ UNCHANGED <<edits, saves, server, published, fresh, crossed>>

----------------------------------------------------------------------------
Next ==
    \/ Edit \/ Drag \/ Undo \/ Redo
    \/ TimerFires \/ SaveClicked
    \/ \E s \in Saves : ServerSaves(s) \/ SaveReturns(s)
    \/ PublishClicked \/ Publishes \/ RefreshReads \/ RefreshArrives

Spec == Init /\ [][Next]_vars

----------------------------------------------------------------------------
TypeOK ==
    /\ store \in Contents /\ server \in Contents
    /\ lastSaved \in Contents /\ published \in Contents /\ fresh \in Contents
    /\ history \in Seq(Contents)
    /\ Len(history) \in 1 .. MaxHistory
    /\ historyIndex \in 1 .. Len(history)
    /\ edits \in 0 .. MaxEdits
    /\ status \in {"idle", "saving", "saved", "error"}
    /\ timer \in BOOLEAN
    /\ saves \in [Saves -> [content : Contents, by : {"none", "timer", "button", "publish"},
                            at : {"free", "sent", "done", "failed"}]]
    /\ publish \in {"none", "saving", "publishing", "published", "refreshing"}
    /\ shown \subseteq Contents
    /\ crossed \in BOOLEAN

\* Once nothing is under way and no error is shown, what is on the canvas is
\* what the API holds: unless two saves, a save and an undo to the content saved
\* before it, or a save and a refresh met (use-flow-storage.ts:107-141).
QuietIsSaved ==
    InFlight = {} /\ ~timer /\ publish = "none" /\ status # "error" /\ ~crossed
        => server = store

\* What publishing makes a version of was on the canvas when the button was
\* pressed, or since (flow-builder.tsx:69-81); a failed save and saves that met
\* are the exceptions.
PublishedWasShown ==
    published' # published /\ ~crossed => published' \in shown

=============================================================================
