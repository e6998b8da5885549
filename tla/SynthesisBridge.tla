---------------------------- MODULE SynthesisBridge ----------------------------
(* The streaming text-to-speech clients (tts.py, tts_qwen.py): synthesize()     *)
(* runs a child task, the child runs the blocking SDK in an executor thread,    *)
(* the SDK's callbacks push into a queue that the child consumes.  A barge-in   *)
(* cancels the child and not the caller; a hangup cancels the caller, and       *)
(* through it the child.  Runs follow each other on the same client.            *)
EXTENDS Naturals, Sequences

CONSTANTS
  Clients,   \* \subseteq {"cosyvoice", "qwen"}
  Runs,      \* calls of synthesize(): a bound of the model
  MaxAudio   \* blocks of audio per run: a bound of the model

VARIABLES
  client,
  run,        \* the current or last run
  child,      \* _synthesis_task: where it waits
  cancelReq,  \* child.cancel() has been called and not yet been delivered
  result,     \* what the child will return with, or the last run returned with
  asked,      \* barge-ins and hangups of this run
  cancelled,  \* runs whose cancel_event is set
  stopped,    \* runs whose streaming_cancel() was called while it could act
  thread,     \* run_sync of each run
  queue,      \* queue of each run
  audio,      \* blocks of audio the server has sent in this run
  answered,   \* runs that had on_complete, on_error, or their like
  handle,     \* self._synth: the run whose synthesizer it is, 0 for None
  twice       \* history: runs whose child was cancelled again while it joined its thread

vars == <<client, run, child, cancelReq, result, asked, cancelled, stopped, thread, queue,
          audio, answered, handle, twice>>

AllRuns == 1..Runs

TypeOK ==
  /\ client \in Clients
  /\ run \in 0..Runs
  /\ child \in {"none", "new", "get", "chunk", "join"}
  /\ cancelReq \in BOOLEAN
  /\ result \in {"none", "ok", "error", "cancelled"}
  /\ asked \subseteq {"barge-in", "hangup"}
  /\ cancelled \subseteq AllRuns /\ stopped \subseteq AllRuns /\ twice \subseteq AllRuns
  /\ thread \in [AllRuns -> {"none", "starting", "connecting", "waiting", "exited"}]
  /\ queue \in [AllRuns -> Seq({"audio", "finished", "error"})]
  /\ audio \in 0..MaxAudio
  /\ answered \subseteq AllRuns
  /\ handle \in 0..Runs

Init ==
  /\ client \in Clients
  /\ run = 0 /\ child = "none" /\ cancelReq = FALSE /\ result = "none" /\ asked = {}
  /\ cancelled = {} /\ stopped = {} /\ twice = {} /\ answered = {}
  /\ thread = [r \in AllRuns |-> "none"]
  /\ queue = [r \in AllRuns |-> <<>>]
  /\ audio = 0 /\ handle = 0

Cosy == client = "cosyvoice"
Push(r, item) == queue' = [queue EXCEPT ![r] = Append(@, item)]
Moves(r, where) == thread' = [thread EXCEPT ![r] = where]

childVars == <<child, cancelReq, result>>
threadVars == <<thread, queue, audio, answered, handle>>

-----------------------------------------------------------------------------
(* synthesize() and its callers                                                *)

Synthesize ==
  /\ child = "none" /\ run < Runs
  /\ run' = run + 1 /\ child' = "new" /\ result' = "none" /\ asked' = {} /\ audio' = 0
  /\ UNCHANGED <<client, cancelReq, cancelled, stopped, thread, queue, answered, handle, twice>>

\* streaming_cancel() of the synthesizer at hand; before it is started it raises and is
\* ignored.
StreamingCancel ==
  stopped' = IF Cosy /\ handle # 0 /\ thread[handle] = "waiting"
             THEN stopped \cup {handle} ELSE stopped

\* interrupt(), once per utterance of the agent.
Interrupt ==
  /\ child # "none" /\ "barge-in" \notin asked
  /\ asked' = asked \cup {"barge-in"}
  /\ cancelled' = cancelled \cup {run}
  /\ StreamingCancel
  /\ cancelReq' = TRUE
  /\ UNCHANGED <<client, run, child, result, threadVars, twice>>

\* The caller's task is cancelled; it awaits the child, which is cancelled with it.
HangUp ==
  /\ child # "none" /\ "hangup" \notin asked
  /\ asked' = asked \cup {"hangup"}
  /\ cancelReq' = TRUE
  /\ UNCHANGED <<client, run, child, result, cancelled, stopped, threadVars, twice>>

-----------------------------------------------------------------------------
(* _run_synthesis, the consumer                                                *)

Start ==
  /\ child = "new"
  /\ IF cancelReq
     THEN child' = "none" /\ result' = "cancelled" /\ UNCHANGED thread
     ELSE child' = "get" /\ Moves(run, "starting") /\ UNCHANGED result
  /\ cancelReq' = FALSE
  /\ UNCHANGED <<client, run, asked, cancelled, stopped, queue, audio, answered, handle, twice>>

Take ==
  /\ child = "get" /\ ~cancelReq /\ queue[run] # <<>>
  /\ queue' = [queue EXCEPT ![run] = Tail(@)]
  /\ CASE Head(queue[run]) = "audio"    -> child' = "chunk" /\ UNCHANGED result
       [] Head(queue[run]) = "finished" -> child' = "join" /\ result' = "ok"
       [] Head(queue[run]) = "error"    -> child' = "join" /\ result' = "error"
  /\ UNCHANGED <<client, run, cancelReq, asked, cancelled, stopped, thread, audio, answered,
                 handle, twice>>

ChunkDone ==
  /\ child = "chunk" /\ ~cancelReq
  /\ child' = "get"
  /\ UNCHANGED <<client, run, cancelReq, result, asked, cancelled, stopped, threadVars, twice>>

\* The handler of CancelledError.
Cancelled ==
  /\ child \in {"get", "chunk"} /\ cancelReq
  /\ child' = "join" /\ result' = "cancelled" /\ cancelReq' = FALSE
  /\ cancelled' = cancelled \cup {run}
  /\ StreamingCancel
  /\ UNCHANGED <<client, run, asked, threadVars, twice>>

\* Mutant: the child returns without its thread.
ReturnAtOnce ==
  /\ child = "join"
  /\ child' = "none" /\ cancelReq' = FALSE
  /\ UNCHANGED <<client, run, result, asked, cancelled, stopped, threadVars, twice>>

\* The child returns, and synthesize() with it, when its thread is done ...
Joined ==
  /\ child = "join" /\ ~cancelReq /\ thread[run] = "exited"
  /\ child' = "none"
  /\ UNCHANGED <<client, run, cancelReq, result, asked, cancelled, stopped, threadVars, twice>>

\* ... or when it is cancelled meanwhile: CancelledError is no Exception, so that it leaves
\* the finally block.  An executor job that has not begun is cancelled, too.
JoinCut ==
  /\ child = "join" /\ cancelReq
  /\ child' = "none" /\ result' = "cancelled" /\ cancelReq' = FALSE
  /\ twice' = twice \cup {run}
  /\ UNCHANGED thread \/ (thread[run] = "starting" /\ Moves(run, "exited"))
  /\ UNCHANGED <<client, run, asked, cancelled, stopped, queue, audio, answered, handle>>

-----------------------------------------------------------------------------
(* run_sync, in an executor thread, and the SDK's callbacks                    *)

Exit(r) == Moves(r, "exited") /\ handle' = IF handle = r THEN 0 ELSE handle

Register(r) ==
  /\ thread[r] = "starting"
  /\ IF r \in cancelled
     THEN Moves(r, "exited") /\ handle' = IF Cosy \/ handle = r THEN 0 ELSE handle
     ELSE Moves(r, "connecting") /\ handle' = IF Cosy THEN r ELSE handle
  /\ UNCHANGED <<client, run, childVars, asked, cancelled, stopped, queue, audio, answered, twice>>

\* The blocking connect cannot be interrupted; the event is looked at when it returns.
Connect(r) ==
  /\ thread[r] = "connecting"
  /\ IF r \in cancelled THEN Exit(r) ELSE Moves(r, "waiting") /\ UNCHANGED handle
  /\ UNCHANGED <<client, run, childVars, asked, cancelled, stopped, queue, audio, answered, twice>>

ConnectFails(r) ==
  /\ thread[r] = "connecting"
  /\ IF Cosy /\ r \in cancelled THEN UNCHANGED queue ELSE Push(r, "error")
  /\ Exit(r)
  /\ UNCHANGED <<client, run, childVars, asked, cancelled, stopped, audio, answered, twice>>

OnData(r) ==
  /\ thread[r] = "waiting" /\ r \notin answered /\ r = run /\ audio < MaxAudio
  /\ Push(r, "audio") /\ audio' = audio + 1
  /\ UNCHANGED <<client, run, childVars, asked, cancelled, stopped, thread, answered, handle, twice>>

\* on_complete, on_error; for Qwen also on_close, which pushes nothing once cancelled.
OnEnd(r) ==
  /\ thread[r] = "waiting" /\ r \notin answered
  /\ answered' = answered \cup {r}
  /\ \/ Push(r, "finished") \/ Push(r, "error")
     \/ ~Cosy /\ r \in cancelled /\ UNCHANGED queue
  /\ UNCHANGED <<client, run, childVars, asked, cancelled, stopped, thread, audio, handle, twice>>

\* streaming_complete() returned without on_complete or on_error, or it raised.
Sentinel(r) ==
  IF Cosy /\ r \notin cancelled \cup answered
  THEN Push(r, "finished") \/ Push(r, "error") ELSE UNCHANGED queue

\* The wait ends: with the answer, by streaming_cancel(), at CosyVoice's timeout, or at the
\* next look at the event, which Qwen takes twice a second.
WaitEnds(r) ==
  /\ thread[r] = "waiting"
  /\ Cosy \/ r \in answered \cup cancelled
  /\ Sentinel(r)
  /\ Exit(r)
  /\ UNCHANGED <<client, run, childVars, asked, cancelled, stopped, audio, answered, twice>>

ChildStep == Start \/ Take \/ ChunkDone \/ Cancelled \/ Joined \/ JoinCut
ThreadStep(r) == Register(r) \/ Connect(r) \/ ConnectFails(r) \/ WaitEnds(r)

Next ==
  \/ Synthesize \/ Interrupt \/ HangUp \/ ChildStep
  \/ \E r \in AllRuns : ThreadStep(r) \/ OnData(r) \/ OnEnd(r)

\* Tasks and threads that can go on do; connects return; a server that stays silent is a
\* matter of CosyVoice's timeout, for Qwen it must answer or close the connection.
Progress == ChildStep \/ \E r \in AllRuns : ThreadStep(r) \/ OnEnd(r)

Spec == Init /\ [][Next]_vars

-----------------------------------------------------------------------------
\* synthesize(): when it has returned its thread is gone, and a client never runs two
\* syntheses, unless a child was cancelled a second time while it waited for the thread.
ThreadsJoined ==
  /\ child = "none" => \A r \in AllRuns \ twice : thread[r] \in {"none", "exited"}
  /\ \A r \in AllRuns \ twice : r # run => thread[r] \in {"none", "exited"}

\* interrupt() reaches the thread that is blocked in streaming_complete(): the handle is that
\* of the current run whenever it waits there.
InterruptReaches ==
  Cosy /\ twice = {} /\ run > 0 /\ thread[run] = "waiting" => handle = run

\* A thread that is gone has left its consumer an end to find in the queue, whatever of
\* callbacks, sentinel, time-out and failed connect came last, unless the consumer is being
\* cancelled.
ConsumerIsFed ==
  child \in {"get", "chunk"} /\ ~cancelReq /\ thread[run] = "exited" =>
    \E i \in 1..Len(queue[run]) : queue[run][i] \in {"finished", "error"}

\* Every synthesize() returns: callbacks that never come, interrupts at any point, and
\* threads that are late do not leave the consumer waiting at its queue; to hold again and
\* again.
SynthesisEnded == child = "none"
=============================================================================
