------------------------------ MODULE SpeechToText ------------------------------
(* The cloud recogniser's client (stt.py, DashScopeFunASRClient): one WebSocket  *)
(* per call, one task per utterance.  receive_audio drives it, one frame or one *)
(* end of speech after the other; the receive loop runs beside it and the       *)
(* server answers when it likes.  A text is the set of the frames recognised.   *)
EXTENDS Naturals, Sequences

CONSTANTS
  Utterances, FramesEach,   \* of the caller: bounds of the model
  InFlight                  \* messages on their way to the client: a bound of the model

VARIABLES
  utterance, spoken,  \* the utterance of the caller and how many of its frames were given
  rx,         \* the caller of the client: "ready", or where it awaits
  task,       \* _task_id
  runSent,    \* _run_task_sent
  started,    \* _started
  pending,    \* _pending_audio
  text,       \* _current_text
  local,      \* end_speech's own text while it waits
  rescue,     \* _flush_rescue_task_id, 0 for None
  waiter,     \* _flush_waiter: "none", "open", or answered with the text in `flush`
  flush,
  open,       \* the socket lives
  closed,     \* _closed
  server,     \* each task as the server knows it
  inbox,      \* messages of the server, in order
  finals,     \* history: the final texts reported
  carried,    \* history: utterances whose audio went into the task of a later one
  owed        \* history: tasks ended while the server had not said all it heard

vars == <<utterance, spoken, rx, task, runSent, started, pending, text, local, rescue, waiter,
          flush, open, closed, server, inbox, finals, carried, owed>>

Tasks == 1..(Utterances + 1)
Words == (1..Utterances) \X (1..FramesEach)
Frame == <<utterance, spoken + 1>>

TypeOK ==
  /\ utterance \in 1..(Utterances + 1) /\ spoken \in 0..FramesEach
  /\ rx \in {"ready", "starting", "flushing"}
  /\ task \in Tasks /\ rescue \in 0..(Utterances + 1)
  /\ runSent \in BOOLEAN /\ started \in BOOLEAN /\ open \in BOOLEAN /\ closed \in BOOLEAN
  /\ pending \in Seq(Words) /\ text \subseteq Words /\ local \subseteq Words
  /\ waiter \in {"none", "open", "answered"} /\ flush \subseteq Words
  /\ server \in [Tasks -> [state : {"none", "asked", "running", "done", "failed"},
                           finish : BOOLEAN, heard : SUBSET Words,
                           said : SUBSET Words]]
  /\ \A i \in 1..Len(inbox) : inbox[i] \in [task : Tasks, event : {"started", "finished",
                               "failed", "result"}, text : SUBSET Words, final : BOOLEAN]
  /\ finals \in Seq(SUBSET Words) /\ carried \subseteq 1..Utterances
  /\ owed \subseteq Tasks

Init ==
  /\ utterance = 1 /\ spoken = 0 /\ rx = "ready" /\ task = 1
  /\ runSent = FALSE /\ started = FALSE /\ pending = <<>> /\ text = {} /\ local = {}
  /\ rescue = 0 /\ waiter = "none" /\ flush = {} /\ open = TRUE /\ closed = FALSE
  /\ server = [t \in Tasks |-> [state |-> "none", finish |-> FALSE, heard |-> {}, said |-> {}]]
  /\ inbox = <<>> /\ finals = <<>> /\ carried = {} /\ owed = {}

callerVars == <<utterance, spoken>>
recvVars == <<text, rescue, waiter, flush, inbox>>
socketVars == <<open, closed>>

WordsOf(frames) == {frames[i] : i \in 1..Len(frames)}
Hears(t, frames) ==
  server' = [server EXCEPT ![t].heard = IF server[t].state = "running" THEN @ \cup WordsOf(frames)
                                        ELSE @]

-----------------------------------------------------------------------------
(* send_audio                                                                  *)

Buffer == pending' = Append(pending, Frame) /\ UNCHANGED server

\* What waited goes first, then the frame; a dead socket takes nothing.
Push ==
  IF open
  THEN /\ Hears(task, Append(pending, Frame))
       /\ pending' = <<>>
       /\ carried' = carried \cup ({pending[i][1] : i \in 1..Len(pending)} \ {utterance})
  ELSE Buffer /\ UNCHANGED carried

Given == spoken' = spoken + 1 /\ UNCHANGED utterance

\* The first frame of an utterance asks for a task and waits for its start.
SendFirst ==
  /\ rx = "ready" /\ ~closed /\ ~runSent /\ utterance <= Utterances /\ spoken < FramesEach
  /\ runSent' = TRUE
  /\ IF open
     THEN /\ rx' = "starting" /\ server' = [server EXCEPT ![task].state = "asked"]
          /\ UNCHANGED <<pending, callerVars>>
     ELSE Buffer /\ Given /\ UNCHANGED rx
  /\ UNCHANGED <<task, started, local, recvVars, socketVars, finals, carried>>

Started ==
  /\ rx = "starting" /\ started
  /\ Push /\ Given /\ rx' = "ready"
  /\ UNCHANGED <<task, runSent, started, local, recvVars, socketVars, finals>>

StartTimesOut ==
  /\ rx = "starting" /\ ~started
  /\ Buffer /\ Given /\ rx' = "ready"
  /\ UNCHANGED <<task, runSent, started, local, recvVars, socketVars, finals, carried>>

SendAudio ==
  /\ rx = "ready" /\ ~closed /\ runSent /\ utterance <= Utterances /\ spoken < FramesEach
  /\ IF started THEN Push ELSE Buffer /\ UNCHANGED carried
  /\ Given
  /\ UNCHANGED <<rx, task, runSent, started, local, recvVars, socketVars, finals>>

-----------------------------------------------------------------------------
(* end_speech                                                                  *)

Report(words) == finals' = IF words = {} THEN finals ELSE Append(finals, words)
NextUtterance == utterance' = utterance + 1 /\ spoken' = 0

\* Asks the server to finish, makes the client ready for the next task, and waits for the
\* last sentence.
EndSpeech ==
  /\ rx = "ready" /\ ~closed /\ spoken > 0
  /\ text' = {}
  /\ NextUtterance
  /\ IF runSent
     THEN /\ rescue' = task /\ task' = task + 1
          /\ runSent' = FALSE /\ started' = FALSE
          /\ IF open
             THEN /\ server' = [server EXCEPT ![task].finish = TRUE]
                  /\ waiter' = "open" /\ local' = text /\ rx' = "flushing"
                  /\ UNCHANGED finals
             ELSE /\ Report(text) /\ UNCHANGED <<server, waiter, local, rx>>
     ELSE Report(text) /\ UNCHANGED <<rescue, task, runSent, started, server, waiter, local, rx>>
  /\ UNCHANGED <<pending, flush, inbox, socketVars, carried>>

Returns == rx' = "ready" /\ waiter' = "none" /\ local' = {} /\ flush' = {}
Rest == <<callerVars, task, runSent, started, pending, text, socketVars, server, inbox, carried>>

FlushArrives ==
  /\ rx = "flushing" /\ waiter = "answered"
  /\ Report(IF flush # {} THEN flush ELSE local)
  /\ rescue' = IF flush # {} \/ local # {} THEN 0 ELSE rescue
  /\ Returns /\ UNCHANGED Rest

\* With a text of its own the late sentence is a duplicate; without, it is the only one, and
\* the window for it stays open.
FlushTimesOut ==
  /\ rx = "flushing" /\ waiter = "open"
  /\ Report(local)
  /\ rescue' = IF local # {} THEN 0 ELSE rescue
  /\ Returns /\ UNCHANGED Rest

\* The detector is reset in mid-utterance (suppression, barge-in): nobody ends the speech.
CutSpeech ==
  /\ rx = "ready" /\ spoken > 0
  /\ NextUtterance
  /\ carried' = carried \cup {utterance}
  /\ UNCHANGED <<rx, task, runSent, started, pending, local, recvVars, socketVars, server, finals>>

Close ==
  /\ ~closed /\ closed' = TRUE /\ started' = FALSE /\ inbox' = <<>>
  /\ UNCHANGED <<callerVars, rx, task, runSent, pending, text, local, rescue, waiter, flush,
                 open, server, finals, carried>>

-----------------------------------------------------------------------------
(* The server and the socket                                                   *)

Msg(t, event, words, final) == [task |-> t, event |-> event, text |-> words, final |-> final]
Sends(messages) == Len(inbox) < InFlight /\ inbox' = inbox \o messages
ClientVars == <<callerVars, rx, task, runSent, started, pending, text, local, rescue, waiter,
                flush, socketVars, finals, carried>>
Live == open /\ ~closed

TaskStarts(t) ==
  /\ Live /\ server[t].state = "asked"
  /\ server' = [server EXCEPT ![t].state = "running"]
  /\ Sends(<<Msg(t, "started", {}, FALSE)>>)
  /\ UNCHANGED ClientVars

\* A partial result says something new.
Hypothesis(t) ==
  /\ Live /\ server[t].state = "running" /\ server[t].heard # server[t].said
  /\ Sends(<<Msg(t, "result", server[t].heard, FALSE)>>)
  /\ server' = [server EXCEPT ![t].said = server[t].heard]
  /\ UNCHANGED ClientVars

Sentence(t) ==
  /\ Live /\ server[t].state = "running" /\ server[t].heard # {}
  /\ Sends(<<Msg(t, "result", server[t].heard, TRUE)>>)
  /\ server' = [server EXCEPT ![t].heard = {}, ![t].said = {}]
  /\ UNCHANGED ClientVars

TaskFinishes(t) ==
  /\ Live /\ server[t].state = "running" /\ server[t].finish
  /\ Sends(IF server[t].heard = {} THEN <<Msg(t, "finished", {}, FALSE)>>
           ELSE <<Msg(t, "result", server[t].heard, TRUE), Msg(t, "finished", {}, FALSE)>>)
  /\ server' = [server EXCEPT ![t].state = "done", ![t].heard = {}, ![t].said = {}]
  /\ UNCHANGED ClientVars

TaskFails(t) ==
  /\ Live /\ server[t].state \in {"asked", "running"}
  /\ Sends(<<Msg(t, "failed", {}, FALSE)>>)
  /\ server' = [server EXCEPT ![t].state = "failed"]
  /\ UNCHANGED ClientVars

SocketDies ==
  /\ Live /\ open' = FALSE /\ inbox' = <<>>
  /\ UNCHANGED <<callerVars, rx, task, runSent, started, pending, text, local, rescue, waiter,
                 flush, closed, server, finals, carried>>

-----------------------------------------------------------------------------
(* _recv_loop                                                                  *)

Current(m) == m.task = task
Rescued(m) == m.task = rescue /\ m.event = "result" /\ m.task # task

Answer(words) == waiter' = "answered" /\ flush' = words

Receive ==
  /\ Live /\ inbox # <<>> /\ inbox' = Tail(inbox)
  /\ LET m == Head(inbox)
     IN \/ /\ ~Current(m) /\ ~Rescued(m)       \* the end of the old task without a sentence
           /\ m.task = rescue /\ m.event \in {"finished", "failed"}
           /\ rescue' = 0
           /\ IF waiter = "open" THEN Answer({}) ELSE UNCHANGED <<waiter, flush>>
           /\ UNCHANGED <<started, text, finals>>
        \/ /\ ~Current(m) /\ ~Rescued(m)       \* any other event of an old task
           /\ ~(m.task = rescue /\ m.event \in {"finished", "failed"})
           /\ UNCHANGED <<rescue, waiter, flush, started, text, finals>>
        \/ /\ Rescued(m) /\ ~Current(m)        \* its last sentence
           /\ IF ~m.final
              THEN UNCHANGED <<rescue, waiter, flush, finals>>
              ELSE /\ rescue' = 0
                   /\ IF waiter = "open" THEN Answer(m.text) /\ UNCHANGED finals
                      ELSE Report(m.text) /\ UNCHANGED <<waiter, flush>>
           /\ UNCHANGED <<started, text>>
        \/ /\ Current(m) /\ m.event # "result"
           /\ started' = (started \/ m.event = "started")
           /\ UNCHANGED <<rescue, waiter, flush, text, finals>>
        \/ /\ Current(m) /\ m.event = "result"
           /\ text' = IF m.final THEN {} ELSE m.text
           /\ IF m.final THEN Report(m.text) ELSE UNCHANGED finals
           /\ UNCHANGED <<rescue, waiter, flush, started>>
  /\ UNCHANGED <<callerVars, rx, task, runSent, pending, local, socketVars, server, carried>>

Step ==
  \/ SendFirst \/ Started \/ StartTimesOut \/ SendAudio
  \/ EndSpeech \/ FlushArrives \/ FlushTimesOut \/ CutSpeech \/ Close
  \/ \E t \in Tasks : \/ TaskStarts(t) \/ Hypothesis(t) \/ Sentence(t)
                      \/ TaskFinishes(t) \/ TaskFails(t)
  \/ SocketDies \/ Receive

Owed(t) == rescue = t /\ server[t].heard # {}
Remembered == owed' = owed \cup {t \in Tasks : Owed(t)'}

Next == Step /\ Remembered

Spec == Init /\ [][Next]_vars

\* The client's coroutines run, its time-outs expire, and a server asked to finish a task does.
Progress ==
  /\ \/ Started \/ StartTimesOut \/ FlushArrives \/ FlushTimesOut \/ Receive
     \/ \E t \in Tasks : TaskStarts(t) \/ TaskFinishes(t)
  /\ Remembered

-----------------------------------------------------------------------------
(* Properties                                                                  *)

\* No word reaches the conversation twice: the server's last sentence of a task and the text
\* end_speech made of the last partial are never both reported.
NothingTwice ==
  \A i, j \in 1..Len(finals) : i # j => finals[i] \cap finals[j] = {}

\* A final is of one utterance; where it has words of an earlier one, that one's audio stayed
\* in the task or in the buffer because nobody ended it or its task never started.
OneUtterancePerFinal ==
  \A i \in 1..Len(finals) : \A v, w \in finals[i] : v[1] < w[1] => v[1] \in carried

\* A sentence the server still owes when end_speech is called is reported, by end_speech or,
\* if it comes late and is all there is of the utterance, by the receive loop; what ends the
\* window is another end_speech, a failing task, the socket or the call.  To come to hold.
OwedIsReported ==
  \A t \in owed :
    \/ ~Live \/ task > t + 1 \/ server[t].state = "failed"
    \/ \E i \in 1..Len(finals) : \E w \in finals[i] : w[1] \in {t} \cup carried
=============================================================================
