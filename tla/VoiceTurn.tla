------------------------------ MODULE VoiceTurn ------------------------------
(* The calls of one voice-agent process: audio connection, session coroutine  *)
(* (greet, listen, think, speak), barge-in from recognised speech, the pump   *)
(* that paces audio to the phone, and the text-to-speech client and the ESL   *)
(* connection, which the calls share.  An action is a stretch of a coroutine  *)
(* between two awaits, or a handler without one.                              *)
EXTENDS Integers, SequencesExt

CONSTANTS
  Calls,          \* calls that may connect
  Channels,       \* \subseteq {"web", "freeswitch"}
  MaxTurns,       \* max_turns of the built-in loop; for a flow a bound of the model
  MaxUtterances,  \* utterances a caller ends: a bound of the model
  MaxChunks,      \* chunks queued in the pump: a bound of the model
  NoCall

ASSUME VoiceTurnAssumption ==
  /\ Channels \subseteq {"web", "freeswitch"}
  /\ MaxTurns \in Nat \ {0} /\ MaxUtterances \in Nat /\ MaxChunks \in Nat \ {0}
  /\ NoCall \notin Calls

VARIABLES
  call,    \* what the process keeps for each call
  synth,   \* _synthesis_task of the shared client: who awaits it, and its state
  esl      \* commands on the shared ESL connection, in the order of its lock

vars == <<call, synth, esl>>

Utterances == 1..MaxUtterances
Turns == 1..MaxTurns + 1
NoStream == [queued |-> 0, at |-> "none", last |-> FALSE]
Idle == [by |-> NoCall, state |-> "none"]

Call == [
  channel : Channels,
  conn : {"none", "open", "closing", "closed"},    \* _handle_audio_stream
  session : {"none", "loading", "announce", "synth", "drain", "listen", "think",
             "report", "unwind", "over"},          \* where the session task waits
  result : {"none", "ok", "failed", "cancelled"},  \* how it ended
  cancelled : BOOLEAN,                             \* session_task.cancelling() > 0
  ended : BOOLEAN,                                 \* _ended
  rounds : 0..MaxTurns,                            \* listening rounds begun
  turn : 0..MaxTurns + 1,                          \* agent utterances: the speak token
  speaking : {"no", "yes", "cut"},                 \* _speaking: absent, True, False
  reference : {"none", "playing", "tail"},         \* _tts_reference_text and _until
  waiter : {"none", "pending", "done"},            \* _endpoint_waiters
  got : 0..MaxUtterances,                          \* result of a done waiter; 0: empty
  injected : Seq(Utterances),                      \* _injected_text
  latched : BOOLEAN,                               \* _partial_barge_in_active
  evidence : BOOLEAN,                              \* _semantic_echo_evidence
  begun : {"none", "old", "new"},                  \* _utterance_started_at, against
                                                   \*   the start of this turn
  vad : BOOLEAN,                                   \* VAD in speech
  pending : BOOLEAN,                               \* audio sent since end_speech
  ends : 0..MaxUtterances,                         \* end_speech sent
  finals : 0..MaxUtterances,                       \* finals received or omitted
  stream : [queued : 0..MaxChunks, last : BOOLEAN,
            at : {"none", "get", "write", "esl", "dead"}], \* _PacedStream
  breaking : BOOLEAN,                              \* on_interrupted is scheduled
  phone : SUBSET Turns,                            \* turns sent there and not broken off
  hungUp : BOOLEAN,                                \* the API was asked to hang up
  answered : 0..MaxUtterances,                     \* history: last taken as user text
  kept : SUBSET Utterances,                        \* history: accepted, not yet taken
  cuts : 0..2,                                     \* history: by the utterance that the
                                                   \*   next final is about
  cutTurns : SUBSET Turns]                         \* history: turns cut by the caller

TypeOK ==
  /\ call \in [Calls -> Call]
  /\ synth \in [by : Calls \cup {NoCall}, state : {"none", "run", "cut"}]
  /\ esl \in Seq([cmd : {"broadcast", "break"}, call : Calls, turn : 0..MaxTurns + 1])

NewCall(ch) == [
  channel |-> ch, conn |-> "none", session |-> "none", result |-> "none",
  cancelled |-> FALSE, ended |-> FALSE, rounds |-> 0, turn |-> 0, speaking |-> "no",
  reference |-> "none", waiter |-> "none", got |-> 0, injected |-> <<>>,
  latched |-> FALSE, evidence |-> FALSE, begun |-> "none", vad |-> FALSE,
  pending |-> FALSE, ends |-> 0, finals |-> 0, stream |-> NoStream,
  breaking |-> FALSE, phone |-> {}, hungUp |-> FALSE, answered |-> 0,
  kept |-> {}, cuts |-> 0, cutTurns |-> {}]

Init ==
  /\ call \in [Calls -> {NewCall(ch) : ch \in Channels}]
  /\ synth = Idle
  /\ esl = <<>>

Become(c, r) == call' = [call EXCEPT ![c] = r]

-----------------------------------------------------------------------------
(* Barge-in                                                                   *)

\* interrupt() of the client cancels the child task under way, whoever awaits it.
InterruptSynthesis(s) == IF s.state = "run" THEN [s EXCEPT !.state = "cut"] ELSE s

\* _interrupt_speaking does nothing unless the call is speaking.
Interrupted(r) ==
  IF r.speaking = "yes"
  THEN [r EXCEPT !.speaking = "cut", !.breaking = TRUE,
                 !.cutTurns = @ \cup {r.turn}]
  ELSE r

\* The same, when it is recognised speech that interrupts.
CutBySpeech(r) ==
  [Interrupted(r) EXCEPT !.cuts = IF r.speaking = "yes" /\ @ < 2 THEN @ + 1 ELSE @]

SynthesisAfter(r) == IF r.speaking = "yes" THEN InterruptSynthesis(synth) ELSE synth

\* _cancel_stream: the pump ends and what it has not sent is dropped.
CancelStream(r) == [r EXCEPT !.stream = NoStream]

\* Mutant: the stream goes on.
OnInterruptedOnly(c) ==
  LET r == call[c] IN
  /\ r.breaking
  /\ Become(c, [r EXCEPT !.breaking = FALSE,
                         !.phone = IF r.channel = "web" THEN {} ELSE @])
  /\ esl' = IF r.channel = "web" THEN esl
            ELSE Append(esl, [cmd |-> "break", call |-> c, turn |-> r.turn])
  /\ UNCHANGED synth

\* on_interrupted: cancel the stream, then empty the queue at the other end.
OnInterrupted(c) ==
  LET r == call[c] IN
  /\ r.breaking
  /\ Become(c, [CancelStream(r) EXCEPT !.breaking = FALSE,
                         !.phone = IF r.channel = "web" THEN {} ELSE @])
  /\ esl' = IF r.channel = "web" THEN esl
            ELSE Append(esl, [cmd |-> "break", call |-> c, turn |-> r.turn])
  /\ UNCHANGED synth

-----------------------------------------------------------------------------
(* The session coroutine                                                      *)

\* Mutant: text that came while the agent spoke is not looked at.
ListeningPastBuffer(r) ==
  IF r.ended \/ r.rounds = MaxTurns
  THEN [r EXCEPT !.session = "report", !.waiter = "none", !.got = 0]
  ELSE [r EXCEPT !.session = "listen", !.rounds = @ + 1, !.waiter = "pending",
                 !.got = 0]

\* Mutant: max_turns is not looked at.
ListeningForEver(r) ==
  IF r.ended
  THEN [r EXCEPT !.session = "report", !.waiter = "none", !.got = 0]
  ELSE [r EXCEPT !.session = "listen", !.rounds = @ + 1, !.waiter = "pending",
                 !.got = 0]

\* The head of _conversation_loop up to its next await: end, take buffered text,
\* or wait.  A flow's dialog node waits in the same way.
Listening(r) ==
  IF r.ended \/ r.rounds = MaxTurns
  THEN [r EXCEPT !.session = "report", !.waiter = "none", !.got = 0]
  ELSE IF r.injected # <<>>
  THEN [r EXCEPT !.session = "think", !.rounds = @ + 1, !.waiter = "none", !.got = 0,
                 !.answered = Last(r.injected), !.kept = @ \ Range(r.injected),
                 !.injected = <<>>]
  ELSE [r EXCEPT !.session = "listen", !.rounds = @ + 1, !.waiter = "pending",
                 !.got = 0]

Failing(r, how) == [r EXCEPT !.session = "unwind", !.result = how,
                             !.waiter = "none", !.got = 0]

\* The finally of _speak.
SpeakOver(r, completed) ==
  [r EXCEPT !.speaking = "no",
            !.reference = IF completed /\ r.speaking = "yes" /\ @ # "none"
                          THEN "tail" ELSE "none"]

Connect(c) ==
  /\ call[c].conn = "none"
  /\ Become(c, [call[c] EXCEPT !.conn = "open", !.session = "loading"])
  /\ UNCHANGED <<synth, esl>>

\* get_task, update_status, then start_session up to on_agent_speech(greeting).
LoadTask(c) ==
  /\ call[c].session = "loading"
  /\ Become(c, [call[c] EXCEPT !.session = "announce"])
  /\ UNCHANGED <<synth, esl>>

\* on_agent_speech has returned; a client that is synthesising refuses another text.
BeginSpeak(c) ==
  LET r == [call[c] EXCEPT !.turn = @ + 1,
              !.begun = IF @ = "none" THEN @ ELSE "old"] IN
  /\ call[c].session = "announce"
  /\ ~call[c].breaking             \* scheduled before the reply to on_agent_speech
  /\ \/ /\ synth = Idle
        /\ synth' = [by |-> c, state |-> "run"]
        /\ Become(c, [r EXCEPT !.session = "synth", !.speaking = "yes",
                        !.reference = IF r.channel = "web" THEN "playing" ELSE "none"])
     \/ /\ synth # Idle
        /\ synth' = synth
        /\ Become(c, Failing(SpeakOver(r, FALSE), "failed"))
  /\ UNCHANGED esl

\* on_chunk: late data of an interrupted utterance is ignored; a pump that died is
\* replaced.
Chunk(c) ==
  LET r == call[c] IN
  /\ synth = [by |-> c, state |-> "run"] /\ r.speaking = "yes"
  /\ r.stream.queued < MaxChunks
  /\ Become(c, IF r.stream.at \in {"none", "dead"}
               THEN [r EXCEPT !.stream = [NoStream EXCEPT !.queued = 1, !.at = "get"]]
               ELSE [r EXCEPT !.stream.queued = @ + 1])
  /\ UNCHANGED <<synth, esl>>

\* Mutant: the sentinel is not sent.
SynthesisDoneSilently(c) ==
  LET r == call[c] IN
  /\ synth = [by |-> c, state |-> "run"]
  /\ synth' = Idle
  /\ Become(c, IF r.stream.at = "none" THEN Listening(SpeakOver(r, TRUE))
               ELSE [r EXCEPT !.session = "drain"])
  /\ UNCHANGED esl

\* synthesize returns and on_audio_output_complete waits for the pump, if there is one;
\* one that died raises.
SynthesisDone(c) ==
  LET r == call[c] IN
  /\ synth = [by |-> c, state |-> "run"]
  /\ synth' = Idle
  /\ Become(c, CASE r.stream.at = "none" -> Listening(SpeakOver(r, TRUE))
                 [] r.stream.at = "dead" ->
                      Failing(SpeakOver([r EXCEPT !.stream = NoStream], FALSE), "failed")
                 [] OTHER -> [r EXCEPT !.session = "drain", !.stream.last = TRUE])
  /\ UNCHANGED esl



SynthesisFails(c) ==
  /\ synth = [by |-> c, state |-> "run"]
  /\ synth' = Idle
  /\ Become(c, Failing(SpeakOver(call[c], FALSE), "failed"))
  /\ UNCHANGED esl

\* CancelledError in _speak: a task that is being cancelled passes it on, else it
\* was a barge-in and the conversation continues.
Swallowed(r) == IF r.cancelled THEN Failing(SpeakOver(r, FALSE), "cancelled")
                ELSE Listening(SpeakOver(r, FALSE))

\* The cancelled child has unwound and joined its thread.
SynthesisCut(c) ==
  /\ synth = [by |-> c, state |-> "cut"]
  /\ synth' = Idle
  /\ Become(c, Swallowed(call[c]))
  /\ UNCHANGED esl

\* The pump that on_audio_output_complete awaits was cancelled.
DrainCut(c) ==
  /\ call[c].session = "drain" /\ call[c].stream.at = "none"
  /\ Become(c, Swallowed(call[c]))
  /\ UNCHANGED <<synth, esl>>

\* The final's text, or "" from a final without text, wakes the session.
Heard(c) ==
  LET r == call[c] IN
  /\ r.session = "listen" /\ r.waiter = "done"
  /\ Become(c, IF r.ended \/ r.got = 0 THEN Listening(r)
               ELSE [r EXCEPT !.session = "think", !.waiter = "none", !.got = 0,
                              !.answered = r.got, !.kept = @ \ {r.got}])
  /\ UNCHANGED <<synth, esl>>

\* The silence timeout.  The built-in loop listens again, a flow may prompt.
Timeout(c) ==
  LET r == call[c] IN
  /\ r.session = "listen" /\ r.waiter = "pending"
  /\ \/ Become(c, Listening(r))
     \/ Become(c, [r EXCEPT !.session = "think", !.waiter = "none"])
  /\ UNCHANGED <<synth, esl>>

\* Transcript, retrieval, model and tools return: a reply, nothing to say, an escalation
\* with or without a farewell, an error; a flow may also end.
Think(c) ==
  LET r == call[c]
      Reply(s) == [s EXCEPT !.session = "announce"] IN
  /\ r.session = "think"
  /\ \/ r.turn <= MaxTurns /\ Become(c, Reply(r))
     \/ Become(c, Listening(r))
     \/ r.turn <= MaxTurns /\ Become(c, Reply([r EXCEPT !.ended = TRUE]))
     \/ Become(c, Listening([r EXCEPT !.ended = TRUE]))
     \/ Become(c, Failing(r, "failed"))
  /\ UNCHANGED <<synth, esl>>

\* set_outcome, then on_end: a web call is hung up before the end frame, or the
\* session fails.
Report(c) ==
  LET r == call[c] IN
  /\ r.session = "report"
  /\ \/ Become(c, [r EXCEPT !.session = "unwind", !.result = "ok",
                            !.hungUp = @ \/ r.channel = "web"])
     \/ r.channel = "web" /\ Become(c, Failing(r, "failed"))
  /\ UNCHANGED <<synth, esl>>

\* Mutant: the pump goes on after the session.
UnwindOnly(c) ==
  /\ call[c].session = "unwind"
  /\ Become(c, [call[c] EXCEPT !.session = "over"])
  /\ UNCHANGED <<synth, esl>>

\* cancel_playback, in the finally of _start_agent_session.
Unwind(c) ==
  /\ call[c].session = "unwind"
  /\ Become(c, [CancelStream(call[c]) EXCEPT !.session = "over"])
  /\ UNCHANGED <<synth, esl>>

-----------------------------------------------------------------------------
(* Audio to the phone                                                         *)

\* The pump takes a chunk: a browser has it at once, for the phone a file is written.
PumpTakes(c) ==
  LET r == call[c] IN
  /\ r.stream.at = "get" /\ r.stream.queued > 0
  /\ Become(c, IF r.channel = "web"
               THEN [r EXCEPT !.stream.queued = @ - 1, !.phone = @ \cup {r.turn}]
               ELSE [r EXCEPT !.stream.queued = @ - 1, !.stream.at = "write"])
  /\ UNCHANGED <<synth, esl>>

\* The file is written and its uuid_broadcast waits for the lock.
PumpBroadcasts(c) ==
  LET r == call[c] IN
  /\ r.stream.at = "write"
  /\ Become(c, [r EXCEPT !.stream.at = "esl"])
  /\ esl' = Append(esl, [cmd |-> "broadcast", call |-> c, turn |-> r.turn])
  /\ UNCHANGED synth

\* One command of the shared connection runs.  A caller that was cancelled leaves its
\* exchange to finish; a pump whose exchange fails dies with the error.
EslExchange ==
  LET x == Head(esl)
      r == call[x.call]
      waits == r.stream.at = "esl" /\ x.turn = r.turn
               /\ ~\E i \in 2..Len(esl) : esl[i] = x IN
  /\ esl # <<>>
  /\ esl' = Tail(esl)
  /\ IF x.cmd = "break"
     THEN Become(x.call, [r EXCEPT !.phone = {}])
     ELSE \/ Become(x.call,
               [r EXCEPT !.phone = IF r.conn = "closed" THEN @ ELSE @ \cup {x.turn},
                         !.stream.at = IF waits THEN "get" ELSE @])
          \/ Become(x.call,
               IF waits /\ r.session = "drain"
               THEN Failing(SpeakOver([r EXCEPT !.stream = NoStream], FALSE), "failed")
               ELSE IF waits THEN [r EXCEPT !.stream.at = "dead"] ELSE r)
  /\ UNCHANGED synth

\* The sentinel: the pump has waited until what it sent has been played.
PumpDone(c) ==
  LET r == call[c] IN
  /\ r.stream.at = "get" /\ r.stream.queued = 0 /\ r.stream.last
  /\ Become(c, Listening(SpeakOver([r EXCEPT !.stream = NoStream], TRUE)))
  /\ UNCHANGED <<synth, esl>>

-----------------------------------------------------------------------------
(* Audio from the phone                                                       *)

Listens(r) == r.conn \in {"open", "closing"} /\ r.session \notin {"none", "loading"}

\* _is_asr_suppressed: during playback on FreeSWITCH no audio reaches VAD or STT.
Suppressed(r) == r.channel = "freeswitch" /\ r.speaking = "yes"

\* receive_audio: VAD confirms speech, and the latches of the last utterance go.
SpeechStart(c) ==
  LET r == call[c] IN
  /\ r.conn = "open" /\ Listens(r) /\ ~r.ended
  /\ ~Suppressed(r) /\ ~r.vad /\ r.ends < MaxUtterances
  /\ Become(c, [r EXCEPT !.vad = TRUE, !.pending = TRUE, !.begun = "none",
                         !.latched = FALSE, !.evidence = FALSE,
                         !.cuts = 0])
  /\ UNCHANGED <<synth, esl>>

SpeechEnd(c) ==
  LET r == call[c] IN
  /\ r.conn = "open" /\ ~r.ended /\ ~Suppressed(r) /\ r.vad
  /\ Become(c, [r EXCEPT !.vad = FALSE, !.pending = FALSE, !.begun = "none",
                         !.ends = @ + 1])
  /\ UNCHANGED <<synth, esl>>

\* Suppressed audio resets VAD, so its utterance is not ended at the provider; loud
\* speech may interrupt the agent (_observe_barge_in_candidate).
SuppressedAudio(c) ==
  LET r == [call[c] EXCEPT !.vad = FALSE] IN
  /\ call[c].conn = "open" /\ ~r.ended /\ Suppressed(r)
  /\ \/ call[c].vad /\ Become(c, r) /\ UNCHANGED synth
     \/ Become(c, Interrupted(r)) /\ synth' = SynthesisAfter(r)
  /\ UNCHANGED esl

\* The provider has unanswered audio of the utterance that its next final is about.
Emits(r) == Listens(r) /\ (r.finals < r.ends \/ r.pending)

\* _active_tts_reference, or the reference pinned by an echo partial.
Reference(r) == r.evidence \/ r.reference = "tail"
                \/ (r.reference = "playing" /\ r.speaking = "yes")

TailExpires(c) ==
  /\ call[c].reference = "tail"
  /\ Become(c, [call[c] EXCEPT !.reference = "none"])
  /\ UNCHANGED <<synth, esl>>

Verdicts == {"sure", "echo", "distinct"}

\* _on_stt_event, partial.  A first partial may be within 50 ms of the turn's start.
Partial(c, verdict, near) ==
  LET r == call[c]
      b == IF r.begun # "none" THEN r.begun
           ELSE IF near /\ r.speaking = "yes" THEN "old" ELSE "new"
      s == [r EXCEPT !.begun = b]
      t == [s EXCEPT !.evidence = FALSE] IN
  /\ Emits(r)
  /\ \/ r.latched /\ Become(c, s) /\ UNCHANGED synth
     \/ /\ ~r.latched /\ Reference(r) /\ verdict # "distinct"
        /\ Become(c, [s EXCEPT !.evidence = @ \/ verdict = "sure"])
        /\ UNCHANGED synth
     \/ /\ ~r.latched /\ ~(Reference(r) /\ verdict # "distinct")
        /\ r.speaking = "yes" /\ b = "old"
        /\ Become(c, t)
        /\ UNCHANGED synth
     \/ /\ ~r.latched /\ ~(Reference(r) /\ verdict # "distinct")
        /\ ~(r.speaking = "yes" /\ b = "old")
        /\ Become(c, [CutBySpeech(t) EXCEPT !.latched = r.speaking = "yes"])
        /\ synth' = SynthesisAfter(r)
  /\ UNCHANGED esl

\* _on_stt_event, final.  Without a partial, one that comes early in a turn counts as
\* the tail of earlier speech, unless it was compared with the agent's own text.
IsEcho(r, verdict) == ~r.latched /\ Reference(r) /\ verdict # "distinct"
IsTail(r, early) ==
  /\ r.speaking = "yes" /\ ~r.latched
  /\ r.begun = "old" \/ (r.begun = "none" /\ early /\ ~Reference(r))

\* Mutant: a final always interrupts.
NeverDuplicate(r) == FALSE

\* duplicate_partial: a partial of the same utterance has interrupted.
Duplicate(r) == r.latched

\* Text for a session that waits is its answer; else it is buffered, and interrupts
\* unless a partial of the same utterance has done so.
Final(c, kind, verdict, early) ==
  LET r == call[c]
      u == r.finals + 1
      waits == r.waiter = "pending"
      ignored == kind = "noise" \/ IsEcho(r, verdict) \/ IsTail(r, early)
      s == [r EXCEPT !.finals = u, !.latched = FALSE, !.evidence = FALSE,
                     !.begun = "none", !.cuts = IF @ = 2 THEN 2 ELSE 0]
      k == [s EXCEPT !.kept = @ \cup {u}]
      b == [k EXCEPT !.injected = Append(@, u)] IN
  /\ Emits(r) /\ r.finals < r.ends
  /\ \/ kind = "blank" /\ ~waits /\ Become(c, s) /\ UNCHANGED synth
     \/ kind = "blank" /\ waits
        /\ Become(c, [s EXCEPT !.waiter = "done", !.got = 0]) /\ UNCHANGED synth
     \/ kind # "blank" /\ ignored /\ Become(c, s) /\ UNCHANGED synth
     \/ kind # "blank" /\ ~ignored /\ waits
        /\ Become(c, [k EXCEPT !.waiter = "done", !.got = u]) /\ UNCHANGED synth
     \/ kind # "blank" /\ ~ignored /\ ~waits /\ Duplicate(r)
        /\ Become(c, b) /\ UNCHANGED synth
     \/ kind # "blank" /\ ~ignored /\ ~waits /\ ~Duplicate(r)
        /\ Become(c, [Interrupted(b) EXCEPT
                        !.cuts = IF r.speaking = "yes" /\ r.cuts = 1 THEN 2 ELSE @])
        /\ synth' = SynthesisAfter(r)
  /\ UNCHANGED esl

\* The provider omits the final of an utterance without text.
NoFinal(c) ==
  /\ Emits(call[c]) /\ call[c].finals < call[c].ends
  /\ Become(c, [call[c] EXCEPT !.finals = @ + 1, !.cuts = 0])
  /\ UNCHANGED <<synth, esl>>

-----------------------------------------------------------------------------
(* The end of the connection                                                  *)

\* session_task.cancel().  A session whose awaited future is already done takes its
\* result first, as wait_for does up to Python 3.11; the unwinding is not disturbed.
CancelSession(c) ==
  LET r == [call[c] EXCEPT !.conn = "closing", !.cancelled = TRUE] IN
  CASE r.session = "synth" -> Become(c, r) /\ synth' = InterruptSynthesis(synth)
    [] r.session = "drain" -> Become(c, CancelStream(r)) /\ UNCHANGED synth
    [] r.session = "unwind" \/ (r.session = "listen" /\ r.waiter = "done") ->
         Become(c, r) /\ UNCHANGED synth
    [] OTHER -> Become(c, Failing(r, "cancelled")) /\ UNCHANGED synth

Disconnect(c) ==
  /\ call[c].conn = "open"
  /\ IF call[c].session = "over"
     THEN Become(c, [call[c] EXCEPT !.conn = "closing"]) /\ UNCHANGED synth
     ELSE CancelSession(c)
  /\ UNCHANGED esl

\* A web call whose session did not finalize it is hung up by the connection.
HangupFallback(r) == r.channel = "web" /\ r.result # "ok"

\* end_session, once the session task is done, and the fallback.
EndSession(c) ==
  LET r == call[c] IN
  /\ r.conn = "closing" /\ r.session = "over"
  /\ Become(c, [Interrupted(r) EXCEPT !.conn = "closed", !.ended = TRUE,
       !.injected = <<>>, !.speaking = "no", !.reference = "none", !.latched = FALSE,
       !.evidence = FALSE, !.begun = "none", !.vad = FALSE, !.pending = FALSE,
       !.phone = {}, !.hungUp = @ \/ HangupFallback(r)])
  /\ synth' = SynthesisAfter(r)
  /\ UNCHANGED esl

-----------------------------------------------------------------------------
SessionStep(c) ==
  \/ LoadTask(c) \/ BeginSpeak(c) \/ SynthesisDone(c) \/ SynthesisFails(c)
  \/ SynthesisCut(c) \/ DrainCut(c) \/ Heard(c) \/ Timeout(c) \/ Think(c)
  \/ Report(c) \/ Unwind(c) \/ EndSession(c)

PumpStep(c) == PumpTakes(c) \/ PumpBroadcasts(c) \/ PumpDone(c)

SpeechStep(c) ==
  \/ SpeechStart(c) \/ SpeechEnd(c) \/ SuppressedAudio(c) \/ NoFinal(c)
  \/ \E v \in Verdicts, b \in BOOLEAN :
       \/ Partial(c, v, b)
       \/ v # "sure" /\ \E kind \in {"blank", "noise", "speech"} : Final(c, kind, v, b)

Next ==
  \/ \E c \in Calls : \/ Connect(c) \/ Disconnect(c) \/ SessionStep(c) \/ PumpStep(c)
                      \/ SpeechStep(c) \/ OnInterrupted(c) \/ Chunk(c)
                      \/ TailExpires(c)
  \/ EslExchange

Spec == Init /\ [][Next]_vars

\* Every await returns: the services answer or time out, tasks that are ready run.
FairSpec ==
  /\ Spec
  /\ \A c \in Calls : WF_vars(SessionStep(c)) /\ WF_vars(PumpStep(c))
                      /\ WF_vars(OnInterrupted(c))
  /\ WF_vars(EslExchange)

-----------------------------------------------------------------------------
(* Properties                                                                 *)

Waiting(r) == (IF r.waiter = "done" /\ r.got # 0 THEN <<r.got>> ELSE <<>>) \o r.injected

\* What the caller said and the agent accepted is never lost while the session runs, and
\* is answered in the order it was said: _on_stt_event, _wait_for_user_speech.
SpeechIsKept ==
  \A c \in Calls : LET r == call[c] IN
    r.session \in {"announce", "synth", "drain", "listen", "think"} =>
      /\ r.kept = Range(Waiting(r))
      /\ \A i, j \in 1..Len(Waiting(r)) : i < j => Waiting(r)[i] < Waiting(r)[j]
      /\ \A u \in r.kept : r.answered < u

\* _on_stt_event, partials and final together: one utterance of the caller interrupts one
\* turn of the agent at most, unless the caller has started to speak again meanwhile.
OneCutPerUtterance == \A c \in Calls : call[c].cuts <= 1

\* on_interrupted: audio of a turn the caller has interrupted is at the phone, or on its
\* way there, only while a break is still to come behind it.
NothingAfterBreak ==
  \A c \in Calls : \A t \in call[c].cutTurns :
    LET behind(i) == \E j \in i + 1..Len(esl) : esl[j].cmd = "break" /\ esl[j].call = c IN
    /\ t \in call[c].phone => call[c].breaking \/ behind(0)
    /\ \A i \in 1..Len(esl) :
         esl[i] = [cmd |-> "broadcast", call |-> c, turn |-> t] =>
           call[c].breaking \/ behind(i) \/ call[c].conn = "closed"

\* end_session, cancel_playback: when a connection is gone nothing of its call is left at
\* work, and a web call, for which no carrier reports a hangup, has been hung up.
CleanEnd ==
  \A c \in Calls : call[c].conn = "closed" =>
    /\ call[c].stream = NoStream /\ synth.by # c /\ call[c].injected = <<>>
    /\ call[c].channel = "web" => call[c].hungUp

\* Every session ends, whatever the caller does and whichever service fails, and a
\* connection that closes is cleaned up: start_session, the finally of the connection.
CallsEnd ==
  \A c \in Calls : /\ (call[c].conn = "open") ~> (call[c].session = "over")
                   /\ (call[c].conn = "closing") ~> (call[c].conn = "closed")

\* A synthesis is cut short by its own caller or connection only, as the docstring of
\* _interrupt_speaking has it.
CutByOwnCaller ==
  synth.state = "cut" => call[synth.by].speaking = "cut" \/ call[synth.by].cancelled
=============================================================================
