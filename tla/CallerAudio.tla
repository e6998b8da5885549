------------------------------ MODULE CallerAudio ------------------------------
(* What the agent does with the caller's microphone before anything is          *)
(* recognised (agent.py receive_audio, echo_gate.py, vad.py): on the web the    *)
(* reference-aware echo gate holds audio back while the agent's own speech may  *)
(* return, on the phone everything is suppressed while the agent speaks; what   *)
(* passes goes through the voice-activity state machine, which hands segments   *)
(* to the recogniser.                                                           *)
EXTENDS Naturals, Sequences, SequencesExt, FiniteSetsExt

CONSTANTS
  Frames,          \* frames of the microphone: a bound of the model
  Burst,           \* most frames in one message
  SpeechConfirm, SilenceConfirm, MinSpeech, PreBuffer,   \* in frames
  ExtraSilence,    \* what the semantic provider may add to SilenceConfirm
  MinAnalysis, Window,   \* of the echo gate, in frames
  BargeMin, BargeHangover

VARIABLES
  channel,    \* "web" with the echo gate, "phone" with the suppression
  heard,      \* sounds of the frames received, the microphone's history
  speaking,   \* _speaking: the agent's utterance is being played
  reference,  \* far-end samples kept by the gate: "none", "short", "enough"
  guard,      \* the tail guard of the last utterance is running
  failOpen,   \* _echo_fail_open_until lies ahead
  held,       \* _echo_pending_audio
  bargeVoice, bargeLow,   \* _barge_in_voice_ms, _barge_in_low_ms
  vad,        \* state, counters and buffers of the detector
  fed,        \* history: frames fed to the detector since it was last reset
  sent,       \* history: what the recogniser got, frames, Start and End
  dropped,    \* history: frames dropped as confident echo
  discarded   \* history: frames held by the gate when the agent began or was cut

vars == <<channel, heard, speaking, reference, guard, failOpen, held, bargeVoice, bargeLow,
          vad, fed, sent, dropped, discarded>>

Sounds == {"voice", "quiet", "echo"}
Numbers == 1..Frames
Start == 0               \* marks in the history of the recogniser
End == Frames + 1
Voiced(f) == heard'[f] # "quiet"     \* to the detector an echo is a voice

VadSilent == [state |-> "silence", speech |-> 0, silence |-> 0, pre |-> <<>>, cand |-> <<>>,
              voiced |-> 0]

TypeOK ==
  /\ channel \in {"web", "phone"}
  /\ heard \in Seq(Sounds) /\ Len(heard) <= Frames
  /\ speaking \in BOOLEAN /\ guard \in BOOLEAN /\ failOpen \in BOOLEAN
  /\ reference \in {"none", "short", "enough"}
  /\ held \in Seq(Numbers) /\ fed \in Seq(Numbers) /\ dropped \subseteq Numbers
  /\ discarded \subseteq Numbers
  /\ bargeVoice \in 0..BargeMin /\ bargeLow \in 0..Frames
  /\ vad \in [state : {"silence", "pending", "speech"}, speech : 0..SpeechConfirm,
              silence : 0..(SilenceConfirm + ExtraSilence), pre : Seq(Numbers),
              cand : Seq(Numbers), voiced : 0..Frames]
  /\ sent \in Seq(0..End)

Init ==
  /\ channel \in {"web", "phone"}
  /\ heard = <<>> /\ speaking = FALSE /\ reference = "none" /\ guard = FALSE /\ failOpen = FALSE
  /\ held = <<>> /\ bargeVoice = 0 /\ bargeLow = 0 /\ vad = VadSilent
  /\ fed = <<>> /\ sent = <<>> /\ dropped = {} /\ discarded = {}

-----------------------------------------------------------------------------
(* The detector: one frame, in each of its states.  A step is the detector's    *)
(* new state and what it gives the recogniser.                                  *)

Kept(buffer, f) ==     \* deque(maxlen = PreBuffer)
  IF Len(buffer) < PreBuffer THEN Append(buffer, f) ELSE Append(Tail(buffer), f)

MaybePromote(v) ==
  IF v.voiced < MinSpeech THEN <<v, <<>>>>
  ELSE <<[VadSilent EXCEPT !.state = "speech"], <<Start>> \o v.pre \o v.cand>>

HandleSilence(v, f) ==
  LET w == [v EXCEPT !.pre = Kept(v.pre, f)]
  IN IF ~Voiced(f) THEN <<[w EXCEPT !.speech = 0], <<>>>>
     ELSE IF v.speech + 1 < SpeechConfirm
     THEN <<[w EXCEPT !.speech = v.speech + 1, !.silence = 0], <<>>>>
     ELSE MaybePromote([w EXCEPT !.state = "pending", !.cand = <<>>, !.speech = 0,
                                 !.silence = 0, !.voiced = SpeechConfirm])

HandlePending(v, f) ==
  LET w == [v EXCEPT !.cand = Append(v.cand, f)]
  IN IF Voiced(f) THEN MaybePromote([w EXCEPT !.silence = 0, !.voiced = v.voiced + 1])
     ELSE IF v.silence + 1 >= SilenceConfirm THEN <<VadSilent, <<>>>>
     ELSE <<[w EXCEPT !.silence = v.silence + 1], <<>>>>

HandleSpeech(v, f, extra) ==
  IF Voiced(f) THEN <<[v EXCEPT !.silence = 0], <<f>>>>
  ELSE IF v.silence + 1 >= SilenceConfirm + extra THEN <<VadSilent, <<f, End>>>>
  ELSE <<[v EXCEPT !.silence = v.silence + 1], <<f>>>>

Feed(v, f, extra) ==
  CASE v.state = "silence" -> HandleSilence(v, f)
    [] v.state = "pending" -> HandlePending(v, f)
    [] v.state = "speech"  -> HandleSpeech(v, f, extra)

\* Mutant: what the gate held is fed after the audio that followed it.
FeedNewestFirst(frames, extra) ==
  FoldLeft(LAMBDA acc, f : LET step == Feed(acc[1], f, extra) IN <<step[1], acc[2] \o step[2]>>,
           <<vad, <<>>>>, Reverse(frames))

\* The loop of receive_audio over the frames of a message.
FeedAll(frames, extra) ==
  FoldLeft(LAMBDA acc, f : LET step == Feed(acc[1], f, extra) IN <<step[1], acc[2] \o step[2]>>,
           <<vad, <<>>>>, frames)

ToDetector(frames) ==
  \E extra \in {0, ExtraSilence} :
    LET result == FeedAll(frames, extra)
    IN /\ vad' = result[1]
       /\ sent' = sent \o result[2]
       /\ fed' = fed \o frames

ResetVad == vad' = VadSilent /\ fed' = <<>> /\ UNCHANGED sent

-----------------------------------------------------------------------------
(* The agent's own speech                                                      *)

DiscardHeld == held' = <<>> /\ discarded' = discarded \cup ToSet(held)

\* _speak begins: a new reference generation; held audio of the last one is gone.
BeginSpeak ==
  /\ ~speaking
  /\ speaking' = TRUE /\ guard' = FALSE /\ bargeVoice' = 0 /\ bargeLow' = 0
  /\ reference' = "none" /\ failOpen' = FALSE /\ DiscardHeld
  /\ UNCHANGED <<channel, heard, vad, fed, sent, dropped>>

AddReference ==
  /\ channel = "web" /\ speaking /\ reference # "enough"
  /\ reference' = IF reference = "none" THEN "short" ELSE "enough"
  /\ UNCHANGED <<channel, heard, speaking, guard, failOpen, held, bargeVoice, bargeLow, vad,
                 fed, sent, dropped, discarded>>

\* An utterance played to its end arms the guard; without a reference there is nothing to
\* guard against.
SpeakDone ==
  /\ speaking
  /\ speaking' = FALSE /\ bargeVoice' = 0 /\ bargeLow' = 0
  /\ guard' = (channel = "phone" \/ reference # "none")
  /\ failOpen' = (failOpen /\ reference # "none")
  /\ UNCHANGED <<channel, heard, reference, held, vad, fed, sent, dropped, discarded>>

Silenced ==
  /\ speaking' = FALSE /\ guard' = FALSE /\ reference' = "none" /\ failOpen' = FALSE
  /\ DiscardHeld /\ bargeVoice' = 0 /\ bargeLow' = 0

\* A recognised text interrupts, or synthesis fails: the evidence is cleared.
SpeakCut ==
  /\ speaking /\ Silenced
  /\ UNCHANGED <<channel, heard, vad, fed, sent, dropped>>

\* The clock passes _asr_suppressed_until or _echo_reference_until; on the web the next
\* look at the reference clears it.
GuardEnds ==
  /\ guard /\ guard' = FALSE
  /\ reference' = "none" /\ failOpen' = FALSE
  /\ UNCHANGED <<channel, heard, speaking, held, bargeVoice, bargeLow, vad, fed, sent,
                 dropped, discarded>>

FailOpenEnds ==
  /\ failOpen /\ failOpen' = FALSE
  /\ UNCHANGED <<channel, heard, speaking, reference, guard, held, bargeVoice, bargeLow, vad,
                 fed, sent, dropped, discarded>>

-----------------------------------------------------------------------------
(* receive_audio                                                               *)

\* The next message of the microphone; only an agent that speaks, or has just spoken, echoes.
Message(frames) ==
  \E k \in 1..Burst :
    \E sounds \in [1..k -> IF speaking \/ guard THEN Sounds ELSE {"voice", "quiet"}] :
      /\ Len(heard) + k <= Frames
      /\ heard' = heard \o sounds
      /\ frames = [i \in 1..k |-> Len(heard) + i]

NextFrames == {[i \in 1..k |-> Len(heard) + i] : k \in 1..Burst}

ReferenceActive == channel = "web" /\ reference # "none" /\ (speaking \/ guard)
FailOpenActive == failOpen \/ vad.state # "silence"

\* The classes analyze() can give a block.  It takes for an echo only what the reference
\* explains nearly whole: a block in which the caller speaks is never one.
Classes(block) ==
  LET sounds == {heard'[block[i]] : i \in 1..Len(block)}
  IN IF sounds \subseteq {"quiet"} THEN {"silence"}
     ELSE IF "voice" \notin sounds
     THEN IF Len(block) < MinAnalysis THEN {"unknown"} ELSE {"echo", "unknown", "near_end"}
     ELSE IF "echo" \in sounds THEN {"double_talk", "near_end", "unknown"}
     ELSE {"near_end", "unknown"}

\* Without a reference, or with the detector awake: what was held goes first.
PassesGate(frames) ==
  /\ channel = "web"
  /\ ~ReferenceActive \/ FailOpenActive
  /\ ToDetector(held \o frames)
  /\ held' = <<>>
  /\ UNCHANGED <<reference, failOpen, dropped>>

WaitsForMore(block) ==
  \/ Len(block) < MinAnalysis
  \/ reference = "short" /\ Len(block) < Window

HeldBack(frames) ==
  /\ ReferenceActive /\ ~FailOpenActive
  /\ WaitsForMore(held \o frames)
  /\ held' = held \o frames
  /\ UNCHANGED <<reference, failOpen, vad, fed, sent, dropped>>

Analysed(frames) ==
  /\ ReferenceActive /\ ~FailOpenActive
  /\ ~WaitsForMore(held \o frames)
  /\ held' = <<>>
  /\ LET all == held \o frames
         cut == IF Len(all) > Window THEN Len(all) - Window ELSE 0
         prefix == SubSeq(all, 1, cut)
         block == SubSeq(all, cut + 1, Len(all))
     IN \E class \in Classes(block) :
          /\ failOpen' = (class \in {"double_talk", "near_end"})
          /\ IF class = "echo"
             THEN /\ dropped' = dropped \cup ToSet(block)
                  /\ IF prefix = <<>> THEN ResetVad ELSE ToDetector(prefix)
             ELSE ToDetector(all) /\ UNCHANGED dropped
  /\ UNCHANGED reference

OnTheWeb ==
  /\ \E frames \in NextFrames :
       /\ Message(frames)
       /\ PassesGate(frames) \/ HeldBack(frames) \/ Analysed(frames)
  /\ UNCHANGED <<channel, speaking, guard, bargeVoice, bargeLow, discarded>>

\* _observe_barge_in_candidate: a loud frame adds to the voice, a pause within the hangover
\* does not take it back.
Loudness(frames) ==
  FoldLeft(LAMBDA acc, f :
             IF acc[1] >= BargeMin THEN acc
             ELSE IF Voiced(f) THEN <<acc[1] + 1, 0>>
             ELSE <<IF acc[2] + 1 >= BargeHangover THEN 0 ELSE acc[1], acc[2] + 1>>,
           <<bargeVoice, bargeLow>>, frames)

Suppressed(frames) ==
  /\ ResetVad
  /\ LET loud == Loudness(frames)
     IN IF speaking /\ loud[1] >= BargeMin
        THEN Silenced
        ELSE /\ bargeVoice' = IF speaking THEN loud[1] ELSE bargeVoice
             /\ bargeLow' = IF speaking THEN loud[2] ELSE bargeLow
             /\ UNCHANGED <<speaking, reference, guard, failOpen, held, discarded>>

OnThePhone ==
  /\ channel = "phone"
  /\ \E frames \in NextFrames :
       /\ Message(frames)
       /\ IF speaking \/ guard
          THEN Suppressed(frames)
          ELSE /\ ToDetector(frames)
               /\ UNCHANGED <<speaking, reference, guard, failOpen, held, bargeVoice, bargeLow,
                              discarded>>
  /\ UNCHANGED <<channel, dropped>>

Next ==
  \/ BeginSpeak \/ AddReference \/ SpeakDone \/ SpeakCut \/ GuardEnds \/ FailOpenEnds
  \/ OnTheWeb \/ OnThePhone

Spec == Init /\ [][Next]_vars

-----------------------------------------------------------------------------
(* Properties                                                                  *)

Ordered(s) == \A i, j \in 1..Len(s) : i < j => s[i] < s[j]
SentFrames == SelectSeq(sent, LAMBDA x : x \in Numbers)
Starts == {i \in 1..Len(sent) : sent[i] = Start}
SegmentEnd(i) ==       \* the last position of the segment that starts at i
  LET next == {j \in (i + 1)..Len(sent) : sent[j] \notin Numbers}
  IN IF next = {} THEN Len(sent) ELSE Min(next) - 1
Segment(i) == SubSeq(sent, i + 1, SegmentEnd(i))

\* The recogniser hears the microphone in its order, each frame at most once: held audio is
\* never overtaken by what came after it, buffered audio is never sent again.
HeardInOrder == Ordered(SentFrames)

\* A segment given to the recogniser has no hole: a frame missing between its first and its
\* last was taken for an echo, or was held by the gate at the moment the agent began to
\* speak or was cut.
SegmentsWhole ==
  \A i \in Starts :
    LET s == Segment(i)
    IN \A f \in s[1]..s[Len(s)] : f \in ToSet(s) \cup dropped \cup discarded

\* Speech that lasts long enough is in the recogniser's hands from its first frame, whatever
\* the detector was doing when it began.
LongSpeechIsHeard ==
  \A k \in 1..Len(fed) :
    LET run == {fed[i] : i \in k..Len(fed)}
    IN /\ Len(fed) - k + 1 >= Max({SpeechConfirm, MinSpeech})
       /\ \A f \in run : heard[f] # "quiet"
       => vad.state = "speech" /\ run \subseteq ToSet(sent)

\* The echo gate delays audio by less than its window, however slowly the reference arrives.
HeldBriefly == Len(held) < Window
=============================================================================
