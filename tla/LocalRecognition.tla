--------------------------- MODULE LocalRecognition ---------------------------
(***************************************************************************)
(* Recognition by the project's own FunASR server: the client of the voice *)
(* agent (stt.py, FunASRClient), which sends a call's utterances over one  *)
(* connection and marks their ends, and the handler of a connection        *)
(* (funasr_server/api/ws.py, ws_handler), which recognises in two passes   *)
(* and may cut utterances by a voice detector of its own.  Both take one   *)
(* thing at a time; a frame of audio is its number.                        *)
(***************************************************************************)
EXTENDS Naturals, Sequences, SequencesExt

CONSTANTS
    MaxFrames,      \* bound: frames of the call
    ChunkInterval,  \* chunk_interval: frames to a run of the first pass
    Kept            \* frames kept for the detector to reach back to after an end

Frames == 1 .. MaxFrames

VARIABLES
    vad,            \* vad_enabled of the server, on unless configured
    conn,           \* none, open, broken, or closed by the client
    speaking,       \* _speaking: the client has announced speech
    buffered,       \* _pending_audio
    spoken,         \* history: the utterance of each frame so far
    utterance,      \* the utterance the caller is in
    wire,           \* to the server: start, stop or a frame
    srv,            \* the handler's state
    results,        \* to the client: [pass, final, frames]
    heard           \* history: finals handed to the agent

vars == <<vad, conn, speaking, buffered, spoken, utterance, wire, srv, results, heard>>

Audio(n) == [type |-> "audio", frame |-> n]
Control(type) == [type |-> type, frame |-> 0]

Init ==
    /\ vad \in BOOLEAN
    /\ conn = "none"
    /\ speaking = TRUE
    /\ buffered = <<>>
    /\ spoken = <<>>
    /\ utterance = 1
    /\ wire = <<>>
    /\ srv = [frames |-> <<>>, asr |-> <<>>, online |-> 0, started |-> FALSE,
              ended |-> FALSE, speaking |-> TRUE]
    /\ results = <<>>
    /\ heard = <<>>

----------------------------------------------------------------------------
\* connect(): without a connection the client is closed for good.
Connect ==
    /\ conn = "none"
    /\ \/ conn' = "open" /\ wire' = <<Control("start")>>
       \/ conn' = "closed" /\ UNCHANGED wire
    /\ UNCHANGED <<vad, speaking, buffered, spoken, utterance, srv, results, heard>>

\* send_audio: what cannot be sent is put by, and stays there.
SendAudio ==
    /\ conn # "none" /\ Len(spoken) < MaxFrames
    /\ spoken' = Append(spoken, utterance)
    /\ CASE conn = "open" ->
              /\ wire' = wire \o (IF speaking THEN <<>> ELSE <<Control("start")>>)
                              \o <<Audio(Len(spoken'))>>
              /\ speaking' = TRUE
              /\ UNCHANGED buffered
         [] conn = "broken" ->
              buffered' = Append(buffered, Len(spoken')) /\ UNCHANGED <<wire, speaking>>
         [] OTHER -> UNCHANGED <<wire, speaking, buffered>>
    /\ UNCHANGED <<vad, conn, utterance, srv, results, heard>>

\* end_speech, at the end of an utterance.
EndSpeech ==
    /\ conn # "none"
    /\ Len(spoken) > 0 /\ spoken[Len(spoken)] = utterance
    /\ utterance' = utterance + 1
    /\ IF conn = "open" /\ speaking
       THEN wire' = Append(wire, Control("stop")) /\ speaking' = FALSE
       ELSE UNCHANGED <<wire, speaking>>
    /\ UNCHANGED <<vad, conn, buffered, spoken, srv, results, heard>>

\* _recv_loop: a result that is of the offline pass, or final, is a final.
Receive ==
    /\ conn = "open" /\ results # <<>>
    /\ LET r == Head(results)
       IN  heard' = IF r.pass = "offline" \/ r.final THEN Append(heard, r) ELSE heard
    /\ results' = Tail(results)
    /\ UNCHANGED <<vad, conn, speaking, buffered, spoken, utterance, wire, srv>>

\* The connection breaks, with what is on it; nothing makes another.
Break ==
    /\ conn = "open"
    /\ conn' = "broken"
    /\ wire' = <<>> /\ results' = <<>>
    /\ UNCHANGED <<vad, speaking, buffered, spoken, utterance, srv, heard>>

Close ==
    /\ conn \in {"open", "broken"}
    /\ conn' = "closed"
    /\ wire' = <<>> /\ results' = <<>>
    /\ UNCHANGED <<vad, speaking, buffered, spoken, utterance, srv, heard>>

----------------------------------------------------------------------------
\* A pass over frames; it may find no words, or fail.
Recognise(pass, final, frames) ==
    {<<>>} \cup (IF frames = <<>> THEN {}
                 ELSE {<<[pass |-> pass, final |-> final, frames |-> frames]>>})

\* finalize_offline: the frames since speech began, or all that are kept.
Whole(s) == IF s.asr # <<>> THEN s.asr ELSE s.frames

LastOf(frames, n) == SubSeq(frames, IF Len(frames) > n THEN Len(frames) - n + 1 ELSE 1, Len(frames))

AfterStop(s) == [s EXCEPT !.frames = <<>>, !.asr = <<>>, !.online = 0, !.started = FALSE,
                          !.ended = FALSE]

AfterEnd(s) == [s EXCEPT !.frames = LastOf(s.frames, Kept), !.asr = <<>>, !.online = 0,
                         !.started = FALSE, !.ended = TRUE]

\* The control messages.
HandleControl ==
    /\ conn = "open" /\ wire # <<>> /\ Head(wire).type \in {"start", "stop"}
    /\ wire' = Tail(wire)
    /\ LET s == [srv EXCEPT !.speaking = (Head(wire).type = "start")]
       IN  IF s.speaking
           THEN srv' = s /\ UNCHANGED results
           ELSE /\ srv' = AfterStop(s)
                /\ \E out \in Recognise("offline", TRUE, Whole(s)) : results' = results \o out
    /\ UNCHANGED <<vad, conn, speaking, buffered, spoken, utterance, heard>>

\* What the detector says of a frame: a start, so many frames back, and an end.
Verdicts ==
    {[start |-> FALSE, back |-> 0, end |-> FALSE]} \cup
    (IF vad THEN [start : {FALSE}, back : {0}, end : {TRUE}]
                 \cup [start : {TRUE}, back : 0 .. Kept, end : BOOLEAN]
     ELSE {})

\* A frame: the first pass, the detector, and the second pass at an end.
HandleAudio ==
    /\ conn = "open" /\ wire # <<>> /\ Head(wire).type = "audio"
    /\ wire' = Tail(wire)
    /\ \E v \in Verdicts :
          LET n == Head(wire).frame
              all == Append(srv.frames, n)
              due == (srv.online + 1) % ChunkInterval = 0 \/ srv.ended
              asr == IF v.start THEN LastOf(all, v.back)
                     ELSE IF srv.started THEN Append(srv.asr, n) ELSE srv.asr
              s == [srv EXCEPT !.frames = all, !.asr = asr, !.ended = v.end,
                               !.online = IF due THEN 0 ELSE @ + 1,
                               !.started = @ \/ v.start]
          IN  \* the last run of the first pass is left to the second
              \E partial \in IF due /\ ~srv.ended
                             THEN Recognise("online", ~srv.speaking, <<n>>) ELSE {<<>>} :
              IF ~v.end /\ srv.speaking
              THEN srv' = s /\ results' = results \o partial
              ELSE /\ srv' = IF v.end THEN AfterEnd(s) ELSE AfterStop(s)
                   /\ \E out \in Recognise("offline", TRUE, Whole(s)) :
                         results' = results \o partial \o out
    /\ UNCHANGED <<vad, conn, speaking, buffered, spoken, utterance, heard>>

----------------------------------------------------------------------------
Next ==
    \/ Connect \/ SendAudio \/ EndSpeech \/ Receive \/ Break \/ Close
    \/ HandleControl \/ HandleAudio

Spec == Init /\ [][Next]_vars

----------------------------------------------------------------------------
TypeOK ==
    /\ vad \in BOOLEAN
    /\ conn \in {"none", "open", "broken", "closed"}
    /\ speaking \in BOOLEAN
    /\ buffered \in Seq(Frames)
    /\ spoken \in Seq(Nat) /\ utterance \in Nat
    /\ srv.frames \in Seq(Frames) /\ srv.asr \in Seq(Frames)
    /\ srv.online \in 0 .. ChunkInterval

\* A final is of the second pass and of frames of one utterance, one after the
\* other, wherever the server's detector and the client's ends cut the stream
\* (stt.py:108-136, ws.py:380-425).
FinalsKeepToUtterances ==
    \A i \in 1 .. Len(heard) :
        /\ heard[i].pass = "offline"
        /\ \A j \in 1 .. Len(heard[i].frames) :
              /\ spoken[heard[i].frames[j]] = spoken[heard[i].frames[1]]
              /\ heard[i].frames[j] = heard[i].frames[1] + j - 1

\* Where the server has no detector, a final is a whole utterance, and no
\* utterance has two; with one, what follows the end it finds is recognised
\* again with the frames it kept (ws.py:419-425, 536-543).
OneFinalPerUtterance ==
    ~vad =>
        /\ \A i \in 1 .. Len(heard) :
              ToSet(heard[i].frames) = {n \in 1 .. Len(spoken) :
                                          spoken[n] = spoken[heard[i].frames[1]]}
        /\ \A i, j \in 1 .. Len(heard) :
              heard[i].frames[1] = heard[j].frames[1] => i = j
=============================================================================
