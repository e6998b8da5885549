------------------------------ MODULE ClientProofs ------------------------------
(***************************************************************************)
(* Proofs about the programs around the API: the voice agent, the          *)
(* recognition server and the hooks and pages of the dashboard.            *)
(*                                                                         *)
(* A component is a module of its own; it is instantiated here, and every  *)
(* section is about the specification of its component alone.  Variables   *)
(* that two components name alike are declared once: no theorem speaks of  *)
(* two components.                                                         *)
(*                                                                         *)
(* Each section states the invariant that is inductive, what a step of     *)
(* each kind does to it, and the theorem.                                  *)
(***************************************************************************)
EXTENDS Integers, FiniteSets, Sequences, FiniteSetTheorems, TLAPS

CONSTANTS Turns, MaxTries, Nodes, Kind, Entry, Edges, Intents, Fallback,
          StepLimit, MaxRepair, MaxNoMatch, MaxNoInput, MaxRetries, MaxTurns,
          MaxCalls, Window, Statuses, Clients, Runs, MaxAudio, Uploads,
          Streams, Embeddings, Segments, Permits, HasVad, HasPunctuation,
          Calls, MaxQueue, Hasty, Texts, Chunks, InFlight, MaxSockets,
          MaxRuns, MaxNews, MaxEdits, MaxHistory, MaxSaves, MaxFailures,
          Numbers

VARIABLES at, try, inFlight, transcript, closed, outcome, givenUp, node,
          phase, steps, ended, state, resolved, generation, latest, pc, turn,
          history, request, informed, agg, calls, ran, escalated, asked,
          spoken, client, run, child, cancelReq, result, cancelled, stopped,
          thread, queue, audio, answered, handle, twice, stage, call, files,
          left, told, threads, free, embedding, lock, loads, gone, live, mic,
          recorder, socket, context, draining, ending, clipped, hasty, ui,
          sock, busy, clientRef, up, down, synth, opened, ws, timer,
          retryCount, reconnectTimer, intentional, start, speaking, voice,
          news, retried, panel, saving, held, session, shown, stray, store,
          historyIndex, edits, lastSaved, initial, status, saves, server,
          published, publish, fresh, crossed, page, ready, suppress, skip,
          last, flight, failures

-----------------------------------------------------------------------------
(***************************************************************************)
(* Reports of the voice agent (TaskReports.tla: session.py and the         *)
(* handlers of tasks.service.ts).  Requests are repeated and arrive late,  *)
(* but the session waits for one before it makes the next, so nothing      *)
(* under way is ahead of it.                                               *)
(***************************************************************************)
Reports == INSTANCE TaskReports

ReportBounds == Turns \in Nat /\ MaxTries \in Nat \ {0}

ReportTypes ==
  /\ Reports!TypeOK
  /\ \A q \in inFlight : q.key = 0
  /\ \A i \in 1..Len(transcript) : transcript[i].key = 0

InTranscript(t) == \E i \in 1..Len(transcript) : transcript[i].turn = t

(* The session reports one thing after the other: what is under way is not *)
(* ahead of it, and what it has left behind is done or was given up.       *)
ReportInv ==
  /\ \A q \in inFlight : q.report <= at.report
  /\ at.state = "wait" => at.report <= Turns + 2
  /\ \A i \in 1..Len(transcript) : transcript[i].turn <= at.report
  /\ Reports!TranscriptFaithful /\ Reports!FinishedIsClosed

ReportsInv == ReportTypes /\ ReportInv

LEMMA ReportsInit == ASSUME ReportBounds, Reports!Init PROVE ReportsInv
<1>. USE DEF ReportBounds, Reports!Init
<1>1. transcript = <<>> /\ Len(transcript) = 0 /\ inFlight = {} /\ try = 1 /\ givenUp = {}
      /\ closed = FALSE /\ outcome = FALSE /\ at = [report |-> 1, state |-> "send"]
  OBVIOUS
<1>2. 1 \in 1..Turns + 2 /\ at.report = 1 /\ at.state = "send"
  BY <1>1
<1>3. at \in [report : Reports!Reports \cup {Reports!Hangup + 1}, state : {"send", "wait"}]
  BY <1>1, <1>2 DEF Reports!Reports, Reports!Hangup
<1>4. transcript \in Seq([turn : 1..Turns, key : Nat])
  BY <1>1
<1>5. ReportTypes
  <2>. HIDE DEF Reports!Init
  <2>1. /\ try \in 1..MaxTries
        /\ inFlight \subseteq Reports!Requests
        /\ givenUp \subseteq Reports!Reports
        /\ closed \in BOOLEAN /\ outcome \in BOOLEAN
    <3>1. 1 \in 1..MaxTries
      OBVIOUS
    <3>2. try = 1 /\ inFlight = {} /\ givenUp = {}
      BY <1>1
    <3>3. closed \in BOOLEAN /\ outcome \in BOOLEAN
      BY <1>1
    <3>. QED
      BY <3>1, <3>2, <3>3
  <2>3. Reports!TypeOK
    BY <1>3, <1>4, <2>1 DEF Reports!TypeOK
  <2>2. \A i \in 1..Len(transcript) : FALSE
    BY <1>1
  <2>. QED
    BY <1>1, <2>2, <2>3 DEF ReportTypes
<1>6. ReportInv
  BY <1>1, <1>2 DEF ReportInv, Reports!TranscriptFaithful, Reports!FinishedIsClosed,
     Reports!Hangup, Reports!Outcome
<1>. QED
  BY <1>5, <1>6 DEF ReportsInv

LEMMA ReportRanges ==
  ASSUME ReportBounds, ReportsInv
  PROVE  /\ at.report \in 1..Turns + 3 /\ at.state \in {"send", "wait"}
         /\ at = [report |-> at.report, state |-> at.state]
         /\ \A q \in inFlight : /\ q = [report |-> q.report, key |-> 0]
                                /\ q.report \in 1..Turns + 2 /\ q.report <= at.report
         /\ transcript \in Seq([turn : 1..Turns, key : Nat]) /\ Len(transcript) \in Nat
         /\ \A i \in 1..Len(transcript) :
              /\ transcript[i] = [turn |-> transcript[i].turn, key |-> 0]
              /\ transcript[i].turn \in 1..Turns /\ transcript[i].turn <= at.report
<1>. USE DEF ReportBounds, ReportsInv, ReportTypes, ReportInv, Reports!TypeOK
<1>1. at.report \in 1..Turns + 3 /\ at.state \in {"send", "wait"}
      /\ at = [report |-> at.report, state |-> at.state]
  BY DEF Reports!Reports, Reports!Hangup
<1>2. ASSUME NEW q \in inFlight
      PROVE  q = [report |-> q.report, key |-> 0] /\ q.report \in 1..Turns + 2
             /\ q.report <= at.report
  <2>1. q \in [report : 1..Turns + 2, key : Nat] /\ q.key = 0 /\ q.report <= at.report
    BY DEF Reports!Requests, Reports!Reports, Reports!Hangup
  <2>. QED
    BY <2>1
<1>3. transcript \in Seq([turn : 1..Turns, key : Nat]) /\ Len(transcript) \in Nat
  OBVIOUS
<1>4. ASSUME NEW i \in 1..Len(transcript)
      PROVE  /\ transcript[i] = [turn |-> transcript[i].turn, key |-> 0]
             /\ transcript[i].turn \in 1..Turns /\ transcript[i].turn <= at.report
  <2>1. transcript[i].key = 0
    OBVIOUS
  <2>2. transcript[i].turn <= at.report
    OBVIOUS
  <2>. HIDE DEF ReportsInv, ReportTypes, ReportInv, Reports!TypeOK
  <2>. DEFINE S == [turn : 1..Turns, key : Nat]
  <2>0. transcript \in Seq(S) /\ i \in 1..Len(transcript)
    BY <1>3
  <2>. HIDE DEF S
  <2>3. transcript[i] \in S
    BY <2>0
  <2>. USE DEF S
  <2>4. \A e \in [turn : 1..Turns, key : Nat] :
          e = [turn |-> e.turn, key |-> e.key] /\ e.turn \in 1..Turns
    OBVIOUS
  <2>. DEFINE e == transcript[i]
  <2>5. e \in [turn : 1..Turns, key : Nat] /\ e.key = 0
    BY <2>1, <2>3
  <2>. HIDE DEF e
  <2>6. e = [turn |-> e.turn, key |-> e.key] /\ e.turn \in 1..Turns
    BY <2>4, <2>5, Zenon
  <2>7. e = [turn |-> e.turn, key |-> 0]
    BY <2>5, <2>6, Zenon
  <2>. QED
    BY <2>2, <2>6, <2>7 DEF e
<1>. QED
  BY <1>1, <1>2, <1>3, <1>4

(* What the API makes of a report: the transcript grows by a turn it did   *)
(* not have, at its end, or stays.                                         *)
LEMMA HandleIs ==
  ASSUME ReportBounds, ReportsInv, NEW q \in inFlight, Reports!Handle(q)
  PROVE  /\ \/ UNCHANGED transcript /\ (q.report <= Turns => InTranscript(q.report))
            \/ /\ q.report \in 1..Turns /\ ~InTranscript(q.report)
               /\ transcript' = Append(transcript, [turn |-> q.report, key |-> 0])
         /\ closed' \in BOOLEAN /\ (closed' <=> closed \/ q.report = Turns + 2)
         /\ outcome' \in BOOLEAN /\ (outcome' <=> outcome \/ q.report = Turns + 1)
<1>. DEFINE x == [turn |-> q.report, key |-> 0]
<1>1. q.key = 0 /\ q.report \in 1..Turns + 2 /\ Turns \in Nat
  BY ReportRanges DEF ReportBounds
<1>2. closed' \in BOOLEAN /\ (closed' <=> closed \/ q.report = Turns + 2)
  BY DEF Reports!Handle, Reports!Hangup
<1>3. outcome' \in BOOLEAN /\ (outcome' <=> outcome \/ q.report = Turns + 1)
  BY DEF Reports!Handle, Reports!Outcome
<1>4. (\E i \in 1..Len(transcript) : transcript[i] = x) <=> InTranscript(q.report)
  <2>1. ASSUME NEW i \in 1..Len(transcript)
        PROVE  transcript[i] = x <=> transcript[i].turn = q.report
    <3>1. transcript[i] = [turn |-> transcript[i].turn, key |-> 0]
      BY ReportRanges
    <3>2. x.turn = q.report
      OBVIOUS
    <3>. QED
      BY <3>1, <3>2
  <2>. QED
    BY <2>1 DEF InTranscript
<1>5. CASE q.report <= Turns
  <2>1. transcript' = Reports!AppendTranscript(q)
    BY <1>5 DEF Reports!Handle
  <2>2. Reports!AppendTranscript(q) = IF \E i \in 1..Len(transcript) : transcript[i] = x
                                      THEN transcript ELSE Append(transcript, x)
    BY <1>1 DEF Reports!AppendTranscript
  <2>3. q.report \in 1..Turns
    BY <1>1, <1>5
  <2>. HIDE DEF x
  <2>4. \/ UNCHANGED transcript /\ InTranscript(q.report)
        \/ ~InTranscript(q.report) /\ transcript' = Append(transcript, x)
    BY <1>4, <2>1, <2>2
  <2>. QED
    BY <1>2, <1>3, <2>3, <2>4 DEF x
<1>6. CASE ~(q.report <= Turns)
  <2>1. UNCHANGED transcript
    BY <1>6 DEF Reports!Handle
  <2>. QED
    BY <1>2, <1>3, <1>6, <2>1
<1>. QED
  BY <1>5, <1>6

(* Whatever the session does meanwhile, handling keeps the transcript.     *)
LEMMA HandleKeeps ==
  ASSUME ReportBounds, ReportsInv, NEW q \in inFlight, Reports!Handle(q)
  PROVE  /\ transcript' \in Seq([turn : 1..Turns, key : Nat])
         /\ \A i \in 1..Len(transcript') :
              transcript'[i].key = 0 /\ transcript'[i].turn <= at.report
         /\ \A i, j \in 1..Len(transcript') : i < j =>
              /\ transcript'[i].turn # transcript'[j].turn
              /\ transcript'[i].turn > transcript'[j].turn => transcript'[j].turn \in givenUp
         /\ q.report <= Turns => InTranscript(q.report)'
         /\ \A t \in 1..Turns : InTranscript(t) => InTranscript(t)'
<1>. DEFINE x == [turn |-> q.report, key |-> 0]
            n == Len(transcript)
            Good(a, b) == a.turn # b.turn /\ (a.turn > b.turn => b.turn \in givenUp)
<1>1. /\ transcript \in Seq([turn : 1..Turns, key : Nat]) /\ n \in Nat
      /\ q.report <= at.report /\ at.report \in 1..Turns + 3
      /\ \A i \in 1..n : transcript[i].key = 0 /\ transcript[i].turn <= at.report
                         /\ transcript[i].turn \in 1..Turns
  <2>1. \A i \in 1..n : transcript[i].key = 0
    BY DEF ReportsInv, ReportTypes
  <2>. QED
    BY <2>1, ReportRanges
<1>2. \A i, j \in 1..n : i < j => Good(transcript[i], transcript[j])
  BY DEF ReportsInv, ReportInv, Reports!TranscriptFaithful
<1>3. CASE UNCHANGED transcript /\ (q.report <= Turns => InTranscript(q.report))
  BY <1>1, <1>2, <1>3 DEF InTranscript
<1>4. CASE /\ q.report \in 1..Turns /\ ~InTranscript(q.report)
           /\ transcript' = Append(transcript, x)
  <2>1. x \in [turn : 1..Turns, key : Nat] /\ x.turn = q.report /\ x.key = 0
    BY <1>4
  <2>2. \A i \in 1..n : transcript[i].turn > q.report => q.report \in givenUp
    <3>. SUFFICES ASSUME NEW i \in 1..n, transcript[i].turn > q.report
                  PROVE  q.report \in givenUp
      OBVIOUS
    <3>1. at.report > q.report /\ q.report \in 1..Turns
      BY <1>1, <1>4, SMTT(30)
    <3>. QED
      BY <1>4, <3>1 DEF ReportsInv, ReportInv, Reports!FinishedIsClosed, InTranscript
  <2>3. \A i \in 1..n : transcript[i].turn # q.report
    BY <1>4 DEF InTranscript
  <2>. HIDE DEF x
  <2>4. /\ transcript' \in Seq([turn : 1..Turns, key : Nat])
        /\ Len(transcript') = n + 1 /\ transcript'[n + 1] = x
        /\ \A i \in 1..n : transcript'[i] = transcript[i]
    BY <1>1, <1>4, <2>1
  <2>5. \A i \in 1..n : Good(transcript[i], x)
    BY <2>1, <2>2, <2>3
  <2>. HIDE DEF Good, n
  <2>6. \A i \in 1..n + 1 : i \in 1..n \/ i = n + 1
    BY <1>1
  <2>7. ASSUME NEW i \in 1..n + 1, NEW j \in 1..n + 1, i < j
        PROVE  Good(transcript'[i], transcript'[j])
    <3>1. i \in 1..n
      BY <1>1, <2>7
    <3>2. CASE j \in 1..n
      BY <1>2, <2>4, <2>7, <3>1, <3>2
    <3>3. CASE j = n + 1
      BY <2>4, <2>5, <3>1, <3>3
    <3>. QED
      BY <2>6, <3>2, <3>3
  <2>8. ASSUME NEW i \in 1..n + 1
        PROVE  transcript'[i].key = 0 /\ transcript'[i].turn <= at.report
    BY <1>1, <2>1, <2>4, <2>6
  <2>9. InTranscript(q.report)'
    BY <1>1, <2>1, <2>4 DEF InTranscript
  <2>10. \A t \in 1..Turns : InTranscript(t) => InTranscript(t)'
    <3>. SUFFICES ASSUME NEW t \in 1..Turns, NEW i \in 1..n, transcript[i].turn = t
                  PROVE  InTranscript(t)'
      BY DEF InTranscript, n
    <3>1. i \in 1..n + 1 /\ transcript'[i].turn = t
      BY <1>1, <2>4, SMTT(30)
    <3>. QED
      BY <2>4, <3>1 DEF InTranscript
  <2>11. \A i, j \in 1..Len(transcript') : i < j => Good(transcript'[i], transcript'[j])
    BY <2>4, <2>7
  <2>. QED
    BY <2>4, <2>8, <2>9, <2>10, <2>11 DEF Good
<1>. QED
  BY <1>3, <1>4, HandleIs

(* Every step hands at most one request under way to the API, and the      *)
(* session stays at its report or leaves it, answered or given up.         *)
LEMMA ReportSteps ==
  ASSUME ReportBounds, ReportsInv, [Reports!Next]_Reports!vars
  PROVE  /\ UNCHANGED <<transcript, closed, outcome>> \/ \E q \in inFlight : Reports!Handle(q)
         /\ \/ inFlight' \subseteq inFlight
            \/ /\ at.report \in 1..Turns + 2
               /\ inFlight' = inFlight \cup {[report |-> at.report, key |-> 0]}
         /\ try' \in 1..MaxTries
         /\ \/ /\ at' = at \/ at' = [report |-> at.report, state |-> "send"]
                  \/ /\ at' = [report |-> at.report, state |-> "wait"]
                     /\ at.report \in 1..Turns + 2
               /\ UNCHANGED givenUp
            \/ /\ at.report \in 1..Turns + 2
               /\ at' = [report |-> at.report + 1, state |-> "send"]
               /\ \/ givenUp' = givenUp \cup {at.report}
                  \/ /\ UNCHANGED givenUp
                     /\ \E q \in inFlight : q.report = at.report /\ Reports!Handle(q)
<1>. DEFINE c == [report |-> at.report, key |-> 0]
<1>1. /\ at = [report |-> at.report, state |-> at.state] /\ at.report \in 1..Turns + 3
      /\ Turns \in Nat /\ MaxTries \in Nat /\ try \in 1..MaxTries
      /\ at.state = "wait" => at.report \in 1..Turns + 2
  BY ReportRanges DEF ReportBounds, ReportsInv, ReportTypes, ReportInv, Reports!TypeOK
<1>2. c.report = at.report /\ Reports!Current = c
  BY DEF Reports!Current, Reports!Key
<1>3. 1 \in 1..MaxTries
  BY <1>1
<1>4. CASE Reports!Send
  <2>1. at.report \in 1..Turns + 2 /\ at' = [report |-> at.report, state |-> "wait"]
    BY <1>1, <1>4 DEF Reports!Send, Reports!Reports, Reports!Hangup
  <2>2. inFlight' = inFlight \cup {c} /\ UNCHANGED <<try, transcript, closed, outcome, givenUp>>
    BY <1>2, <1>4 DEF Reports!Send
  <2>. QED
    BY <1>1, <2>1, <2>2
<1>5. CASE Reports!Reply
  <2>1. /\ c \in inFlight /\ Reports!Handle(c) /\ inFlight' \subseteq inFlight
        /\ at' = [report |-> at.report + 1, state |-> "send"] /\ try' = 1 /\ UNCHANGED givenUp
        /\ at.state = "wait"
    BY <1>2, <1>5 DEF Reports!Reply, Reports!MoveOn
  <2>. HIDE DEF c
  <2>. QED
    BY <1>1, <1>2, <1>3, <2>1
<1>6. CASE Reports!Fail
  <2>1. at.state = "wait" /\ inFlight' \subseteq inFlight
    BY <1>6 DEF Reports!Fail
  <2>2. UNCHANGED <<transcript, closed, outcome>> \/ (c \in inFlight /\ Reports!Handle(c))
    BY <1>2, <1>6 DEF Reports!Fail
  <2>3. \/ try < MaxTries /\ try' = try + 1 /\ UNCHANGED givenUp
           /\ at' = [report |-> at.report, state |-> "send"]
        \/ /\ try' = 1 /\ givenUp' = givenUp \cup {at.report}
           /\ at' = [report |-> at.report + 1, state |-> "send"]
    BY <1>1, <1>6 DEF Reports!Fail, Reports!MoveOn
  <2>4. try' \in 1..MaxTries
    BY <1>1, <1>3, <2>3
  <2>. HIDE DEF c
  <2>. QED
    BY <1>1, <2>1, <2>2, <2>3, <2>4
<1>7. CASE Reports!HandleLate
  <2>1. PICK q \in inFlight : Reports!Handle(q) /\ inFlight' = inFlight \ {q}
                              /\ UNCHANGED <<at, try, givenUp>>
    BY <1>7 DEF Reports!HandleLate
  <2>. QED
    BY <1>1, <2>1
<1>8. CASE UNCHANGED Reports!vars
  BY <1>1, <1>8 DEF Reports!vars
<1>. QED
  BY <1>4, <1>5, <1>6, <1>7, <1>8 DEF Reports!Next

(* What the API has stored only grows, in the order of the turns.          *)
LEMMA StoredGrows ==
  ASSUME ReportBounds, ReportsInv,
         UNCHANGED <<transcript, closed, outcome>> \/ \E q \in inFlight : Reports!Handle(q)
  PROVE  /\ transcript' \in Seq([turn : 1..Turns, key : Nat])
         /\ \A i \in 1..Len(transcript') :
              transcript'[i].key = 0 /\ transcript'[i].turn <= at.report
         /\ \A i, j \in 1..Len(transcript') : i < j =>
              /\ transcript'[i].turn # transcript'[j].turn
              /\ transcript'[i].turn > transcript'[j].turn => transcript'[j].turn \in givenUp
         /\ \A t \in 1..Turns : InTranscript(t) => InTranscript(t)'
         /\ closed' \in BOOLEAN /\ outcome' \in BOOLEAN
         /\ (closed => closed') /\ (outcome => outcome')
<1>1. CASE UNCHANGED <<transcript, closed, outcome>>
  <2>1. /\ transcript \in Seq([turn : 1..Turns, key : Nat])
        /\ closed \in BOOLEAN /\ outcome \in BOOLEAN
        /\ \A i \in 1..Len(transcript) : transcript[i].key = 0 /\ transcript[i].turn <= at.report
    BY DEF ReportsInv, ReportTypes, ReportInv, Reports!TypeOK
  <2>2. Reports!TranscriptFaithful
    BY DEF ReportsInv, ReportInv
  <2>. QED
    BY <1>1, <2>1, <2>2 DEF Reports!TranscriptFaithful, InTranscript
<1>2. ASSUME NEW q \in inFlight, Reports!Handle(q)
      PROVE  /\ closed' \in BOOLEAN /\ outcome' \in BOOLEAN
             /\ (closed => closed') /\ (outcome => outcome')
  BY <1>2, HandleIs
<1>. QED
  BY <1>1, <1>2, HandleKeeps

LEMMA ReportsNext ==
  ASSUME ReportBounds, ReportsInv, [Reports!Next]_Reports!vars PROVE ReportsInv'
<1>1. /\ at.report \in 1..Turns + 3 /\ Turns \in Nat /\ at'.report \in 1..Turns + 3
      /\ at'.state \in {"send", "wait"}
      /\ at' = [report |-> at'.report, state |-> at'.state] /\ at.report <= at'.report
      /\ at'.state = "wait" => at'.report \in 1..Turns + 2
      /\ givenUp \subseteq givenUp' /\ givenUp' \subseteq givenUp \cup (1..Turns + 2)
  <2>1. /\ at.report \in 1..Turns + 3 /\ at.state \in {"send", "wait"} /\ Turns \in Nat
        /\ at = [report |-> at.report, state |-> at.state]
        /\ at.state = "wait" => at.report \in 1..Turns + 2
    BY ReportRanges DEF ReportBounds, ReportsInv, ReportTypes, ReportInv
  <2>2. CASE at' = at /\ UNCHANGED givenUp
    BY <2>1, <2>2
  <2>3. CASE at' = [report |-> at.report, state |-> "send"] /\ UNCHANGED givenUp
    BY <2>1, <2>3
  <2>4. CASE at' = [report |-> at.report, state |-> "wait"] /\ at.report \in 1..Turns + 2
             /\ UNCHANGED givenUp
    BY <2>1, <2>4
  <2>5. CASE /\ at.report \in 1..Turns + 2
             /\ at' = [report |-> at.report + 1, state |-> "send"]
             /\ givenUp' = givenUp \cup {at.report} \/ UNCHANGED givenUp
    BY <2>1, <2>5
  <2>. QED
    BY <2>2, <2>3, <2>4, <2>5, ReportSteps
<1>2. inFlight' \subseteq Reports!Requests
      /\ \A q \in inFlight' : q.key = 0 /\ q.report <= at.report
  <2>1. \A q \in inFlight : q.key = 0 /\ q.report <= at.report
    BY DEF ReportsInv, ReportTypes, ReportInv
  <2>2. inFlight \subseteq Reports!Requests
    BY DEF ReportsInv, ReportTypes, Reports!TypeOK
  <2>3. CASE inFlight' \subseteq inFlight
    BY <2>1, <2>2, <2>3
  <2>4. CASE /\ at.report \in 1..Turns + 2
             /\ inFlight' = inFlight \cup {[report |-> at.report, key |-> 0]}
    <3>. DEFINE c == [report |-> at.report, key |-> 0]
    <3>1. c \in Reports!Requests /\ c.key = 0 /\ c.report <= at.report
      BY <1>1, <2>4 DEF Reports!Requests, Reports!Reports, Reports!Hangup
    <3>. HIDE DEF c
    <3>2. inFlight' = inFlight \cup {c}
      BY <2>4 DEF c
    <3>. QED
      BY <2>1, <2>2, <3>1, <3>2
  <2>. QED
    BY <2>3, <2>4, ReportSteps
<1>3. Reports!TypeOK'
  <2>1. at' \in [report : Reports!Reports \cup {Reports!Hangup + 1}, state : {"send", "wait"}]
    BY <1>1 DEF Reports!Reports, Reports!Hangup
  <2>2. givenUp' \subseteq Reports!Reports
    BY <1>1 DEF ReportsInv, ReportTypes, Reports!TypeOK, Reports!Reports, Reports!Hangup
  <2>. QED
    BY <1>2, <2>1, <2>2, ReportSteps, StoredGrows DEF Reports!TypeOK
<1>4. ReportTypes'
  BY <1>2, <1>3, ReportSteps, StoredGrows DEF ReportTypes
<1>5. \A i \in 1..Len(transcript') : transcript'[i].turn <= at'.report
  <2>1. ASSUME NEW i \in 1..Len(transcript') PROVE transcript'[i].turn \in 1..Turns
    <3>. DEFINE S == [turn : 1..Turns, key : Nat]
    <3>1. transcript' \in Seq(S)
      BY <1>4 DEF ReportTypes, Reports!TypeOK
    <3>. HIDE DEF S
    <3>2. transcript'[i] \in S
      BY <2>1, <3>1
    <3>. QED
      BY <3>2 DEF S
  <2>. QED
    BY <1>1, <2>1, ReportSteps, StoredGrows, SMTT(30)
<1>6. \A q \in inFlight' : q.report <= at'.report
  <2>1. \A q \in inFlight' : q.report \in 1..Turns + 2
    BY <1>2 DEF Reports!Requests, Reports!Reports, Reports!Hangup
  <2>. QED
    BY <1>1, <1>2, <2>1
<1>7. Reports!TranscriptFaithful'
  BY <1>1, ReportSteps, StoredGrows DEF Reports!TranscriptFaithful
<1>8. Reports!FinishedIsClosed'
  <2>. DEFINE Done(r) == /\ r = Turns + 2 => closed \/ r \in givenUp
                         /\ r = Turns + 1 => outcome \/ r \in givenUp
                         /\ r \in 1..Turns => r \in givenUp \/ InTranscript(r)
  <2>1. \A r \in 1..Turns + 2 : at.report > r => Done(r)
    <3>1. Reports!FinishedIsClosed
      BY DEF ReportsInv, ReportInv
    <3>. QED
      BY <1>1, <3>1 DEF Reports!FinishedIsClosed, InTranscript, Reports!Hangup, Reports!Outcome
  <2>2. \A r \in 1..Turns + 2 : Done(r) => Done(r)'
    BY <1>1, ReportSteps, StoredGrows
  <2>3. ASSUME NEW r \in 1..Turns + 2, r = at.report, at'.report # at.report
        PROVE  Done(r)'
    <3>1. CASE r \in givenUp'
      BY <3>1
    <3>2. CASE \E q \in inFlight : q.report = at.report /\ Reports!Handle(q)
      <4>. PICK q \in inFlight : q.report = at.report /\ Reports!Handle(q)
        BY <3>2
      <4>1. /\ r = Turns + 2 => closed'
            /\ r = Turns + 1 => outcome'
            /\ r <= Turns => InTranscript(q.report)'
        BY <1>1, <2>3, HandleIs, HandleKeeps
      <4>2. r <= Turns => InTranscript(r)'
        BY <2>3, <4>1 DEF InTranscript
      <4>. QED
        BY <1>1, <4>1, <4>2
    <3>3. at' # at /\ at' # [report |-> at.report, state |-> "send"]
          /\ at' # [report |-> at.report, state |-> "wait"]
      BY <2>3
    <3>. QED
      BY <2>3, <3>1, <3>2, <3>3, ReportSteps
  <2>4. at'.report = at.report \/ (at'.report = at.report + 1 /\ at.report \in 1..Turns + 2)
    <3>. DEFINE A(r, s) == [report |-> r, state |-> s]
    <3>1. \A r, s : A(r, s).report = r
      OBVIOUS
    <3>2. at' = at \/ (\E s : at' = A(at.report, s))
          \/ (at' = A(at.report + 1, "send") /\ at.report \in 1..Turns + 2)
      BY ReportSteps
    <3>. HIDE DEF A
    <3>. QED
      BY <3>1, <3>2
  <2>. HIDE DEF Done
  <2>5. \A r \in 1..Turns + 2 : at'.report > r => Done(r)'
    <3>. SUFFICES ASSUME NEW r \in 1..Turns + 2, at'.report > r PROVE Done(r)'
      OBVIOUS
    <3>1. CASE at.report > r
      BY <2>1, <2>2, <3>1
    <3>2. CASE ~(at.report > r)
      <4>1. r = at.report /\ at'.report # at.report
        BY <1>1, <2>4, <3>2
      <4>. QED
        BY <2>3, <4>1
    <3>. QED
      BY <3>1, <3>2
  <2>6. \A t \in 1..Turns : at'.report > t =>
          t \in givenUp' \/ \E i \in 1..Len(transcript') : transcript'[i].turn = t
    BY <1>1, <2>5 DEF Done, InTranscript
  <2>7. /\ at'.report > Turns + 2 => closed' \/ Turns + 2 \in givenUp'
        /\ at'.report > Turns + 1 => outcome' \/ Turns + 1 \in givenUp'
    BY <1>1, <2>5 DEF Done
  <2>. QED
    BY <2>6, <2>7 DEF Reports!FinishedIsClosed, Reports!Hangup, Reports!Outcome
<1>9. at'.state = "wait" => at'.report <= Turns + 2
  BY <1>1
<1>. QED
  BY <1>4, <1>5, <1>6, <1>7, <1>8, <1>9 DEF ReportsInv, ReportInv

\* append_transcript, on_end: for any number of turns and tries, a turn is in the transcript
\* once and in the order said, and a call that is reported as finished is closed with
\* everything before it stored, but for what the session gave up.
THEOREM ReportsAreKept ==
  ASSUME ReportBounds
  PROVE  Reports!Spec => [](Reports!TranscriptFaithful /\ Reports!FinishedIsClosed)
<1>1. Reports!Init => ReportsInv
  BY ReportsInit
<1>2. ReportsInv /\ [Reports!Next]_Reports!vars => ReportsInv'
  BY ReportsNext
<1>3. ReportsInv => Reports!TranscriptFaithful /\ Reports!FinishedIsClosed
  BY DEF ReportsInv, ReportInv
<1>. QED
  BY <1>1, <1>2, <1>3, PTL DEF Reports!Spec

-----------------------------------------------------------------------------
(***************************************************************************)
(* The walk through a flow (FlowExecution.tla: flow_executor.py and        *)
(* dialog_router.py).                                                      *)
(***************************************************************************)
Execution == INSTANCE FlowExecution

Waiting == {"listen", "ack", "reply"}

(* An answer is held back only in a dialog, and is the latest there; an    *)
(* answer is committed only between a node and the edge it chooses; a      *)
(* generation runs only beside a dialog that waits for it.                 *)
WalkInv ==
  /\ "pending" \in DOMAIN state
  /\ phase \in Waiting /\ state.pending # Execution!NoAnswer => state.pending = latest
  /\ phase \notin {"select", "done"} => resolved = Execution!NoAnswer
  /\ Execution!CommitsLatestAnswer
  /\ generation = "running" => phase \in {"ack", "reply"}

LEMMA WalkInit == ASSUME Execution!Init PROVE WalkInv
  BY DEF Execution!Init, Execution!Fresh, WalkInv, Waiting, Execution!CommitsLatestAnswer

(* What a routed turn does, from the result that is believed.              *)
LEMMA TurnKeeps ==
  ASSUME WalkInv, phase = "listen", UNCHANGED outcome, NEW r,
         latest' = IF Execution!Answer(r) # Execution!NoAnswer THEN Execution!Answer(r)
                   ELSE latest,
         Execution!Repair(r) \/ Execution!NoRepair(r)
  PROVE  WalkInv'
<1>. DEFINE p == Execution!Pending(r)
            h == Execution!Heard(r)
<1>1. p # Execution!NoAnswer => p = latest'
  BY DEF Execution!Pending, WalkInv, Waiting
<1>2. "pending" \in DOMAIN h /\ h.pending = p
  BY DEF Execution!Heard, WalkInv
<1>3. resolved = Execution!NoAnswer /\ generation # "running"
  BY DEF WalkInv
<1>. HIDE DEF p, h
<1>4. ASSUME NEW e, "pending" \in DOMAIN e, e.pending = p, state' = e,
             \/ phase' = "select" /\ resolved' \in {p, resolved}
             \/ phase' = "listen" /\ UNCHANGED resolved
             \/ phase' = "ack" /\ UNCHANGED resolved,
             UNCHANGED generation \/ (generation' = "running" /\ phase' = "ack")
      PROVE  WalkInv'
  BY <1>1, <1>3, <1>4 DEF WalkInv, Waiting, Execution!CommitsLatestAnswer, Execution!NoAnswer
<1>5. CASE Execution!NoRepair(r)
  <2>. DEFINE e == [h EXCEPT !.nomatch = @ + 1]
  <2>1. "pending" \in DOMAIN e /\ e.pending = p
    BY <1>2
  <2>2. CASE state' = h
    BY <1>2, <1>4, <1>5, <2>2 DEF Execution!NoRepair, Execution!Commit, Execution!CommitOr,
       Execution!Listen, Execution!GiveUp, p
  <2>3. CASE state' = e
    <3>. HIDE DEF e
    <3>. QED
      BY <1>4, <1>5, <2>1, <2>3 DEF Execution!NoRepair, Execution!Commit, Execution!CommitOr,
         Execution!Listen, Execution!GiveUp, p, h
  <2>. QED
    BY <1>5, <2>2, <2>3 DEF Execution!NoRepair, h
<1>6. CASE Execution!Repair(r)
  <2>. DEFINE k == [h EXCEPT !.nomatch = 0, !.repairs = @ + 1]
              kept(b) == [k EXCEPT !.awaiting = b]
  <2>1. "pending" \in DOMAIN k /\ k.pending = p
    BY <1>2
  <2>2. \A b : "pending" \in DOMAIN kept(b) /\ kept(b).pending = p
    BY <2>1
  <2>3. state' = k \/ \E b : state' = kept(b)
    BY <1>6 DEF Execution!Repair, h
  <2>4. /\ \/ phase' = "select" /\ resolved' \in {p, resolved}
           \/ phase' = "listen" /\ UNCHANGED resolved
           \/ phase' = "ack" /\ UNCHANGED resolved
        /\ UNCHANGED generation \/ (generation' = "running" /\ phase' = "ack")
    BY <1>6 DEF Execution!Repair, Execution!Commit, Execution!CommitOr, Execution!Listen,
       Execution!GiveUp, p
  <2>. HIDE DEF k, kept
  <2>. QED
    BY <1>4, <2>1, <2>2, <2>3, <2>4
<1>. QED
  BY <1>5, <1>6

LEMMA WalkNext == ASSUME WalkInv, [Execution!Next]_Execution!vars PROVE WalkInv'
<1>. USE DEF WalkInv, Waiting, Execution!CommitsLatestAnswer, Execution!NoAnswer
<1>1. CASE Execution!EnterNode
  <2>1. phase' \in {"done", "select", "plain", "listen", "act", "end"}
        \/ phase' = Execution!PhaseOf(node)
    BY <1>1 DEF Execution!EnterNode, Execution!Done
  <2>2. phase = "node" /\ resolved = "none" /\ UNCHANGED <<resolved, generation>>
        /\ generation # "running"
    BY <1>1 DEF Execution!EnterNode
  <2>3. (state' = Execution!Fresh) \/ (phase' = "done" /\ UNCHANGED state)
    BY <1>1 DEF Execution!EnterNode, Execution!Done
  <2>. QED
    BY <2>2, <2>3 DEF Execution!Fresh
<1>2. CASE Execution!WordsFail \/ Execution!ExecAction \/ Execution!ExecEnd
  BY <1>2 DEF Execution!WordsFail, Execution!ExecAction, Execution!ExecEnd, Execution!Done
<1>3. CASE Execution!SelectEdge
  BY <1>3 DEF Execution!SelectEdge, Execution!Done, Execution!Follow
<1>4. CASE Execution!PlainTurn
  BY <1>4 DEF Execution!PlainTurn
<1>5. CASE Execution!Silence
  BY <1>5 DEF Execution!Silence, Execution!Reprompt, Execution!Listen, Execution!CommitOr,
     Execution!Commit, Execution!GiveUp
<1>6. CASE Execution!ExactAnswer
  BY <1>6 DEF Execution!ExactAnswer, Execution!Commit
<1>7. CASE Execution!RouterFails
  BY <1>7 DEF Execution!RouterFails, Execution!Listen, Execution!GiveUp
<1>8. CASE Execution!RoutedTurn
  <2>. HIDE DEF WalkInv
  <2>. QED
    BY <1>8, TurnKeeps DEF Execution!RoutedTurn
<1>9. CASE Execution!Generated \/ Execution!Acknowledged
  BY <1>9 DEF Execution!Generated, Execution!Acknowledged
<1>10. CASE Execution!SideAnswered
  BY <1>10 DEF Execution!SideAnswered, Execution!Listen, Execution!CommitOr, Execution!Commit
<1>11. CASE Execution!HangUp
  BY <1>11 DEF Execution!HangUp, Execution!Done
<1>12. CASE Execution!Reaped
  BY <1>12 DEF Execution!Reaped, Execution!Done
<1>13. CASE UNCHANGED Execution!vars
  BY <1>13 DEF Execution!vars
<1>. QED
  BY <1>1, <1>2, <1>3, <1>4, <1>5, <1>6, <1>7, <1>8, <1>9, <1>10, <1>11, <1>12, <1>13
     DEF Execution!Next, Execution!Progress

\* What a dialog node commits is the caller's latest answer in it, whatever repairs, silences
\* and failures come between, and when the walk ends no generation is left running; for any
\* flow and any budgets of repairs and retries.
THEOREM LatestIsCommitted ==
  Execution!Spec => [](Execution!CommitsLatestAnswer /\ Execution!NoOrphanGeneration)
<1>1. Execution!Init => WalkInv
  BY WalkInit
<1>2. WalkInv /\ [Execution!Next]_Execution!vars => WalkInv'
  BY WalkNext
<1>3. WalkInv => Execution!CommitsLatestAnswer /\ Execution!NoOrphanGeneration
  BY DEF WalkInv, Execution!NoOrphanGeneration
<1>. QED
  BY <1>1, <1>2, <1>3, PTL DEF Execution!Spec

-----------------------------------------------------------------------------
(***************************************************************************)
(* The tools a conversation runs (Generation.tla: the language model's     *)
(* turns and tool calls).  The ids of the calls of a turn are above those  *)
(* of the turns before it, and what is still to be run was called for by   *)
(* one message and is above what has run.                                  *)
(***************************************************************************)
Talk == INSTANCE Generation

(* The highest id the turns so far may have given, and those before this.  *)
Given == turn * MaxCalls
GivenBefore == (turn - 1) * MaxCalls

RanInv ==
  /\ ran \in Seq(Int)
  /\ \A i, j \in DOMAIN ran : i < j => ran[i] < ran[j]
  /\ \A i \in DOMAIN ran : ran[i] <= IF pc = "asking" THEN GivenBefore ELSE Given

CallsInv ==
  /\ calls \in Seq(Int)
  /\ \A k, l \in DOMAIN calls : k < l => calls[k] < calls[l]
  /\ \A k \in DOMAIN calls : calls[k] <= Given /\ \A i \in DOMAIN ran : ran[i] < calls[k]

Messages == [role : {"system", "user", "assistant", "tool"}, made : Seq(Int), answers : Int]

(* The answers come after the message that made their calls.               *)
HistoryInv ==
  /\ history \in Seq(Messages)
  /\ \A i \in DOMAIN history : history[i].role = "tool" =>
       \E j \in 1 .. (i - 1) : history[i].answers \in Talk!ToSet(history[j].made)
  /\ pc = "tools" => \E j \in DOMAIN history :
       \A k \in DOMAIN calls : calls[k] \in Talk!ToSet(history[j].made)

TalkInv == turn \in Nat /\ RanInv /\ (pc = "tools" => CallsInv) /\ HistoryInv

LEMMA NextTurn ==
  ASSUME MaxCalls \in Nat, turn \in Nat, turn' = turn + 1
  PROVE  Given \in Int /\ GivenBefore \in Int /\ Given = GivenBefore + MaxCalls
         /\ GivenBefore' = Given /\ Given' = Given + MaxCalls
BY DEF Given, GivenBefore

LEMMA GivenIs ==
  ASSUME MaxCalls \in Nat, turn \in Nat
  PROVE  Given \in Int /\ GivenBefore \in Int /\ Given = GivenBefore + MaxCalls
BY DEF Given, GivenBefore

(* A message is added that answers no call, or one made before.            *)
LEMMA HistoryGrows ==
  ASSUME HistoryInv, NEW m \in Messages, history' = Append(history, m),
         m.role = "tool" =>
           \E j \in DOMAIN history : m.answers \in Talk!ToSet(history[j].made)
  PROVE  /\ history' \in Seq(Messages) /\ Len(history') = Len(history) + 1
         /\ DOMAIN history \subseteq DOMAIN history' /\ Len(history') \in DOMAIN history'
         /\ \A i \in DOMAIN history : history'[i] = history[i]
         /\ history'[Len(history')] = m
         /\ \A i \in DOMAIN history' : history'[i].role = "tool" =>
              \E j \in 1 .. (i - 1) : history'[i].answers \in Talk!ToSet(history'[j].made)
<1>1. history \in Seq(Messages) /\ Len(history) \in Nat /\ DOMAIN history = 1 .. Len(history)
  BY DEF HistoryInv
<1>2. /\ history' \in Seq(Messages) /\ Len(history') = Len(history) + 1
      /\ DOMAIN history' = 1 .. Len(history) + 1
      /\ \A i \in 1 .. Len(history) : history'[i] = history[i]
      /\ history'[Len(history) + 1] = m
  BY <1>1
<1>3. ASSUME NEW i \in DOMAIN history', history'[i].role = "tool"
      PROVE  \E j \in 1 .. (i - 1) : history'[i].answers \in Talk!ToSet(history'[j].made)
  <2>1. CASE i \in 1 .. Len(history)
    <3>1. PICK j \in 1 .. (i - 1) : history[i].answers \in Talk!ToSet(history[j].made)
      BY <1>1, <1>2, <1>3, <2>1 DEF HistoryInv
    <3>2. j \in 1 .. Len(history)
      BY <1>1, <2>1, <3>1
    <3>. QED
      BY <1>2, <2>1, <3>1, <3>2
  <2>2. CASE i = Len(history) + 1
    <3>1. PICK j \in DOMAIN history : m.answers \in Talk!ToSet(history[j].made)
      BY <1>2, <1>3, <2>2
    <3>2. j \in 1 .. (i - 1) /\ history'[j] = history[j]
      BY <1>1, <1>2, <2>2, <3>1
    <3>. QED
      BY <1>2, <2>2, <3>1, <3>2
  <2>. QED
    BY <1>1, <1>2, <1>3, <2>1, <2>2
<1>. QED
  BY <1>1, <1>2, <1>3

LEMMA TalkStart == ASSUME MaxCalls \in Nat, Talk!Init PROVE TalkInv
<1>1. /\ turn = 0 /\ ran = <<>> /\ pc = "listening" /\ history = <<Talk!System>>
  BY DEF Talk!Init
<1>2. RanInv
  BY <1>1 DEF RanInv
<1>3. Talk!System \in Messages /\ Talk!System.role = "system"
  BY DEF Messages, Talk!System, Talk!Message
<1>4. history \in Seq(Messages) /\ Len(history) = 1 /\ history[1] = Talk!System
  BY <1>1, <1>3
<1>5. HistoryInv
  BY <1>1, <1>3, <1>4 DEF HistoryInv
<1>. QED
  BY <1>1, <1>2, <1>5 DEF TalkInv

(* The ids of a stream's calls are above every id so far.                  *)
LEMMA FlushedIs ==
  ASSUME MaxCalls \in Nat, turn \in Nat, RanInv, pc = "asking",
         NEW q, q = Talk!Flushed(agg)
  PROVE  /\ q \in Seq(Int) /\ \A k, l \in DOMAIN q : k < l => q[k] < q[l]
         /\ \A k \in DOMAIN q : q[k] <= Given /\ \A i \in DOMAIN ran : ran[i] < q[k]
<1>. DEFINE brought == {i \in Talk!Indexes : agg[i] > 0}
            n == Cardinality(brought)
<1>1. n \in Nat /\ n <= MaxCalls
  <2>1. IsFiniteSet(1 .. MaxCalls) /\ Cardinality(1 .. MaxCalls) = MaxCalls
    BY FS_Interval
  <2>2. brought \in SUBSET (1 .. MaxCalls)
    BY DEF Talk!Indexes
  <2>3. IsFiniteSet(brought) /\ Cardinality(brought) <= MaxCalls
    BY <2>1, <2>2, FS_Subset
  <2>. QED
    BY <2>3, FS_CardinalityType
<1>2. q = [k \in 1 .. n |-> GivenBefore + k]
  <2>1. q = [k \in 1 .. n |-> Talk!Id(k)]
    <3>1. Talk!Cardinality(brought) = n
      BY DEF Talk!Cardinality, Cardinality
    <3>2. q = [k \in 1 .. Talk!Cardinality(brought) |-> Talk!Id(k)]
      BY DEF Talk!Flushed
    <3>. QED
      BY <3>1, <3>2
  <2>2. \A k \in 1 .. n : Talk!Id(k) = GivenBefore + k
    BY DEF Talk!Id, GivenBefore
  <2>. HIDE DEF n
  <2>. QED
    BY <2>1, <2>2
<1>3. Given \in Int /\ GivenBefore \in Int /\ Given = GivenBefore + MaxCalls
  BY GivenIs
<1>4. DOMAIN q = 1 .. n /\ \A k \in 1 .. n : q[k] = GivenBefore + k
  BY <1>2
<1>5. \A i \in DOMAIN ran : ran[i] \in Int /\ ran[i] <= GivenBefore
  BY DEF RanInv
<1>. HIDE DEF n
<1>6. q \in Seq(Int)
  BY <1>1, <1>2, <1>3
<1>. QED
  BY <1>1, <1>3, <1>4, <1>5, <1>6

LEMMA HearKeeps ==
  ASSUME MaxCalls \in Nat, TalkInv, Talk!HearNothing \/ \E known \in Talk!Retrieved : Talk!Hear(known)
  PROVE  TalkInv'
<1>1. pc = "listening" /\ turn' = turn + 1 /\ ran' = ran /\ pc' \in {"listening", "asking"}
  BY DEF Talk!HearNothing, Talk!Hear, Talk!Ask
<1>2. /\ turn \in Nat /\ Given \in Int /\ GivenBefore' = Given /\ Given' = Given + MaxCalls
  BY <1>1, NextTurn DEF TalkInv
<1>3. RanInv'
  <2>1. ran \in Seq(Int) /\ \A i \in DOMAIN ran : ran[i] \in Int /\ ran[i] <= Given
    BY <1>1 DEF TalkInv, RanInv
  <2>. QED
    BY <1>1, <1>2, <2>1 DEF TalkInv, RanInv
<1>4. HistoryInv'
  <2>1. CASE Talk!HearNothing
    BY <2>1 DEF Talk!HearNothing, TalkInv, HistoryInv
  <2>2. ASSUME NEW known \in Talk!Retrieved, Talk!Hear(known) PROVE HistoryInv'
    <3>1. Talk!User \in Messages /\ Talk!User.role = "user"
      BY DEF Messages, Talk!User, Talk!Message
    <3>2. history' = Append(history, Talk!User)
      BY <2>2 DEF Talk!Hear
    <3>. QED
      BY <1>1, <3>1, <3>2, HistoryGrows DEF TalkInv, HistoryInv
  <2>. QED
    BY <2>1, <2>2
<1>. QED
  BY <1>1, <1>2, <1>3, <1>4 DEF TalkInv

(* The reply of a turn, or of its tools, is added, or none.                *)
LEMMA ReplyKeeps ==
  ASSUME MaxCalls \in Nat, TalkInv, UNCHANGED <<turn, ran>>,
         pc' \notin {"asking", "tools"},
         history' \in {history, Append(history, Talk!Assistant(<<>>))}
  PROVE  TalkInv'
<1>1. Given \in Int /\ GivenBefore \in Int /\ Given = GivenBefore + MaxCalls
  BY GivenIs DEF TalkInv
<1>2. Given' = Given
  BY DEF Given
<1>3. RanInv'
  <2>1. ran \in Seq(Int) /\ \A i \in DOMAIN ran : ran[i] \in Int /\ ran[i] <= Given
    BY <1>1 DEF TalkInv, RanInv
  <2>. QED
    BY <1>2, <2>1 DEF TalkInv, RanInv
<1>4. Talk!Assistant(<<>>) \in Messages /\ Talk!Assistant(<<>>).role = "assistant"
  <2>1. <<>> \in Seq(Int)
    OBVIOUS
  <2>. QED
    BY <2>1 DEF Messages, Talk!Assistant, Talk!Message
<1>5. HistoryInv'
  <2>1. CASE history' = history
    BY <2>1 DEF TalkInv, HistoryInv
  <2>2. CASE history' = Append(history, Talk!Assistant(<<>>))
    BY <1>4, <2>2, HistoryGrows DEF TalkInv, HistoryInv
  <2>. QED
    BY <2>1, <2>2
<1>. QED
  BY <1>3, <1>5 DEF TalkInv

LEMMA CallsComeKeeps ==
  ASSUME MaxCalls \in Nat, TalkInv, pc = "asking", pc' = "tools", UNCHANGED <<turn, ran>>,
         calls' = Talk!Flushed(agg), history' = Append(history, Talk!Assistant(calls'))
  PROVE  TalkInv'
<1>0. PICK q : q = Talk!Flushed(agg)
  OBVIOUS
<1>1. Given \in Int /\ GivenBefore \in Int /\ Given = GivenBefore + MaxCalls /\ Given' = Given
  BY GivenIs DEF TalkInv, Given
<1>2. /\ q \in Seq(Int) /\ \A k, l \in DOMAIN q : k < l => q[k] < q[l]
      /\ \A k \in DOMAIN q : q[k] <= Given /\ \A i \in DOMAIN ran : ran[i] < q[k]
  BY <1>0, FlushedIs DEF TalkInv
<1>3. CallsInv'
  BY <1>0, <1>1, <1>2 DEF CallsInv
<1>4. RanInv'
  <2>1. ran \in Seq(Int) /\ \A i \in DOMAIN ran : ran[i] \in Int /\ ran[i] <= Given
    BY <1>1 DEF TalkInv, RanInv
  <2>. QED
    BY <1>1, <2>1 DEF TalkInv, RanInv
<1>5. PICK m : m = Talk!Assistant(q)
  OBVIOUS
<1>6. m \in Messages /\ m.role = "assistant" /\ m.made = q
  BY <1>2, <1>5 DEF Messages, Talk!Assistant, Talk!Message
<1>7. history' = Append(history, m)
  BY <1>0, <1>5
<1>8. /\ history' \in Seq(Messages) /\ Len(history') \in DOMAIN history'
      /\ history'[Len(history')] = m
      /\ \A i \in DOMAIN history' : history'[i].role = "tool" =>
           \E j \in 1 .. (i - 1) : history'[i].answers \in Talk!ToSet(history'[j].made)
  BY <1>6, <1>7, HistoryGrows DEF TalkInv
<1>9. \A k \in DOMAIN q : q[k] \in Talk!ToSet(q)
  BY DEF Talk!ToSet
<1>10. HistoryInv'
  BY <1>0, <1>6, <1>8, <1>9 DEF HistoryInv
<1>. QED
  BY <1>3, <1>4, <1>10 DEF TalkInv

LEMMA TailIs ==
  ASSUME NEW S, NEW q \in Seq(S), Len(q) > 0
  PROVE  /\ Tail(q) \in Seq(S) /\ DOMAIN Tail(q) = 1 .. Len(q) - 1
         /\ \A k \in DOMAIN Tail(q) : k + 1 \in DOMAIN q /\ Tail(q)[k] = q[k + 1]
OBVIOUS

LEMMA RunToolKeeps ==
  ASSUME MaxCalls \in Nat, TalkInv, NEW code \in Statuses, NEW refers \in BOOLEAN,
         Talk!RunTool(code, refers)
  PROVE  TalkInv'
<1>0. PICK m : m = Talk!Answer(Head(calls))
  OBVIOUS
<1>1. /\ pc = "tools" /\ calls # <<>> /\ turn' = turn /\ ran' = Append(ran, Head(calls))
      /\ \/ /\ calls' = <<>> /\ pc' = "farewell"
            /\ history' = Append(history, m)
         \/ /\ calls' = Tail(calls) /\ pc' \in {"tools", "answering"}
            /\ history' = Append(history, m)
  BY <1>0 DEF Talk!RunTool, Talk!Ask
<1>2. Given \in Int /\ GivenBefore \in Int /\ Given = GivenBefore + MaxCalls /\ Given' = Given
  BY <1>1, GivenIs DEF TalkInv, Given
<1>3. /\ ran \in Seq(Int) /\ calls \in Seq(Int) /\ Len(calls) > 0
      /\ \A i, j \in DOMAIN ran : i < j => ran[i] < ran[j]
      /\ \A i \in DOMAIN ran : ran[i] <= Given
      /\ \A k, l \in DOMAIN calls : k < l => calls[k] < calls[l]
      /\ \A k \in DOMAIN calls : calls[k] <= Given /\ \A i \in DOMAIN ran : ran[i] < calls[k]
  BY <1>1 DEF TalkInv, RanInv, CallsInv
<1>4. 1 \in DOMAIN calls /\ Head(calls) = calls[1] /\ Head(calls) \in Int
  BY <1>3
<1>5. /\ ran' \in Seq(Int) /\ DOMAIN ran' = 1 .. Len(ran) + 1
      /\ \A i \in DOMAIN ran' : ran'[i] = IF i \in DOMAIN ran THEN ran[i] ELSE calls[1]
  BY <1>1, <1>3, <1>4
<1>6. RanInv'
  <2>1. pc' # "asking"
    BY <1>1
  <2>2. \A i \in DOMAIN ran' : ran'[i] \in Int /\ ran'[i] <= Given
    <3>1. calls[1] \in Int /\ calls[1] <= Given
      BY <1>3, <1>4
    <3>2. \A i \in DOMAIN ran : ran[i] \in Int /\ ran[i] <= Given
      BY <1>3
    <3>. QED
      BY <1>5, <3>1, <3>2
  <2>3. ASSUME NEW i \in DOMAIN ran', NEW j \in DOMAIN ran', i < j PROVE ran'[i] < ran'[j]
    <3>1. Len(ran) \in Nat /\ DOMAIN ran = 1 .. Len(ran)
      BY <1>3
    <3>2. i \in DOMAIN ran /\ ran'[i] = ran[i]
      BY <1>5, <2>3, <3>1
    <3>3. CASE j \in DOMAIN ran
      BY <1>3, <1>5, <2>3, <3>2, <3>3
    <3>4. CASE ran'[j] = calls[1]
      BY <1>3, <1>4, <3>2, <3>4
    <3>. QED
      BY <1>5, <3>3, <3>4
  <2>. QED
    BY <1>2, <1>5, <2>1, <2>2, <2>3 DEF RanInv
<1>7. pc' = "tools" =>
        /\ calls' \in Seq(Int) /\ DOMAIN calls' = 1 .. Len(calls) - 1
        /\ \A k \in DOMAIN calls' : k + 1 \in DOMAIN calls /\ calls'[k] = calls[k + 1]
  BY <1>1, <1>3, TailIs
<1>8. ASSUME pc' = "tools" PROVE CallsInv'
  <2>1. ASSUME NEW k \in DOMAIN calls', NEW l \in DOMAIN calls', k < l PROVE calls'[k] < calls'[l]
    BY <1>3, <1>7, <1>8, <2>1
  <2>2. ASSUME NEW k \in DOMAIN calls', NEW i \in DOMAIN ran'
        PROVE  calls'[k] <= Given /\ ran'[i] < calls'[k]
    <3>1. /\ k + 1 \in DOMAIN calls /\ calls'[k] = calls[k + 1] /\ 1 < k + 1
      BY <1>3, <1>7, <1>8
    <3>2. i \in DOMAIN ran \/ ran'[i] = calls[1]
      BY <1>5
    <3>3. calls[k + 1] <= Given /\ calls[1] < calls[k + 1]
      BY <1>3, <1>4, <3>1
    <3>4. i \in DOMAIN ran => ran'[i] = ran[i] /\ ran[i] < calls[k + 1]
      BY <1>3, <1>5, <3>1
    <3>. QED
      BY <3>1, <3>2, <3>3, <3>4
  <2>3. \A k \in DOMAIN calls' : calls'[k] <= Given
    BY <1>3, <1>7, <1>8
  <2>. QED
    BY <1>2, <1>7, <1>8, <2>1, <2>2, <2>3 DEF CallsInv
<1>9. PICK j \in DOMAIN history :
        \A k \in DOMAIN calls : calls[k] \in Talk!ToSet(history[j].made)
  BY <1>1 DEF TalkInv, HistoryInv
<1>10. m \in Messages /\ m.role = "tool" /\ m.answers = calls[1]
  <2>1. <<>> \in Seq(Int)
    OBVIOUS
  <2>. QED
    BY <1>0, <1>4, <2>1 DEF Messages, Talk!Answer, Talk!Message
<1>11. /\ history' \in Seq(Messages) /\ DOMAIN history \subseteq DOMAIN history'
       /\ \A i \in DOMAIN history : history'[i] = history[i]
       /\ \A i \in DOMAIN history' : history'[i].role = "tool" =>
            \E n \in 1 .. (i - 1) : history'[i].answers \in Talk!ToSet(history'[n].made)
  BY <1>1, <1>4, <1>9, <1>10, HistoryGrows DEF TalkInv
<1>12. pc' = "tools" => \A k \in DOMAIN calls' : calls'[k] \in Talk!ToSet(history'[j].made)
  BY <1>7, <1>9, <1>11
<1>13. HistoryInv'
  BY <1>9, <1>11, <1>12 DEF HistoryInv
<1>. QED
  BY <1>1, <1>6, <1>8, <1>13 DEF TalkInv

LEMMA TalkStutters ==
  ASSUME MaxCalls \in Nat, TalkInv, UNCHANGED <<turn, ran, calls, history>>,
         pc' = pc \/ pc' \in {"over", "failed"}
  PROVE  TalkInv'
<1>1. Given \in Int /\ GivenBefore \in Int /\ Given = GivenBefore + MaxCalls /\ Given' = Given
      /\ GivenBefore' = GivenBefore
  BY GivenIs DEF TalkInv, Given, GivenBefore
<1>2. ran \in Seq(Int) /\ \A i \in DOMAIN ran : ran[i] \in Int /\ ran[i] <= Given
  BY <1>1 DEF TalkInv, RanInv
<1>3. RanInv'
  BY <1>1, <1>2 DEF TalkInv, RanInv
<1>. QED
  BY <1>1, <1>3 DEF TalkInv, CallsInv, HistoryInv

\* For any number of turns and of calls in an answer, any window and any answers of the tool
\* service: tools run in the order the model called them, none twice, and every result in the
\* conversation is of a call a message before it made (agent.py:619-680).
THEOREM ToolsRunInOrder ==
  ASSUME MaxCalls \in Nat
  PROVE  Talk!Spec => []Talk!ToolsRunAsCalled
<1>1. Talk!Init => TalkInv
  BY TalkStart
<1>2. TalkInv /\ [Talk!Next]_(Talk!vars) => TalkInv'
  <2>1. ASSUME TalkInv, UNCHANGED Talk!vars PROVE TalkInv'
    BY <2>1, TalkStutters DEF Talk!vars
  <2>2. ASSUME TalkInv, \/ Talk!LastTurn \/ Talk!Fail
                        \/ \E i \in Talk!Indexes : Talk!Piece(i)
        PROVE  TalkInv'
    BY <2>2, TalkStutters DEF Talk!LastTurn, Talk!Fail, Talk!Piece
  <2>3. ASSUME TalkInv, NEW text \in BOOLEAN, Talk!Answered(text) PROVE TalkInv'
    <3>1. UNCHANGED <<turn, ran>> /\ pc = "asking"
      BY <2>3 DEF Talk!Answered
    <3>2. CASE Talk!Flushed(agg) = <<>>
      BY <2>3, <3>1, <3>2, ReplyKeeps DEF Talk!Answered
    <3>3. CASE Talk!Flushed(agg) # <<>>
      BY <2>3, <3>1, <3>3, CallsComeKeeps DEF Talk!Answered
    <3>. QED
      BY <3>2, <3>3
  <2>4. ASSUME TalkInv, NEW text \in BOOLEAN, Talk!Told(text) PROVE TalkInv'
    BY <2>4, ReplyKeeps DEF Talk!Told
  <2>. QED
    BY <2>1, <2>2, <2>3, <2>4, HearKeeps, RunToolKeeps DEF Talk!Next
<1>3. TalkInv => Talk!ToolsRunAsCalled
  BY DEF TalkInv, RanInv, HistoryInv, Talk!ToolsRunAsCalled
<1>. QED
  BY <1>1, <1>2, <1>3, PTL DEF Talk!Spec

-----------------------------------------------------------------------------
(***************************************************************************)
(* The streaming synthesis clients (SynthesisBridge.tla: tts.py and        *)
(* tts_qwen.py), for both of them, any number of runs and of blocks of     *)
(* audio.                                                                  *)
(***************************************************************************)
Bridge == INSTANCE SynthesisBridge

ThreadAt == {"none", "starting", "connecting", "waiting", "exited"}
ChildAt == {"none", "new", "get", "chunk", "join"}
QueueEnds == {"finished", "error"}
QueueItems == {"audio"} \cup QueueEnds

BridgeTypes ==
  /\ run \in 0 .. Runs
  /\ child \in ChildAt
  /\ cancelReq \in BOOLEAN
  /\ cancelled \subseteq Bridge!AllRuns
  /\ answered \subseteq Bridge!AllRuns
  /\ twice \subseteq Bridge!AllRuns
  /\ thread \in [Bridge!AllRuns -> ThreadAt]
  /\ queue \in [Bridge!AllRuns -> Seq(QueueItems)]
  /\ child # "none" => run > 0

ThreadGone(r) == thread[r] \in {"none", "exited"}

(* At most the thread of the current run is alive, and only while a child  *)
(* will join it.                                                           *)
BridgeJoins ==
  /\ \A r \in Bridge!AllRuns : r > run => thread[r] = "none"
  /\ child = "new" => thread[run] = "none"
  /\ child = "none" => \A r \in Bridge!AllRuns \ twice : ThreadGone(r)
  /\ \A r \in Bridge!AllRuns \ twice : r # run => ThreadGone(r)

(* CosyVoice's handle is that of the thread that is connecting or waiting.  *)
BridgeHandle ==
  Bridge!Cosy /\ twice = {} =>
    \A r \in Bridge!AllRuns : thread[r] \in {"connecting", "waiting"} => handle = r

HasEnd(r) == \E i \in 1 .. Len(queue[r]) : queue[r][i] \in QueueEnds
Consuming == child \in {"get", "chunk"} /\ ~cancelReq

(* A consumer whose run is cancelled has a cancellation coming; any other  *)
(* finds an end in its queue once the server has answered or the thread is *)
(* gone.                                                                   *)
BridgeFed ==
  /\ \A r \in cancelled : r <= run
  /\ \A r \in answered : thread[r] \in {"waiting", "exited"}
  /\ child \in {"new", "get", "chunk"} /\ run \in cancelled => cancelReq
  /\ Consuming /\ (run \in answered \/ thread[run] = "exited") => HasEnd(run)

-----------------------------------------------------------------------------
LEMMA BridgeStart == ASSUME Runs \in Nat
  PROVE  Bridge!Init => BridgeTypes /\ BridgeJoins /\ BridgeHandle /\ BridgeFed
<1>. SUFFICES ASSUME Bridge!Init PROVE BridgeTypes /\ BridgeJoins /\ BridgeHandle /\ BridgeFed
  OBVIOUS
<1>1. BridgeTypes
  <2>1. <<>> \in Seq(QueueItems)
    OBVIOUS
  <2>2. run \in 0 .. Runs /\ child = "none"
    BY DEF Bridge!Init
  <2>3. queue \in [Bridge!AllRuns -> Seq(QueueItems)] /\ thread \in [Bridge!AllRuns -> ThreadAt]
    BY <2>1 DEF Bridge!Init, ThreadAt
  <2>. QED
    BY <2>2, <2>3 DEF Bridge!Init, BridgeTypes, ChildAt
<1>2. \A r \in Bridge!AllRuns : thread[r] = "none"
  BY DEF Bridge!Init
<1>3. BridgeJoins /\ BridgeHandle
  <2>1. child = "none"
    BY DEF Bridge!Init
  <2>. QED
    BY <1>2, <2>1 DEF BridgeJoins, ThreadGone, BridgeHandle
<1>4. BridgeFed
  BY DEF Bridge!Init, BridgeFed, Consuming
<1>. QED
  BY <1>1, <1>3, <1>4

(* A push adds to one queue and takes nothing from it.                     *)
LEMMA ItemPushed ==
  ASSUME BridgeTypes, NEW r \in Bridge!AllRuns, NEW item \in QueueItems, Bridge!Push(r, item)
  PROVE  /\ queue' \in [Bridge!AllRuns -> Seq(QueueItems)]
         /\ \A q \in Bridge!AllRuns : HasEnd(q) => HasEnd(q)'
         /\ item \in QueueEnds => HasEnd(r)'
<1>1. queue[r] \in Seq(QueueItems)
  BY DEF BridgeTypes
<1>2. /\ queue' \in [Bridge!AllRuns -> Seq(QueueItems)]
      /\ queue'[r] = Append(queue[r], item)
      /\ \A q \in Bridge!AllRuns \ {r} : queue'[q] = queue[q]
  BY <1>1 DEF Bridge!Push, BridgeTypes
<1>3. /\ Len(queue'[r]) = Len(queue[r]) + 1
      /\ queue'[r][Len(queue[r]) + 1] = item
      /\ \A i \in 1 .. Len(queue[r]) : queue'[r][i] = queue[r][i]
      /\ Len(queue[r]) \in Nat
  BY <1>1, <1>2
<1>4. HasEnd(r) => HasEnd(r)'
  BY <1>3 DEF HasEnd
<1>5. \A q \in Bridge!AllRuns : HasEnd(q) => HasEnd(q)'
  BY <1>2, <1>4 DEF HasEnd
<1>6. item \in QueueEnds => HasEnd(r)'
  BY <1>3 DEF HasEnd
<1>. QED
  BY <1>2, <1>5, <1>6

(* What the thread of run r may do to its place, its queue and the set of  *)
(* answered runs.                                                          *)
LEMMA ThreadMoves ==
  ASSUME BridgeTypes, NEW r \in Bridge!AllRuns,
         Bridge!ThreadStep(r) \/ Bridge!OnData(r) \/ Bridge!OnEnd(r)
  PROVE  /\ ~ThreadGone(r)
         /\ thread' \in [Bridge!AllRuns -> ThreadAt]
         /\ \A q \in Bridge!AllRuns \ {r} : thread'[q] = thread[q]
         /\ thread'[r] = thread[r] \/ thread'[r] \in {"connecting", "waiting", "exited"}
         /\ queue' = queue \/ \E item \in QueueItems : Bridge!Push(r, item)
         /\ answered' = answered \/ (answered' = answered \cup {r} /\ UNCHANGED thread)
         /\ UNCHANGED <<client, run, Bridge!childVars, asked, cancelled, stopped, twice>>
<1>1. ~ThreadGone(r)
  BY DEF Bridge!ThreadStep, Bridge!Register, Bridge!Connect, Bridge!ConnectFails,
     Bridge!WaitEnds, Bridge!OnData, Bridge!OnEnd, ThreadGone
<1>2. \/ thread' = thread
      \/ \E s \in {"connecting", "waiting", "exited"} : thread' = [thread EXCEPT ![r] = s]
  BY DEF Bridge!ThreadStep, Bridge!Register, Bridge!Connect, Bridge!ConnectFails,
     Bridge!WaitEnds, Bridge!OnData, Bridge!OnEnd, Bridge!Exit, Bridge!Moves
<1>3. /\ thread' \in [Bridge!AllRuns -> ThreadAt]
      /\ \A q \in Bridge!AllRuns \ {r} : thread'[q] = thread[q]
      /\ thread'[r] = thread[r] \/ thread'[r] \in {"connecting", "waiting", "exited"}
  BY <1>2 DEF BridgeTypes, ThreadAt
<1>4. queue' = queue \/ \E item \in QueueItems : Bridge!Push(r, item)
  BY DEF Bridge!ThreadStep, Bridge!Register, Bridge!Connect, Bridge!ConnectFails,
     Bridge!WaitEnds, Bridge!OnData, Bridge!OnEnd, Bridge!Sentinel, QueueItems, QueueEnds
<1>5. answered' = answered \/ (answered' = answered \cup {r} /\ UNCHANGED thread)
  BY DEF Bridge!ThreadStep, Bridge!Register, Bridge!Connect, Bridge!ConnectFails,
     Bridge!WaitEnds, Bridge!OnData, Bridge!OnEnd
<1>6. UNCHANGED <<client, run, Bridge!childVars, asked, cancelled, stopped, twice>>
  BY DEF Bridge!ThreadStep, Bridge!Register, Bridge!Connect, Bridge!ConnectFails,
     Bridge!WaitEnds, Bridge!OnData, Bridge!OnEnd
<1>. QED
  BY <1>1, <1>3, <1>4, <1>5, <1>6

LEMMA BridgeTypesKept == ASSUME Runs \in Nat
  PROVE  BridgeTypes /\ [Bridge!Next]_(Bridge!vars) => BridgeTypes'
<1>. SUFFICES ASSUME BridgeTypes, [Bridge!Next]_(Bridge!vars) PROVE BridgeTypes'
  OBVIOUS
<1>0. run > 0 => run \in Bridge!AllRuns
  BY DEF BridgeTypes, Bridge!AllRuns
<1>1. CASE Bridge!Synthesize
  BY <1>1 DEF Bridge!Synthesize, BridgeTypes, ChildAt
<1>2. CASE Bridge!Interrupt \/ Bridge!HangUp
  BY <1>0, <1>2 DEF Bridge!Interrupt, Bridge!HangUp, Bridge!StreamingCancel, Bridge!threadVars,
     BridgeTypes
<1>3. CASE Bridge!Start
  BY <1>0, <1>3 DEF Bridge!Start, Bridge!Moves, BridgeTypes, ChildAt, ThreadAt
<1>4. CASE Bridge!Take
  <2>1. run \in Bridge!AllRuns /\ queue[run] \in Seq(QueueItems) /\ queue[run] # <<>>
    BY <1>0, <1>4 DEF Bridge!Take, BridgeTypes
  <2>2. Tail(queue[run]) \in Seq(QueueItems) /\ Head(queue[run]) \in QueueItems
    BY <2>1
  <2>3. queue' \in [Bridge!AllRuns -> Seq(QueueItems)]
    BY <1>4, <2>1, <2>2 DEF Bridge!Take, BridgeTypes
  <2>4. child' \in {"chunk", "join"}
    BY <1>4, <2>2 DEF Bridge!Take, QueueItems, QueueEnds
  <2>. QED
    BY <1>4, <2>3, <2>4 DEF Bridge!Take, BridgeTypes, ChildAt
<1>5. CASE Bridge!ChunkDone \/ Bridge!Cancelled \/ Bridge!Joined
  BY <1>0, <1>5 DEF Bridge!ChunkDone, Bridge!Cancelled, Bridge!Joined, Bridge!StreamingCancel,
     Bridge!threadVars, BridgeTypes, ChildAt
<1>6. CASE Bridge!JoinCut
  <2>1. run \in Bridge!AllRuns
    BY <1>0, <1>6 DEF Bridge!JoinCut, BridgeTypes
  <2>. QED
    BY <1>6, <2>1 DEF Bridge!JoinCut, Bridge!Moves, BridgeTypes, ChildAt, ThreadAt
<1>7. ASSUME NEW r \in Bridge!AllRuns,
             Bridge!ThreadStep(r) \/ Bridge!OnData(r) \/ Bridge!OnEnd(r)
      PROVE  BridgeTypes'
  <2>1. queue' \in [Bridge!AllRuns -> Seq(QueueItems)]
    BY <1>7, ThreadMoves, ItemPushed DEF BridgeTypes
  <2>. QED
    BY <1>7, <2>1, ThreadMoves DEF BridgeTypes, Bridge!childVars
<1>8. CASE UNCHANGED Bridge!vars
  BY <1>8 DEF Bridge!vars, BridgeTypes
<1>. QED
  BY <1>1, <1>2, <1>3, <1>4, <1>5, <1>6, <1>7, <1>8 DEF Bridge!Next, Bridge!ChildStep

LEMMA StepJoin == ASSUME Runs \in Nat
  PROVE  BridgeTypes /\ BridgeJoins /\ [Bridge!Next]_(Bridge!vars) => BridgeJoins'
<1>. SUFFICES ASSUME BridgeTypes, BridgeJoins, [Bridge!Next]_(Bridge!vars) PROVE BridgeJoins'
  OBVIOUS
<1>0. run \in 0 .. Runs /\ (child # "none" => run \in Bridge!AllRuns)
  BY DEF BridgeTypes, Bridge!AllRuns
<1>1. CASE Bridge!Synthesize
  BY <1>0, <1>1 DEF Bridge!Synthesize, BridgeJoins, ThreadGone, Bridge!AllRuns
<1>2. CASE Bridge!Interrupt \/ Bridge!HangUp
  BY <1>2 DEF Bridge!Interrupt, Bridge!HangUp, Bridge!threadVars, BridgeJoins, ThreadGone
<1>3. CASE Bridge!Start
  <2>1. CASE cancelReq
    BY <1>3, <2>1 DEF Bridge!Start, BridgeJoins, ThreadGone
  <2>2. CASE ~cancelReq
    <3>1. /\ child' = "get" /\ UNCHANGED <<run, twice>>
          /\ \A r \in Bridge!AllRuns \ {run} : thread'[r] = thread[r]
      BY <1>3, <2>2 DEF Bridge!Start, Bridge!Moves, BridgeTypes
    <3>. QED
      BY <1>0, <3>1 DEF BridgeJoins, ThreadGone
  <2>. QED
    BY <2>1, <2>2
<1>4. CASE Bridge!Take
  <2>1. child' # "none" /\ child' # "new"
    <3>1. run \in Bridge!AllRuns /\ queue[run] \in Seq(QueueItems) /\ queue[run] # <<>>
      BY <1>0, <1>4 DEF Bridge!Take, BridgeTypes
    <3>2. Head(queue[run]) \in QueueItems
      BY <3>1
    <3>. QED
      BY <1>4, <3>2 DEF Bridge!Take, QueueItems, QueueEnds
  <2>. QED
    BY <1>4, <2>1 DEF Bridge!Take, BridgeJoins, ThreadGone
<1>5. CASE Bridge!ChunkDone \/ Bridge!Cancelled
  BY <1>5 DEF Bridge!ChunkDone, Bridge!Cancelled, Bridge!threadVars, BridgeJoins, ThreadGone
<1>6. CASE Bridge!Joined
  BY <1>6 DEF Bridge!Joined, Bridge!threadVars, BridgeJoins, ThreadGone
<1>7. CASE Bridge!JoinCut
  <2>1. /\ child' = "none" /\ run' = run /\ twice' = twice \cup {run}
        /\ \A r \in Bridge!AllRuns \ {run} : thread'[r] = thread[r]
        /\ run \in Bridge!AllRuns
    BY <1>0, <1>7 DEF Bridge!JoinCut, Bridge!Moves, BridgeTypes
  <2>. QED
    BY <2>1 DEF BridgeJoins, ThreadGone, Bridge!AllRuns
<1>8. ASSUME NEW r \in Bridge!AllRuns,
             Bridge!ThreadStep(r) \/ Bridge!OnData(r) \/ Bridge!OnEnd(r)
      PROVE  BridgeJoins'
  <2>1. /\ ~ThreadGone(r)
        /\ \A q \in Bridge!AllRuns \ {r} : thread'[q] = thread[q]
        /\ UNCHANGED <<run, child, twice>>
    BY <1>8, ThreadMoves DEF Bridge!childVars
  <2>2. ~(r > run) /\ (child = "new" => r # run) /\ (child = "none" => r \in twice)
        /\ (r # run => r \in twice)
    BY <2>1 DEF BridgeJoins, ThreadGone
  <2>. QED
    BY <1>0, <2>1, <2>2 DEF BridgeJoins, ThreadGone
<1>9. CASE UNCHANGED Bridge!vars
  BY <1>9 DEF Bridge!vars, BridgeJoins, ThreadGone
<1>. QED
  BY <1>1, <1>2, <1>3, <1>4, <1>5, <1>6, <1>7, <1>8, <1>9 DEF Bridge!Next, Bridge!ChildStep

LEMMA StepHandle ==
  ASSUME Runs \in Nat
  PROVE  BridgeTypes /\ BridgeJoins /\ BridgeHandle /\ [Bridge!Next]_(Bridge!vars) => BridgeHandle'
<1>. SUFFICES ASSUME BridgeTypes, BridgeJoins, BridgeHandle, [Bridge!Next]_(Bridge!vars),
                     Bridge!Cosy', twice' = {},
                     NEW q \in Bridge!AllRuns, thread'[q] \in {"connecting", "waiting"}
              PROVE  handle' = q
  BY DEF BridgeHandle
<1>1. Bridge!Cosy /\ twice = {}
  BY DEF Bridge!Cosy, BridgeTypes, Bridge!Next, Bridge!ChildStep, Bridge!Synthesize,
     Bridge!Interrupt, Bridge!HangUp, Bridge!Start, Bridge!Take, Bridge!ChunkDone,
         Bridge!Cancelled, Bridge!Joined, Bridge!JoinCut, Bridge!ThreadStep, Bridge!Register,
     Bridge!Connect, Bridge!ConnectFails, Bridge!WaitEnds, Bridge!OnData,
         Bridge!OnEnd, Bridge!vars
<1>2. CASE handle' = handle /\ thread'[q] = thread[q]
  BY <1>1, <1>2 DEF BridgeHandle
<1>3. CASE \/ Bridge!Synthesize \/ Bridge!Interrupt \/ Bridge!HangUp \/ Bridge!Take
           \/ Bridge!ChunkDone \/ Bridge!Cancelled \/ Bridge!Joined
           \/ UNCHANGED Bridge!vars
  BY <1>2, <1>3 DEF Bridge!Synthesize, Bridge!Interrupt, Bridge!HangUp, Bridge!Take,
     Bridge!ChunkDone, Bridge!Cancelled, Bridge!Joined, Bridge!threadVars,
                    Bridge!vars
<1>4. CASE Bridge!Start
  BY <1>2, <1>4 DEF Bridge!Start, Bridge!Moves, BridgeTypes
<1>5. CASE Bridge!JoinCut
  BY <1>2, <1>5 DEF Bridge!JoinCut, Bridge!Moves, BridgeTypes
<1>6. ASSUME NEW r \in Bridge!AllRuns,
             Bridge!ThreadStep(r) \/ Bridge!OnData(r) \/ Bridge!OnEnd(r)
      PROVE  handle' = q
  <2>1. r = run /\ ~ThreadGone(r)
        /\ \A p \in Bridge!AllRuns \ {r} : thread'[p] = thread[p] /\ ThreadGone(p)
    BY <1>1, <1>6, ThreadMoves DEF BridgeJoins
  <2>2. q = r
    BY <2>1 DEF ThreadGone
  <2>3. CASE Bridge!Register(r)
    BY <1>1, <2>2, <2>3 DEF Bridge!Register, Bridge!Moves, BridgeTypes
  <2>4. CASE Bridge!Connect(r)
    BY <1>1, <1>2, <2>2, <2>4 DEF Bridge!Connect, Bridge!Exit, Bridge!Moves, BridgeTypes,
       BridgeHandle
  <2>5. CASE Bridge!ConnectFails(r) \/ Bridge!WaitEnds(r)
    BY <2>2, <2>5 DEF Bridge!ConnectFails, Bridge!WaitEnds, Bridge!Exit, Bridge!Moves, BridgeTypes
  <2>6. CASE Bridge!OnData(r) \/ Bridge!OnEnd(r)
    BY <1>2, <2>6 DEF Bridge!OnData, Bridge!OnEnd
  <2>. QED
    BY <1>6, <2>3, <2>4, <2>5, <2>6 DEF Bridge!ThreadStep
<1>. QED
  BY <1>3, <1>4, <1>5, <1>6 DEF Bridge!Next, Bridge!ChildStep

(* What the thread of the current run does leaves a consumer that is not    *)
(* being cancelled with an end to find.                                    *)
LEMMA ThreadFeeds ==
  ASSUME BridgeTypes, BridgeFed, NEW r \in Bridge!AllRuns,
         Bridge!ThreadStep(r) \/ Bridge!OnData(r) \/ Bridge!OnEnd(r),
         r = run, Consuming, run \in answered' \/ thread'[run] = "exited"
  PROVE  HasEnd(run)'
<1>1. run \notin cancelled
  BY DEF BridgeFed, Consuming
<1>2. CASE HasEnd(run)
  BY <1>2, ThreadMoves, ItemPushed DEF HasEnd
<1>3. CASE ~HasEnd(run)
  <2>1. run \notin answered /\ thread[run] # "exited"
    BY <1>3 DEF BridgeFed
  <2>2. \E item \in QueueEnds : Bridge!Push(r, item)
    <3>1. CASE Bridge!Register(r) \/ Bridge!Connect(r) \/ Bridge!OnData(r)
      BY <1>1, <2>1, <3>1, ThreadMoves DEF Bridge!Register, Bridge!Connect, Bridge!OnData,
         Bridge!Moves, BridgeTypes
    <3>2. CASE Bridge!ConnectFails(r)
      BY <1>1, <3>2 DEF Bridge!ConnectFails, QueueEnds
    <3>3. CASE Bridge!OnEnd(r)
      BY <1>1, <3>3 DEF Bridge!OnEnd, QueueEnds
    <3>4. CASE Bridge!WaitEnds(r)
      BY <1>1, <2>1, <3>4 DEF Bridge!WaitEnds, Bridge!Sentinel, QueueEnds
    <3>. QED
      BY <3>1, <3>2, <3>3, <3>4 DEF Bridge!ThreadStep
  <2>3. PICK item \in QueueEnds : Bridge!Push(r, item)
    BY <2>2
  <2>4. HasEnd(r)'
    BY <2>3, ItemPushed DEF QueueItems
  <2>5. run' = run
    BY ThreadMoves
  <2>. QED
    BY <2>4, <2>5 DEF HasEnd
<1>. QED
  BY <1>2, <1>3

LEMMA StepFed == ASSUME Runs \in Nat
  PROVE  BridgeTypes /\ BridgeJoins /\ BridgeFed /\ [Bridge!Next]_(Bridge!vars) => BridgeFed'
<1>. SUFFICES ASSUME BridgeTypes, BridgeJoins, BridgeFed, [Bridge!Next]_(Bridge!vars) PROVE BridgeFed'
  OBVIOUS
<1>0. run \in 0 .. Runs /\ (child # "none" => run \in Bridge!AllRuns)
  BY DEF BridgeTypes, Bridge!AllRuns
<1>1. CASE Bridge!Synthesize
  <2>1. run' = run + 1 /\ run' \in Bridge!AllRuns /\ child' = "new"
    BY <1>0, <1>1 DEF Bridge!Synthesize, Bridge!AllRuns
  <2>2. run' \notin cancelled
    BY <1>0, <2>1 DEF BridgeFed
  <2>. QED
    BY <1>0, <1>1, <2>1, <2>2 DEF Bridge!Synthesize, BridgeFed, Consuming, BridgeTypes,
       Bridge!AllRuns
<1>2. CASE Bridge!Interrupt \/ Bridge!HangUp
  <2>1. /\ cancelReq' = TRUE /\ UNCHANGED <<run, child, thread, answered>>
        /\ cancelled' \subseteq cancelled \cup {run}
    BY <1>2 DEF Bridge!Interrupt, Bridge!HangUp, Bridge!threadVars
  <2>. QED
    BY <1>0, <2>1 DEF BridgeFed, Consuming
<1>3. CASE Bridge!Start
  <2>1. UNCHANGED <<run, cancelled, answered>> /\ run \in Bridge!AllRuns /\ thread[run] = "none"
    BY <1>0, <1>3 DEF Bridge!Start, BridgeJoins
  <2>2. CASE cancelReq
    BY <1>3, <2>1, <2>2 DEF Bridge!Start, BridgeFed, Consuming
  <2>3. CASE ~cancelReq
    <3>1. /\ thread'[run] = "starting" /\ \A r \in Bridge!AllRuns \ {run} : thread'[r] = thread[r]
          /\ child' = "get"
      BY <1>3, <2>1, <2>3 DEF Bridge!Start, Bridge!Moves, BridgeTypes
    <3>2. run \notin answered /\ run \notin cancelled
      BY <1>3, <2>1, <2>3 DEF BridgeFed, Bridge!Start
    <3>. QED
      BY <2>1, <3>1, <3>2 DEF BridgeFed, Consuming, BridgeTypes
  <2>. QED
    BY <2>2, <2>3
<1>4. CASE Bridge!Take
  <2>1. run \in Bridge!AllRuns /\ queue[run] \in Seq(QueueItems) /\ queue[run] # <<>>
    BY <1>0, <1>4 DEF Bridge!Take, BridgeTypes
  <2>2. Head(queue[run]) \in QueueItems /\ Head(queue[run]) = queue[run][1]
    BY <2>1
  <2>3. UNCHANGED <<run, cancelReq, cancelled, answered, thread>> /\ Consuming
    BY <1>4 DEF Bridge!Take, Consuming
  <2>4. CASE Head(queue[run]) = "audio"
    <3>1. child' = "chunk" /\ queue'[run] = Tail(queue[run])
      BY <1>4, <2>1, <2>4 DEF Bridge!Take, BridgeTypes
    <3>2. HasEnd(run) => HasEnd(run)'
      <4>. SUFFICES ASSUME NEW i \in 1 .. Len(queue[run]), queue[run][i] \in QueueEnds
                    PROVE  HasEnd(run)'
        BY DEF HasEnd
      <4>1. i # 1
        BY <2>2, <2>4 DEF QueueEnds
      <4>2. /\ Len(Tail(queue[run])) = Len(queue[run]) - 1
            /\ Len(queue[run]) \in Nat
            /\ i - 1 \in 1 .. Len(Tail(queue[run]))
            /\ Tail(queue[run])[i - 1] = queue[run][i]
        BY <2>1, <4>1
      <4>. QED
        BY <2>3, <3>1, <4>2 DEF HasEnd
    <3>. QED
      BY <2>3, <3>1, <3>2 DEF BridgeFed, Consuming
  <2>5. CASE Head(queue[run]) # "audio"
    <3>1. child' = "join"
      BY <1>4, <2>2, <2>5 DEF Bridge!Take, QueueItems, QueueEnds
    <3>. QED
      BY <2>3, <3>1 DEF BridgeFed, Consuming
  <2>. QED
    BY <2>4, <2>5
<1>5. CASE Bridge!ChunkDone
  BY <1>5 DEF Bridge!ChunkDone, Bridge!threadVars, BridgeFed, Consuming, HasEnd
<1>6. CASE Bridge!Cancelled \/ Bridge!Joined
  <2>1. /\ child' \in {"join", "none"} /\ UNCHANGED <<run, thread, answered>>
        /\ cancelled' \subseteq cancelled \cup {run}
    BY <1>6 DEF Bridge!Cancelled, Bridge!Joined, Bridge!threadVars
  <2>. QED
    BY <1>0, <2>1 DEF BridgeFed, Consuming
<1>7. CASE Bridge!JoinCut
  <2>1. /\ child' = "none" /\ UNCHANGED <<run, cancelled, answered>>
        /\ thread' = thread \/ (thread[run] = "starting" /\ Bridge!Moves(run, "exited"))
    BY <1>7 DEF Bridge!JoinCut
  <2>2. \A r \in answered : thread'[r] \in {"waiting", "exited"}
    BY <2>1 DEF BridgeFed, Bridge!Moves, BridgeTypes
  <2>. QED
    BY <2>1, <2>2 DEF BridgeFed, Consuming
<1>8. ASSUME NEW r \in Bridge!AllRuns,
             Bridge!ThreadStep(r) \/ Bridge!OnData(r) \/ Bridge!OnEnd(r)
      PROVE  BridgeFed'
  <2>1. /\ \A q \in Bridge!AllRuns \ {r} : thread'[q] = thread[q]
        /\ UNCHANGED <<run, child, cancelReq, cancelled>>
        /\ ~ThreadGone(r)
        /\ answered' = answered \/ (answered' = answered \cup {r} /\ UNCHANGED thread)
    BY <1>8, ThreadMoves DEF Bridge!childVars
  <2>2. \A q \in answered' : thread'[q] \in {"waiting", "exited"}
    <3>1. r \in answered => thread'[r] \in {"waiting", "exited"}
      BY <1>8, <2>1 DEF BridgeFed, Bridge!ThreadStep, Bridge!Register, Bridge!Connect,
         Bridge!ConnectFails, Bridge!WaitEnds, Bridge!OnData,
         Bridge!OnEnd, Bridge!Exit, Bridge!Moves, BridgeTypes
    <3>2. answered' # answered => thread[r] = "waiting"
      BY <1>8 DEF Bridge!ThreadStep, Bridge!Register, Bridge!Connect, Bridge!ConnectFails,
         Bridge!WaitEnds, Bridge!OnData, Bridge!OnEnd
    <3>. QED
      BY <2>1, <3>1, <3>2 DEF BridgeFed, BridgeTypes
  <2>3. ASSUME Consuming', run' \in answered' \/ thread'[run'] = "exited" PROVE HasEnd(run)'
    <3>1. Consuming /\ run' = run /\ run \in Bridge!AllRuns
      BY <1>0, <2>1, <2>3 DEF Consuming
    <3>2. CASE r = run
      BY <1>8, <2>3, <3>1, <3>2, ThreadFeeds
    <3>3. CASE r # run
      <4>1. HasEnd(run)
        BY <2>1, <2>3, <3>1, <3>3 DEF BridgeFed
      <4>. QED
        BY <1>8, <3>1, <4>1, ThreadMoves, ItemPushed DEF HasEnd
    <3>. QED
      BY <3>2, <3>3
  <2>. QED
    BY <2>1, <2>2, <2>3 DEF BridgeFed, HasEnd
<1>9. CASE UNCHANGED Bridge!vars
  BY <1>9 DEF Bridge!vars, BridgeFed, Consuming, HasEnd
<1>. QED
  BY <1>1, <1>2, <1>3, <1>4, <1>5, <1>6, <1>7, <1>8, <1>9 DEF Bridge!Next, Bridge!ChildStep

-----------------------------------------------------------------------------
(* synthesize(), _run_synthesis: whatever barge-ins and hangups fall in, a   *)
(* synthesis that has returned has no thread any more, and no two threads  *)
(* of one client run side by side, unless a child was cancelled a second   *)
(* time while it joined its thread.                                        *)
THEOREM SynthesisJoins == ASSUME Runs \in Nat PROVE Bridge!Spec => []Bridge!ThreadsJoined
<1>1. BridgeJoins => Bridge!ThreadsJoined
  BY DEF BridgeJoins, Bridge!ThreadsJoined, ThreadGone
<1>. QED
  BY BridgeStart, BridgeTypesKept, StepJoin, <1>1, PTL DEF Bridge!Spec

(* interrupt(): under the same condition the handle is that of the thread   *)
(* which is blocked, so that an interrupt reaches it.                      *)
THEOREM InterruptsReach == ASSUME Runs \in Nat PROVE Bridge!Spec => []Bridge!InterruptReaches
<1>1. BridgeTypes /\ BridgeHandle => Bridge!InterruptReaches
  BY DEF BridgeTypes, BridgeHandle, Bridge!InterruptReaches, Bridge!AllRuns
<1>. QED
  BY BridgeStart, BridgeTypesKept, StepJoin, StepHandle, <1>1, PTL DEF Bridge!Spec

(* _run_synthesis, run_sync and the callbacks: no consumer is left waiting  *)
(* at an empty queue by a thread that is gone.                             *)
THEOREM ConsumersAreFed == ASSUME Runs \in Nat PROVE Bridge!Spec => []Bridge!ConsumerIsFed
<1>1. BridgeFed => Bridge!ConsumerIsFed
  BY DEF BridgeFed, Bridge!ConsumerIsFed, Consuming, HasEnd, QueueEnds
<1>. QED
  BY BridgeStart, BridgeTypesKept, StepJoin, StepFed, <1>1, PTL DEF Bridge!Spec

-----------------------------------------------------------------------------
(***************************************************************************)
(* Requests of the recognition server (SpeechFiles.tla: funasr_server's    *)
(* http.py, sse.py, embed.py and models.py).  The permits of a model that  *)
(* are out are counted by the calls that run, and who holds the lock of    *)
(* the embedding model is the one that loads it.                           *)
(***************************************************************************)
Files == INSTANCE SpeechFiles

(* Requests are of three kinds, finitely many of them, and none is nobody. *)
FileBounds ==
  /\ IsFiniteSet(Files!Requests)
  /\ Uploads \cap Streams = {} /\ Embeddings \cap Files!Requests = {}
  /\ Files!Nobody \notin Embeddings
  /\ Permits \in Nat /\ Segments \in Nat

Running(m) == {r \in Files!Requests : call[r] = "running" /\ stage[r] = m}

FileStages == Files!Models \cup {"new", "saved", "ended", "locking", "loading", "refused"}

FilesTypes ==
  /\ stage \in [Files!Requests \cup Embeddings -> FileStages]
  /\ call \in [Files!Requests -> {"none", "queued", "running"}]
  /\ files \subseteq Files!Requests
  /\ left \in [Streams -> Nat]
  /\ threads \subseteq [model : Files!Models, of : Files!Requests]
  /\ free \in [Files!Models -> Int]

(* A call is made for one of the models, and by a request that has begun.  *)
LeakInv ==
  /\ \A r \in Files!Requests : call[r] # "none" => stage[r] \in Files!Models
  /\ \A r \in files : stage[r] \notin {"new", "ended"}
  /\ \A r \in Uploads : r \in files => stage[r] = "saved"
  /\ \A t \in threads : t.of \in gone \/ (call[t.of] = "running" /\ stage[t.of] = t.model)
  /\ \A m \in Files!Models : Permits - free[m] = Cardinality(Running(m))

LoadInv ==
  /\ loads \in Nat /\ loads <= 1
  /\ lock = Files!Nobody /\ embedding = "none" => loads = 0

LEMMA SameCount == ASSUME NEW S PROVE Files!Cardinality(S) = Cardinality(S)
  BY DEF Files!Cardinality, Cardinality

(* What a step does to the one request it is of.                           *)
OfRequest(r) ==
  /\ stage' = [stage EXCEPT ![r] = stage'[r]] /\ stage'[r] \in FileStages
  /\ call' = [call EXCEPT ![r] = call'[r]] /\ call'[r] \in {"none", "queued", "running"}
  /\ left' \in [Streams -> Nat]
  /\ UNCHANGED <<embedding, lock, loads>>

(* One that makes no call, or waits for one.                               *)
WaitStep(r) ==
  /\ OfRequest(r) /\ call[r] # "running" /\ call'[r] # "running"
  /\ call'[r] # "none" => stage'[r] \in Files!Models
  /\ files' \subseteq files \cup {r}
  /\ r \in files' => stage'[r] \notin {"new", "ended"} /\ (r \in Uploads => stage'[r] = "saved")
  /\ UNCHANGED <<threads, free, gone>>

StartStep(r) ==
  /\ call[r] = "queued" /\ OfRequest(r) /\ call'[r] = "running" /\ stage'[r] = stage[r]
  /\ free' = [free EXCEPT ![stage[r]] = @ - 1]
  /\ threads' = threads \cup {[model |-> stage[r], of |-> r]}
  /\ UNCHANGED <<files, gone>>

(* Its thread has answered: there is another call to wait for, or an end.  *)
ReturnStep(r) ==
  /\ call[r] = "running" /\ OfRequest(r)
  /\ free' = [free EXCEPT ![stage[r]] = @ + 1]
  /\ threads' = threads \ {[model |-> stage[r], of |-> r]}
  /\ \/ stage'[r] = "ended" /\ call'[r] = "none" /\ files' = files \ {r}
     \/ stage'[r] \in Files!Models /\ call'[r] = "queued" /\ files' = files
  /\ UNCHANGED gone

LeaveStep(r) ==
  /\ OfRequest(r) /\ stage'[r] = "ended" /\ call'[r] = "none"
  /\ free' = IF call[r] = "running" THEN [free EXCEPT ![stage[r]] = @ + 1] ELSE free
  /\ files' = files \ {r} /\ gone' = gone \cup {r} /\ UNCHANGED threads

LEMMA SaveIs ==
  ASSUME FileBounds, FilesTypes, LeakInv, NEW r \in Files!Requests,
         Files!Save(r) \/ Files!TranscodeUpload(r) \/ Files!TranscodeStream(r)
  PROVE  WaitStep(r)
<1>0. call[r] = "none" /\ r \in DOMAIN stage
  BY DEF Files!Save, Files!TranscodeUpload, Files!TranscodeStream, FilesTypes, LeakInv,
     Files!Models
<1>1. CASE Files!Save(r)
  BY <1>0, <1>1 DEF Files!Save, Files!To, WaitStep, OfRequest, FileStages, FilesTypes, LeakInv,
     Files!fileVars, Files!modelVars, FileBounds
<1>2. CASE Files!TranscodeUpload(r)
  BY <1>0, <1>2 DEF Files!TranscodeUpload, WaitStep, OfRequest, FileStages, FilesTypes, LeakInv,
     Files!Models, Files!modelVars
<1>3. CASE Files!TranscodeStream(r)
  BY <1>0, <1>3
     DEF Files!TranscodeStream, Files!EndStream, Files!To, WaitStep, OfRequest, FileStages,
     FilesTypes, LeakInv, Files!Models, Files!modelVars, FileBounds
<1>. QED
  BY <1>1, <1>2, <1>3

LEMMA StartIs ==
  ASSUME FilesTypes, LeakInv, NEW r \in Files!Requests, Files!StartCall(r)
  PROVE  StartStep(r)
BY DEF Files!StartCall, StartStep, OfRequest, FilesTypes, Files!fileVars, Files!modelVars,
   FileStages

LEMMA SegmentIs ==
  ASSUME FilesTypes, NEW r \in Streams, NEW event, Files!NextSegment(r, event)
  PROVE  /\ stage' = [stage EXCEPT ![r] = stage'[r]] /\ call' = [call EXCEPT ![r] = call'[r]]
         /\ left' \in [Streams -> Nat]
         /\ \/ stage'[r] = "ended" /\ call'[r] = "none" /\ files' = files \ {r}
            \/ stage'[r] = "asr" /\ call'[r] = "queued" /\ files' = files
<1>1. r \in Files!Requests
  BY DEF Files!Requests
<1>2. \A w : [stage EXCEPT ![r] = w][r] = w /\ [call EXCEPT ![r] = w][r] = w
  BY <1>1 DEF FilesTypes
<1>3. left[r] - 1 \in Nat \/ ~(left[r] > 0)
  BY DEF FilesTypes
<1>4. CASE left[r] > 0
  BY <1>2, <1>3, <1>4, ZenonT(60) DEF Files!NextSegment, Files!To, FilesTypes
<1>5. CASE ~(left[r] > 0)
  BY <1>2, <1>5 DEF Files!NextSegment, Files!To, FilesTypes
<1>. QED
  BY <1>4, <1>5

LEMMA ReturnIs ==
  ASSUME FileBounds, FilesTypes, LeakInv, NEW r \in Files!Requests,
         \/ Files!SegmentsFound(r) \/ Files!StreamRecognised(r) \/ Files!StreamPunctuated(r)
         \/ Files!UploadRecognised(r)
  PROVE  ReturnStep(r)
<1>. USE DEF Files!Return, ReturnStep, OfRequest, Files!modelVars, Files!Models, FileStages
<1>1. CASE Files!SegmentsFound(r)
  <2>1. r \in Streams /\ UNCHANGED <<embedding, lock, loads, gone>>
    BY <1>1 DEF Files!SegmentsFound
  <2>2. ASSUME NEW n \in 0..Segments, n # 0, Files!Return(r, TRUE), Files!To(r, "asr"),
               left' = [left EXCEPT ![r] = n - 1], call' = [call EXCEPT ![r] = "queued"],
               UNCHANGED files
        PROVE  ReturnStep(r)
    <3>1. n - 1 \in Nat
      BY <2>2 DEF FileBounds
    <3>. QED
      BY <2>1, <2>2, <3>1 DEF Files!To, FilesTypes
  <2>3. ASSUME NEW well \in BOOLEAN, Files!Return(r, well), Files!To(r, "ended"),
               files' = files \ {r},
               call' = [call EXCEPT ![r] = "none"], UNCHANGED left
        PROVE  ReturnStep(r)
    BY <2>1, <2>3 DEF Files!To, FilesTypes
  <2>. QED
    BY <1>1, <2>2, <2>3 DEF Files!SegmentsFound, Files!EndStream
<1>2. CASE Files!StreamRecognised(r)
  BY <1>2, SegmentIs DEF Files!StreamRecognised, Files!To, FilesTypes, Files!fileVars
<1>3. CASE Files!StreamPunctuated(r)
  BY <1>3, SegmentIs DEF Files!StreamPunctuated, Files!To, FilesTypes
<1>4. CASE Files!UploadRecognised(r)
  <2>1. r \notin files
    BY <1>4 DEF Files!UploadRecognised, LeakInv
  <2>2. files \ {r} = files
    BY <2>1
  <2>. QED
    BY <1>4, <2>2 DEF Files!UploadRecognised, Files!To, FilesTypes, Files!fileVars
<1>. QED
  BY <1>1, <1>2, <1>3, <1>4

LEMMA LeaveIs ==
  ASSUME FilesTypes, NEW r \in Streams, Files!Leaves(r)
  PROVE  LeaveStep(r)
BY DEF Files!Leaves, Files!To, LeaveStep, OfRequest, FileStages, FilesTypes, Files!modelVars,
   Files!Requests
-----------------------------------------------------------------------------
(* The calls that run, before and after.                                   *)
LEMMA StillRunning ==
  ASSUME FilesTypes, NEW r \in Files!Requests, OfRequest(r), call[r] # "running",
         call'[r] # "running", NEW m \in Files!Models
  PROVE  Running(m)' = Running(m)
BY DEF OfRequest, Running, FilesTypes, Files!Requests, Files!Models

LEMMA OneMoreRuns ==
  ASSUME FilesTypes, FileBounds, NEW r \in Files!Requests, StartStep(r), stage[r] \in Files!Models,
         NEW m \in Files!Models, Permits - free[m] = Cardinality(Running(m))
  PROVE  Permits - free'[m] = Cardinality(Running(m)')
<1>1. IsFiniteSet(Running(m)) /\ Cardinality(Running(m)) \in Nat
  BY FS_Subset, FS_CardinalityType DEF Running, FileBounds
<1>2. \A q \in Files!Requests : q # r => call'[q] = call[q] /\ stage'[q] = stage[q]
  BY DEF StartStep, OfRequest, FilesTypes
<1>3. CASE m = stage[r]
  <2>1. Running(m)' = Running(m) \cup {r} /\ r \notin Running(m)
    BY <1>2, <1>3 DEF Running, StartStep, OfRequest, FilesTypes, Files!Requests
  <2>2. Cardinality(Running(m)') = Cardinality(Running(m)) + 1
    BY <1>1, <2>1, FS_AddElement
  <2>3. free'[m] = free[m] - 1
    BY <1>3 DEF StartStep, FilesTypes
  <2>. QED
    BY <1>1, <2>2, <2>3 DEF FilesTypes, FileBounds
<1>4. CASE m # stage[r]
  <2>1. Running(m)' = Running(m)
    BY <1>2, <1>4 DEF Running, StartStep, OfRequest, FilesTypes, Files!Requests
  <2>. QED
    BY <1>4, <2>1 DEF StartStep, FilesTypes
<1>. QED
  BY <1>3, <1>4

LEMMA OneLessRuns ==
  ASSUME FilesTypes, FileBounds, NEW r \in Files!Requests, OfRequest(r), stage[r] \in Files!Models,
         call[r] = "running", call'[r] # "running", free' = [free EXCEPT ![stage[r]] = @ + 1],
         NEW m \in Files!Models, Permits - free[m] = Cardinality(Running(m))
  PROVE  Permits - free'[m] = Cardinality(Running(m)')
<1>1. IsFiniteSet(Running(m)) /\ Cardinality(Running(m)) \in Nat
  BY FS_Subset, FS_CardinalityType DEF Running, FileBounds
<1>2. \A q \in Files!Requests : q # r => call'[q] = call[q] /\ stage'[q] = stage[q]
  BY DEF OfRequest, FilesTypes
<1>3. CASE m = stage[r]
  <2>1. Running(m)' = Running(m) \ {r} /\ r \in Running(m)
    BY <1>2, <1>3 DEF Running, FilesTypes, Files!Requests
  <2>2. Cardinality(Running(m)') = Cardinality(Running(m)) - 1
    BY <1>1, <2>1, FS_RemoveElement
  <2>3. free'[m] = free[m] + 1
    BY <1>3 DEF FilesTypes
  <2>. QED
    BY <1>1, <2>2, <2>3 DEF FilesTypes, FileBounds
<1>4. CASE m # stage[r]
  <2>1. Running(m)' = Running(m)
    BY <1>2, <1>4 DEF Running, FilesTypes, Files!Requests
  <2>. QED
    BY <1>4, <2>1 DEF FilesTypes
<1>. QED
  BY <1>3, <1>4
-----------------------------------------------------------------------------
WholeFilesInv == FilesTypes /\ LeakInv /\ LoadInv

LEMMA RequestKeepsFiles ==
  ASSUME FileBounds, WholeFilesInv, NEW r \in Files!Requests, r \in Uploads \cup Streams,
         \/ WaitStep(r) \/ StartStep(r) \/ ReturnStep(r) \/ LeaveStep(r)
  PROVE  WholeFilesInv'
<1>. USE DEF WholeFilesInv
<1>1. OfRequest(r) /\ (call[r] # "none" => stage[r] \in Files!Models)
  BY DEF WaitStep, StartStep, ReturnStep, LeaveStep, LeakInv
<1>2. \A q \in Files!Requests : q # r => call'[q] = call[q] /\ stage'[q] = stage[q]
  BY <1>1 DEF OfRequest, FilesTypes
<1>3. FilesTypes'
  <2>1. /\ stage' \in [Files!Requests \cup Embeddings -> FileStages]
        /\ call' \in [Files!Requests -> {"none", "queued", "running"}]
        /\ left' \in [Streams -> Nat]
    BY <1>1 DEF OfRequest, FilesTypes
  <2>2. files' \subseteq Files!Requests
    BY DEF WaitStep, StartStep, ReturnStep, LeaveStep, FilesTypes
  <2>3. free' \in [Files!Models -> Int]
    BY <1>1 DEF WaitStep, StartStep, ReturnStep, LeaveStep, FilesTypes
  <2>4. threads' \subseteq [model : Files!Models, of : Files!Requests]
    BY <1>1 DEF WaitStep, StartStep, ReturnStep, LeaveStep, FilesTypes
  <2>. QED
    BY <2>1, <2>2, <2>3, <2>4 DEF FilesTypes
<1>4. \A q \in Files!Requests : call'[q] # "none" => stage'[q] \in Files!Models
  BY <1>1, <1>2 DEF WaitStep, StartStep, ReturnStep, LeaveStep, LeakInv
<1>5. /\ \A q \in files' : stage'[q] \notin {"new", "ended"}
      /\ \A q \in Uploads : q \in files' => stage'[q] = "saved"
  <2>1. \A q \in files' : q = r \/ (q \in files /\ stage'[q] = stage[q])
    BY <1>2 DEF WaitStep, StartStep, ReturnStep, LeaveStep, FilesTypes
  <2>2. r \in files' => stage'[r] \notin {"new", "ended"} /\ (r \in Uploads => stage'[r] = "saved")
    BY <1>1 DEF WaitStep, StartStep, ReturnStep, LeaveStep, LeakInv, Files!Models
  <2>. QED
    BY <2>1, <2>2 DEF LeakInv
<1>6. \A t \in threads' : t.of \in gone' \/ (call'[t.of] = "running" /\ stage'[t.of] = t.model)
  <2>. SUFFICES ASSUME NEW t \in threads', t.of \notin gone'
                PROVE  call'[t.of] = "running" /\ stage'[t.of] = t.model
    OBVIOUS
  <2>1. t \in [model : Files!Models, of : Files!Requests] /\ t.of \notin gone
    BY <1>3 DEF FilesTypes, WaitStep, StartStep, ReturnStep, LeaveStep
  <2>2. CASE t \in threads
    <3>1. call[t.of] = "running" /\ stage[t.of] = t.model
      BY <2>1, <2>2 DEF LeakInv
    <3>2. t.of # r
      <4>. SUFFICES ASSUME t.of = r PROVE FALSE
        OBVIOUS
      <4>1. t = [model |-> stage[r], of |-> r]
        BY <2>1, <3>1
      <4>. QED
        BY <3>1, <4>1 DEF WaitStep, StartStep, ReturnStep, LeaveStep
    <3>. QED
      BY <1>2, <2>1, <3>1, <3>2
  <2>3. CASE t \notin threads
    <3>1. t = [model |-> stage[r], of |-> r] /\ StartStep(r)
      BY <2>3 DEF WaitStep, StartStep, ReturnStep, LeaveStep
    <3>. QED
      BY <3>1 DEF StartStep
  <2>. QED
    BY <2>2, <2>3
<1>7. ASSUME NEW m \in Files!Models PROVE Permits - free'[m] = Cardinality(Running(m)')
  <2>0. Permits - free[m] = Cardinality(Running(m))
    BY DEF LeakInv
  <2>1. CASE WaitStep(r) \/ (LeaveStep(r) /\ call[r] # "running")
    <3>1. Running(m)' = Running(m)
      BY <1>1, <2>1, StillRunning DEF WaitStep, LeaveStep
    <3>. QED
      BY <2>0, <2>1, <3>1 DEF WaitStep, LeaveStep
  <2>2. CASE StartStep(r)
    BY <1>1, <2>0, <2>2, OneMoreRuns DEF StartStep
  <2>3. CASE ReturnStep(r) \/ (LeaveStep(r) /\ call[r] = "running")
    <3>1. call[r] = "running" /\ call'[r] # "running" /\ free' = [free EXCEPT ![stage[r]] = @ + 1]
      BY <2>3 DEF ReturnStep, LeaveStep
    <3>. QED
      BY <1>1, <2>0, <3>1, OneLessRuns
  <2>. QED
    BY <2>1, <2>2, <2>3
<1>8. LoadInv'
  BY <1>1 DEF OfRequest, LoadInv
<1>. QED
  BY <1>3, <1>4, <1>5, <1>6, <1>7, <1>8 DEF LeakInv

LEMMA EmbeddingKeepsFiles ==
  ASSUME FileBounds, WholeFilesInv, NEW r \in Embeddings,
         Files!EmbedAsks(r) \/ Files!EmbedLocks(r) \/ Files!EmbedLoaded(r)
  PROVE  WholeFilesInv'
<1>. USE DEF WholeFilesInv
<1>1. /\ UNCHANGED <<call, files, left, threads, free, gone>>
      /\ stage' = [stage EXCEPT ![r] = stage'[r]] /\ stage'[r] \in FileStages
  BY DEF Files!EmbedAsks, Files!EmbedLocks, Files!EmbedLoaded, Files!To, Files!embedVars,
     Files!fileVars,
     FilesTypes, FileStages
<1>2. \A q \in Files!Requests : stage'[q] = stage[q]
  BY <1>1 DEF FileBounds, FilesTypes
<1>3. FilesTypes'
  BY <1>1 DEF FilesTypes
<1>4. \A m \in Files!Models : Running(m)' = Running(m)
  BY <1>1, <1>2 DEF Running, Files!Requests
<1>5. LeakInv'
  <2>1. \A q \in Files!Requests : call'[q] # "none" => stage'[q] \in Files!Models
    BY <1>1, <1>2 DEF LeakInv
  <2>2. /\ \A q \in files' : stage'[q] \notin {"new", "ended"}
        /\ \A q \in Uploads : q \in files' => stage'[q] = "saved"
    BY <1>1, <1>2 DEF LeakInv, FilesTypes
  <2>3. \A t \in threads' : t.of \in gone' \/ (call'[t.of] = "running" /\ stage'[t.of] = t.model)
    BY <1>1, <1>2 DEF LeakInv, FilesTypes
  <2>4. \A m \in Files!Models : Permits - free'[m] = Cardinality(Running(m)')
    BY <1>1, <1>4 DEF LeakInv
  <2>. QED
    BY <2>1, <2>2, <2>3, <2>4 DEF LeakInv
<1>6. LoadInv'
  BY DEF Files!EmbedAsks, Files!EmbedLocks, Files!EmbedLoaded, Files!modelVars, LoadInv, FileBounds
<1>. QED
  BY <1>3, <1>5, <1>6

LEMMA OrphanKeepsFiles ==
  ASSUME WholeFilesInv, NEW t \in threads, Files!OrphanEnds(t) PROVE WholeFilesInv'
BY DEF WholeFilesInv, Files!OrphanEnds, Files!fileVars, Files!modelVars, FilesTypes, LeakInv,
   LoadInv, Running

LEMMA FilesStart == ASSUME FileBounds, Files!Init PROVE WholeFilesInv
<1>1. FilesTypes
  BY DEF Files!Init, FilesTypes, FileBounds, FileStages
<1>2. \A m \in Files!Models : Running(m) = {}
  BY DEF Files!Init, Running
<1>3. \A m \in Files!Models : free[m] = Permits /\ Cardinality(Running(m)) = 0
  BY <1>2, FS_EmptySet DEF Files!Init
<1>4. LeakInv
  <2>1. \A m \in Files!Models : Permits - free[m] = Cardinality(Running(m))
    BY <1>3 DEF FileBounds
  <2>. QED
    BY <2>1 DEF Files!Init, LeakInv
<1>5. LoadInv
  BY DEF Files!Init, LoadInv
<1>. QED
  BY <1>1, <1>4, <1>5 DEF WholeFilesInv

\* run_blocking, ensure_embed_model: for any number of uploads, streams, segments and permits,
\* each permit that is out is held by a running call, a temporary file or a thread belongs to
\* a request that has not ended, but for the thread of a client that left, and the embedding
\* model is loaded once.
THEOREM NothingOutlives ==
  ASSUME FileBounds PROVE Files!Spec => [](Files!NothingLeaks /\ Files!EmbedModelLoadedOnce)
<1>1. Files!Init => WholeFilesInv
  BY FilesStart
<1>2. WholeFilesInv /\ [Files!Next]_(Files!vars) => WholeFilesInv'
  <2>. SUFFICES ASSUME WholeFilesInv, [Files!Next]_(Files!vars) PROVE WholeFilesInv'
    OBVIOUS
  <2>1. ASSUME NEW r \in Files!Requests,
               Files!Save(r) \/ Files!TranscodeUpload(r) \/ Files!TranscodeStream(r)
        PROVE  WholeFilesInv'
    BY <2>1, SaveIs, RequestKeepsFiles DEF WholeFilesInv, Files!Requests
  <2>2. ASSUME NEW r \in Files!Requests, Files!StartCall(r) PROVE WholeFilesInv'
    BY <2>2, StartIs, RequestKeepsFiles DEF WholeFilesInv, Files!Requests
  <2>3. ASSUME NEW r \in Files!Requests,
               \/ Files!SegmentsFound(r) \/ Files!StreamRecognised(r)
               \/ Files!StreamPunctuated(r) \/ Files!UploadRecognised(r)
        PROVE  WholeFilesInv'
    BY <2>3, ReturnIs, RequestKeepsFiles DEF WholeFilesInv, Files!Requests
  <2>4. ASSUME NEW r \in Streams, Files!Leaves(r) PROVE WholeFilesInv'
    BY <2>4, LeaveIs, RequestKeepsFiles DEF WholeFilesInv, Files!Requests
  <2>5. ASSUME NEW t \in threads, Files!OrphanEnds(t) PROVE WholeFilesInv'
    BY <2>5, OrphanKeepsFiles
  <2>6. ASSUME NEW r \in Embeddings,
               Files!EmbedAsks(r) \/ Files!EmbedLocks(r) \/ Files!EmbedLoaded(r)
        PROVE  WholeFilesInv'
    BY <2>6, EmbeddingKeepsFiles
  <2>7. CASE UNCHANGED Files!vars
    BY <2>7 DEF Files!vars, WholeFilesInv, FilesTypes, LeakInv, LoadInv, Running
  <2>. QED
    BY <2>1, <2>2, <2>3, <2>4, <2>5, <2>6, <2>7 DEF Files!Next, Files!Progress
<1>3. WholeFilesInv => Files!NothingLeaks /\ Files!EmbedModelLoadedOnce
  BY SameCount
     DEF WholeFilesInv, LeakInv, LoadInv, Running, Files!NothingLeaks, Files!EmbedModelLoadedOnce
<1>. QED
  BY <1>1, <1>2, <1>3, PTL DEF Files!Spec

-----------------------------------------------------------------------------
(***************************************************************************)
(* A call in the browser (BrowserCall.tla: useWebCall.ts and web-call-     *)
(* client.ts). While no call was given up half way, at most one invocation *)
(* of startCall is under way, and what it has opened so far is what the    *)
(* references of the hook hold: that is what the end of a call can reach   *)
(* and close.                                                              *)
(***************************************************************************)
WebCall == INSTANCE BrowserCall

(* Calls are numbered from one: a reference to none of them holds 0.       *)
CallsNumbered == Calls \subseteq Nat \ {0}

(* An invocation of startCall that still has something to come.            *)
UnderWay(k) == \/ stage[k] \in {"booking", "context", "asking", "graph"}
             \/ socket[k] \in {"connecting", "open"}

WebTypes ==
  /\ state \in WebCall!States
  /\ stage \in [Calls -> WebCall!Stages]
  /\ socket \in [Calls -> {"none", "connecting", "open", "closed"}]
  /\ live \subseteq Calls /\ queue \in Nat
  /\ draining \in BOOLEAN /\ ending \in BOOLEAN /\ hasty \in BOOLEAN

(* One invocation at a time is under way, and what it has opened so far is *)
(* what the references hold.                                               *)
AtMostOneInv ==
  /\ \A j, k \in Calls : UnderWay(j) /\ UnderWay(k) => j = k
  /\ \A k \in Calls : socket[k] \in {"connecting", "open"} =>
                        client = k /\ stage[k] \in {"connecting", "done"}
  /\ \A k \in Calls : socket[k] = "connecting" => stage[k] = "connecting"
  /\ \A k \in Calls : stage[k] \in {"booking", "context"} => recorder = "idle" /\ live = {}
  /\ \A k \in Calls : stage[k] = "asking" => recorder = "requesting" /\ live = {}
  /\ \A k \in Calls : stage[k] = "graph" => recorder = "requesting"
  /\ live \subseteq {mic}

(* What is over has let go of everything; what is playing out, of all but  *)
(* its queue.                                                              *)
OverInv ==
  /\ state \in WebCall!Final \/ draining =>
       recorder = "idle" /\ live = {} /\ \A k \in Calls : ~UnderWay(k)
  /\ state \in WebCall!Final => queue = 0 /\ ~draining
  /\ ending = draining

CallInv == WebTypes /\ (hasty \/ (AtMostOneInv /\ OverInv /\ ~clipped))

LetGo ==
  /\ live' = {} /\ recorder' = "idle"
  /\ \A k \in Calls : /\ socket'[k] \notin {"connecting", "open"}
                      /\ stage'[k] \notin {"booking", "context", "asking", "graph"}

LEMMA NothingActive ==
  ASSUME LetGo, ending' = draining', state' \in WebCall!Final => queue' = 0 /\ ~draining'
  PROVE  AtMostOneInv' /\ OverInv'
BY DEF LetGo, AtMostOneInv, OverInv, UnderWay
-----------------------------------------------------------------------------
LEMMA WebTypesKept == ASSUME CallsNumbered, WebTypes, [WebCall!Next]_(WebCall!vars) PROVE WebTypes'
<1>. USE DEF WebTypes, WebCall!States, WebCall!Stages
<1>1. ASSUME NEW k \in Calls, WebCall!StartCall(k) PROVE WebTypes'
  BY <1>1 DEF WebCall!StartCall, WebCall!Reaches, WebCall!histories, WebCall!Final
<1>2. ASSUME NEW k \in Calls, WebCall!Booked(k) PROVE WebTypes'
  BY <1>2 DEF WebCall!Booked, WebCall!Reaches, WebCall!histories
<1>3. ASSUME NEW k \in Calls, WebCall!ContextReady(k) PROVE WebTypes'
  BY <1>3 DEF WebCall!ContextReady, WebCall!Reaches, WebCall!histories, WebCall!Connect
<1>4. ASSUME NEW k \in Calls, WebCall!MicGranted(k) PROVE WebTypes'
  BY <1>4 DEF WebCall!MicGranted, WebCall!Reaches, WebCall!histories
<1>5. ASSUME NEW k \in Calls, WebCall!GraphBuilt(k) PROVE WebTypes'
  BY <1>5 DEF WebCall!GraphBuilt, WebCall!Reaches, WebCall!histories, WebCall!Connect
<1>6. ASSUME NEW k \in Calls, WebCall!MicRefused(k) PROVE WebTypes'
  BY <1>6 DEF WebCall!MicRefused, WebCall!Reaches, WebCall!histories, WebCall!Connect
<1>7. ASSUME NEW k \in Calls, WebCall!Opens(k) PROVE WebTypes'
  BY <1>7 DEF WebCall!Opens, WebCall!Reaches, WebCall!histories
<1>8. ASSUME NEW k \in Calls, WebCall!OnAudio(k) PROVE WebTypes'
  BY <1>8 DEF WebCall!OnAudio, WebCall!histories
<1>9. ASSUME NEW k \in Calls, WebCall!ClearAudio(k) PROVE WebTypes'
  BY <1>9 DEF WebCall!ClearAudio, WebCall!histories
<1>10. ASSUME NEW k \in Calls, WebCall!BookingFails(k) PROVE WebTypes'
  BY <1>10 DEF WebCall!BookingFails, WebCall!Reaches, WebCall!FinishCall, WebCall!Release,
     WebCall!StopMic, WebCall!CloseClient
<1>11. ASSUME NEW k \in Calls, WebCall!ConnectionFails(k) PROVE WebTypes'
  BY <1>11 DEF WebCall!ConnectionFails, WebCall!Reaches, WebCall!histories
<1>12. ASSUME NEW k \in Calls, WebCall!ServerEnds(k) PROVE WebTypes'
  BY <1>12 DEF WebCall!ServerEnds, WebCall!StopMic
<1>13. ASSUME NEW k \in Calls, WebCall!ServerFails(k) PROVE WebTypes'
  BY <1>13 DEF WebCall!ServerFails, WebCall!histories
<1>14. CASE WebCall!Played
  BY <1>14 DEF WebCall!Played, WebCall!histories
<1>15. CASE WebCall!MicErrorSeen
  BY <1>15 DEF WebCall!MicErrorSeen, WebCall!FinishCall, WebCall!Release, WebCall!StopMic,
     WebCall!CloseClient
<1>16. CASE WebCall!Settle
  BY <1>16 DEF WebCall!Settle, WebCall!FinishCall, WebCall!Release, WebCall!StopMic,
     WebCall!CloseClient
<1>17. CASE WebCall!Hangup
  BY <1>17 DEF WebCall!Hangup, WebCall!InSetUp, WebCall!Release, WebCall!StopMic,
     WebCall!CloseClient, WebCall!Final
<1>18. CASE WebCall!Reset
  BY <1>18 DEF WebCall!Reset, WebCall!Release, WebCall!StopMic, WebCall!CloseClient,
     WebCall!histories, WebCall!Final
<1>19. CASE UNCHANGED WebCall!vars
  BY <1>19 DEF WebCall!vars
<1>. QED
  BY <1>1, <1>2, <1>3, <1>4, <1>5, <1>6, <1>7, <1>8, <1>9, <1>10, <1>11, <1>12, <1>13, <1>14,
     <1>15, <1>16, <1>17, <1>18, <1>19 DEF WebCall!Next

(* Setting a call up, and its audio.                                       *)
LEMMA SetUpAlone ==
  ASSUME CallsNumbered, WebTypes, AtMostOneInv, OverInv, ~clipped, NEW k \in Calls,
         \/ WebCall!StartCall(k) \/ WebCall!Booked(k) \/ WebCall!ContextReady(k)
         \/ WebCall!MicGranted(k) \/ WebCall!GraphBuilt(k) \/ WebCall!MicRefused(k)
         \/ WebCall!Opens(k) \/ WebCall!OnAudio(k) \/ WebCall!ClearAudio(k)
  PROVE  AtMostOneInv' /\ OverInv' /\ ~clipped'
<1>. USE DEF CallsNumbered, WebTypes, AtMostOneInv, OverInv, UnderWay, WebCall!Final
<1>1. CASE WebCall!StartCall(k)
  BY <1>1 DEF WebCall!StartCall, WebCall!Reaches, WebCall!histories, WebCall!Final
<1>2. CASE WebCall!Booked(k)
  BY <1>2 DEF WebCall!Booked, WebCall!Reaches, WebCall!histories
<1>3. CASE WebCall!ContextReady(k)
  BY <1>3 DEF WebCall!ContextReady, WebCall!Reaches, WebCall!histories, WebCall!Connect
<1>4. CASE WebCall!MicGranted(k)
  BY <1>4 DEF WebCall!MicGranted, WebCall!Reaches, WebCall!histories
<1>5. CASE WebCall!GraphBuilt(k)
  BY <1>5 DEF WebCall!GraphBuilt, WebCall!Reaches, WebCall!histories, WebCall!Connect
<1>6. CASE WebCall!MicRefused(k)
  BY <1>6 DEF WebCall!MicRefused, WebCall!Reaches, WebCall!histories, WebCall!Connect
<1>7. CASE WebCall!Opens(k)
  BY <1>7 DEF WebCall!Opens, WebCall!Reaches, WebCall!histories
<1>8. CASE WebCall!OnAudio(k)
  BY <1>8 DEF WebCall!OnAudio, WebCall!histories
<1>9. CASE WebCall!ClearAudio(k)
  BY <1>9 DEF WebCall!ClearAudio, WebCall!histories
<1>. QED
  BY <1>1, <1>2, <1>3, <1>4, <1>5, <1>6, <1>7, <1>8, <1>9

LEMMA PlayedAlone ==
  ASSUME WebTypes, AtMostOneInv, OverInv, ~clipped, WebCall!Played
  PROVE  AtMostOneInv' /\ OverInv' /\ ~clipped'
BY DEF WebTypes, AtMostOneInv, OverInv, UnderWay, WebCall!Played, WebCall!histories

(* Whatever ends a call lets go of what it holds, unless the user gives it *)
(* up while it is being set up.                                            *)
LEMMA EndsAlone ==
  ASSUME CallsNumbered, WebTypes, AtMostOneInv, OverInv, ~clipped, ~hasty',
         \/ \E k \in Calls : \/ WebCall!BookingFails(k) \/ WebCall!ConnectionFails(k)
                             \/ WebCall!ServerEnds(k) \/ WebCall!ServerFails(k)
         \/ WebCall!MicErrorSeen \/ WebCall!Settle \/ WebCall!Hangup \/ WebCall!Reset
  PROVE  AtMostOneInv' /\ OverInv' /\ ~clipped'
<1>. DEFINE Over == /\ ending' = draining' /\ ~clipped'
                    /\ state' \in WebCall!Final => queue' = 0 /\ ~draining'
<1>. USE DEF CallsNumbered, WebTypes, AtMostOneInv, OverInv, UnderWay, WebCall!Final, WebCall!Stages
<1>1. ASSUME NEW k \in Calls, WebCall!BookingFails(k) PROVE LetGo /\ Over
  <2>1. LetGo
    BY <1>1 DEF LetGo, WebCall!BookingFails, WebCall!Reaches, WebCall!FinishCall,
       WebCall!Release, WebCall!StopMic, WebCall!CloseClient
  <2>2. Over
    BY <1>1 DEF WebCall!BookingFails, WebCall!Reaches, WebCall!FinishCall, WebCall!Release,
       WebCall!StopMic, WebCall!CloseClient
  <2>. QED
    BY <2>1, <2>2
<1>2. ASSUME NEW k \in Calls, WebCall!ConnectionFails(k) PROVE LetGo /\ Over
  <2>1. LetGo
    BY <1>2 DEF LetGo, WebCall!ConnectionFails, WebCall!Reaches, WebCall!histories
  <2>2. Over
    BY <1>2 DEF WebCall!ConnectionFails, WebCall!Reaches, WebCall!histories
  <2>. QED
    BY <2>1, <2>2
<1>3. ASSUME NEW k \in Calls, WebCall!ServerEnds(k) PROVE LetGo /\ Over
  <2>1. LetGo
    BY <1>3 DEF LetGo, WebCall!ServerEnds, WebCall!StopMic
  <2>2. state \notin WebCall!Final /\ ~draining /\ ~ending
    BY <1>3 DEF WebCall!ServerEnds
  <2>3. CASE queue = 0
    BY <1>3, <2>1, <2>2, <2>3 DEF WebCall!ServerEnds
  <2>4. CASE queue # 0
    BY <1>3, <2>1, <2>2, <2>4 DEF WebCall!ServerEnds
  <2>. QED
    BY <2>3, <2>4
<1>4. ASSUME NEW k \in Calls, WebCall!ServerFails(k) PROVE LetGo /\ Over
  <2>1. LetGo
    BY <1>4 DEF LetGo, WebCall!ServerFails, WebCall!histories
  <2>2. Over
    BY <1>4 DEF WebCall!ServerFails, WebCall!histories
  <2>. QED
    BY <2>1, <2>2
<1>5. ASSUME WebCall!MicErrorSeen PROVE LetGo /\ Over
  <2>1. LetGo
    BY <1>5 DEF LetGo, WebCall!MicErrorSeen, WebCall!FinishCall, WebCall!Release,
       WebCall!StopMic, WebCall!CloseClient
  <2>2. Over
    BY <1>5 DEF WebCall!MicErrorSeen, WebCall!FinishCall, WebCall!Release, WebCall!StopMic,
       WebCall!CloseClient
  <2>. QED
    BY <2>1, <2>2
<1>6. ASSUME WebCall!Settle PROVE LetGo /\ Over
  <2>1. LetGo
    BY <1>6 DEF LetGo, WebCall!Settle, WebCall!FinishCall, WebCall!Release, WebCall!StopMic,
       WebCall!CloseClient
  <2>2. clipped' = (clipped \/ (ending /\ queue > 0)) /\ ~(queue > 0)
    BY <1>6 DEF WebCall!Settle, WebCall!FinishCall
  <2>3. ~clipped'
    BY <2>2
  <2>4. Over
    BY <1>6, <2>3 DEF WebCall!Settle, WebCall!FinishCall, WebCall!Release, WebCall!StopMic,
       WebCall!CloseClient
  <2>. QED
    BY <2>1, <2>4
<1>7. ASSUME WebCall!Hangup PROVE LetGo /\ Over
  <2>1. LetGo
    BY <1>7 DEF LetGo, WebCall!Hangup, WebCall!InSetUp, WebCall!Release, WebCall!StopMic,
       WebCall!CloseClient, WebCall!Final
  <2>2. Over
    BY <1>7 DEF WebCall!Hangup, WebCall!InSetUp, WebCall!Release, WebCall!StopMic,
       WebCall!CloseClient, WebCall!Final
  <2>. QED
    BY <2>1, <2>2
<1>8. ASSUME WebCall!Reset PROVE LetGo /\ Over
  <2>1. LetGo
    BY <1>8 DEF LetGo, WebCall!Reset, WebCall!Release, WebCall!StopMic, WebCall!CloseClient,
       WebCall!histories, WebCall!Final
  <2>2. Over
    BY <1>8 DEF WebCall!Reset, WebCall!Release, WebCall!StopMic, WebCall!CloseClient,
       WebCall!histories, WebCall!Final
  <2>. QED
    BY <2>1, <2>2
<1>9. LetGo /\ Over
  BY <1>1, <1>2, <1>3, <1>4, <1>5, <1>6, <1>7, <1>8
<1>. QED
  BY <1>9, NothingActive

LEMMA CallInvKept ==
  ASSUME CallsNumbered, CallInv, [WebCall!Next]_(WebCall!vars) PROVE CallInv'
<1>1. WebTypes'
  BY WebTypesKept DEF CallInv
<1>2. hasty => hasty'
  BY DEF WebCall!Next, WebCall!StartCall, WebCall!Booked, WebCall!BookingFails,
     WebCall!ContextReady, WebCall!MicGranted, WebCall!GraphBuilt, WebCall!MicRefused,
     WebCall!Opens, WebCall!ConnectionFails, WebCall!OnAudio, WebCall!ClearAudio,
     WebCall!ServerEnds, WebCall!ServerFails, WebCall!MicErrorSeen, WebCall!Played, WebCall!Settle, WebCall!Hangup,
     WebCall!Reset, WebCall!histories, WebCall!vars
<1>3. ASSUME ~hasty' PROVE AtMostOneInv' /\ OverInv' /\ ~clipped'
  <2>1. WebTypes /\ AtMostOneInv /\ OverInv /\ ~clipped
    BY <1>2, <1>3 DEF CallInv
  <2>2. CASE UNCHANGED WebCall!vars
    BY <2>1, <2>2 DEF WebCall!vars, AtMostOneInv, OverInv, UnderWay
  <2>. QED
    BY <1>3, <2>1, <2>2, SetUpAlone, PlayedAlone, EndsAlone DEF WebCall!Next
<1>. QED
  BY <1>1, <1>3 DEF CallInv

LEMMA CallStart == ASSUME WebCall!Init PROVE CallInv
BY DEF WebCall!Init, CallInv, WebTypes, AtMostOneInv, OverInv, UnderWay, WebCall!States,
   WebCall!Stages,
   WebCall!Final

LEMMA AtMostOneOf == ASSUME NEW x, NEW S \in SUBSET {x} PROVE WebCall!Cardinality(S) <= 1
<1>1. IsFiniteSet({x}) /\ Cardinality({x}) = 1
  BY FS_Singleton
<1>2. Cardinality(S) <= Cardinality({x})
  BY <1>1, FS_Subset
<1>3. WebCall!Cardinality(S) = Cardinality(S)
  BY DEF WebCall!Cardinality, Cardinality
<1>. QED
  BY <1>1, <1>2, <1>3

\* For any number of calls, and any length of the audio queue, none of them given up
\* while it was set up: one socket and one microphone at a time, no last words cut off
\* (useWebCall.ts:174-178), and a call that is over has no microphone, socket or sound
\* (useWebCall.ts:18).
THEOREM CallsAreLetGo ==
  ASSUME CallsNumbered
  PROVE  WebCall!Spec => [](/\ WebCall!OneCallAtATime /\ WebCall!LastWordsPlayed
                            /\ WebCall!OverIsSilentOnceUp)
<1>1. WebCall!Init => CallInv
  BY CallStart
<1>2. CallInv /\ [WebCall!Next]_(WebCall!vars) => CallInv'
  BY CallInvKept
<1>3. CallInv => WebCall!OneCallAtATime /\ WebCall!LastWordsPlayed /\ WebCall!OverIsSilentOnceUp
  <2>. SUFFICES ASSUME CallInv, ~hasty
                PROVE  /\ WebCall!OneCallAtATime /\ WebCall!LastWordsPlayed
                       /\ WebCall!OverIsSilentOnceUp
    BY DEF WebCall!OneCallAtATime, WebCall!LastWordsPlayed, WebCall!OverIsSilentOnceUp
  <2>1. AtMostOneInv /\ OverInv /\ ~clipped
    BY DEF CallInv
  <2>2. /\ {k \in Calls : socket[k] \in {"connecting", "open"}} \in SUBSET {client}
        /\ live \in SUBSET {mic}
    BY <2>1 DEF AtMostOneInv
  <2>3. WebCall!OneCallAtATime
    BY <2>2, AtMostOneOf DEF WebCall!OneCallAtATime
  <2>4. WebCall!OverIsSilentOnceUp
    BY <2>1 DEF OverInv, UnderWay, WebCall!OverIsSilentOnceUp, WebCall!Silent
  <2>. QED
    BY <2>1, <2>3, <2>4 DEF WebCall!LastWordsPlayed
<1>. QED
  BY <1>1, <1>2, <1>3, PTL DEF WebCall!Spec

-----------------------------------------------------------------------------
(***************************************************************************)
(* Speech in the browser (BrowserSpeech.tla: useTTS.ts).                   *)
(***************************************************************************)
WebSpeech == INSTANCE BrowserSpeech

\* For any number of texts, chunks and messages under way: the page is idle only when
\* nothing is heard, however old and new clients' messages, stops and timeouts
\* interleave (useTTS.ts:143-148, 182-196).
THEOREM IdleMakesNoSound == WebSpeech!Spec => []WebSpeech!IdleIsSilent
<1>. DEFINE Inv == queue \in Seq(Texts) /\ WebSpeech!IdleIsSilent
<1>1. WebSpeech!Init => Inv
  BY DEF WebSpeech!Init, WebSpeech!IdleIsSilent
<1>2. ASSUME Inv, [WebSpeech!Next]_(WebSpeech!vars) PROVE Inv'
  <2>. USE DEF WebSpeech!IdleIsSilent
  <2>1. ASSUME NEW k \in Texts, WebSpeech!Speak(k) PROVE Inv'
    <3>1. CASE ui \in {"synthesizing", "playing"}
      BY <2>1, <3>1 DEF WebSpeech!Speak
    <3>2. CASE ui \notin {"synthesizing", "playing"}
      BY <1>2, <2>1, <3>2 DEF WebSpeech!Speak
    <3>. QED
      BY <3>1, <3>2
  <2>2. ASSUME NEW k \in Texts, WebSpeech!OnChunk(k) PROVE Inv'
    BY <1>2, <2>2 DEF WebSpeech!OnChunk
  <2>3. ASSUME NEW k \in Texts, WebSpeech!Opened(k) \/ WebSpeech!ConnectFails(k) PROVE Inv'
    BY <1>2, <2>3 DEF WebSpeech!Opened, WebSpeech!ConnectFails
  <2>4. ASSUME NEW k \in Texts,
               WebSpeech!OnFinal(k) \/ WebSpeech!Lost(k) \/ WebSpeech!TimesOut(k)
        PROVE  Inv'
    BY <1>2, <2>4 DEF WebSpeech!OnFinal, WebSpeech!Finished, WebSpeech!Lost, WebSpeech!TimesOut
  <2>5. ASSUME NEW k \in Texts,
               WebSpeech!ContextReady(k) \/ WebSpeech!ServerReads(k) \/ WebSpeech!ServerSends(k)
        PROVE  Inv'
    BY <1>2, <2>5 DEF WebSpeech!ContextReady, WebSpeech!ServerReads, WebSpeech!ServerSends
  <2>6. CASE WebSpeech!Played
    BY <1>2, <2>6 DEF WebSpeech!Played
  <2>7. CASE WebSpeech!Stop
    BY <1>2, <2>7 DEF WebSpeech!Stop
  <2>8. CASE UNCHANGED WebSpeech!vars
    BY <1>2, <2>8 DEF WebSpeech!vars
  <2>. QED
    BY <1>2, <2>1, <2>2, <2>3, <2>4, <2>5, <2>6, <2>7, <2>8 DEF WebSpeech!Next
<1>. QED
  BY <1>1, <1>2, PTL DEF WebSpeech!Spec

-----------------------------------------------------------------------------
(***************************************************************************)
(* Dictation in the browser (BrowserListening.tla: useASR.ts and voice-    *)
(* agent-client.ts). Only the socket the client holds is made or open, and *)
(* until the first reconnection it is the one that start() waits for.      *)
(***************************************************************************)
Listening == INSTANCE BrowserListening

(* Only the socket held is made or open, and until the first reconnection  *)
(* it is the one that start() waits for.                                   *)
SocketsInv ==
  /\ MaxSockets \in Nat /\ opened \in Nat /\ ws \in 0..opened
  /\ DOMAIN sock = Listening!Sockets /\ start \in {"none", "connecting", "microphone", "done"}
  /\ \A i \in Listening!Sockets : i > opened => sock[i] = "none"
  /\ \A i \in Listening!Sockets : sock[i] \in {"connecting", "open"} => i = ws
  /\ intentional => ws = 0 /\ ~reconnectTimer
  /\ start = "none" => opened = 0 /\ ui = "idle" /\ ~reconnectTimer
  /\ retried \/ (opened <= 1 /\ Listening!ListeningHasMicrophone)

LEMMA SocketMade ==
  ASSUME SocketsInv, Listening!NewSocket, ws = 0 \/ sock[ws] \notin {"connecting", "open"}
  PROVE  /\ opened' = opened + 1 /\ ws' = opened' /\ DOMAIN sock' = Listening!Sockets
         /\ ~intentional'
         /\ \A i \in Listening!Sockets : i > opened' => sock'[i] = "none"
         /\ \A i \in Listening!Sockets : sock'[i] \in {"connecting", "open"} => i = ws'
BY DEF SocketsInv, Listening!NewSocket, Listening!Sockets

LEMMA SocketsKept ==
  ASSUME SocketsInv, [Listening!Next]_(Listening!vars) PROVE SocketsInv'
<1>. USE DEF SocketsInv, Listening!Sockets, Listening!ListeningHasMicrophone, Listening!server
<1>1. CASE Listening!Start
  <2>1. ws = 0
    BY <1>1 DEF Listening!Start
  <2>. QED
    BY <1>1, <2>1, SocketMade DEF Listening!Start
<1>2. CASE Listening!Reconnect
  <2>1. CASE ws # 0 /\ sock[ws] \in {"connecting", "open"}
    BY <1>2, <2>1 DEF Listening!Reconnect
  <2>2. CASE ws = 0 \/ sock[ws] \notin {"connecting", "open"}
    BY <1>2, <2>2, SocketMade DEF Listening!Reconnect
  <2>. QED
    BY <2>1, <2>2
<1>3. CASE Listening!Stop
  BY <1>3 DEF Listening!Stop
<1>4. CASE Listening!MicrophoneOn
  BY <1>4 DEF Listening!MicrophoneOn
<1>5. ASSUME NEW i \in Listening!Sockets, Listening!Opened(i) PROVE SocketsInv'
  <2>1. i = ws /\ ws # 0 /\ opened # 0 /\ start # "none" /\ (~retried => i = 1)
    BY <1>5 DEF Listening!Opened
  <2>. QED
    BY <1>5, <2>1 DEF Listening!Opened
<1>6. ASSUME NEW i \in Listening!Sockets, Listening!Errs(i) \/ Listening!ServerCloses(i)
      PROVE  SocketsInv'
  BY <1>6 DEF Listening!Errs, Listening!ServerCloses
<1>7. ASSUME NEW i \in Listening!Sockets, Listening!OnClose(i) PROVE SocketsInv'
  BY <1>7 DEF Listening!OnClose
<1>8. ASSUME NEW i \in Listening!Sockets, Listening!ConnectTimeout(i) PROVE SocketsInv'
  BY <1>8 DEF Listening!ConnectTimeout
<1>9. ASSUME NEW i \in Listening!Sockets,
             \/ \E b \in BOOLEAN : Listening!Frame(i, b)
             \/ Listening!EndSentence(i) \/ Listening!OnVadState(i)
      PROVE  SocketsInv'
  BY <1>9 DEF Listening!Frame, Listening!EndSentence, Listening!OnVadState
<1>10. CASE UNCHANGED Listening!vars
  BY <1>10 DEF Listening!vars
<1>. QED
  BY <1>1, <1>2, <1>3, <1>4, <1>5, <1>6, <1>7, <1>8, <1>9, <1>10 DEF Listening!Next

\* For any numbers of sockets and retries: after stop() no connection is opened again
\* and none stays open (voice-agent-client.ts:130-142), and a page that says it listens
\* got as far as the microphone unless its first connection failed (useASR.ts:9-10).
THEOREM StoppedIsClosed ==
  ASSUME MaxSockets \in Nat
  PROVE  Listening!Spec
           => [](Listening!StoppedStaysClosed /\ Listening!ListeningHasMicrophoneAtFirst)
<1>1. Listening!Init => SocketsInv
  BY DEF Listening!Init, SocketsInv, Listening!Sockets, Listening!ListeningHasMicrophone
<1>2. SocketsInv /\ [Listening!Next]_(Listening!vars) => SocketsInv'
  BY SocketsKept
<1>3. SocketsInv => Listening!StoppedStaysClosed /\ Listening!ListeningHasMicrophoneAtFirst
  BY DEF SocketsInv, Listening!Sockets, Listening!StoppedStaysClosed,
     Listening!ListeningHasMicrophoneAtFirst
<1>. QED
  BY <1>1, <1>2, <1>3, PTL DEF Listening!Spec

-----------------------------------------------------------------------------
(***************************************************************************)
(* Text tests of a flow (FlowDebug.tla: flow-debug-panel.tsx). A panel     *)
(* that is idle or gone has nothing under way; one that has begun holds    *)
(* the socket of its last start alone.                                     *)
(***************************************************************************)
Debug == INSTANCE FlowDebug

(* A panel that is idle or gone has nothing under way; one that has begun  *)
(* holds the socket of the last start alone.                               *)
OneTest ==
  /\ saving \subseteq {run} /\ (saving # {} => held = 0)
  /\ held \in {0, run} /\ shown \subseteq {run}
  /\ panel # "open" => saving = {} /\ held = 0
  /\ panel = "open" /\ ui = "idle" => saving = {} /\ held = 0 /\ shown = {}
  /\ \A r \in Debug!Runs : sock[r] \in {"connecting", "open"} => held = r

DebugInv == DOMAIN sock = Debug!Runs /\ run \in Nat /\ stray \in BOOLEAN /\ (stray \/ OneTest)

\* For any number of tests and of messages: the conversation shows what the last session
\* started said, but for a start whose panel was closed or reset while it saved, and a
\* page left (flow-debug-panel.tsx:69-85).
THEOREM TestsAreFresh == Debug!Spec => []Debug!FreshConversation
<1>1. Debug!Init => DebugInv
  <2>. SUFFICES ASSUME Debug!Init PROVE DebugInv
    OBVIOUS
  <2>1. DOMAIN sock = Debug!Runs /\ \A r \in Debug!Runs : sock[r] = "none"
    BY DEF Debug!Init
  <2>. QED
    BY <2>1 DEF Debug!Init, DebugInv, OneTest
<1>2. ASSUME DebugInv, [Debug!Next]_(Debug!vars) PROVE DebugInv'
  <2>. USE DEF DebugInv, OneTest, Debug!Runs
  <2>1. CASE Debug!HandleStart
    BY <1>2, <2>1 DEF Debug!HandleStart
  <2>2. CASE Debug!HandleReset
    BY <1>2, <2>2 DEF Debug!HandleReset, Debug!Cleanup
  <2>3. CASE Debug!HandleClose
    BY <1>2, <2>3 DEF Debug!HandleClose, Debug!Cleanup
  <2>4. CASE Debug!OpenPanel
    BY <1>2, <2>4 DEF Debug!OpenPanel
  <2>5. CASE Debug!LeavePage
    <3>1. stray' \in BOOLEAN /\ (~stray' => ~stray /\ saving = {} /\ held = 0)
      BY <1>2, <2>5 DEF Debug!LeavePage
    <3>. QED
      BY <1>2, <2>5, <3>1 DEF Debug!LeavePage
  <2>6. ASSUME NEW r \in Debug!Runs, Debug!Saved(r) PROVE DebugInv'
    <3>1. DOMAIN sock' = Debug!Runs /\ run' \in Nat /\ stray' \in BOOLEAN
      BY <1>2, <2>6 DEF Debug!Saved
    <3>2. ASSUME ~stray PROVE OneTest'
      <4>1. r = run /\ r # 0 /\ saving' = {} /\ held' = r /\ held = 0 /\ panel = "open"
        BY <1>2, <2>6, <3>2 DEF Debug!Saved
      <4>2. \A q \in Debug!Runs : q # r => sock'[q] \notin {"connecting", "open"}
        BY <1>2, <2>6, <3>2, <4>1 DEF Debug!Saved
      <4>. QED
        BY <1>2, <2>6, <3>2, <4>1, <4>2 DEF Debug!Saved
    <3>. QED
      BY <2>6, <3>1, <3>2 DEF Debug!Saved
  <2>7. ASSUME NEW r \in Debug!Runs, Debug!OnMessage(r) PROVE DebugInv'
    BY <1>2, <2>7 DEF Debug!OnMessage
  <2>8. ASSUME NEW r \in Debug!Runs, Debug!OnOpen(r) \/ Debug!OnError(r) \/ Debug!OnClose(r)
        PROVE  DebugInv'
    BY <1>2, <2>8 DEF Debug!OnOpen, Debug!OnError, Debug!OnClose
  <2>9. ASSUME NEW r \in Debug!Runs,
               \/ Debug!ServerStarts(r) \/ Debug!ServerSends(r) \/ Debug!ServerEnds(r)
               \/ Debug!Lost(r)
        PROVE  DebugInv'
    BY <1>2, <2>9 DEF Debug!ServerStarts, Debug!ServerSends, Debug!ServerEnds, Debug!Lost
  <2>10. CASE UNCHANGED Debug!vars
    BY <1>2, <2>10 DEF Debug!vars
  <2>. QED
    BY <1>2, <2>1, <2>2, <2>3, <2>4, <2>5, <2>6, <2>7, <2>8, <2>9, <2>10
       DEF Debug!Next, Debug!Progress
<1>3. DebugInv => Debug!FreshConversation
  BY DEF DebugInv, OneTest, Debug!FreshConversation
<1>. QED
  BY <1>1, <1>2, <1>3, PTL DEF Debug!Spec

-----------------------------------------------------------------------------
(***************************************************************************)
(* Editing, saving and publishing a flow (FlowEditor.tla: flow-store.ts,   *)
(* use-flow-storage.ts, flow-builder.tsx).  As long as nothing crossed,    *)
(* one save at most is under way, and what the API holds, what was last    *)
(* saved and what is on the canvas differ by it, by the timer or by a      *)
(* failed save that is shown.                                              *)
(***************************************************************************)
Editor == INSTANCE FlowEditor

SaveRecords == [content : 0 .. edits, by : {"none", "timer", "button", "publish"},
                at : {"free", "sent", "done", "failed"}]

EditorTypes ==
  /\ edits \in Nat
  /\ {store, server, lastSaved, initial, fresh} \subseteq 0 .. edits
  /\ history \in Seq(0 .. edits) /\ historyIndex \in 0 .. Len(history)
  /\ timer \in BOOLEAN /\ crossed \in BOOLEAN
  /\ saves \in [Editor!Saves -> SaveRecords]
  /\ \A s \in Editor!Saves : saves[s].at = "free" => saves[s] = Editor!None

(* What one save under way, or none, says of the rest.                     *)
OneSave ==
  /\ \A s, t \in Editor!InFlight : s = t
  /\ Editor!InFlight = {} => server = lastSaved
  /\ \A s \in Editor!InFlight :
       /\ server = IF saves[s].at = "done" THEN saves[s].content ELSE lastSaved
       /\ ~timer => store = saves[s].content
  /\ Editor!InFlight = {} /\ ~timer /\ status # "error" => store = lastSaved
  /\ publish = "refreshing" => Editor!InFlight = {} /\ fresh = server

(* What is going to be published was shown.                                *)
ShownInv ==
  /\ publish # "none" => store \in shown
  /\ publish = "publishing" => server \in shown
  /\ \A s \in Editor!InFlight :
       /\ publish # "none" => saves[s].content \in shown
       /\ saves[s].by = "publish" => publish = "saving"

EditorInv == EditorTypes /\ (crossed \/ (OneSave /\ ShownInv))

LEMMA TailOf == ASSUME NEW S, NEW q \in Seq(S), Len(q) > 0 PROVE Tail(q) \in Seq(S)
OBVIOUS

LEMMA OneOf == ASSUME NEW S, NEW e \in S PROVE <<e>> \in Seq(S) /\ Len(<<e>>) = 1
OBVIOUS

LEMMA EditorStart == ASSUME Editor!Init PROVE EditorInv
<1>1. Editor!InFlight = {}
  BY DEF Editor!Init, Editor!InFlight
<1>2. /\ edits = 0 /\ store = 0 /\ server = 0 /\ lastSaved = 0 /\ initial = 0 /\ fresh = 0
      /\ historyIndex = 1 /\ timer = FALSE /\ crossed = FALSE /\ publish = "none"
      /\ history = <<0>> /\ saves = [s \in Editor!Saves |-> Editor!None]
  BY DEF Editor!Init
<1>3. history \in Seq(0 .. edits) /\ Len(history) = 1
  BY <1>2, OneOf
<1>4. saves \in [Editor!Saves -> SaveRecords]
  BY <1>2 DEF SaveRecords, Editor!None
<1>5. EditorTypes
  <2>1. \A t \in Editor!Saves : saves[t] = Editor!None
    BY <1>2
  <2>2. edits \in Nat /\ {store, server, lastSaved, initial, fresh} \subseteq 0 .. edits
        /\ historyIndex \in 0 .. Len(history)
    BY <1>2, <1>3
  <2>. QED
    BY <1>2, <1>3, <1>4, <2>1, <2>2 DEF EditorTypes
<1>. QED
  BY <1>1, <1>2, <1>5 DEF EditorInv, OneSave, ShownInv

LEMMA InFlightIs ==
  ASSUME EditorTypes
  PROVE  Editor!InFlight = {s \in Editor!Saves : saves[s].at # "free"}
BY DEF EditorTypes, SaveRecords, Editor!InFlight, Editor!None

LEMMA PushKeeps ==
  ASSUME EditorTypes
  PROVE  Editor!PushHistory(edits + 1) \in Seq(0 .. edits + 1)
<1>. DEFINE S == 0 .. edits + 1
            kept == Append(SubSeq(history, 1, historyIndex), edits + 1)
<1>1. history \in Seq(S) /\ edits + 1 \in S /\ historyIndex \in 0 .. Len(history)
  BY DEF EditorTypes
<1>2. SubSeq(history, 1, historyIndex) \in Seq(S)
  BY <1>1
<1>3. kept \in Seq(S) /\ Len(kept) > 0
  BY <1>1, <1>2
<1>4. Tail(kept) \in Seq(S)
  BY <1>3, TailOf
<1>. QED
  BY <1>3, <1>4 DEF Editor!PushHistory

(* A change of the canvas.                                                 *)
LEMMA RenderedKeeps ==
  ASSUME EditorInv, NEW c, Editor!Rendered(c),
         UNCHANGED <<lastSaved, saves, server, published, publish, fresh, initial>>,
         edits' \in Nat, edits <= edits', c \in 0 .. edits',
         history' \in Seq(0 .. edits'), historyIndex' \in 0 .. Len(history'),
         crossed' \in BOOLEAN, ~crossed' => ~crossed /\ (Editor!InFlight # {} => c # lastSaved)
  PROVE  EditorInv'
<1>1. EditorTypes'
  BY DEF EditorInv, EditorTypes, SaveRecords, Editor!Rendered
<1>2. ASSUME ~crossed' PROVE OneSave' /\ ShownInv'
  <2>1. OneSave /\ ShownInv /\ (Editor!InFlight # {} => c # lastSaved)
    BY <1>2 DEF EditorInv
  <2>2. Editor!InFlight' = Editor!InFlight
    BY DEF Editor!InFlight
  <2>. QED
    BY <2>1, <2>2 DEF OneSave, ShownInv, Editor!Rendered
<1>. QED
  BY <1>1, <1>2 DEF EditorInv

LEMMA EditKeeps == ASSUME EditorInv, Editor!Edit \/ Editor!Drag PROVE EditorInv'
<1>1. /\ Editor!Rendered(edits + 1) /\ edits' = edits + 1 /\ crossed' = crossed
      /\ UNCHANGED <<lastSaved, saves, server, published, publish, fresh, initial>>
  BY DEF Editor!Edit, Editor!Drag, Editor!requests
<1>2. EditorTypes
  BY DEF EditorInv
<1>3. history' \in Seq(0 .. edits') /\ historyIndex' \in 0 .. Len(history')
  <2>1. CASE Editor!Edit
    BY <1>1, <1>2, <2>1, PushKeeps DEF Editor!Edit
  <2>2. CASE Editor!Drag
    BY <1>1, <1>2, <2>2 DEF Editor!Drag, EditorTypes
  <2>. QED
    BY <2>1, <2>2
<1>4. edits + 1 # lastSaved /\ edits' \in Nat /\ edits <= edits' /\ edits + 1 \in 0 .. edits'
      /\ crossed' \in BOOLEAN
  BY <1>1, <1>2 DEF EditorTypes
<1>. QED
  BY <1>1, <1>3, <1>4, RenderedKeeps

LEMMA TravelKeeps == ASSUME EditorInv, Editor!Undo \/ Editor!Redo PROVE EditorInv'
<1>1. EditorTypes
  BY DEF EditorInv
<1>2. PICK i \in 1 .. Len(history) : Editor!Travel(i)
  <2>1. Len(history) \in Nat /\ historyIndex \in 0 .. Len(history)
    BY <1>1 DEF EditorTypes
  <2>2. CASE Editor!Undo
    <3>1. historyIndex - 1 \in 1 .. Len(history) /\ Editor!Travel(historyIndex - 1)
      BY <2>1, <2>2 DEF Editor!Undo
    <3>. QED
      BY <3>1
  <2>3. CASE Editor!Redo
    <3>1. historyIndex + 1 \in 1 .. Len(history) /\ Editor!Travel(historyIndex + 1)
      BY <2>1, <2>3 DEF Editor!Redo
    <3>. QED
      BY <3>1
  <2>. QED
    BY <2>2, <2>3
<1>3. /\ Editor!Rendered(history[i]) /\ historyIndex' = i
      /\ crossed' = (crossed \/ (Editor!InFlight # {} /\ history[i] = lastSaved))
      /\ UNCHANGED <<history, edits, lastSaved, saves, server, published, publish, fresh, initial>>
  BY <1>2 DEF Editor!Travel, Editor!requests
<1>4. history[i] \in 0 .. edits
  BY <1>1 DEF EditorTypes
<1>5. /\ edits' \in Nat /\ edits <= edits' /\ history[i] \in 0 .. edits'
      /\ history' \in Seq(0 .. edits') /\ historyIndex' \in 0 .. Len(history')
  BY <1>1, <1>3, <1>4 DEF EditorTypes
<1>6. crossed' \in BOOLEAN
  BY <1>1, <1>3 DEF EditorTypes
<1>7. ~crossed' => ~crossed /\ (Editor!InFlight # {} => history[i] # lastSaved)
  BY <1>3
<1>. QED
  BY <1>3, <1>5, <1>6, <1>7, RenderedKeeps

(* A save is sent.                                                         *)
LEMMA SendKeeps ==
  ASSUME EditorInv, NEW who \in {"timer", "button", "publish"}, Editor!Send(who), timer' = FALSE,
         UNCHANGED <<initial, store, history, historyIndex, edits, lastSaved, server, published,
                     fresh>>,
         \/ who # "publish" /\ UNCHANGED <<publish, shown>>
         \/ who = "publish" /\ publish = "none" /\ publish' = "saving" /\ shown' = {store}
  PROVE  EditorInv'
<1>0. EditorTypes
  BY DEF EditorInv
<1>1. PICK s \in Editor!Saves \ Editor!InFlight :
        /\ saves' = [saves EXCEPT ![s] = [content |-> store, by |-> who, at |-> "sent"]]
        /\ crossed' = (crossed \/ Editor!InFlight # {} \/ publish = "refreshing")
  BY DEF Editor!Send
<1>2. EditorTypes'
  BY <1>0, <1>1 DEF EditorTypes, SaveRecords
<1>3. ASSUME ~crossed' PROVE OneSave' /\ ShownInv'
  <2>1. OneSave /\ ShownInv /\ Editor!InFlight = {} /\ publish # "refreshing"
    BY <1>1, <1>3 DEF EditorInv
  <2>2. Editor!InFlight' = {s}
    <3>1. \A t \in Editor!Saves : saves[t].at = "free"
      BY <1>0, <2>1, InFlightIs
    <3>2. \A t \in Editor!Saves : saves'[t].at # "free" <=> t = s
      BY <1>0, <1>1, <3>1 DEF EditorTypes
    <3>3. Editor!InFlight' = {t \in Editor!Saves : saves'[t].at # "free"}
      BY <1>2 DEF EditorTypes, SaveRecords, Editor!InFlight, Editor!None
    <3>. QED
      BY <1>1, <3>2, <3>3
  <2>3. saves'[s] = [content |-> store, by |-> who, at |-> "sent"]
    BY <1>0, <1>1 DEF EditorTypes
  <2>. QED
    BY <2>1, <2>2, <2>3 DEF OneSave, ShownInv
<1>. QED
  BY <1>2, <1>3 DEF EditorInv

(* saveNow finds nothing to save.                                          *)
LEMMA NothingToSave ==
  ASSUME EditorInv, store = lastSaved, status' = "saved",
         crossed' = (crossed \/ Editor!InFlight # {}), UNCHANGED <<timer, saves>>,
         UNCHANGED <<initial, store, history, historyIndex, edits, lastSaved, server, published,
                     fresh>>,
         \/ UNCHANGED <<publish, shown>>
         \/ publish = "none" /\ publish' = "publishing" /\ shown' = {store}
  PROVE  EditorInv'
<1>1. EditorTypes'
  BY DEF EditorInv, EditorTypes, SaveRecords
<1>2. Editor!InFlight' = Editor!InFlight
  BY DEF Editor!InFlight
<1>3. ASSUME ~crossed' PROVE OneSave' /\ ShownInv'
  BY <1>2, <1>3 DEF EditorInv, OneSave, ShownInv
<1>. QED
  BY <1>1, <1>3 DEF EditorInv

LEMMA SavesKeep ==
  ASSUME EditorInv, Editor!TimerFires \/ Editor!SaveClicked \/ Editor!PublishClicked
  PROVE  EditorInv'
<1>1. CASE Editor!TimerFires
  BY <1>1, SendKeeps DEF Editor!TimerFires
<1>2. CASE Editor!SaveClicked
  <2>1. CASE store = lastSaved
    BY <1>2, <2>1, NothingToSave DEF Editor!SaveClicked, Editor!SaveNow
  <2>2. CASE store # lastSaved
    BY <1>2, <2>2, SendKeeps DEF Editor!SaveClicked, Editor!SaveNow
  <2>. QED
    BY <2>1, <2>2
<1>3. CASE Editor!PublishClicked
  <2>1. CASE store = lastSaved
    BY <1>3, <2>1, NothingToSave DEF Editor!PublishClicked, Editor!SaveNow
  <2>2. CASE store # lastSaved
    BY <1>3, <2>2, SendKeeps DEF Editor!PublishClicked, Editor!SaveNow
  <2>. QED
    BY <2>1, <2>2
<1>. QED
  BY <1>1, <1>2, <1>3

(* The API saves, and its answer comes back.                               *)
LEMMA ServerKeeps ==
  ASSUME EditorInv, NEW s \in Editor!Saves, Editor!ServerSaves(s) PROVE EditorInv'
<1>0. EditorTypes /\ saves[s] \in SaveRecords /\ saves[s].at = "sent"
  BY DEF EditorInv, EditorTypes, Editor!ServerSaves
<1>1. PICK a \in {"done", "failed"} :
        /\ saves' = [saves EXCEPT ![s].at = a]
        /\ server' \in {server, saves[s].content}
        /\ a = "done" => server' = saves[s].content
        /\ ~crossed' => ~crossed /\ (a = "failed" => server' = server)
        /\ crossed' \in BOOLEAN
  BY <1>0 DEF Editor!ServerSaves, EditorTypes
<1>2. UNCHANGED <<initial, store, history, historyIndex, edits, lastSaved, status, timer, published,
                  publish, fresh, shown>>
  BY DEF Editor!ServerSaves
<1>3. EditorTypes'
  <2>1. [saves[s] EXCEPT !.at = a] \in SaveRecords /\ a # "free"
    BY <1>0, <1>1 DEF SaveRecords
  <2>2. saves' = [saves EXCEPT ![s] = [saves[s] EXCEPT !.at = a]]
    BY <1>1
  <2>3. /\ saves' \in [Editor!Saves -> SaveRecords] /\ saves'[s].at = a
        /\ \A t \in Editor!Saves : t # s => saves'[t] = saves[t]
    BY <1>0, <2>1, <2>2 DEF EditorTypes, SaveRecords
  <2>4. SaveRecords' = SaveRecords /\ server' \in 0 .. edits
    BY <1>0, <1>1, <1>2 DEF EditorTypes, SaveRecords
  <2>. QED
    BY <1>0, <1>1, <1>2, <2>1, <2>3, <2>4 DEF EditorTypes
<1>4. Editor!InFlight' = Editor!InFlight
  <2>1. Editor!InFlight' = {t \in Editor!Saves : saves'[t].at # "free"}
    BY <1>3 DEF EditorTypes, SaveRecords, Editor!InFlight, Editor!None
  <2>2. \A t \in Editor!Saves : saves'[t].at # "free" <=> saves[t].at # "free"
    <3>1. \A t \in Editor!Saves : t # s => saves'[t] = saves[t]
      BY <1>0, <1>1 DEF EditorTypes
    <3>2. saves'[s].at = a
      BY <1>0, <1>1 DEF EditorTypes, SaveRecords
    <3>. QED
      BY <1>0, <1>1, <3>1, <3>2
  <2>. QED
    BY <1>0, <2>1, <2>2, InFlightIs
<1>5. s \in Editor!InFlight
  BY <1>0, InFlightIs
<1>6. /\ saves'[s].at = a /\ saves'[s].content = saves[s].content /\ saves'[s].by = saves[s].by
      /\ \A t \in Editor!Saves : t # s => saves'[t] = saves[t]
  BY <1>0, <1>1 DEF EditorTypes, SaveRecords
<1>7. ASSUME ~crossed' PROVE OneSave' /\ ShownInv'
  <2>1. OneSave /\ ShownInv
    BY <1>1, <1>7 DEF EditorInv
  <2>2. Editor!InFlight = {s}
    BY <1>5, <2>1 DEF OneSave
  <2>3. server' = IF a = "done" THEN saves[s].content ELSE lastSaved
    BY <1>0, <1>1, <1>7, <2>1, <2>2 DEF OneSave
  <2>4. OneSave'
    BY <1>2, <1>4, <1>6, <2>1, <2>2, <2>3 DEF OneSave
  <2>5. ShownInv'
    <3>1. publish = "publishing" => server' \in shown
      BY <1>1, <1>5, <2>1 DEF ShownInv
    <3>. QED
      BY <1>2, <1>4, <1>6, <2>1, <2>2, <3>1 DEF ShownInv
  <2>. QED
    BY <2>4, <2>5
<1>. QED
  BY <1>3, <1>7 DEF EditorInv

LEMMA ReturnKeeps ==
  ASSUME EditorInv, NEW s \in Editor!Saves, Editor!SaveReturns(s) PROVE EditorInv'
<1>0. EditorTypes /\ saves[s] \in SaveRecords /\ saves[s].at \in {"done", "failed"}
  BY DEF EditorInv, EditorTypes, Editor!SaveReturns
<1>1. /\ saves' = [saves EXCEPT ![s] = Editor!None]
      /\ UNCHANGED <<store, history, historyIndex, edits, timer, server, published, fresh, shown,
                     initial>>
      /\ lastSaved' = IF saves[s].at = "done" THEN saves[s].content ELSE lastSaved
      /\ status' = IF saves[s].at = "done" THEN "saved" ELSE "error"
      /\ publish' = IF saves[s].by = "publish" THEN "publishing" ELSE publish
      /\ crossed' = (crossed \/ (saves[s].by = "publish" /\ saves[s].at = "failed"))
  BY DEF Editor!SaveReturns
<1>2. EditorTypes'
  BY <1>0, <1>1 DEF EditorTypes, SaveRecords, Editor!None
<1>3. s \in Editor!InFlight
  BY <1>0, InFlightIs
<1>4. ASSUME ~crossed' PROVE OneSave' /\ ShownInv'
  <2>1. OneSave /\ ShownInv
    BY <1>1, <1>4 DEF EditorInv
  <2>2. Editor!InFlight = {s}
    BY <1>3, <2>1 DEF OneSave
  <2>3. Editor!InFlight' = {}
    BY <1>0, <1>1, <2>2 DEF EditorTypes, Editor!InFlight
  <2>4. OneSave'
    BY <1>1, <2>1, <2>2, <2>3 DEF OneSave
  <2>5. ShownInv'
    BY <1>0, <1>1, <1>4, <2>1, <2>2, <2>3 DEF OneSave, ShownInv
  <2>. QED
    BY <2>4, <2>5
<1>. QED
  BY <1>2, <1>4 DEF EditorInv

(* Publishing, and the page that is read again after it.                   *)
LEMMA PublishingKeeps ==
  ASSUME EditorInv, Editor!Publishes \/ Editor!RefreshReads \/ Editor!RefreshArrives
  PROVE  EditorInv'
<1>0. EditorTypes
  BY DEF EditorInv
<1>1. CASE Editor!Publishes
  <2>1. EditorTypes' /\ Editor!InFlight' = Editor!InFlight /\ crossed' = crossed
    BY <1>0, <1>1 DEF Editor!Publishes, EditorTypes, SaveRecords, Editor!InFlight
  <2>. QED
    BY <1>1, <2>1 DEF Editor!Publishes, EditorInv, OneSave, ShownInv
<1>2. CASE Editor!RefreshReads
  <2>1. EditorTypes' /\ Editor!InFlight' = Editor!InFlight
    BY <1>0, <1>2 DEF Editor!RefreshReads, EditorTypes, SaveRecords, Editor!InFlight
  <2>. QED
    BY <1>2, <2>1 DEF Editor!RefreshReads, EditorInv, OneSave, ShownInv
<1>3. CASE Editor!RefreshArrives
  <2>1. EditorTypes' /\ Editor!InFlight' = Editor!InFlight /\ crossed' = crossed
    <3>1. /\ history' = <<fresh>> /\ historyIndex' = 1 /\ store' = fresh /\ initial' = fresh
          /\ lastSaved' \in {fresh, lastSaved} /\ timer' \in BOOLEAN
          /\ UNCHANGED <<edits, saves, server, published, fresh, crossed>>
      BY <1>3 DEF Editor!RefreshArrives
    <3>2. fresh \in 0 .. edits
      BY <1>0 DEF EditorTypes
    <3>3. history' \in Seq(0 .. edits') /\ Len(history') = 1
      BY <3>1, <3>2, OneOf
    <3>4. EditorTypes'
      BY <1>0, <3>1, <3>2, <3>3 DEF EditorTypes, SaveRecords
    <3>. QED
      BY <3>1, <3>4 DEF Editor!InFlight
  <2>2. ASSUME ~crossed PROVE OneSave' /\ ShownInv'
    <3>1. OneSave /\ ShownInv /\ Editor!InFlight = {} /\ fresh = server /\ server = lastSaved
      BY <1>3, <2>2 DEF EditorInv, OneSave, Editor!RefreshArrives
    <3>2. lastSaved' = fresh /\ store' = fresh /\ timer' = FALSE /\ server' = server
      BY <1>3, <3>1 DEF Editor!RefreshArrives
    <3>. QED
      BY <1>3, <2>1, <3>1, <3>2 DEF Editor!RefreshArrives, OneSave, ShownInv
  <2>. QED
    BY <2>1, <2>2 DEF EditorInv
<1>. QED
  BY <1>1, <1>2, <1>3

\* For any number of edits, snapshots and saves: a page at rest without an error shows what
\* the API holds (use-flow-storage.ts:107-141), and what is published was on the canvas when
\* the button was pressed or since (flow-builder.tsx:69-81), but for saves that crossed.
THEOREM QuietFlowIsSaved ==
  Editor!Spec => []Editor!QuietIsSaved /\ [][Editor!PublishedWasShown]_(Editor!vars)
<1>1. Editor!Init => EditorInv
  BY EditorStart
<1>2. EditorInv /\ [Editor!Next]_(Editor!vars) => EditorInv'
  <2>1. ASSUME EditorInv, UNCHANGED Editor!vars PROVE EditorInv'
    <3>1. EditorTypes' /\ Editor!InFlight' = Editor!InFlight
      BY <2>1 DEF Editor!vars, EditorInv, EditorTypes, SaveRecords, Editor!InFlight
    <3>. QED
      BY <2>1, <3>1 DEF Editor!vars, EditorInv, OneSave, ShownInv
  <2>. QED
    BY <2>1, EditKeeps, TravelKeeps, SavesKeep, ServerKeeps, ReturnKeeps, PublishingKeeps
       DEF Editor!Next
<1>3. EditorInv => Editor!QuietIsSaved
  BY DEF EditorInv, OneSave, Editor!QuietIsSaved
<1>4. EditorInv /\ [Editor!Next]_(Editor!vars) => Editor!PublishedWasShown
  <2>. SUFFICES ASSUME EditorInv, [Editor!Next]_(Editor!vars), published' # published, ~crossed
                PROVE  published' \in shown
    BY DEF Editor!PublishedWasShown
  <2>1. Editor!Publishes
    BY DEF Editor!Next, Editor!vars, Editor!requests, Editor!Edit, Editor!Drag, Editor!Undo,
       Editor!Redo, Editor!Travel, Editor!TimerFires, Editor!SaveClicked, Editor!ServerSaves,
       Editor!SaveReturns, Editor!PublishClicked, Editor!RefreshReads, Editor!RefreshArrives
  <2>. QED
    BY <2>1 DEF Editor!Publishes, EditorInv, ShownInv
<1>. QED
  BY <1>1, <1>2, <1>3, <1>4, PTL DEF Editor!Spec

-----------------------------------------------------------------------------
(***************************************************************************)
(* The page of the global settings (SettingsPage.tla:                      *)
(* global-config/page.tsx).  As long as no request failed and none was     *)
(* overtaken, there is one request at most, the suppression is off, and    *)
(* what the page holds differs from what is stored by the autosave that is *)
(* pending.                                                                *)
(***************************************************************************)
Settings == INSTANCE SettingsPage

Pages == [vars : Nat, window : Settings!Windows, lists : SUBSET Numbers]
StoredSettings == [vars : Nat \ {0}, window : {"day"}, lists : SUBSET Numbers,
                   disclosure : {"default", "own"}]

(* What the signature may be taken for: the page only if it is stored.     *)
SignatureInv == last.vars = 0 \/ last.vars = server.vars

(* Nothing is under way.                                                   *)
AtRestInv ==
  /\ flight = <<>> /\ page.lists = server.lists /\ SignatureInv
  /\ page.window = "day" /\ timer = Settings!NoTimer => page = Settings!Shown(server)

(* The only request is out, and the page has not changed since.            *)
RequestInv(r) ==
  /\ flight = <<r>> /\ skip /\ page.window = "day"
  /\ r.dto \in Pages /\ r.dto.window = "day" /\ r.dto.vars = page.vars
  /\ r.answer \in {Settings!NoAnswer, server}
  /\ r.answer = server => r.dto.lists = server.lists
  /\ \/ /\ r.kind = "auto" /\ r.dto = page /\ page.lists = server.lists
        /\ r.answer = server => page = Settings!Shown(server)
     \/ r.kind = "list" /\ SignatureInv

LoadedInv ==
  /\ page.vars # 0 /\ last \in Pages /\ last.window = "day"
  /\ timer \in {Settings!NoTimer, page}
  /\ timer = page => page.window = "day"
  /\ \/ AtRestInv
     \/ \E r \in [kind : {"auto", "list"}, dto : Pages, answer : {Settings!NoAnswer, server}] :
          RequestInv(r)

UnloadedInv ==
  /\ page = Settings!Blank /\ last = Settings!NoTimer /\ timer = Settings!NoTimer
  /\ flight = <<>>

SettingsInv ==
  /\ failures \in Nat
  /\ failures = 0 /\ ~crossed =>
       /\ page \in Pages /\ server \in StoredSettings /\ suppress = FALSE
       /\ IF ready THEN LoadedInv ELSE UnloadedInv

LEMMA SettingsStart == ASSUME Settings!Init PROVE SettingsInv
BY DEF Settings!Init, SettingsInv, UnloadedInv, Pages, StoredSettings, Settings!Blank,
   Settings!NoTimer, Settings!Windows

(* The request at a place of the queue of requests.                        *)
LEMMA OnlyRequest ==
  ASSUME NEW q, NEW r, q = <<r>>, NEW i, i \in DOMAIN q
  PROVE  i = 1 /\ q[i] = r /\ Settings!RemoveAt(q, i) = <<>>
<1>1. i = 1 /\ Len(q) = 1
  OBVIOUS
<1>2. SubSeq(q, 1, 0) = <<>> /\ SubSeq(q, 2, 1) = <<>>
  BY <1>1
<1>. QED
  BY <1>1, <1>2 DEF Settings!RemoveAt

(* Rendering a page when nothing is under way.                             *)
Plain(p, sig) == Settings!After(p, FALSE, sig)

RendersFrom(p, sig) ==
  /\ p \in Pages /\ p.lists = server.lists /\ p.vars # 0 /\ server \in StoredSettings
  /\ sig \in Pages /\ sig.window = "day" /\ (sig.vars = 0 \/ sig.vars = server.vars)

RendersTo(p, sig, t) ==
  /\ t.suppress = FALSE /\ t.last = sig /\ t.timer \in {Settings!NoTimer, p}
  /\ t.timer = p => p.window = "day"
  /\ p.window = "day" /\ t.timer = Settings!NoTimer => p = Settings!Shown(server)

LEMMA RestRenders ==
  ASSUME NEW p, NEW sig, RendersFrom(p, sig) PROVE RendersTo(p, sig, Plain(p, sig))
<1>. USE DEF RendersFrom, RendersTo
<1>1. p.window \in {"day", "turned"} /\ p # Settings!NoTimer
  BY DEF Pages, Settings!Windows, Settings!NoTimer
<1>2. CASE p.window = "turned"
  BY <1>1, <1>2 DEF Plain, Settings!After
<1>3. CASE p.window = "day" /\ p = sig
  <2>1. p = [vars |-> server.vars, window |-> server.window, lists |-> server.lists]
    BY <1>3 DEF Pages, StoredSettings
  <2>. QED
    BY <1>1, <1>3, <2>1 DEF Plain, Settings!After, Settings!Shown
<1>4. CASE p.window = "day" /\ p # sig
  BY <1>1, <1>4 DEF Plain, Settings!After
<1>. QED
  BY <1>1, <1>2, <1>3, <1>4

LEMMA LoadKeeps == ASSUME SettingsInv, Settings!Load PROVE SettingsInv'
<1>. SUFFICES ASSUME failures = 0, ~crossed
              PROVE  /\ page' \in Pages /\ server' \in StoredSettings /\ suppress' = FALSE
                     /\ ready' /\ LoadedInv'
  BY DEF SettingsInv, Settings!Load
<1>. DEFINE q == Settings!Shown(server)
<1>1. /\ page = Settings!Blank /\ last = Settings!NoTimer /\ flight = <<>>
      /\ server \in StoredSettings
  BY DEF SettingsInv, UnloadedInv, Settings!Load
<1>2. /\ page' = q /\ server' = server /\ ready' /\ flight' = flight
      /\ Settings!Becomes(Settings!Hydrated(page, q, last))
  BY DEF Settings!Load
<1>3. q \in Pages /\ q.vars # 0 /\ q.vars = server.vars /\ q.lists = server.lists
      /\ q.window = "day" /\ q # Settings!Blank
  BY <1>1 DEF StoredSettings, Pages, Settings!Shown, Settings!Windows, Settings!Blank
<1>4. Settings!After(page, TRUE, last)
        = [suppress |-> FALSE, last |-> Settings!Blank, timer |-> Settings!NoTimer]
  BY <1>1 DEF Settings!After, Settings!Blank
<1>5. Settings!Hydrated(page, q, last)
        = [suppress |-> FALSE, last |-> Settings!Blank, timer |-> q]
  BY <1>3, <1>4 DEF Settings!Hydrated, Settings!After
<1>6. suppress' = FALSE /\ last' = Settings!Blank /\ timer' = q
  BY <1>2, <1>5 DEF Settings!Becomes
<1>7. Settings!Blank \in Pages /\ Settings!Blank.vars = 0 /\ Settings!Blank.window = "day"
  BY DEF Pages, Settings!Blank, Settings!Windows
<1>8. AtRestInv'
  BY <1>1, <1>2, <1>3, <1>6, <1>7 DEF AtRestInv, SignatureInv
<1>. QED
  BY <1>1, <1>2, <1>3, <1>6, <1>7, <1>8 DEF LoadedInv

LEMMA PageEditKeeps ==
  ASSUME SettingsInv, NEW p, Settings!Edit(p),
         page \in Pages => p \in Pages /\ p.lists = page.lists /\ (page.vars # 0 => p.vars # 0)
  PROVE  SettingsInv'
<1>. SUFFICES ASSUME failures = 0, ~crossed'
              PROVE  /\ page' \in Pages /\ server' \in StoredSettings /\ suppress' = FALSE
                     /\ ready' /\ LoadedInv'
  BY DEF SettingsInv, Settings!Edit
<1>1. /\ ready /\ page' = p /\ ~crossed /\ flight = <<>> /\ Settings!Rendered(p)
      /\ UNCHANGED <<server, ready, skip, flight>>
  BY DEF Settings!Edit, Settings!Out
<1>2. page \in Pages /\ server \in StoredSettings /\ suppress = FALSE /\ LoadedInv /\ AtRestInv
  BY <1>1 DEF SettingsInv, LoadedInv, RequestInv
<1>3. p \in Pages /\ p.lists = server.lists /\ p.vars # 0
  BY <1>2 DEF LoadedInv, AtRestInv
<1>4. last \in Pages /\ last.window = "day" /\ SignatureInv
  BY <1>2 DEF LoadedInv, AtRestInv
<1>5. PICK t : t = Plain(p, last)
  OBVIOUS
<1>6. suppress' = t.suppress /\ last' = t.last /\ timer' = t.timer
  BY <1>1, <1>2, <1>5 DEF Plain, Settings!Rendered, Settings!Becomes
<1>7. /\ suppress' = FALSE /\ last' = last /\ timer' \in {Settings!NoTimer, p}
      /\ timer' = p => p.window = "day"
      /\ p.window = "day" /\ timer' = Settings!NoTimer => p = Settings!Shown(server)
  <2>1. RendersFrom(p, last)
    BY <1>2, <1>3, <1>4 DEF RendersFrom, SignatureInv
  <2>2. RendersTo(p, last, t)
    BY <1>5, <2>1, RestRenders
  <2>. QED
    BY <1>6, <2>2 DEF RendersTo
<1>8. AtRestInv'
  BY <1>1, <1>3, <1>4, <1>7 DEF AtRestInv, SignatureInv, Settings!Shown
<1>. QED
  BY <1>1, <1>2, <1>3, <1>4, <1>7, <1>8 DEF LoadedInv

LEMMA EditsKeep ==
  ASSUME SettingsInv, Settings!SaveVariable \/ \E w \in Settings!Windows : Settings!UpdateCallWindow(w)
  PROVE  SettingsInv'
<1>1. CASE Settings!SaveVariable
  <2>1. page \in Pages => /\ [page EXCEPT !.vars = @ + 1] \in Pages
                          /\ [page EXCEPT !.vars = @ + 1].lists = page.lists
                          /\ [page EXCEPT !.vars = @ + 1].vars # 0
    BY DEF Pages
  <2>. QED
    BY <1>1, <2>1, PageEditKeeps DEF Settings!SaveVariable
<1>2. ASSUME NEW w \in Settings!Windows, Settings!UpdateCallWindow(w) PROVE SettingsInv'
  <2>1. page \in Pages => /\ [page EXCEPT !.window = w] \in Pages
                          /\ [page EXCEPT !.window = w].lists = page.lists
                          /\ [page EXCEPT !.window = w].vars = page.vars
    BY DEF Pages
  <2>. QED
    BY <1>2, <2>1, PageEditKeeps DEF Settings!UpdateCallWindow
<1>. QED
  BY <1>1, <1>2

(* A request is sent when none is out.                                     *)
LEMMA SentIs ==
  ASSUME NEW kind, NEW dto, Settings!Sends(kind, dto), ~crossed'
  PROVE  /\ ~crossed /\ flight = <<>> /\ dto.window # "turned" /\ skip'
         /\ flight' = <<[kind |-> kind, dto |-> dto, answer |-> Settings!NoAnswer]>>
<1>1. /\ flight' = Append(flight, [kind |-> kind, dto |-> dto, answer |-> Settings!NoAnswer])
      /\ skip' = TRUE /\ crossed' = (crossed \/ flight # <<>> \/ dto.window = "turned")
  BY DEF Settings!Sends, Settings!Out
<1>2. ~crossed /\ flight = <<>> /\ dto.window # "turned"
  BY <1>1
<1>. QED
  BY <1>1, <1>2

LEMMA AutosaveKeeps == ASSUME SettingsInv, Settings!TimerFires PROVE SettingsInv'
<1>. SUFFICES ASSUME failures = 0, ~crossed'
              PROVE  /\ page' \in Pages /\ server' \in StoredSettings /\ suppress' = FALSE
                     /\ ready' /\ LoadedInv'
  BY DEF SettingsInv, Settings!TimerFires
<1>0. PICK r : r = [kind |-> "auto", dto |-> timer, answer |-> Settings!NoAnswer]
  OBVIOUS
<1>1. /\ ~crossed /\ flight = <<>> /\ skip' /\ flight' = <<r>>
  BY <1>0, SentIs DEF Settings!TimerFires
<1>2. timer # Settings!NoTimer /\ timer' = Settings!NoTimer
      /\ UNCHANGED <<server, page, ready, suppress, last>>
  BY DEF Settings!TimerFires
<1>3. /\ page \in Pages /\ server \in StoredSettings /\ suppress = FALSE /\ ready
      /\ LoadedInv /\ AtRestInv
  BY <1>1, <1>2 DEF SettingsInv, UnloadedInv, LoadedInv, RequestInv
<1>4. timer = page /\ page.window = "day"
  BY <1>2, <1>3 DEF LoadedInv
<1>5. r \in [kind : {"auto", "list"}, dto : Pages, answer : {Settings!NoAnswer, server'}]
  BY <1>0, <1>2, <1>3, <1>4
<1>6. Settings!NoAnswer # server
  BY <1>3 DEF StoredSettings, Settings!NoAnswer
<1>7. RequestInv(r)'
  BY <1>0, <1>1, <1>2, <1>3, <1>4, <1>6 DEF RequestInv, AtRestInv
<1>. QED
  BY <1>2, <1>3, <1>5, <1>7 DEF LoadedInv

LEMMA ListSaveKeeps ==
  ASSUME SettingsInv, NEW lists \in SUBSET Numbers, Settings!SaveNumberList(lists)
  PROVE  SettingsInv'
<1>. SUFFICES ASSUME failures = 0, ~crossed'
              PROVE  /\ page' \in Pages /\ server' \in StoredSettings /\ suppress' = FALSE
                     /\ ready' /\ LoadedInv'
  BY DEF SettingsInv, Settings!SaveNumberList
<1>0. PICK d, r : /\ d = [page EXCEPT !.lists = lists]
                 /\ r = [kind |-> "list", dto |-> d, answer |-> Settings!NoAnswer]
  OBVIOUS
<1>1. ~crossed /\ flight = <<>> /\ skip' /\ flight' = <<r>> /\ d.window # "turned"
  BY <1>0, SentIs DEF Settings!SaveNumberList
<1>2. ready /\ Settings!Rendered(page) /\ UNCHANGED <<server, page, ready>>
  BY DEF Settings!SaveNumberList
<1>3. page \in Pages /\ server \in StoredSettings /\ suppress = FALSE /\ LoadedInv /\ AtRestInv
  BY <1>1, <1>2 DEF SettingsInv, LoadedInv, RequestInv
<1>4. /\ last \in Pages /\ last.window = "day" /\ SignatureInv /\ page.lists = server.lists
      /\ page.vars # 0
  BY <1>3 DEF LoadedInv, AtRestInv
<1>5. d \in Pages /\ d.window = page.window /\ d.vars = page.vars /\ page.window = "day"
  BY <1>0, <1>1, <1>3 DEF Pages, Settings!Windows
<1>6. PICK t : t = Plain(page, last)
  OBVIOUS
<1>7. suppress' = t.suppress /\ last' = t.last /\ timer' = t.timer
  BY <1>2, <1>3, <1>6 DEF Plain, Settings!Rendered, Settings!Becomes
<1>8. suppress' = FALSE /\ last' = last /\ timer' \in {Settings!NoTimer, page}
  <2>1. RendersFrom(page, last)
    BY <1>3, <1>4 DEF RendersFrom, SignatureInv
  <2>2. RendersTo(page, last, t)
    BY <1>6, <2>1, RestRenders
  <2>. QED
    BY <1>7, <2>2 DEF RendersTo
<1>9. r \in [kind : {"auto", "list"}, dto : Pages, answer : {Settings!NoAnswer, server'}]
  BY <1>0, <1>5
<1>10. Settings!NoAnswer # server
  BY <1>3 DEF StoredSettings, Settings!NoAnswer
<1>11. RequestInv(r)'
  BY <1>0, <1>1, <1>2, <1>3, <1>4, <1>5, <1>8, <1>10 DEF RequestInv, SignatureInv
<1>. QED
  BY <1>2, <1>3, <1>4, <1>5, <1>8, <1>9, <1>11 DEF LoadedInv

(* The request that is out, when there is one.                             *)
LEMMA RequestOut ==
  ASSUME SettingsInv, failures = 0, ~crossed, NEW i \in DOMAIN flight
  PROVE  /\ ready /\ i = 1
         /\ page \in Pages /\ server \in StoredSettings /\ suppress = FALSE
         /\ page.vars # 0 /\ last \in Pages /\ last.window = "day"
         /\ timer \in {Settings!NoTimer, page}
         /\ flight[i] \in [kind : {"auto", "list"}, dto : Pages,
                           answer : {Settings!NoAnswer, server}]
         /\ RequestInv(flight[i]) /\ Settings!RemoveAt(flight, i) = <<>>
<1>1. flight # <<>>
  OBVIOUS
<1>2. ready /\ LoadedInv
  BY <1>1 DEF SettingsInv, UnloadedInv
<1>3. PICK r \in [kind : {"auto", "list"}, dto : Pages, answer : {Settings!NoAnswer, server}] :
        RequestInv(r)
  BY <1>1, <1>2 DEF LoadedInv, AtRestInv
<1>4. i = 1 /\ flight[i] = r /\ Settings!RemoveAt(flight, i) = <<>>
  BY <1>3, OnlyRequest DEF RequestInv
<1>. QED
  BY <1>2, <1>3, <1>4 DEF SettingsInv, LoadedInv

LEMMA AppliedKeeps == ASSUME SettingsInv, NEW i, Settings!Applied(i) PROVE SettingsInv'
<1>. SUFFICES ASSUME failures = 0, ~crossed
              PROVE  /\ page' \in Pages /\ server' \in StoredSettings /\ suppress' = FALSE
                     /\ ready' /\ LoadedInv'
  BY DEF SettingsInv, Settings!Applied
<1>0. PICK r, new, a : /\ r = flight[i] /\ new = Settings!Stored(r.kind, r.dto)
                      /\ a = [r EXCEPT !.answer = new]
  OBVIOUS
<1>1. /\ i \in DOMAIN flight /\ r.answer = Settings!NoAnswer /\ server' = new
      /\ flight' = [flight EXCEPT ![i] = a]
      /\ UNCHANGED <<page, ready, suppress, skip, last, timer>>
  BY <1>0 DEF Settings!Applied, Settings!refs
<1>2. /\ ready /\ i = 1 /\ page \in Pages /\ server \in StoredSettings /\ suppress = FALSE
      /\ page.vars # 0 /\ last \in Pages /\ last.window = "day"
      /\ timer \in {Settings!NoTimer, page}
      /\ r \in [kind : {"auto", "list"}, dto : Pages, answer : {Settings!NoAnswer, server}]
      /\ RequestInv(r)
  BY <1>0, <1>1, RequestOut
<1>3. flight' = <<a>>
  BY <1>1, <1>2 DEF RequestInv
<1>4. /\ new.window = "day" /\ new.lists = r.dto.lists /\ new.disclosure = "default"
      /\ new.vars = IF r.kind = "auto" THEN page.vars ELSE server.vars
      /\ new = [vars |-> new.vars, window |-> new.window, lists |-> new.lists,
                disclosure |-> new.disclosure]
  BY <1>0, <1>2 DEF RequestInv, Settings!Stored
<1>5. new \in StoredSettings
  BY <1>2, <1>4 DEF StoredSettings, Pages
<1>6. /\ a \in [kind : {"auto", "list"}, dto : Pages, answer : {Settings!NoAnswer, new}]
      /\ a.kind = r.kind /\ a.dto = r.dto /\ a.answer = new
  BY <1>0, <1>2
<1>7. r.kind = "auto" => page = Settings!Shown(new)
  <2>1. r.kind = "auto" => page.vars = new.vars /\ page.window = new.window /\ page.lists = new.lists
    BY <1>2, <1>4 DEF RequestInv
  <2>. QED
    BY <1>2, <2>1 DEF Pages, Settings!Shown
<1>8. RequestInv(a)'
  BY <1>1, <1>2, <1>3, <1>4, <1>6, <1>7 DEF RequestInv, SignatureInv
<1>. QED
  BY <1>1, <1>2, <1>5, <1>6, <1>8 DEF LoadedInv, RequestInv

LEMMA AnsweredKeeps == ASSUME SettingsInv, NEW i, Settings!Answered(i) PROVE SettingsInv'
<1>. SUFFICES ASSUME failures = 0, ~crossed
              PROVE  /\ page' \in Pages /\ server' \in StoredSettings /\ suppress' = FALSE
                     /\ ready' /\ LoadedInv'
  BY DEF SettingsInv, Settings!Answered
<1>. DEFINE r == flight[i]
<1>1. i \in DOMAIN flight /\ r.answer # Settings!NoAnswer
      /\ UNCHANGED <<server, ready>> /\ flight' = Settings!RemoveAt(flight, i)
  BY DEF Settings!Answered
<1>2. /\ ready /\ page \in Pages /\ server \in StoredSettings /\ suppress = FALSE
      /\ page.vars # 0 /\ last \in Pages /\ last.window = "day"
      /\ r \in [kind : {"auto", "list"}, dto : Pages, answer : {Settings!NoAnswer, server}]
      /\ RequestInv(r) /\ flight' = <<>>
  BY <1>1, RequestOut
<1>3. /\ skip /\ page.window = "day" /\ r.answer = server /\ r.dto.lists = server.lists
      /\ r.dto \in Pages /\ server.window = "day" /\ Settings!Shown(server).window = "day"
      /\ Settings!Shown(server).lists = server.lists
  BY <1>1, <1>2 DEF RequestInv, StoredSettings, Settings!Shown
<1>4. CASE r.kind = "auto"
  <2>1. r.dto = page /\ page = Settings!Shown(server) /\ page.lists = server.lists
    BY <1>2, <1>3, <1>4 DEF RequestInv
  <2>2. /\ page' = page
        /\ \E sig \in {last, page} :
             /\ suppress' = Settings!After(page, FALSE, sig).suppress /\ last' = page
             /\ timer' = Settings!After(page, FALSE, sig).timer
    <3>1. PICK early \in BOOLEAN :
            LET sig == IF early THEN page ELSE last
                first == Settings!After(page, FALSE, sig)
            IN  page' = page /\ Settings!Becomes([first EXCEPT !.last = IF early THEN @ ELSE page])
      BY <1>2, <1>3, <1>4, <2>1 DEF Settings!Answered, Settings!Signed
    <3>2. \A sig : /\ DOMAIN Settings!After(page, FALSE, sig) = {"suppress", "last", "timer"}
                   /\ Settings!After(page, FALSE, sig).last = sig
      BY <1>3 DEF Settings!After
    <3>. QED
      BY <3>1, <3>2 DEF Settings!Becomes
  <2>3. suppress' = FALSE /\ timer' \in {Settings!NoTimer, page} /\ last' = page
    BY <1>3, <2>2 DEF Settings!After
  <2>4. AtRestInv'
    BY <1>1, <1>2, <2>1, <2>2, <2>3 DEF AtRestInv, SignatureInv, Settings!Shown
  <2>. QED
    BY <1>1, <1>2, <1>3, <2>2, <2>3, <2>4 DEF LoadedInv
<1>5. CASE r.kind = "list"
  <2>. DEFINE q == [page EXCEPT !.window = "day", !.lists = server.lists]
  <2>1. q \in Pages /\ q.lists = server.lists /\ q.vars = page.vars /\ q.window = "day"
    BY <1>2 DEF Pages, StoredSettings, Settings!Windows
  <2>2. SignatureInv
    BY <1>2, <1>5 DEF RequestInv
  <2>3. /\ Settings!After(page, FALSE, last).suppress = FALSE
        /\ Settings!After(page, FALSE, last).last = last
    BY <1>3 DEF Settings!After
  <2>4. page' = q /\ Settings!Becomes(Settings!After(q, FALSE, last))
    BY <1>2, <1>3, <1>5, <2>3 DEF Settings!Answered, Settings!Signed
  <2>5. PICK t : t = Plain(q, last)
    OBVIOUS
  <2>6. /\ suppress' = FALSE /\ last' = last /\ timer' \in {Settings!NoTimer, q}
        /\ q.window = "day" /\ timer' = Settings!NoTimer => q = Settings!Shown(server)
    <3>1. RendersFrom(q, last)
      BY <1>2, <2>1, <2>2 DEF RendersFrom, SignatureInv
    <3>2. RendersTo(q, last, t)
      BY <2>5, <3>1, RestRenders
    <3>. QED
      BY <2>4, <2>5, <3>2 DEF Plain, RendersTo, Settings!Becomes
  <2>7. AtRestInv'
    BY <1>1, <1>2, <2>1, <2>2, <2>4, <2>6 DEF AtRestInv, SignatureInv, Settings!Shown
  <2>. QED
    BY <1>1, <1>2, <2>1, <2>4, <2>6, <2>7 DEF LoadedInv
<1>. QED
  BY <1>2, <1>4, <1>5

\* For any number of edits, requests and numbers: a page at rest shows the settings that are
\* stored, and an autosave carries the numbers that are stored, but for requests that failed
\* or were overtaken, and for a turned window (global-config/page.tsx:225-273, 508-549).
THEOREM SettingsAreStored ==
  Settings!Spec => [](Settings!QuietIsStored /\ Settings!AutosaveKeepsNumbers)
<1>1. Settings!Init => SettingsInv
  BY SettingsStart
<1>2. SettingsInv /\ [Settings!Next]_(Settings!vars) => SettingsInv'
  <2>1. ASSUME SettingsInv, UNCHANGED Settings!vars PROVE SettingsInv'
    BY <2>1 DEF Settings!vars, SettingsInv, LoadedInv, UnloadedInv, AtRestInv, RequestInv,
       SignatureInv
  <2>2. ASSUME SettingsInv, NEW n \in Numbers,
               \/ Settings!SaveNumberList(page.lists \cup {n})
               \/ Settings!SaveNumberList(page.lists \ {n})
        PROVE  SettingsInv'
    <3>1. CASE failures = 0 /\ ~crossed
      <4>1. page.lists \in SUBSET Numbers
        BY <2>2, <3>1 DEF SettingsInv, Pages
      <4>. QED
        BY <2>2, <4>1, ListSaveKeeps
    <3>2. CASE ~(failures = 0 /\ ~crossed)
      BY <2>2, <3>2 DEF SettingsInv, Settings!SaveNumberList, Settings!Sends
    <3>. QED
      BY <3>1, <3>2
  <2>3. ASSUME SettingsInv, NEW i, Settings!Fails(i) PROVE SettingsInv'
    BY <2>3 DEF SettingsInv, Settings!Fails
  <2>. QED
    BY <2>1, <2>2, <2>3, LoadKeeps, EditsKeep, AutosaveKeeps, AppliedKeeps, AnsweredKeeps
       DEF Settings!Next
<1>3. SettingsInv => Settings!QuietIsStored
  <2>. SUFFICES ASSUME SettingsInv, ready, timer = Settings!NoTimer, flight = <<>>, failures = 0,
                       ~crossed, page.window # "turned"
                PROVE  page = Settings!Shown(server)
    BY DEF Settings!QuietIsStored, Settings!Out
  <2>1. page.window = "day" /\ AtRestInv
    BY DEF SettingsInv, LoadedInv, RequestInv, Pages, Settings!Windows
  <2>. QED
    BY <2>1 DEF AtRestInv
<1>4. SettingsInv => Settings!AutosaveKeepsNumbers
  <2>. SUFFICES ASSUME SettingsInv, NEW i \in DOMAIN flight, flight[i].kind = "auto",
                       failures = 0, ~crossed
                PROVE  flight[i].dto.lists = server.lists
    BY DEF Settings!AutosaveKeepsNumbers
  <2>. QED
    BY RequestOut DEF RequestInv
<1>. QED
  BY <1>1, <1>2, <1>3, <1>4, PTL DEF Settings!Spec

=============================================================================
