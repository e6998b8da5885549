------------------------------ MODULE TaskReports ------------------------------
(* What a voice-agent session reports to the API, one request after the other:  *)
(* transcript turns with an idempotency key each, the outcome, and for a web    *)
(* call the hangup.  A request is tried three times; one that timed out is not  *)
(* withdrawn and may still be carried out when the session has moved on.        *)
EXTENDS Naturals, SequencesExt

CONSTANTS
  Turns,      \* transcript turns reported before the outcome
  MaxTries    \* attempts of _request

VARIABLES
  at,         \* what the session is about to report or waits for
  try,
  inFlight,   \* requests the API has not answered: report and key
  transcript, \* transcript_turns, oldest first
  closed,     \* the task is closed by the hangup
  outcome,    \* reported outcome
  givenUp     \* history: reports that no reply was received for

vars == <<at, try, inFlight, transcript, closed, outcome, givenUp>>

Outcome == Turns + 1
Hangup == Turns + 2
Reports == 1..Hangup
Requests == [report : Reports, key : Nat]

TypeOK ==
  /\ at \in [report : Reports \cup {Hangup + 1}, state : {"send", "wait"}]
  /\ try \in 1..MaxTries
  /\ inFlight \subseteq Requests
  /\ transcript \in Seq([turn : 1..Turns, key : Nat])
  /\ closed \in BOOLEAN
  /\ outcome \in BOOLEAN
  /\ givenUp \subseteq Reports

Init ==
  /\ at = [report |-> 1, state |-> "send"]
  /\ try = 1
  /\ inFlight = {}
  /\ transcript = <<>>
  /\ closed = FALSE
  /\ outcome = FALSE
  /\ givenUp = {}

\* append_transcript makes one key before its tries, the other reports need none.
Key == 0

Current == [report |-> at.report, key |-> Key]

Send ==
  /\ at.report \in Reports /\ at.state = "send"
  /\ at' = [at EXCEPT !.state = "wait"]
  /\ inFlight' = inFlight \cup {Current}
  /\ UNCHANGED <<try, transcript, closed, outcome, givenUp>>

\* A session ends when its last report is through: web calls fail without the hangup.
MoveOn == at' = [report |-> at.report + 1, state |-> "send"] /\ try' = 1

\* appendTranscript: find the turn by its key, or create it; a unique index holds the key.
AppendTranscript(q) ==
  IF \E i \in 1..Len(transcript) : transcript[i] = [turn |-> q.report, key |-> q.key]
  THEN transcript
  ELSE Append(transcript, [turn |-> q.report, key |-> q.key])

\* The API carries out a request that is still with it.
Handle(q) ==
  /\ transcript' = IF q.report <= Turns THEN AppendTranscript(q) ELSE transcript
  /\ closed' = (closed \/ q.report = Hangup)
  /\ outcome' = (outcome \/ q.report = Outcome)

\* ... and the reply arrives, 2xx, while the session waits for it.
Reply ==
  /\ at.state = "wait" /\ Current \in inFlight
  /\ Handle(Current)
  /\ inFlight' = inFlight \ {Current}
  /\ MoveOn
  /\ UNCHANGED givenUp

\* A timeout, a lost connection, 429 or 5xx: the request may come to nothing, may have been
\* carried out, or may still be under way.
Fail ==
  /\ at.state = "wait"
  /\ \/ inFlight' = inFlight \ {Current} /\ UNCHANGED <<transcript, closed, outcome>>
     \/ inFlight' = inFlight \ {Current} /\ Current \in inFlight /\ Handle(Current)
     \/ UNCHANGED <<inFlight, transcript, closed, outcome>>
  /\ IF try < MaxTries
     THEN at' = [at EXCEPT !.state = "send"] /\ try' = try + 1 /\ UNCHANGED givenUp
     ELSE MoveOn /\ givenUp' = givenUp \cup {at.report}

\* A request nobody waits for is carried out after all.
HandleLate ==
  \E q \in inFlight :
    /\ Handle(q)
    /\ inFlight' = inFlight \ {q}
    /\ UNCHANGED <<at, try, givenUp>>

Next == Send \/ Reply \/ Fail \/ HandleLate

Spec == Init /\ [][Next]_vars

-----------------------------------------------------------------------------
\* append_transcript, appendTranscript: however its requests fail, are repeated and arrive
\* late, a turn is in the transcript once, and the turns are in the order they were said
\* but for those the session has given up.
TranscriptFaithful ==
  \A i, j \in 1..Len(transcript) : i < j =>
    /\ transcript[i].turn # transcript[j].turn
    /\ transcript[i].turn > transcript[j].turn => transcript[j].turn \in givenUp

\* on_end, hangup: a web call reported as finished is closed at the API, and nothing it had
\* to report is missing there except what was given up.
FinishedIsClosed ==
  /\ at.report > Hangup => closed \/ Hangup \in givenUp
  /\ at.report > Outcome => outcome \/ Outcome \in givenUp
  /\ \A t \in 1..Turns : at.report > t =>
       t \in givenUp \/ \E i \in 1..Len(transcript) : transcript[i].turn = t
=============================================================================
