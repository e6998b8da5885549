------------------------------- MODULE Generation -------------------------------
(***************************************************************************)
(* The free conversation of the voice agent: hear the caller, ask the      *)
(* language model, run the tools it calls, let it answer from their        *)
(* results.  The history is the list of chat messages of the session; what *)
(* is sent is a trimmed window of it.  The provider (external) refuses a   *)
(* request whose tool messages and tool calls do not pair up, as the       *)
(* chat-completions protocol says; a refusal or a failure of the transport *)
(* raises, which ends the session while the call stays up.                 *)
(*                                                                         *)
(* A tool call is streamed in two pieces, of several calls in any mix; a   *)
(* stream may end before all of them came (no [DONE]).  A message is       *)
(* reduced to its role and to the ids of the calls it makes or answers.    *)
(***************************************************************************)
EXTENDS Integers, FiniteSets, SequencesExt

CONSTANTS MaxTurns,   \* self._max_turns
          MaxCalls,   \* how many tools the provider calls in one answer
          Window,     \* LLM_HISTORY_WINDOW_TURNS
          Statuses    \* how the tool service may answer: HTTP codes, 0 for none

VARIABLES pc,         \* where the conversation loop stands
          turn,       \* turns used
          history,    \* session.messages
          request,    \* the messages of the request in flight
          informed,   \* the request in flight carries the retrieved knowledge
          agg,        \* pieces of each tool call the stream has brought
          calls,      \* pending_tool_calls, the first being the next to run
          ran,        \* ids of the tool calls dispatched, in order
          escalated,  \* call_id in self._escalated
          asked,      \* a tool the service ran asked for a human, or one was not run
          spoken      \* the reply of the turn was spoken, or the turn was silent

vars ==
  <<pc, turn, history, request, informed, agg, calls, ran, escalated, asked, spoken>>

Indexes == 1..MaxCalls
Message(role, made, answered) == [role |-> role, made |-> made, answers |-> answered]
System == Message("system", <<>>, 0)
User == Message("user", <<>>, 0)
Assistant(made) == Message("assistant", made, 0)
Answer(id) == Message("tool", <<>>, id)

Speech(msgs) == {i \in DOMAIN msgs : msgs[i].role # "system"}

(* Where the window begins: at the last 2 * Window messages that are not   *)
(* the system's, moved on past answers whose call would be cut off.        *)
Cut(msgs) ==
  LET last == CHOOSE i \in Speech(msgs) :
                Cardinality({j \in Speech(msgs) : j >= i}) = 2 * Window
  IN CHOOSE i \in last..(Len(msgs) + 1) :
       /\ i <= Len(msgs) => msgs[i].role # "tool"
       /\ \A j \in last..(i - 1) : msgs[j].role = "tool"

Trimmed(msgs) ==
  IF Window <= 0 \/ Cardinality(Speech(msgs)) <= 2 * Window THEN msgs
  ELSE LET Kept(i) == msgs[i].role = "system" \/ i >= Cut(msgs)
           rest == SelectSeq([i \in DOMAIN msgs |-> i], Kept)
       IN [k \in DOMAIN rest |-> msgs[rest[k]]]

(* The provider's rule: the calls of a message are answered, each once, by *)
(* the messages right after it, and nothing else is an answer.             *)
AnswersTo(msgs, i) ==
  {k \in (i + 1)..Len(msgs) : \A j \in (i + 1)..k : msgs[j].role = "tool"}
WellFormed(msgs) ==
  /\ \A i \in DOMAIN msgs : msgs[i].made # <<>> =>
        /\ {msgs[k].answers : k \in AnswersTo(msgs, i)} = ToSet(msgs[i].made)
        /\ Cardinality(AnswersTo(msgs, i)) = Len(msgs[i].made)
  /\ \A k \in DOMAIN msgs : msgs[k].role = "tool" =>
        \E i \in 1..(k - 1) : msgs[i].made # <<>> /\ k \in AnswersTo(msgs, i)

Ask(msgs, known, stage) ==
  /\ request' = Trimmed(msgs) /\ informed' = known
  /\ agg' = [i \in Indexes |-> 0]
  /\ pc' = stage

Init ==
  /\ pc = "listening" /\ turn = 0
  /\ history = <<System>>
  /\ request = <<>> /\ informed = FALSE
  /\ agg = [i \in Indexes |-> 0]
  /\ calls = <<>> /\ ran = <<>>
  /\ escalated = FALSE /\ asked = FALSE /\ spoken = TRUE

(* Nothing, or silence until the turn's timeout: the turn is used up.      *)
HearNothing ==
  /\ pc = "listening" /\ turn < MaxTurns
  /\ turn' = turn + 1
  /\ UNCHANGED <<pc, history, request, informed, agg, calls, ran, escalated, asked, spoken>>

(* Whether the knowledge base returned fragments; a retrieval that fails   *)
(* or finds nothing returns none.                                          *)
Retrieved == BOOLEAN

(* The retrieved fragments join the system message of this request only.   *)
Hear(known) ==
  /\ pc = "listening" /\ turn < MaxTurns
  /\ turn' = turn + 1
  /\ history' = Append(history, User)
  /\ spoken' = FALSE
  /\ Ask(history', known, "asking")
  /\ UNCHANGED <<calls, ran, escalated, asked>>

LastTurn ==
  /\ pc = "listening" /\ turn = MaxTurns
  /\ pc' = "over"
  /\ UNCHANGED <<turn, history, request, informed, agg, calls, ran, escalated, asked, spoken>>

(* A piece of a tool call; the first names it.  Only the turn's first      *)
(* request looks at tool calls.                                            *)
Piece(i) ==
  /\ pc = "asking" /\ WellFormed(request)
  /\ agg[i] < 2 /\ \A j \in 1..(i - 1) : agg[j] > 0
  /\ agg' = [agg EXCEPT ![i] = @ + 1]
  /\ UNCHANGED <<pc, turn, history, request, informed, calls, ran, escalated, asked, spoken>>

Id(i) == (turn - 1) * MaxCalls + i

(* The ids of the calls the stream brought, in the order of their index.   *)
Flushed(whole) == [k \in 1..Cardinality({i \in Indexes : whole[i] > 0}) |-> Id(k)]

(* The stream of the turn's first request ends: with no calls the text is  *)
(* the reply (an empty one is passed over), else the calls are to be run.  *)
Answered(text) ==
  /\ pc = "asking" /\ WellFormed(request)
  /\ \/ /\ Flushed(agg) = <<>>
        /\ history' = IF text THEN Append(history, Assistant(<<>>)) ELSE history
        /\ spoken' = text
        /\ pc' = "listening"
        /\ UNCHANGED calls
     \/ /\ Flushed(agg) # <<>>
        /\ history' = Append(history, Assistant(Flushed(agg)))
        /\ calls' = Flushed(agg)
        /\ pc' = "tools"
        /\ UNCHANGED spoken
  /\ UNCHANGED <<turn, request, informed, agg, ran, escalated, asked>>

(* One tool over HTTP.  Anything but 200 is a failure, and a failure asks  *)
(* for a human, as does an answer that says so; the rest of the calls is   *)
(* then left, and the farewell asked for at once.                          *)
Success(status) == status = 200

RunTool(status, refers) ==
  /\ pc = "tools" /\ calls # <<>>
  /\ ran' = Append(ran, Head(calls))
  /\ asked' = (asked \/ refers \/ status \notin 200..299)
  /\ history' = Append(history, Answer(Head(calls)))
  /\ IF ~Success(status) \/ refers
     THEN /\ escalated' = TRUE
          /\ calls' = <<>>
          /\ Ask(Append(history', User), FALSE, "farewell")
     ELSE /\ calls' = Tail(calls)
          /\ UNCHANGED escalated
          /\ IF Len(calls) > 1
             THEN UNCHANGED <<pc, request, informed, agg>>
             ELSE Ask(history', FALSE, "answering")
  /\ UNCHANGED <<turn, spoken>>

(* The text from the tools' results, or the farewell, which ends the       *)
(* session once it is spoken.  Tool calls in it are not looked at, and the *)
(* text beside them may be empty.                                          *)
Told(text) ==
  /\ pc \in {"answering", "farewell"} /\ WellFormed(request)
  /\ history' = IF text THEN Append(history, Assistant(<<>>)) ELSE history
  /\ spoken' = text
  /\ pc' = IF pc = "farewell" THEN "over" ELSE "listening"
  /\ UNCHANGED <<turn, request, informed, agg, calls, ran, escalated, asked>>

(* The provider refuses the request, or its transport fails: the loop      *)
(* raises, and the session is over without a word.                         *)
Fail ==
  /\ pc \in {"asking", "answering", "farewell"}
  /\ pc' = "failed"
  /\ UNCHANGED <<turn, history, request, informed, agg, calls, ran, escalated, asked, spoken>>

Next ==
  \/ HearNothing \/ LastTurn \/ Fail
  \/ \E known \in Retrieved : Hear(known)
  \/ \E i \in Indexes : Piece(i)
  \/ \E text \in BOOLEAN : Answered(text) \/ Told(text)
  \/ \E status \in Statuses, refers \in BOOLEAN : RunTool(status, refers)

Spec == Init /\ [][Next]_vars

-----------------------------------------------------------------------------
TypeOK ==
  /\ pc \in {"listening", "asking", "tools", "answering", "farewell", "over", "failed"}
  /\ turn \in 0..MaxTurns
  /\ \A i \in DOMAIN history : history[i].role \in {"system", "user", "assistant", "tool"}
  /\ informed \in BOOLEAN /\ escalated \in BOOLEAN /\ asked \in BOOLEAN /\ spoken \in BOOLEAN
  /\ agg \in [Indexes -> 0..2]

(* No request of an unescalated conversation is one the provider must      *)
(* refuse: the window never keeps an answer without its call, nor a call   *)
(* without its answers, however the tool rounds fall on its edge (the rule *)
(* the comment of _trim_context_window states).                            *)
RequestsPairUp ==
  pc \in {"asking", "answering"} => WellFormed(request)

(* The question is in the request: a window of N turns holds the caller's  *)
(* last words as long as one round of tools fits in it.                    *)
QuestionIsAsked ==
  /\ pc \in {"asking", "answering"}
  /\ 2 * Window >= MaxCalls + 2
  => \E i \in DOMAIN request :
       /\ request[i].role = "user"
       /\ \A j \in (i + 1)..Len(request) : request[j].role # "user"

(* Tools run in the order the model called them, each at most once in the  *)
(* whole conversation, and each was called for by a message before it.     *)
ToolsRunAsCalled ==
  /\ \A i, j \in DOMAIN ran : i < j => ran[i] < ran[j]
  /\ \A i \in DOMAIN history : history[i].role = "tool" =>
       \E j \in 1..(i - 1) : history[i].answers \in ToSet(history[j].made)

(* A call goes to a human only if a tool asked for it or the service did   *)
(* not run the tool: a tool it ran, whatever 2xx it says so with, puts its *)
(* result into the conversation and the model goes on (the comment of      *)
(* tools.controller.ts).                                                   *)
EscalatedWasAsked == escalated => asked

(* The farewell of an escalation reaches the provider in good order.       *)
FarewellPairsUp == pc = "farewell" => WellFormed(request)
=============================================================================
