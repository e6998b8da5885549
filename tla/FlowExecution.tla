------------------------------ MODULE FlowExecution ------------------------------
(* The walk of one call through its task flow (flow_executor.py): run() enters   *)
(* nodes and takes edges; a dialog node listens, repairs and commits one answer; *)
(* a side question is answered by a generation task that runs beside the         *)
(* acknowledgement; a hangup cancels the walk wherever it waits.                 *)
EXTENDS Naturals, Sequences

CONSTANTS
  Nodes,       \* node ids
  Kind,        \* [Nodes -> {"start", "say", "ask", "dialog", "action", "end"}]
  Entry,
  Edges,       \* records [id, source, target]; id is one of Intents or names no intent
  Intents, Fallback,   \* edge ids with a business label, and the id of the fallback edge
  StepLimit, MaxRepair, MaxNoMatch, MaxNoInput, MaxRetries

Outgoing(n) == {e \in Edges : e.source = n}
HasFallback(n) == \E e \in Outgoing(n) : e.id = Fallback
Business(n) == {e.id : e \in Outgoing(n)} \cap Intents
NoAnswer == "none"

\* What the executor asks of a flow before a call walks it.
ValidRouting ==
  \A n \in Nodes : \A d, e \in Outgoing(n) :
    d.id = Fallback /\ e.id = Fallback => d = e

\* Which utterances stand word for word for one edge alone.
WordForWord(n) == Business(n)

VARIABLES
  node, phase, steps,
  ended,      \* is_ended(call_id)
  state,      \* _DialogNodeState of the dialog at hand
  resolved,   \* _resolved_turns of the node: the answer to commit
  generation, \* the task answering a side question
  outcome,    \* how run() ended
  latest      \* history: the caller's latest answer in this visit of the node

vars == <<node, phase, steps, ended, state, resolved, generation, outcome, latest>>

Fresh == [silent |-> 0, nomatch |-> 0, repairs |-> 0, failures |-> 0,
          pending |-> NoAnswer, awaiting |-> FALSE]
AnswerIds == Intents \cup {Fallback, NoAnswer}

TypeOK ==
  /\ node \in Nodes /\ steps \in 0..StepLimit /\ ended \in BOOLEAN
  /\ phase \in {"node", "act", "end", "plain", "listen", "ack", "reply", "reap", "select", "done"}
  /\ state \in [silent : 0..(MaxNoInput + 1), nomatch : 0..(MaxNoMatch + 1),
                repairs : 0..(MaxRepair + 1), failures : 0..(MaxRetries + 1),
                pending : AnswerIds, awaiting : BOOLEAN]
  /\ resolved \in AnswerIds /\ latest \in AnswerIds
  /\ generation \in {"none", "running", "done", "failed", "cancelled"}
  /\ outcome \in {"none", "ended", "error", "cancelled"}

Init ==
  /\ ValidRouting
  /\ node = Entry /\ phase = "node" /\ steps = 0 /\ ended = FALSE
  /\ state = Fresh /\ resolved = NoAnswer /\ generation = "none" /\ outcome = "none"
  /\ latest = NoAnswer

Done(how) == phase' = "done" /\ outcome' = how

-----------------------------------------------------------------------------
(* run()                                                                       *)

\* What a node does once entered.
PhaseOf(n) ==
  CASE Kind[n] \in {"start", "say"} -> "select"
    [] Kind[n] = "ask" -> "plain"        \* waits, with one way on
    [] Kind[n] = "dialog" -> "listen"
    [] Kind[n] = "action" -> "act"
    [] Kind[n] = "end" -> "end"

\* One turn of the loop; the limit on steps stops a flow that goes round.
EnterNode ==
  /\ phase = "node"
  /\ IF ended THEN Done("ended") /\ UNCHANGED <<steps, state, latest>>
     ELSE IF steps = StepLimit THEN Done("error") /\ UNCHANGED <<steps, state, latest>>
     ELSE /\ steps' = steps + 1 /\ state' = Fresh /\ latest' = NoAnswer
          /\ phase' = PhaseOf(node)
          /\ UNCHANGED outcome
  /\ UNCHANGED <<node, ended, resolved, generation>>

\* The words of a node may have to be generated, which may fail: the walk fails with it.
WordsFail ==
  /\ phase = "node" /\ ~ended /\ steps < StepLimit
  /\ Kind[node] \in {"say", "ask", "dialog"}
  /\ Done("error")
  /\ UNCHANGED <<node, steps, ended, state, resolved, generation, latest>>

\* An action is taken by the control plane, or refused, which ends the walk.
ExecAction ==
  /\ phase = "act"
  /\ \/ phase' = "select" /\ UNCHANGED outcome
     \/ Done("error")
  /\ UNCHANGED <<node, steps, ended, state, resolved, generation, latest>>

ExecEnd ==
  /\ phase = "end"
  /\ ended' = TRUE /\ phase' = "select"
  /\ UNCHANGED <<node, steps, state, resolved, generation, outcome, latest>>

Follow(e) == node' = e.target /\ phase' = "node" /\ UNCHANGED outcome

\* With several ways on only the committed answer chooses; no answer chooses nothing.
Chosen(n) ==
  IF \E e \in Outgoing(n) : Outgoing(n) = {e} THEN Outgoing(n)
  ELSE {e \in Outgoing(n) : e.id = resolved}

\* Without a way on a dialog ends the call politely, and any other node fails.
SelectEdge ==
  /\ phase = "select"
  /\ \/ ended /\ Done("ended") /\ UNCHANGED <<node, ended>>
     \/ ~ended /\ UNCHANGED ended /\ \E e \in Chosen(node) : Follow(e)
     \/ /\ ~ended /\ Chosen(node) = {} /\ UNCHANGED node
        /\ IF Kind[node] \in {"ask", "dialog"} THEN ended' = TRUE /\ Done("ended")
           ELSE Done("error") /\ UNCHANGED ended
  /\ resolved' = NoAnswer
  /\ UNCHANGED <<steps, state, generation, latest>>

-----------------------------------------------------------------------------
(* dialog_router.py: what of a model's answer to one caller turn is believed.    *)
(* Confidences are abstracted to what the policy asks of them: a command is sure *)
(* or doubtful for its route, an intent clear of its alternatives or close to one.*)

Repairs == {"HOLD", "REPEAT", "BACKCHANNEL", "QUESTION_REQUEST", "SIDE_QUESTION"}
Routes == {"BUSINESS_INTENT", "OTHER_ANSWER", "NO_MATCH"} \cup Repairs

Unknown == "unknown intent"
Values(route) ==
  CASE route = "BUSINESS_INTENT" -> Intents \cup {Unknown}
    [] route \in {"SIDE_QUESTION", "OTHER_ANSWER"} -> {"text", NoAnswer}
    [] OTHER -> {NoAnswer}

Commands == UNION {[route : {r}, value : Values(r), sure : BOOLEAN] : r \in Routes}

\* Whether an alternative the model names comes within the margin of the intent it chose.
Alternatives == BOOLEAN

\* What a model may answer, one command or two of the three it may give; the older form of
\* an answer, with one route, reads as one command.
Answers ==
  [commands : {<<c>> : c \in Commands} \cup {<<c, d>> : c \in Commands, d \in Commands},
   close : Alternatives]

ValidCommand(c) ==
  CASE c.route = "BUSINESS_INTENT" -> c.value \in Intents
    [] c.route \in {"SIDE_QUESTION", "OTHER_ANSWER"} -> c.value # NoAnswer
    [] OTHER -> TRUE

RoutesOf(commands) == {commands[i].route : i \in 1..Len(commands)}

ValidCandidate(commands) ==
  /\ \A i \in 1..Len(commands) : ValidCommand(commands[i])
  /\ \A i, j \in 1..Len(commands) : i # j => commands[i].route # commands[j].route
  /\ "NO_MATCH" \in RoutesOf(commands) => Len(commands) = 1
  /\ ~({"BUSINESS_INTENT", "OTHER_ANSWER"} \subseteq RoutesOf(commands))
  /\ ~({"QUESTION_REQUEST", "SIDE_QUESTION"} \subseteq RoutesOf(commands))

Believed(c, close) ==
  /\ c.sure \/ c.route = "NO_MATCH"
  /\ c.route = "BUSINESS_INTENT" => ~close

Result(failure, routes, intent) == [failure |-> failure, routes |-> routes, intent |-> intent]

\* classify(): a failing or nonsensical model is told apart from a caller who did not answer;
\* of a valid answer only the believed commands are left.
Parse(answer) ==
  IF ~ValidCandidate(answer.commands) THEN Result("invalid_output", {"NO_MATCH"}, NoAnswer)
  ELSE LET kept == SelectSeq(answer.commands, LAMBDA c : Believed(c, answer.close))
           business == SelectSeq(kept, LAMBDA c : c.route = "BUSINESS_INTENT")
       IN Result("none",
                 IF kept = <<>> THEN {"NO_MATCH"} ELSE RoutesOf(kept),
                 IF business = <<>> THEN NoAnswer ELSE business[1].value)

\* The model did not answer in time, or its transport failed.
Failed == Result("transport", {"NO_MATCH"}, NoAnswer)

Results == {Parse(a) : a \in Answers} \cup {Failed}

-----------------------------------------------------------------------------
(* _exec_dialog                                                                *)

Commit(answer) == resolved' = answer /\ phase' = "select"
GiveUp == ended' = TRUE /\ phase' = "select" /\ UNCHANGED resolved
Listen == phase' = "listen" /\ UNCHANGED <<resolved, ended>>
CommitOr(answer, otherwise) ==
  IF answer # NoAnswer THEN Commit(answer) /\ UNCHANGED ended ELSE otherwise

\* A dialog with one way on takes any answer, and in the end none.
PlainTurn ==
  /\ phase = "plain"
  /\ \/ phase' = "select" /\ UNCHANGED state
     \/ /\ state' = [state EXCEPT !.silent = @ + 1]
        /\ phase' = IF state.silent < MaxNoInput THEN "plain" ELSE "select"
  /\ UNCHANGED <<node, steps, ended, resolved, generation, outcome, latest>>

\* A silent caller is spoken to again, in generated words or, those failing, in fixed ones.
Reprompt == Listen

Silence ==
  /\ phase = "listen"
  /\ state' = [state EXCEPT !.silent = @ + 1]
  /\ IF state.silent < MaxNoInput THEN Reprompt
     ELSE CommitOr(state.pending, GiveUp)
  /\ UNCHANGED <<node, steps, generation, outcome, latest>>

\* The caller says word for word what an edge is configured with.
ExactAnswer ==
  /\ phase = "listen" /\ ~state.awaiting
  /\ \E b \in WordForWord(node) :
       /\ state' = [state EXCEPT !.silent = 0] /\ latest' = b
       /\ Commit(b)
  /\ UNCHANGED <<node, steps, ended, generation, outcome>>

RouterFails ==
  /\ phase = "listen"
  /\ \E r \in Results : r.failure # "none"
  /\ state' = [state EXCEPT !.silent = 0, !.failures = @ + 1]
  /\ IF state.failures < MaxRetries THEN Listen ELSE GiveUp
  /\ UNCHANGED <<node, steps, generation, outcome, latest>>

\* An answer counts if it names an edge, or is another answer where one is foreseen and was
\* not asked for as a question.
Answer(r) ==
  IF r.intent # NoAnswer THEN r.intent
  ELSE IF "OTHER_ANSWER" \in r.routes /\ ~state.awaiting /\ HasFallback(node) THEN Fallback
  ELSE NoAnswer

\* What is waiting to be committed after the turn.
Pending(r) == IF Answer(r) # NoAnswer THEN Answer(r) ELSE state.pending

Heard(r) ==
  [state EXCEPT !.silent = 0, !.failures = 0, !.pending = Pending(r),
                !.awaiting = @ /\ r.intent = NoAnswer]

\* The turn holds a dialogue act that is not an answer: it is served, within a budget.
Repair(r) ==
  LET acts == r.routes \cap Repairs
      heard == [Heard(r) EXCEPT !.nomatch = 0, !.repairs = @ + 1]
  IN /\ acts # {}
     /\ IF state.repairs >= MaxRepair
        THEN state' = heard /\ CommitOr(Pending(r), GiveUp) /\ UNCHANGED generation
        ELSE IF "SIDE_QUESTION" \in acts
        THEN /\ state' = [heard EXCEPT !.awaiting = FALSE]
             /\ generation' = "running" /\ phase' = "ack" /\ UNCHANGED <<resolved, ended>>
        ELSE /\ state' = [heard EXCEPT !.awaiting =
                            IF "REPEAT" \in acts THEN FALSE
                            ELSE @ \/ "QUESTION_REQUEST" \in acts]
             /\ IF acts = {"BACKCHANNEL"} /\ ~state'.awaiting
                THEN CommitOr(Pending(r), Listen) ELSE Listen
             /\ UNCHANGED generation

NoRepair(r) ==
  /\ r.routes \cap Repairs = {}
  /\ IF Answer(r) # NoAnswer
     THEN state' = Heard(r) /\ Commit(Pending(r)) /\ UNCHANGED ended
     ELSE /\ state' = [Heard(r) EXCEPT !.nomatch = @ + 1]
          /\ IF state.nomatch < MaxNoMatch THEN Listen ELSE CommitOr(Pending(r), GiveUp)
  /\ UNCHANGED generation

RoutedTurn ==
  /\ phase = "listen"
  /\ \E r \in Results :
       /\ r.failure = "none"
       /\ r.intent \in Business(node) \cup {NoAnswer}
       /\ latest' = IF Answer(r) # NoAnswer THEN Answer(r) ELSE latest
       /\ Repair(r) \/ NoRepair(r)
  /\ UNCHANGED <<node, steps, outcome>>

-----------------------------------------------------------------------------
(* _answer_side_question                                                       *)

Generated ==
  /\ generation = "running" /\ generation' \in {"done", "failed"}
  /\ UNCHANGED <<node, phase, steps, ended, state, resolved, outcome, latest>>

Acknowledged ==
  /\ phase = "ack" /\ phase' = "reply"
  /\ UNCHANGED <<node, steps, ended, state, resolved, generation, outcome, latest>>

\* A failed generation is replaced by a fixed prompt; then the node goes on, or commits what
\* the caller had answered before asking.
SideAnswered ==
  /\ phase = "reply" /\ generation \in {"done", "failed"}
  /\ generation' = "none"
  /\ CommitOr(state.pending, Listen)
  /\ UNCHANGED <<node, steps, state, outcome, latest>>

\* The session's task is cancelled: a generation under way is cancelled and waited for.
HangUp ==
  /\ phase \notin {"done", "reap"} /\ outcome = "none"
  /\ IF phase \in {"ack", "reply"}
     THEN /\ generation' = IF generation = "running" THEN "cancelled" ELSE generation
          /\ phase' = "reap" /\ UNCHANGED outcome
     ELSE Done("cancelled") /\ UNCHANGED generation
  /\ UNCHANGED <<node, steps, ended, state, resolved, latest>>

Reaped ==
  /\ phase = "reap" /\ generation # "running"
  /\ Done("cancelled")
  /\ UNCHANGED <<node, steps, ended, state, resolved, generation, latest>>

\* Every await of the walk returns: the caller speaks or the wait for him times out, the
\* models answer or fail, the control plane replies.
Progress ==
  \/ EnterNode \/ WordsFail \/ ExecAction \/ ExecEnd \/ SelectEdge \/ PlainTurn
  \/ Silence \/ ExactAnswer \/ RouterFails \/ RoutedTurn
  \/ Generated \/ Acknowledged \/ SideAnswered \/ Reaped
Next == Progress \/ HangUp

Spec == Init /\ [][Next]_vars

-----------------------------------------------------------------------------
(* Properties                                                                  *)

\* What a node commits is the caller's latest answer in it: repairs, silence and failures in
\* between never bring back an answer he has since replaced, and nothing is ever guessed.
CommitsLatestAnswer == resolved # NoAnswer => resolved = latest

\* No generation outlives the walk that started it.
NoOrphanGeneration == phase = "done" => generation # "running"

\* Whatever the caller says or does not say, and however the models fail, a dialog comes to an
\* end: the budgets of repairs, mismatches, silences and failures cannot refill each other.
WalkEnded == phase = "done"
=============================================================================
