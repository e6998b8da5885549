----------------------------- MODULE ProviderEvents -----------------------------
(***************************************************************************)
(* What FreeSWITCH says of a call, and what the API makes of it: the       *)
(* headers of an event become a provider event, whose identifiers must all *)
(* lead to one attempt, and whose id keeps a repeated delivery from being  *)
(* recorded twice.  The job id of an attempt is stored only after the      *)
(* originate was answered, so events may come before it.                   *)
(*                                                                         *)
(* A header value is a tuple: a kind and what it names.  Header names are  *)
(* those of the first spelling the parser looks for.                       *)
(***************************************************************************)
EXTENDS Integers, FiniteSets, SequencesExt

CONSTANTS Attempts,   \* attempts of one task
          Bodies,     \* bodies of a finished job: lines, each a sequence of words
          MaxEvents,  \* bound on the events FreeSWITCH sends
          MaxCores    \* bound on its starts

VARIABLES dialled,    \* attempts FreeSWITCH was told to originate
          committed,  \* attempts whose providerJobId is stored
          core,       \* [uuid, sequence] of the running FreeSWITCH
          sent,       \* events it sent: [of, headers, body]
          accepted,   \* positions in sent of the events the API accepted
          recorded    \* its call events: [of, id, attempt, raw, result]

vars == <<dialled, committed, core, sent, accepted, recorded>>

None == <<"none">>
Task == <<"task">>
Number == <<"number">>
Call(a) == <<"uuid", a>>
Job(a) == <<"job", a>>

(* headerString: the first of the names that is there and not blank.       *)
HeaderString(headers, names) ==
  LET there == SelectSeq(names, LAMBDA n : n \in DOMAIN headers)
  IN IF there = <<>> THEN None ELSE headers[there[1]]

(* The attempt named in the command of a job: its origination_uuid.        *)
AttemptIdFromJobCommand(headers) ==
  IF "Job-Command-Arg" \in DOMAIN headers
  THEN <<"uuid", headers["Job-Command-Arg"][2]>> ELSE None

(* safeBackgroundJobResult: of the first line that says something, the     *)
(* verdict and the call or the cause it names.                             *)
SafeBackgroundJobResult(body) ==
  LET lines == SelectSeq(body, LAMBDA line : line # <<>>)
      naming(kind) == SelectSeq(Tail(lines[1]), LAMBDA w : w[1] = kind)
      First(words, default) == IF words = <<>> THEN default ELSE <<words[1]>>
  IN IF lines = <<>> THEN <<<<"UNKNOWN">>>>
     ELSE CASE lines[1][1] = <<"+OK">>  -> <<<<"+OK">>>> \o First(naming("uuid"), <<>>)
            [] lines[1][1] = <<"-ERR">> -> <<<<"-ERR">>>> \o First(naming("cause"), <<<<"UNKNOWN">>>>)
            [] OTHER -> <<<<"UNKNOWN">>>>

SafeRawHeaders ==
  {"Event-Name", "Event-UUID", "Core-UUID", "Event-Sequence", "Event-Date-Timestamp",
   "Unique-ID", "Job-UUID", "Job-Command", "Hangup-Cause", "variable_task_id",
   "variable_attempt_id"}

RawHeaders(headers) ==
  [name \in DOMAIN headers \cap SafeRawHeaders |-> headers[name]]

(* providerEventId: the event's own id, or a digest of what identifies it. *)
ProviderEventId(headers, body) ==
  IF "Event-UUID" \in DOMAIN headers THEN <<headers["Event-UUID"]>>
  ELSE <<HeaderString(headers, <<"Core-UUID">>), HeaderString(headers, <<"Event-Sequence">>),
         HeaderString(headers, <<"Event-Name">>), HeaderString(headers, <<"Job-UUID">>),
         HeaderString(headers, <<"Unique-ID", "Channel-Call-UUID", "variable_uuid">>),
         HeaderString(headers, <<"Event-Date-Timestamp">>), body>>

ParseFreeSwitchEvent(headers, body) ==
  LET said == HeaderString(headers, <<"variable_attempt_id", "Attempt-ID">>)
  IN [id |-> ProviderEventId(headers, body),
      taskId |-> HeaderString(headers, <<"variable_task_id", "Task-ID">>),
      attemptId |-> IF said # None THEN said ELSE AttemptIdFromJobCommand(headers),
      providerCallId |->
        HeaderString(headers, <<"Unique-ID", "Channel-Call-UUID", "variable_uuid">>),
      jobId |-> HeaderString(headers, <<"Job-UUID">>),
      raw |-> RawHeaders(headers),
      result |-> IF HeaderString(headers, <<"Event-Name">>) = <<"BACKGROUND_JOB">>
                 THEN SafeBackgroundJobResult(body) ELSE <<>>]

(* isManagedEvent: other events of the switch are not for this platform.   *)
IsManagedEvent(headers) ==
  IF headers["Event-Name"] = <<"BACKGROUND_JOB">>
  THEN "Job-Command-Arg" \in DOMAIN headers
  ELSE {"variable_ai_call_managed", "variable_attempt_id"} \cap DOMAIN headers # {}

(* resolveProviderEventContext: the attempts the supplied identifiers lead *)
(* to; one that leads nowhere, or two that disagree, refuse the event.     *)
FoundBy(field, value) ==
  {a \in Attempts :
     CASE field = "attemptId"      -> value = Call(a)
       [] field = "providerCallId" -> value = Call(a)
       [] field = "jobId"          -> a \in committed /\ value = Job(a)}

Resolve(event) ==
  LET supplied == {f \in {"attemptId", "providerCallId", "jobId"} : event[f] # None}
  IN {a \in Attempts :
        /\ supplied # {}
        /\ \A f \in supplied : FoundBy(f, event[f]) = {a}
        /\ event.taskId \in {None, Task}}

-----------------------------------------------------------------------------
Init ==
  /\ dialled = {} /\ committed = {} /\ core = [uuid |-> 1, sequence |-> 0]
  /\ sent = <<>> /\ accepted = {} /\ recorded = {}

Originate(a) ==
  /\ a \notin dialled /\ dialled' = dialled \cup {a}
  /\ UNCHANGED <<committed, core, sent, accepted, recorded>>

(* The worker's transaction after the originate was answered; a crash of   *)
(* the worker in between leaves it out.                                    *)
Commit(a) ==
  /\ a \in dialled /\ committed' = committed \cup {a}
  /\ UNCHANGED <<dialled, core, sent, accepted, recorded>>

(* Every event of the switch carries its identity; the clock may not have  *)
(* moved between two of them.                                              *)
Send(a, headers, body) ==
  /\ Len(sent) < MaxEvents /\ a \in dialled
  /\ core' = [core EXCEPT !.sequence = @ + 1]
  /\ sent' = Append(sent, [of |-> a, body |-> body, headers |->
       [n \in DOMAIN headers \cup {"Core-UUID", "Event-Sequence", "Event-Date-Timestamp"} |->
          CASE n = "Core-UUID" -> <<"core", core.uuid>>
            [] n = "Event-Sequence" -> <<"sequence", core.sequence>>
            [] n = "Event-Date-Timestamp" -> <<"now">>
            [] OTHER -> headers[n]]])
  /\ UNCHANGED <<dialled, committed, accepted, recorded>>

(* The channel of the call; the dial string gives it the call's own id and *)
(* the variables.  An early event may lack them.                           *)
ChannelEvent(a, name, bare) ==
  Send(a, [n \in {"Event-Name", "Unique-ID", "Caller-Destination-Number"} \cup
                 (IF bare THEN {"variable_ai_call_managed"}
                  ELSE {"variable_attempt_id", "variable_task_id"}) |->
             CASE n = "Event-Name" -> <<name>>
               [] n \in {"Unique-ID", "variable_attempt_id"} -> Call(a)
               [] n = "variable_task_id" -> Task
               [] n = "Caller-Destination-Number" -> Number
               [] n = "variable_ai_call_managed" -> <<"true">>], <<>>)

JobEvent(a, body) ==
  Send(a, [n \in {"Event-Name", "Job-UUID", "Job-Command-Arg"} |->
             CASE n = "Event-Name" -> <<"BACKGROUND_JOB">>
               [] n = "Job-UUID" -> Job(a)
               [] n = "Job-Command-Arg" -> <<"dial", a>>], body)

FreeSwitchRestarts ==
  /\ core.uuid < MaxCores
  /\ core' = [uuid |-> core.uuid + 1, sequence |-> 0]
  /\ UNCHANGED <<dialled, committed, sent, accepted, recorded>>

(* The event worker posts an event, again when it did not hear the answer. *)
Deliver(i) ==
  /\ i \in DOMAIN sent
  /\ IsManagedEvent(sent[i].headers)
  /\ LET event == ParseFreeSwitchEvent(sent[i].headers, sent[i].body)
     IN \E a \in Resolve(event) :
          /\ accepted' = accepted \cup {i}
          /\ recorded' =
               IF \E r \in recorded : r.id = event.id THEN recorded
               ELSE recorded \cup {[of |-> i, id |-> event.id, attempt |-> a,
                                    raw |-> event.raw, result |-> event.result]}
  /\ UNCHANGED <<dialled, committed, core, sent>>

Next ==
  \/ \E a \in Attempts :
       \/ Originate(a) \/ Commit(a)
       \/ \E name \in {"CHANNEL_PROGRESS", "CHANNEL_ANSWER"}, bare \in BOOLEAN :
            ChannelEvent(a, name, bare)
       \/ \E body \in Bodies : JobEvent(a, body)
  \/ FreeSwitchRestarts
  \/ \E i \in 1..MaxEvents : Deliver(i)

Spec == Init /\ [][Next]_vars

-----------------------------------------------------------------------------
TypeOK ==
  /\ committed \subseteq dialled /\ dialled \subseteq Attempts
  /\ accepted \subseteq DOMAIN sent
  /\ \A r \in recorded : r.of \in accepted /\ r.attempt \in Attempts

(* An event is recorded for the attempt of the call it came from, and an   *)
(* outcome of a job never before the attempt knows that job, whichever     *)
(* headers came with it and in whatever order the events and the worker's  *)
(* commit arrive.                                                          *)
EventsKeepToTheirCall ==
  \A r \in recorded :
    /\ r.attempt = sent[r.of].of
    /\ "Job-UUID" \in DOMAIN r.raw => r.attempt \in committed

(* Each event the API accepted is on record, once, however often it was    *)
(* delivered, and no two events of the switch are taken for one, also when *)
(* its restart makes the sequence begin again.                             *)
EachEventRecordedOnce ==
  \A i \in accepted : Cardinality({r \in recorded : r.of = i}) = 1

(* What is stored of an event never holds the dialled number, nor the      *)
(* command that names it.                                                  *)
HoldsNumber(value) == value[1] \in {"number", "dial"}
NumberStaysOut ==
  \A r \in recorded :
    /\ \A n \in DOMAIN r.raw : ~HoldsNumber(r.raw[n])
    /\ \A i \in DOMAIN r.result : ~HoldsNumber(r.result[i])
=============================================================================
