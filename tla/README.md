# Verification of the ai-call platform

TLA+ modules, TLC runs and TLAPS proofs for the outbound-call platform in this
repository: the API with its workers, the voice agent, the recognition server
and the parts of the dashboard that keep state. The subject is what the code
does when workers crash, replies get lost, events come late, callers interrupt,
and several processes or callbacks touch the same rows or fields.

Sections: 1 inventory, 2 modules, 3 runs, 4 fairness, 5 proofs, 6 statements
that do not hold, 7 what is not modelled, 8 plan.

## 1. Inventory

`PROJECT.json` lists every component with its files and status, and every hazard
with the line where it bites and the properties that would catch it.

### The API and its workers

| component | state it keeps | operations | hard because | correct when |
|---|---|---|---|---|
| outbox worker, dispatches (`outbox.worker.ts`) | `outbox_events` (status, tries, lease), `dispatchStartedAt`, `providerJobId` | batch, claim, deliver, give up, lease recovery | a worker may die between placing a call and recording it; a lease is an age, not a proof of death | nobody is rung twice for an attempt; acknowledged means placed; every event is settled |
| outbox worker, actions (`action-delivery.service.ts`, the agent's action node) | outbox rows, the node's result | enqueue under a key, deliver, fall back | a request that timed out may still be carried out | nothing is passed over in silence; repetitions can be told |
| TasksService, calls | tasks, attempts, provider events, history | dispatch, updateStatus, recordProviderCallEvent, snapshot, reaper, hangup | four paths may close a call; a redial puts a second attempt next to rows and messages of the first | states only move forward, task and latest attempt agree, the verdict is the call's, every call ends |
| TasksService, creation and policy; scheduler | tasks of a day, rules | create, createBatch, dispatchDuePending | rules are read and tasks counted before they are written | the daily limit holds; due tasks are dispatched |
| TasksService, provider events | identifiers of an attempt, recorded event ids | parse, resolve, record | the job id is stored after the first events may arrive | an event is recorded once, for the call it is of |
| TasksService, reports of the agent | transcript, outcome, hangup | three HTTP reports, each tried three times | a timed-out request is not withdrawn | the transcript is what was said, in order |
| TasksService, lists | nothing | page by cursor under an ACL | rows come, go and change their place | each task once; list and details agree |
| FreeSWITCH event worker | ESL socket, queue, dead letters, health | connect, enqueue, drain, snapshot, heartbeat | one loop with awaits, callbacks between them | an accepted event is delivered in order or kept; the loop never sleeps on one |
| FreeSWITCH client, frame parser | one connection per command | originate, kill, transfer, list | a stream cut anywhere, time-outs | frames as sent; an outcome says what happened |
| task flows, scenarios | draft, versions, locked versions | edit, publish, remove, select | every request reads first and writes later | only whole, published flows are run |
| voice clones | row, directory, voices in the cloud | create, preview, confirm, remove | three stores, paid resources, failures between | what was enrolled is accounted for |
| knowledge bases | documents with versions | upload, retrieve | read then insert | the merge of several bases is the best of all |
| call analysis, handoffs | analysis, ticket, task outcome | analyse, correct, close, call back | three writers of one outcome | what is finished is marked so |
| tenants, metering | events, aggregates | record, delete tenant | repeated requests side by side | use is metered once |
| sessions | refresh tokens, cookies | login, refresh, logout, reset | tabs share the cookies | a token is spent once; a reset ends sessions |
| accounts, roles | users here and in ai-knowledge, role map of each process | create, update, delete, project, refresh | two stores, any half may fail | the copies agree once all is quiet |

### The voice agent, the recognition server, the dashboard

| component | state it keeps | operations | hard because | correct when |
|---|---|---|---|---|
| session and barge-in (`agent.py`, `server.py`) | session coroutine, speak token, playback | greet, listen, think, speak, interrupt, end | a barge-in falls between any two awaits | speech is kept, one cut per utterance, nothing after the break, calls end |
| caller's audio (`vad.py`, `echo_gate.py`) | gate, detector, buffers | feed a burst of frames | frames held back are fed later | what is heard is whole and in order |
| recognition clients (`stt.py`) | one socket, one task per utterance | feed, end, late sentence, reconnect | the last sentence races the end, the time-out and the next utterance | no word twice, none in another utterance |
| synthesis clients (`tts.py`, `tts_qwen.py`) | child task, executor thread, queue, handle | synthesize, interrupt, hangup | cancellation of a task does not stop its thread | threads are joined, interrupts reach them, consumers are fed |
| conversation with the model | history, tool calls | turn, tool round, trim, escalate | the window is cut anywhere | requests pair up, tools run as called |
| flow executor, dialog router | node, dialog state, side question | walk, repair, commit, answer aside | a generation runs beside the walk | the latest answer is committed; no generation outlives the walk |
| shared ESL connection | one connection, one lock | playback, break | a time-out leaves an answer on the wire | answers match; a call's commands keep their order |
| FunASR server | buffers, permits, threads | stream, upload, embed | clients leave, models block | finals keep to utterances; nothing leaks |
| calls and speech in the browser | hooks, sockets, microphone, playback | start, hang up, stop | chains of awaits nothing cancels | one call at a time; what is over is silent |
| flow builder | canvas, history, saves, layout, tests | edit, save, publish, lay out, test | saves in the background | quiet is saved; published was shown |
| global settings | page, timers, flags | autosave, save | an answer is taken for the page | quiet is stored |
| import of tasks | text of a file, rows, batch | read, edit, send | edits rewrite the text | other rows stay; urgent first |

How they interact. `dispatch` writes the attempt and an outbox event in one
transaction; the outbox worker turns the event into a `bgapi originate` whose
channel UUID is the attempt id; FreeSWITCH reports to the event worker, which
posts to `recordProviderCallEvent` and, every ten seconds, a list of live
channels to `recordProviderActiveSnapshot`. FreeSWITCH streams the audio to the
voice agent, which recognises it (cloud or FunASR server), walks the flow or asks
the model, synthesises, plays through its shared ESL connection, and reports
turns, outcome, actions and hangups to the API over HTTP. The scheduler process
dispatches what is due and reaps stale calls. The dashboard talks to the API and,
for calls and tests in the browser, to the voice agent. The API's processes share
only the database and none waits for another.

## 2. Modules

| module | component | what it is |
|---|---|---|
| `CallStatus` | calls | statuses, transitions, hangup causes, the two ways to derive a terminal status |
| `OutboxDispatch` | outbox worker | the dispatch protocol, any number of workers and attempts |
| `TaskLifecycle` | calls | abstract specification: what a task promises |
| `OutboundCall` | calls | TasksService, outbox workers, FreeSWITCH, events, snapshots, reaper, hangup, agent, operator, composed |
| `EventWorker` | event worker | connection, queue, drain loop, dead letters, health |
| `VoiceTurn` | voice agent | calls of one process: session, speech, barge-in, pump, shared synthesis and ESL |
| `ActionDelivery`, `TaskScheduling`, `ProviderEvents`, `TaskListing`, `TaskReports`, `EslCommand` | API | tasks and what surrounds them |
| `FlowLibrary`, `VoiceClones`, `KnowledgeBase`, `CallReview`, `UsageMetering`, `UserSessions`, `UserProjection`, `RoleMap` | API | the other services |
| `CallerAudio`, `SpeechToText`, `LocalRecognition`, `SynthesisBridge`, `Generation`, `FlowExecution`, `SharedEsl`, `SpeechFiles` | voice agent, FunASR | |
| `BrowserCall`, `BrowserSpeech`, `BrowserListening`, `FlowEditor`, `FlowGraph`, `FlowDebug`, `SettingsPage`, `TaskImport` | dashboard | |
| `MCComponents` | | small instances of 31 component modules side by side |
| `MCOutboxDispatch` | | an instance with a symmetry set |
| `OutboxDispatchProofs`, `OutboundCallProofs`, `EventWorkerProofs`, `ActionDeliveryProofs`, `VoiceTurnProofs` | | theorems about one module each |
| `AgentProofs` | | theorems about `SharedEsl` and, by `INSTANCE`, `LocalRecognition` and `SpeechToText` |
| `ServiceProofs` | | theorems about eight components of `MCComponents`, the services of the API, each taken in by `INSTANCE` |
| `ClientProofs` | | the same for eleven components of the voice agent, the recognition server and the dashboard |

In every module an action is a stretch of a handler or coroutine between two
awaits (or one statement, where each statement is awaited), variables carry the
names of the fields they stand for, and variables marked `history` are not in the
code: they remember what the properties ask about. The comment at a module's head
says what it stands for and how its data are abstracted.

### OutboxDispatch

One action per statement of `processEvent` and `deliver`. `pc[w]` is the statement
worker `w` executes next, `ev[w]` the event it has leased and `loaded[w]` what
`findMany` returned, because the worker decides with that old row later
(`handleFailure` counts with it). The claim is the compare-and-set of the code.
`RecoverExpiredLeases` gives a leased event back. With `SlowLease = FALSE` that
happens only when its holder is gone; with `TRUE` the 60 s may also elapse under a
live holder. FreeSWITCH refuses a second channel with the UUID of a live one, as
the code assumes; when the first call has ended it takes the UUID again. What the
rest of the system does to an attempt is `Environment`, the weakest the proofs
need. `dials` is a history variable. Sms, webhook and CRM events share the table
but not the rows: they are `ActionDelivery`.

### OutboundCall

One task, whose attempts are numbered from 1: tasks share no row. The transactions
of TasksService are serializable or start with a compare-and-set on the task's
status, so each is one step; `hangup` is two (`RequestHangup`, then
`HangupAccepted` or `FinalizeLocalHangup`). The workers are those of
`OutboxDispatch`, taken in by `INSTANCE` with `calling`, `evidence` and `live`
defined from the attempts, the recorded events and the channels; `OutboxFails` and
`OutboxOriginates` add what `handleFailure` and `originate` do to the other rows.

- `emitted[n]` minus `seen[n]` is what FreeSWITCH has sent and the API has not
  recorded: any of it may come next or never, and a recorded event is skipped by
  its id. The event worker's queue is therefore over-approximated.
- `calledAt` and `endedAt` hold the number of the attempt during which they were
  written: that is all the code's null checks and the properties tell apart.
- `age[n]` is the attempt's age against the snapshot grace and the reaper's timeout.
- `missing` is nondeterministically kept or reset by an event, as the two clocks decide.
- Hangup causes are the three classes of the table: fatal, no-answer, unlisted.
- At most one snapshot is on its way.
- A queued originate gets its channel before the next snapshot is taken.

`Stale` says what may still be under way for an earlier attempt when the task is
dialled again: `"requests"` (a hangup request, a voice agent's report) and
`"deliveries"` (a dispatch event that the outbox has not settled). What is not in
`Stale` holds a redial up (`NothingLeftOver`). The code looks at neither; `Stale` and its
subsets say which properties need what, and the run `late_delivery` shows what a
delivery left over does. (A request left over closes the new attempt: section 6.)

### TaskLifecycle and refinement

`Redial`, `Connect`, `Close`: a task is closed once per attempt, is connected only
from CALLING, and is dialled again only from FAILED or NO_ANSWER. `LifecycleSpec`
of `OutboundCall` is this specification with `status <- taskStatus`,
`attempts <- attemptCount`. `DispatcherSpec` says that the composed system implements
`OutboxDispatch`: every operation of TasksService is a step of `Environment`.

### EventWorker

One action per handler or per stretch of `drainQueue` between two awaits. `state`,
`socket`, `reconnectTimer`, `queue` and `deliveryHealthy` are the fields of the
class; `drain` says what the loop is waiting for, and `inHand` is the event that has
been shifted and is being written to the dead letters. Managed events carry the
number in which FreeSWITCH sent them; `fate[e]` is a history variable that says what
the worker did with event `e`: missed (not subscribed), dropped (queue full),
accepted, dead-lettered, logged (the file could not be written), lost with the
process. A post that fails for the worker may have been recorded by the API, may
have come to nothing, or may still be in progress (`inTransit`) and finish at any
later time: `ApiUnknown`, `ApiFinishesLate`. The API records an event once
(`Record`). Time is a choice: `HeartbeatGoesStale`, `BackoffElapses`, `Reconnect`.
`ready` is `health().ready`. The handlers of "error", "end" and "close" all
disconnect; for one socket they run in one turn of the event loop, before the
timer they have armed can fire, so they are one `LinkFails`. Overlapping snapshots
are one, since all that a snapshot changes here is `deliveryHealthy`.
`OutboundCall` does not use this module: it lets events arrive in any order or not
at all, which covers every fate above.

### VoiceTurn

`call[c]` is what the process keeps for a call: the connection's handler, the
session task and where it waits, `_ended`, the speak token (`turn`) and
`_speaking`, what the recogniser has reported and the session has not consumed,
the pump and what is at the phone. `synth` is the one text-to-speech client and
`esl` the one command connection, both shared by the calls, which is why a call is
a parameter and `Calls` may hold two. An interrupt takes the code's path:
`_on_stt_event` cuts the turn, cancels the shared synthesis, and the break is sent
behind whatever the pump has already queued (`breaking`). A recogniser's partial
and final both interrupt, so `cuts` counts what one utterance has cut.

### Tasks and their surroundings

- `ActionDelivery`: one action node per action. `node` is where the agent's
  coroutine stands, `request` the HTTP request with the node's idempotency key,
  which may be carried out after the agent has given it up, `row` the outbox row,
  `worker` the outbox processes. `effects` and `keys` are what receivers have seen;
  `unsure` are the actions whose earlier try had an unknown outcome.
- `TaskScheduling`: two creations and the scheduler read the rules and count a
  callee's tasks, then write; a day is a few slots, a window may be turned (end
  before start) and tasks move to the next day's start.
- `ProviderEvents`: from headers to an attempt. Identifiers are resolved one by one
  and must agree; the core's restart, repeated deliveries and events before the
  commit of the job id are steps of their own.
- `TaskListing`: a walk by cursor while rows come, go and change, seen by an
  account with some grants. `TaskReports`: three reports, three tries, late requests.
- `EslCommand`: the command's handshake over a stream cut anywhere and the
  incremental parser, with limits on header and body; symbols are lines and bytes.

### Services of the API

`FlowLibrary`, `VoiceClones`, `KnowledgeBase`, `CallReview`, `UsageMetering`,
`UserProjection`, `RoleMap` and `UserSessions` have one shape: rows, and per
operator, process or caller the statement its request executes next with what it has
read (`seen`). Any two requests interleave at statements. The database checks what
it checks in the schema (unique keys, compare-and-set updates); the provider's cloud,
the identity service and the directory of audio are state that a request writes and
whose answer may be lost. `UserSessions` has both halves of a refresh: the rotation in
the API and the tabs that share one cookie jar.

### Speech, conversation and flow

- `CallerAudio`: what happens to each frame: suppressed, held by the echo gate,
  fed to the detector, cut into segments. Energies and correlations are classes.
- `SpeechToText`: `receive_audio` drives the client, the receive loop runs beside it,
  the server answers when it likes. A text is the set of frames recognised, so that
  twice and in-another-utterance are visible; `owed` are sentences the server has
  promised.
- `LocalRecognition`: client and handler of the project's own server, one connection,
  two passes, the detector's cuts.
- `SynthesisBridge`: `child` is where the child task waits, `thread[r]` where the
  executor thread of run `r` is, `queue[r]` what it has pushed; both SDKs.
- `Generation`: turns, streamed tool calls in pieces, tools, the trimmed window,
  escalation. The provider refuses a request whose calls and results do not pair.
- `FlowExecution`: run() over a flow given as a constant; a dialog node listens,
  repairs, commits one answer; a side question's generation runs beside; what the
  router makes of a model's answer, and which answers it refuses, is its first part.
- `SharedEsl`: a lock, one wire, time-outs and cancellations, reconnects, clients
  that calls keep. `SpeechFiles`: uploads, streams and embeddings with permits, the
  threads under them and clients that leave.

### The dashboard

`BrowserCall`, `BrowserSpeech` and `BrowserListening` have a record of the hook's refs
and the objects they point at, numbered in the order they were made, since the code's
hazard is a ref that points at a newer object. `FlowEditor` and `SettingsPage` number
contents and keep saves under way with what they will answer. `FlowGraph` is the store's
graph edits and the layered layout; `FlowDebug` a panel, its sockets and the sessions
behind them; `TaskImport` the text of a file down to its delimiters and quotes, because
that is what an edit may break.

### MCComponents

The components that share no state with each other are checked in one run. A
behaviour of `MCComponents` is a behaviour of one of them: `component` says which, its
variables are `v1`, `v2`, ... and the rest hold `"none"`. The set of behaviours is the
union of the instances', so an invariant `component = x => P` says exactly that `P` is an
invariant of the instance of `x`. The instances' constants are in `MCComponents.tla`.
Properties are grouped by what they ask:

| property | asks | of |
|---|---|---|
| `DoneOnce` | what is retried or asked for twice is done once, or can be told | deliveries, provider events, metered use, sentences of the caller, refresh tokens, model loads, tasks in a list, calls of a day, conversations of a browser |
| `KeptInOrder` | what arrives in pieces is passed on whole and in order | transcript, caller's frames and segments, finals, ESL commands and frames, streams, last words, imports, uploads |
| `RightAnswers` | an answer goes with its question | provider events, ESL, previews, tool rounds, the caller's answer, passages, tests |
| `CopiesAgree` | two records of one thing agree once nothing is under way | accounts, roles, canvas, settings, lists, analyses, reports, deliveries, voices |
| `OnlyWholeFlowsRun` | versions are valid and last; edges join nodes | flow library, graph |
| `NothingLeftBehind` | what ends leaves no thread, file, permit, voice, socket, session | synthesis, walk, files, voices, browser, sessions, events |
| `StepsKeepTheRest` | what a step may never change | deliveries, publication, graph edits, import edits |
| `EverythingSettles` | each component comes to rest again and again | the twelve of `settling` |
| `ComponentsTypeOK` | types | all |

Some conjuncts except what a history variable marks, where the code does not
promise more: requests that overlapped (`crossed`, `raced`, `overtaken`), calls given up
while being set up (`hasty`), connections on which a command timed out (`late`), a child
cancelled again while it joins (`twice`), outcomes nobody knows (`unsure`), maps another
process left behind (`behind`). Section 6 has the statements without them.

## 3. Runs

Sizes are the smallest in which the hazards occur.

| run | module | bounds | result |
|---|---|---|---|
| `dispatch` | `MCOutboxDispatch` | 2 events, 2 workers, 2 tries, 1 crash, all replies | holds |
| `one_call` | `OutboundCall` | 1 attempt on either channel, all events and causes, 1 worker, 2 tries, 1 crash, fair | holds, `EveryCallEnds` included |
| `redial` | `OutboundCall` | 2 attempts on either channel, answer and hangup events, `Stale = {"deliveries"}` | holds |
| `event_worker` | `EventWorker` | 2 events, queue of 1, 2 attempts, 1 shutdown or crash, fair | holds |
| `voice_turn` | `VoiceTurn` | 1 call on either channel, 1 listening round, 2 utterances, 1 chunk, fair | holds |
| `components` | `MCComponents` | 31 components, constants in the module | holds |
| `settling` | `MCComponents` | 12 of them, fair | holds |
| `slow_lease` | `MCOutboxDispatch` | 1 event, 2 workers, lease may expire | `AtMostOneDial` violated |
| `stale_answer_time` | `OutboundCall` | 2 attempts | `VerdictMatchesCall` violated |
| `late_delivery` | `OutboundCall` | 2 attempts, `Stale = {"deliveries"}` | `TaskFollowsLatestAttempt` violated |
| `shared_tts` | `VoiceTurn` | 2 calls | `CutByOwnCaller` violated |
| `answered_tools` | `Generation` | tools that answer 201 or 500 | `EscalatedWasAsked` violated |

Why the bounds are enough. A protocol of the outbox tells apart a first, a later and a
last delivery: two tries give all three, since the count saturates and the retry after a
crash is one more. Two events make a batch in which the second row is old when it is
claimed. Two attempts are an old and a new one, which is all that one step of the code
relates. In `EventWorker` two events are one at the head and one that waits or does not
fit; two attempts a retry and a last one. In `VoiceTurn` a second utterance falls into
every state the first leaves. In `components` two operators, processes, callers, tabs or
runs meet at every pair of statements; two texts, calls or sockets are an old one and
the one a ref has moved on to; three commands on two ESL connections are one that waits,
one on the wire and one behind it. Where a proof exists (section 5), it holds for every
size.

The names of the bounds: `MaxAttempts`, `MaxTries`, `MaxCrashes`; `MaxEvents`,
`MaxRestarts`; `MaxTurns`, `MaxUtterances`, `MaxChunks`; and in `MCComponents` the
constants whose name begins with `Max` or which a module's comment calls a bound. Settings
of the code (`maxQueueSize`, `deliveryMaxAttempts`, `OUTBOX_MAX_ATTEMPTS`, retries, windows)
have their own constants with small values.

Deadlock is checked in `dispatch`, `one_call`, `redial` and `event_worker`; in the other
passing runs calls and conversations end, and most components rest when nobody calls.

Every property of a passing run has a mutant of the code in the modules (operators
whose comment begins with "Mutant") under which TLC finds it violated. A grouped property
has one, in one of its components.

What the violated runs show:

- **slow_lease**: two workers read an unmarked attempt, the first one's call is
  over before the second originates. The marker is written without a condition.
- **stale_answer_time**: dispatch leaves calledAt of the earlier attempt on the task,
  and the hangup handler reads it as proof of an answer. (It leaves endedAt as well, and
  `tasks.service.ts:602` keeps it, so the end time and the duration of a redialled task
  are those of an earlier attempt; nothing reads them back, so there is no run for it.)
- **late_delivery**: `handleFailure` closes the task by its id. When the first attempt
  was closed before its dispatch event was settled (a snapshot, the reaper or a hangup
  may do that) and the task was dialled again, giving that event up marks the task FAILED
  while the new attempt is being called. A third dial may then leave two attempts open;
  the proof of `OlderAttemptsClosed` fails at exactly this step.
- **shared_tts**: a caller who barges in cancels what the one client is synthesising,
  which may be another call's turn.
- **answered_tools**: POST handlers answer 201 and the dispatcher takes everything but
  200 for a failure, so a tool that ran ends the conversation with a transfer.

Three more places where a document and the code disagree, but where the code or the
backlog records the choice, have no run. A delivery that failed without placing
anything looks ambiguous the next time, because the marker is written before originate,
and is dead-lettered then (`README.md:45` says after five tries). A full queue drops the
event it cannot take, without a dead letter. And the snapshot and the events share one
health flag, so a delivered snapshot makes the worker ready while an event is failing.

## 4. Fairness

All fairness is weak, except where said, and of what the runtime or a timer drives.
Nothing is assumed of callers, operators, users or networks: they may do nothing for
ever, and faults stay possible.

- `OutboundCall` (`FairSpec`): time passes and the scheduler's interval fires; workers,
  events, snapshots, hangups and callbacks may all fail for ever, and a call still ends
  (`EveryCallEnds`: the reaper).
- `EventWorker` (`FairSpec`): a post returns or times out, back-off ends, the reconnect
  timer fires, a shutdown completes; FreeSWITCH is up again and again for long enough
  to answer each step of the handshake and to send a heartbeat (strong fairness). The
  last is an assumption about the peer: the code has no timeout for one that accepts the
  connection and stays silent; `health()` reports it unready.
- `VoiceTurn` (`FairSpec`): every await of the session, the synthesis, the pump and the
  connection's cleanup returns; a `wait_for` that is cancelled while its result is ready
  behaves as up to Python 3.11.
- `MCComponents` (`FairSpec`): one weak fairness condition per part, `Progress(part)`. Most
  components have one part. Two outbox workers are two parts, because each has a timer
  of its own and neither may starve the other; so are two tests of a flow, and the awaits
  and the timers of a browser's call. In detail: the interval timer ticks and its queries
  return; the recogniser's time-outs expire and a server that was asked to finish a task
  does; threads of models return; models answer or fail within the walk's time-outs;
  CosyVoice's wait has a time-out, Qwen's has none (`tts_qwen.py:297`), so its server is
  taken to answer or close; ESL exchanges end by their time-out; in the browser awaits
  return, including the permission prompt, and audio plays.

`EverythingSettles` is `[]<>AtRest` and not `<>[]`: new work may always come.

## 5. Proofs

`OutboxDispatchProofs`, for all sets of attempts and workers and all bounds:

- `DispatchTypes`: `DispatchSpec => []DispatchTypeOK`.
- `DispatchSafety`: if no lease runs out under a live worker, then always
  `AtMostOneDial`, `AcknowledgedMeansPlaced` and `GivenUpMeansClosedOrStarted`.

The three invariants are not inductive: that a worker about to originate has not
dialled before follows from where the others are. `DispatchInv` adds
`ExclusiveLease` (an event being processed has one holder, since the claim is a
compare-and-set and leases come back only from the dead), `MarkerBeforeDial`
(a call implies a marker, and who saw no marker sees no call) and
`PlacementEvidence` (job ids, events and channels exist only for placed calls, and
so does every acknowledgement in progress). Each part has a lemma with one step per
action, and uses the parts before it. The assumptions are those of the module's
ASSUMEs and, for `DispatchSafety`, `~SlowLease`; `slow_lease` shows that it is needed.
The parts are checked by TLC as well (`dispatch`).

`EventWorkerProofs`, for every number of events, queue size, number of delivery
attempts and number of restarts:

- `EventWorkerTypes`: `Spec => []TypeOK`, the queue limit included. `LoopPhases` is
  needed: the loop posts only with an item at the head.
- `ConnectionSafety`: `Spec => []OneConnectionOrTimer`; a stopped worker has no timer.
- `DeliverySafety`: `Spec => [](AcceptedIsKept /\ RecordedInOrder)`. `OrderInv` says
  that what waits - the event in hand, then the queue - has increasing numbers
  (`Sorted`), that what was given up or recorded is older (`GivenUpFirst`,
  `RecordedFirst`), and that a request still on the wire is of an event that is
  recorded, given up, in hand or at the head (`Tried`). `ArrivalStep` then shows once
  that a request arriving in time or late keeps the order; the steps cite it.
  `OrderInv` has been checked by TLC as well.
- `DrainSafety`: `Spec => []DrainsWhilePending`. `DrainInv` adds that a stopped worker has
  neither socket nor timer, so that only a restart takes it out of "stopped".

`OutboundCallProofs`, for all channels, events, causes, operators, replies, attempts,
workers, tries and crashes, and every `Stale`:

- `CallTypes`: `Spec => []TypeOK`.
- `ImplementsDispatch`: `Spec => DispatcherSpec`. A worker's step is one of
  `OutboxDispatch` by construction; the work is in the others. `CallingOnlyEnds` (no
  operation puts an attempt back to CALLING), `ChannelsOnlyEnd` and `EventsAreRecorded`
  make each of them a step of `Environment`, and a dispatch opens an attempt that has no
  event yet (`NotYetOpened`). Provider events exist only for calls that were placed
  (`EventsOfCalls`). With it, `DispatchSafety` (whose `~SlowLease` is how `Dispatcher` is
  instantiated) holds of the composed system: nobody is rung twice, whatever TasksService
  does meanwhile. That last inference is by instantiation and is not itself a theorem,
  because the prover cannot cite a theorem of an instantiated module.

When hangups and reports are not left over (`"requests" \notin Stale`) and operators only
close tasks, whatever else is in flight:

- `RowsAgree`: always `ActiveTaskHasActiveAttempt` and `HistoryAgrees`;
- `ClosedForGood`: `Spec => ClosedStaysClosed`;
- `ImplementsLifecycle`: `Spec => LifecycleSpec`.

  `CallInv` adds to the types that only opened attempts have a status, a channel or
  events (`OpenedAreCalled`, `BegunForOpened`), that a hangup under way is for the latest
  attempt, and that an attempt IN_CALL has its answer time (`InCallIsAnswered`), which is
  why a closing as NO_ANSWER can only come from CALLING. Events, snapshots and the reaper
  close attempts in one way (`Closing`); there is one lemma for each kind of step.

- `LatestAttemptSpeaks`: when also `"deliveries" \notin Stale` and operators only cancel
  or complete, always `OlderAttemptsClosed` and `TaskFollowsLatestAttempt`. `LatestInv`
  adds that only the latest attempt has an unsettled event (`UnsettledIsLatest`) and that
  leases are exclusive, so that a worker that gives a dispatch up speaks for the latest
  attempt. `late_delivery` shows that the second hypothesis is needed, section 6 that the
  first is; the three theorems above hold without the second.

- `OnlyTheDeadAreGivenUp`: `Spec => ReconcilesOnlyDeadCalls`, with no hypothesis on `Stale`
  or the operators. `MissingInv` follows the marker to the call (`PlacedOnce`: who is about
  to originate has written a marker that was not there, so a call is placed once and its
  channel never comes back) and the count to the channel (`MissedIsOver`: a call that was
  missed once and is not in the snapshot under way has ended). A snapshot that is lost, or
  an event that resets the count between two snapshots, keeps both.
- `VerdictsAreTrue`: under the hypotheses of `RowsAgree`, `Spec => VerdictUnlessStale`: the
  hangup of an open attempt gives it the status that its own cause and its own answer
  call for, unless it is the latest attempt and `calledAt` is of an earlier one. `VerdictInv`
  adds to `CallInv` that an open attempt has no cause on its row (`CauseOfClosed`), that only
  attempts on FreeSWITCH have events (`OnSwitch`) and that `answeredAt` and the `calledAt` of
  the latest attempt are true of the call (`AnswersAreTrue`). The exception is what
  `stale_answer_time` shows; the proof of `AnswersAreTrue` finds no other way to it.
- `FirstVerdict`: with `MaxAttempts = 1` there is no earlier attempt, and
  `Spec => VerdictMatchesCall`.

`AgentProofs`, for any set of calls and any number of commands and connections:

- `EslKeepsOrder`: `Spec => []CallsKeepTheirOrder`. `TurnInv` says that commands are
  numbered as they are issued, that a call awaits at most its own latest one, that the
  holder of the lock is the first that is not finished and that a call which asks for
  the connection holds none; `OrderInv` that what has run and what is in the pipe of a
  connection is increasing. A call that changes its connection does so only when its
  command has ended, which is what the order across reconnections needs.
- `EslAnswersMatch`: `Spec => []AnswersMatch`. `AlignInv`: on a connection on which
  nothing timed out, what is on the wire in either direction is of the command that is
  being exchanged (`Aligned`).

in its second part, recognition by the project's own server, for calls of any length and
any stretch of audio the server keeps:

- `UtterancesAreWhole`: `Spec => [](FinalsKeepToUtterances /\ OneFinalPerUtterance)`.
  `LocalInv` says what may be next to what on the wire (frames of one utterance follow one
  another, a stop comes after the last), that the head of the wire fits what the server
  keeps and its end what the client was told, and, without a detector, that finals are of
  ever later utterances.

and in its third, recognition in the cloud, for any number of utterances and of frames:

- `WordsComeOnce`: `Spec => []NothingTwice /\ []OneUtterancePerFinal`. `ClientInv`: tasks are
  asked for one after another, nothing comes from one that was not, and who waits for the
  last sentence still knows its task. `WordInv(w)` follows one frame: it is in one place (the
  buffer, what a task has heard, a sentence on its way), a text the client holds of a task is
  still owed by that task (`HeldInv`), and what a task that is still listened to owes was
  not reported (`TakenInv`). It is the rescue window that makes the last part necessary:
  `end_speech` may report the partial while the sentence is on its way, and closes the
  window exactly then. `MixedInv`: what is heard of the current task is of this utterance
  or of one whose audio was carried on.

`ActionDeliveryProofs`, for any actions, workers, tries and faults:

- `NothingIsSilent`: `Spec => []NothingSilent`, also when leases expire under a live
  worker. `EvidenceInv` adds that what a worker acknowledges next has been carried out.
- `RepetitionsAreKnown` and `SettledStays`, when no lease expires under a live worker
  (`~SlowDelivery`). `LeaseInv`: an event being delivered has one holder. `RequestInv`: the
  one request of an action is made and consumed once. `OnceInv`: while nothing about an
  action was unsure, its effect is there exactly if the outbox or the agent has recorded,
  or is about to record, that it was done.

The synthesis bridge, a section of `ClientProofs`, for both SDKs and any number of runs:

- `SynthesisJoins`: `Spec => []ThreadsJoined`. `BridgeJoins`: only the thread of the current run
  is alive, and only while a child will join it, unless the child was cancelled twice.
- `InterruptsReach`: `Spec => []InterruptReaches`, by `BridgeHandle`: the handle is that of the
  thread that connects or waits.
- `ConsumersAreFed`: `Spec => []ConsumerIsFed`, by `BridgeFed`: a consumer whose run is
  cancelled has a cancellation coming, any other finds an end in its queue once the
  server has answered or the thread is gone.

`VoiceTurnProofs`, for every set of calls, any number of turns, utterances and chunks, on
the telephone and the web:

- `OneCut`: `Spec => []OneCutPerUtterance`.
- `BreakComes`: `Spec => []NothingAfterBreak`.
- `EndsClean`: `Spec => []CleanEnd`.
- `SpeechStays`: `Spec => []SpeechIsKept`.
- `TypesHold`: `Spec => []TypeOK`, the model's bounds included.

`IInv` has one part per call (`CallsInv`: the session, the connection, the speak token, the
pump and the recogniser's reports fit together) and two for what the calls share: the
synthesis runs for a call whose session waits for it (`SynthInv`), and broadcasts on the
ESL connection are of calls on the telephone (`EslInv`). A call is a record of 28 fields,
which the backends do not get through twice in one obligation. So a lemma per change of
the record (`...Fits`) shows that what holds of a call holds of the changed one, a lemma per
action (`...Quiet`) that the action is such a change and stays out of what the other calls
rely on, and `MovedKeeps` and `QuietKeeps` put the calls together again. The types are proved
beside `IInv` and in the same way, field by field (`FieldType`, `...Typed`, `...Types`); what
they need besides is that there is room for the turn that is announced and for the end of the
utterance under way (`Ahead`), and that what is broadcast is of a turn begun (`EslTyped`).

`ServiceProofs` and `ClientProofs` have a section per component. Each takes the module in by `INSTANCE`, with
its constants open, and proves its conjuncts of the grouped properties of `components`;
the grouped properties themselves speak of one fixed instance and cannot be stated there,
because `MCComponents` reaches the RECURSIVE operators of `FlowGraph`.

| theorem | component: what holds | assumed of the constants | the invariant's idea |
|---|---|---|---|
| `FlowsStayWhole` | `FlowLibrary`: `LockedVersionsLast`, `VersionsAreValid`, `PublishedIsExecuted`, `DefaultFlowIsPublished` | bounds are numbers, a configuration can be written | a request that is about to write has seen a published row, and versions are only added |
| `SessionsAreSound` | `UserSessions`: `TokenSpentOnce`, `ResetEndsSessions`, `OneTabStaysIn` | a token exists, bounds are numbers | a token that was exchanged is not found again; whoever is about to get a session has shown the password of now; while nothing crossed one tab refreshes, with the cookie's token |
| `ReportsAreKept` | `TaskReports`: `TranscriptFaithful`, `FinishedIsClosed` | at least one try | what is under way is not ahead of the session, what it left behind is stored or was given up |
| `LimitIsKept` | `TaskScheduling`: `DailyLimitHolds` | the tasks are finitely many, slots and limit are numbers | what the check lets through is scheduled for today, so the next check counts it whether or not it was claimed; the counts are cardinalities |
| `LatestIsCommitted` | `FlowExecution`: `CommitsLatestAnswer`, `NoOrphanGeneration` | nothing | an answer held back is the latest; a generation runs only beside a dialog that waits for it |
| `MapsAreCurrent` | `RoleMap`: `MapIsCurrent` | each request has a process | a process that is not behind has one refresh under way, which has read the roles as they are |
| `ProjectionIsTrue` | `UserProjection`: `ProjectionAgrees`, `NoGhosts` | the bound is a number | while nothing was lost or crossed one call is under way, and its step says what the sides differ by |
| `TicketIsMarked` | `CallReview`: `FinishedIsMarked` | nothing | nobody writes a ticket before it was asked for |
| `ClonesAreAccountedFor` | `VoiceClones`: `PreviewIsOfItsVoice`, `VoicesAccountedFor`, `ConfirmedVoiceIsEnrolled`, `RemovedLeavesNothing` | nothing | without an overlap one synthesis is under way and the row is what it has seen; who records has just stored |
| `NothingOutlives` | `SpeechFiles`: `NothingLeaks`, `EmbedModelLoadedOnce` | requests are finitely many, of one kind each | the permits that are out are the running calls |
| `LaterIsNewer` | `KnowledgeBase`: `LaterUploadIsNewer` | nothing | an upload that is about to write has a version above all it comes after |
| `CallsAreLetGo` | `BrowserCall`: `OneCallAtATime`, `LastWordsPlayed`, `OverIsSilentOnceUp` | calls are numbered | one chain of awaits is under way, and none once the call is over |
| `IdleMakesNoSound` | `BrowserSpeech`: `IdleIsSilent` | nothing | the property itself, beside the queue's type |
| `StoppedIsClosed` | `BrowserListening`: `StoppedStaysClosed`, `ListeningHasMicrophoneAtFirst` | the bound is a number | only the socket that is held is made or open |
| `QuietFlowIsSaved` | `FlowEditor`: `QuietIsSaved`, `PublishedWasShown` | nothing | while no saves met, the one request under way carries what the canvas shows or is known to be older |
| `SettingsAreStored` | `SettingsPage`: `QuietIsStored`, `AutosaveKeepsNumbers` | nothing | while no saves met one request is under way, and the page differs from what is stored by the autosave that is due |
| `ToolsRunInOrder` | `Generation`: `ToolsRunAsCalled` | the bound is a number | the calls of a turn are above those of earlier turns; those that wait were made by one message and are above what has run |
| `TestsAreFresh` | `FlowDebug`: `FreshConversation` | nothing | a panel that is idle or gone has nothing under way; one that has begun holds the last start's socket |

What the attempts found. `FreshConversation`, as it was first stated, held for the two tests of
the instance and is false for three: a panel closed while its socket connects and opened
again may start a second test, whose saving the first socket's error makes look idle; a
reset (`flow-debug-panel.tsx:204-212`) then lets a third start while the second one still
saves, and both conversations are shown. The model now says so in `HandleReset`, where the
history variable `stray` notes a reset that leaves a start saving, and the property excepts
it like the other strays. `OlderAttemptsClosed` needs the redial to wait for the outbox, and
`VerdictMatchesCall` the exception above; both have a run that shows why.

Only model-checked, and why:

- of the components: `MeteredOnce` (a sum over a set), those of `ProviderEvents` and `EslCommand` and `RequestsPairUp` and
  `QuestionIsAsked` of `Generation` (`SelectSeq`), those of `CallerAudio` (a fold over what was
  played), `TaskListing` and `MergeIsGlobal` (a set turned into a sorted sequence), `FlowGraph`
  and `TaskImport` (RECURSIVE), which need induction over data;
- the grouped properties as such, as said above;
- all liveness (`EveryCallEnds`, `EventsSettle` and the rest of section 4): fairness is out of
  the prover's reach.

## 6. Statements that do not hold

Next to the five violated runs, the modules state these for a reader; TLC finds each
violated in the instance of `MCComponents` (or, for the second, of `redial`), and no passing
run lists them.

| statement | why it fails |
|---|---|
| `AlwaysAligned` (`SharedEsl`) | a command that times out leaves its answer on the wire to the next one, though the comment at `server.py:1027` says the connection is always aligned |
| `ClosedStaysClosed` (`OutboundCall`) with `"requests" \in Stale` | a hangup or report by attempt id is applied to the task without asking whether the attempt is the latest |
| `OverIsSilent` (`BrowserCall`) | a call given up during its set-up goes on with it and leaves the microphone or a socket on |
| `StoppedIsSilent` (`BrowserSpeech`) | a chunk that is on its way when `stop()` is called is still played |
| `FarewellPairsUp` (`Generation`) | an escalation before the other tool calls were run leaves calls without results in the farewell's request |

Known and excepted by a history variable, without a statement of its own in the
repository: saves of a page or a canvas that meet overwrite one another; uploads beside
each other may share a version; an edit between validation and publication is published
unvalidated; a refresh half done when the password is reset creates a session afterwards;
a tab that loses the race for a refresh is sent to the login page; an answer of the identity
service that is lost after it took effect leaves the two sides apart; maps of other
processes are stale until they refresh.

## 7. Not modelled

- Of the calls: transfers to a human and recordings (one request and one row each), tags.
- Other pages of the dashboard and the inspector's forms: one request each, rendered from
  the cache of SWR, no protocol of their own beyond what the API's modules say.
- Integrations and compliance: single-row configuration and outbound HTTP.
- Analytics, metrics, tracing and scenario tests: reports over stored rows and counters.
- Templates, prompts and the wording of answers; intent embeddings; the numbers inside
  models, the voice detector and the echo gate's correlation.
- Duplicating a flow and testing it in the API, the tree of knowledge bases and the
  external knowledge service, providers and quotas of tenants: single-row writes.
- The database seed and the deployment.
- Operators who move a failed task to CALLING by hand, which creates no attempt, or a
  calling task to FAILED, which leaves its attempt open.

## 8. Plan

Done: the call with its workers and events and their proofs; the voice agent's session with
its proofs; the surrounding services, clients and hooks with their safety, and liveness
where the code drives it; proofs of the shared ESL connection, the delivery of actions, the
synthesis bridge and twenty components more.

Left, in this order:

1. `EventWorker` composed with `OutboundCall`, which now takes events in any order or not
   at all; a refinement would need the queue's fates as what `seen` may become.
2. Two calls in the passing run of `VoiceTurn`, with what one may do to the other excepted.
3. The partly modelled components: transfers and recordings, the external knowledge
   service, the inspector of the flow builder.
