----------------------------- MODULE MCComponents -----------------------------
(***************************************************************************)
(* Small instances of the components that are checked alone, side by side: *)
(* a behaviour is one of the component named by the variable, whose        *)
(* variables are v1, v2, ... in the order of its module.                   *)
(***************************************************************************)
EXTENDS Integers, Sequences, FiniteSets

CONSTANT Components   \* the components a run checks

VARIABLES component,
          v1, v2, v3, v4, v5, v6, v7, v8, v9, v10, v11, v12, v13, v14, v15, v16, v17, v18,
          v19

None == "none"
Processes == {"p1", "p2"}
Operators == {"o1", "o2"}

(* Answers to originate: as FreeSWITCH sends them, and with a busy line.   *)
JobBodies ==
  {<<<<>>, <<<<"+OK">>, <<"uuid", "a">>>>>>,
   <<<<<<"-ERR">>, <<"number">>, <<"cause", "USER_BUSY">>>>>>}
CommandBodies == {<<"+OK">>, <<"-ERR", "x">>, <<"x", "lf", "lf", "x">>, <<"lf", "x">>}

(* A flow that is whole and the same without its edge.                     *)
Whole == [kind |-> [n \in {"s", "e"} |-> IF n = "s" THEN "start" ELSE "end"],
          edges |-> {<<"s", "e">>}]
Drafts == {Whole, [Whole EXCEPT !.edges = {}]}

Documents ==
  {[words |-> 1, chars |-> 0], [words |-> 0, chars |-> 60], [words |-> 0, chars |-> 20]}

RequestHandler == [x \in {"x1", "x2", "x3"} |-> IF x = "x3" THEN "p2" ELSE "p1"]

(* A flow with a question, an action that fails, a condition and a loop.   *)
NodeKind ==
  [n \in {"start", "offer", "act", "when", "bye"} |->
     CASE n = "start" -> "start" [] n = "offer" -> "dialog" [] n = "act" -> "action"
       [] n = "when" -> "ask" [] n = "bye" -> "end"]
Edge(i, s, t) == [id |-> i, source |-> s, target |-> t]
FlowEdges ==
  {Edge("e0", "start", "offer"), Edge("yes", "offer", "act"), Edge("no", "offer", "when"),
   Edge("else", "offer", "bye"), Edge("e1", "act", "bye"), Edge("e2", "when", "offer"),
   Edge("e3", "bye", "bye")}

(* A file with a quoted cell, one that begins with a blank line; what an   *)
(* operator may write into a cell.                                         *)
ImportFiles ==
  {<<<<"p", ",", "u", ",", "a">>, <<"d", ",", ",", "q", ",", "q", "q", "q">>,
     <<"d", ",", "h", ",", "b">>>>,
   <<<<>>, <<"p", ",", "a">>, <<"d", ",", "b">>>>}
CellValues == {<<>>, <<"h">>, <<",", "q">>}
-----------------------------------------------------------------------------

Dispatching ==
  INSTANCE OutboxDispatch WITH
    Attempts <- {1}, Workers <- Processes, MaxTries <- 2, MaxCrashes <- 1,
    Replies <- {"accepted", "lost", "refused"}, SlowLease <- FALSE, calling <- v1, evidence <- v2,
    jobId <- v3, marker <- v4, outbox <- v5, pc <- v6, ev <- v7, loaded <- v8, crashes <- v9,
    live <- v10, dials <- v11

Delivery ==
  INSTANCE ActionDelivery WITH
    Actions <- {"a1"}, Workers <- Processes, MaxAttempts <- 2, MaxFaults <- 1,
    SlowDelivery <- FALSE, node <- v1, request <- v2, row <- v3, worker <- v4, keys <- v5,
    effects <- v6, unsure <- v7, faults <- v8

Scheduling ==
  INSTANCE TaskScheduling WITH
    To <- <<"a", "a">>, Whitelist <- {}, Limit <- 1, BatchSize <- 1, Slots <- 3, StartTime <- 2,
    EndTime <- 0, Offered <- {0}, task <- v1, blocked <- v2, now <- v3, worker <- v4, batch <- v5,
    ticked <- v6

Listing ==
  INSTANCE TaskListing WITH
    MaxTasks <- 3, MaxChanges <- 1, PageSize <- 1, rows <- v1, made <- v2, grants <- v3,
    bypass <- v4, walk <- v5, steady <- v6, changes <- v7

Events ==
  INSTANCE ProviderEvents WITH
    Attempts <- {"a", "b"}, Bodies <- JobBodies, MaxEvents <- 2, MaxCores <- 2, dialled <- v1,
    committed <- v2, core <- v3, sent <- v4, accepted <- v5, recorded <- v6

Library ==
  INSTANCE FlowLibrary WITH
    Operators <- Operators, Drafts <- Drafts, MaxVersion <- 1, MaxTasks <- 1, MaxConfig <- 2,
    flow <- v1, versions <- v2, tasks <- v3, scenario <- v4, req <- v5, seen <- v6,
    overtaken <- v7

Voices ==
  INSTANCE VoiceClones WITH
    Operators <- Operators, Models <- {"qwen", "cosyvoice"}, Fallback <- FALSE, MaxVoices <- 2,
    MaxTries <- 2, row <- v1, source <- v2, preview <- v3, cloud <- v4, at <- v5, seen <- v6,
    voice <- v7, heard <- v8, maker <- v9, tries <- v10, raced <- v11

Knowledge ==
  INSTANCE KnowledgeBase WITH
    Bases <- {"k1", "k2"}, Shipped <- {"k1"}, Texts <- Documents, Uploads <- {"u1", "u2"},
    Keywords <- 2, TopK <- 2, stored <- v1, upload <- v2, asked <- v3, hits <- v4, answer <- v5

Review ==
  INSTANCE CallReview WITH
    Operators <- Operators, MaxChanges <- 4, MaxCallbacks <- 1, task <- v1, analysis <- v2,
    ticket <- v3, writing <- v4, callbacks <- v5, changes <- v6

Metering ==
  INSTANCE UsageMetering WITH
    Callers <- {"c1", "c2"}, Keys <- {"k1", "k2"}, Buckets <- {"b1", "b2"}, MaxQuantity <- 1,
    MaxRequests <- 3, tenant <- v1, events <- v2, aggregate <- v3, request <- v4, made <- v5,
    told <- v6

Users ==
  INSTANCE UserProjection WITH
    Operators <- Operators, MaxIds <- 2, MaxLocalFaults <- 0, row <- v1, remote <- v2, ids <- v3,
    op <- v4, faults <- v5, unsure <- v6, crossed <- v7

Sessions ==
  INSTANCE UserSessions WITH
    Tabs <- {"t1", "t2"}, PerTab <- 1, MaxTokens <- 2, MaxResets <- 1, row <- v1, born <- v2,
    spent <- v3, issued <- v4, user <- v5, password <- v6, resetting <- v7, jar <- v8,
    access <- v9, req <- v10, call <- v11, crossed <- v12, raced <- v13

Roles ==
  INSTANCE RoleMap WITH
    Roles <- {"editor"}, Processes <- {"p1", "p2"}, Requests <- DOMAIN RequestHandler,
    Handler <- RequestHandler, MaxChanges <- 3, table <- v1, assigned <- v2, map <- v3, req <- v4,
    changes <- v5, behind <- v6

Reports ==
  INSTANCE TaskReports WITH
    Turns <- 2, MaxTries <- 3, at <- v1, try <- v2, inFlight <- v3, transcript <- v4,
    closed <- v5, outcome <- v6, givenUp <- v7

Audio ==
  INSTANCE CallerAudio WITH
    Frames <- 4, Burst <- 2, SpeechConfirm <- 2, SilenceConfirm <- 2, MinSpeech <- 3,
    PreBuffer <- 2, ExtraSilence <- 1, MinAnalysis <- 2, Window <- 3, BargeMin <- 2,
    BargeHangover <- 2, channel <- v1, heard <- v2, speaking <- v3, reference <- v4, guard <- v5,
    failOpen <- v6, held <- v7, bargeVoice <- v8, bargeLow <- v9, vad <- v10, fed <- v11,
    sent <- v12, dropped <- v13, discarded <- v14

Recognition ==
  INSTANCE SpeechToText WITH
    Utterances <- 2, FramesEach <- 1, InFlight <- 2, utterance <- v1, spoken <- v2, rx <- v3,
    task <- v4, runSent <- v5, started <- v6, pending <- v7, text <- v8, local <- v9,
    rescue <- v10, waiter <- v11, flush <- v12, open <- v13, closed <- v14, server <- v15,
    inbox <- v16, finals <- v17, carried <- v18, owed <- v19

Local ==
  INSTANCE LocalRecognition WITH
    MaxFrames <- 3, ChunkInterval <- 2, Kept <- 2, vad <- v1, conn <- v2, speaking <- v3,
    buffered <- v4, spoken <- v5, utterance <- v6, wire <- v7, srv <- v8, results <- v9,
    heard <- v10

SpeechFile ==
  INSTANCE SpeechFiles WITH
    Uploads <- {"u"}, Streams <- {"s", "t"}, Embeddings <- {"e", "f"}, Segments <- 1,
    Permits <- 1, HasVad <- TRUE, HasPunctuation <- TRUE, stage <- v1, call <- v2, files <- v3,
    left <- v4, told <- v5, threads <- v6, free <- v7, embedding <- v8, lock <- v9, loads <- v10,
    gone <- v11

Generating ==
  INSTANCE Generation WITH
    MaxTurns <- 3, MaxCalls <- 2, Window <- 2, Statuses <- {200, 500}, pc <- v1, turn <- v2,
    history <- v3, request <- v4, informed <- v5, agg <- v6, calls <- v7, ran <- v8,
    escalated <- v9, asked <- v10, spoken <- v11

Execution ==
  INSTANCE FlowExecution WITH
    Nodes <- DOMAIN NodeKind, Kind <- NodeKind, Entry <- "start", Edges <- FlowEdges,
    Intents <- {"yes", "no"}, Fallback <- "else", StepLimit <- 5, MaxRepair <- 2, MaxNoMatch <- 1,
    MaxNoInput <- 1, MaxRetries <- 1, node <- v1, phase <- v2, steps <- v3, ended <- v4,
    state <- v5, resolved <- v6, generation <- v7, outcome <- v8, latest <- v9

Synthesis ==
  INSTANCE SynthesisBridge WITH
    Clients <- {"cosyvoice", "qwen"}, Runs <- 2, MaxAudio <- 1, client <- v1, run <- v2,
    child <- v3, cancelReq <- v4, result <- v5, asked <- v6, cancelled <- v7, stopped <- v8,
    thread <- v9, queue <- v10, audio <- v11, answered <- v12, handle <- v13, twice <- v14

Esl ==
  INSTANCE SharedEsl WITH
    Calls <- {"a", "b"}, MaxCommands <- 3, MaxConns <- 2, client <- v1, conn <- v2, made <- v3,
    asking <- v4, held <- v5, command <- v6, issued <- v7, awaited <- v8, pipe <- v9,
    replies <- v10, ran <- v11, late <- v12

Command ==
  INSTANCE EslCommand WITH
    Kind <- "bgapi", Bodies <- CommandBodies, MaxHeader <- 6, MaxBody <- 4, net <- v1, sent <- v2,
    server <- v3, toServer <- v4, linked <- v5, buffer <- v6, pending <- v7, state <- v8,
    outcome <- v9, read <- v10, ran <- v11

WebCall ==
  INSTANCE BrowserCall WITH
    Calls <- {1, 2}, MaxQueue <- 1, Hasty <- TRUE, state <- v1, stage <- v2, live <- v3,
    mic <- v4, recorder <- v5, socket <- v6, client <- v7, context <- v8, queue <- v9,
    draining <- v10, ending <- v11, clipped <- v12, hasty <- v13

WebSpeech ==
  INSTANCE BrowserSpeech WITH
    Texts <- {1, 2}, Chunks <- 1, InFlight <- 1, ui <- v1, phase <- v2, sock <- v3, busy <- v4,
    clientRef <- v5, up <- v6, down <- v7, synth <- v8, queue <- v9, stopped <- v10

Listening ==
  INSTANCE BrowserListening WITH
    MaxSockets <- 4, MaxRetries <- 2, ui <- v1, opened <- v2, sock <- v3, ws <- v4, timer <- v5,
    retryCount <- v6, reconnectTimer <- v7, intentional <- v8, start <- v9, mic <- v10,
    speaking <- v11, voice <- v12, news <- v13, retried <- v14

Debug ==
  INSTANCE FlowDebug WITH
    MaxRuns <- 2, MaxNews <- 1, panel <- v1, ui <- v2, run <- v3, saving <- v4, sock <- v5,
    held <- v6, session <- v7, news <- v8, shown <- v9, stray <- v10

Editor ==
  INSTANCE FlowEditor WITH
    MaxEdits <- 1, MaxHistory <- 2, MaxSaves <- 2, store <- v1, history <- v2, historyIndex <- v3,
    edits <- v4, lastSaved <- v5, initial <- v6, status <- v7, timer <- v8, saves <- v9,
    server <- v10, published <- v11, publish <- v12, fresh <- v13, shown <- v14, crossed <- v15

Graph ==
  INSTANCE FlowGraph WITH
    MaxNodes <- 4, MaxEdges <- 3, nodes <- v1, edges <- v2, made <- v3, place <- v4, tidy <- v5,
    looped <- v6

Settings ==
  INSTANCE SettingsPage WITH
    MaxEdits <- 2, MaxSaves <- 3, InFlight <- 2, MaxFailures <- 1, Numbers <- {"n"}, server <- v1,
    page <- v2, ready <- v3, suppress <- v4, skip <- v5, last <- v6, timer <- v7, flight <- v8,
    edits <- v9, saves <- v10, failures <- v11, crossed <- v12

Import ==
  INSTANCE TaskImport WITH
    Files <- ImportFiles, Values <- CellValues, MaxEdits <- 2, MaxBatches <- 1, reading <- v1,
    name <- v2, text <- v3, rows <- v4, edits <- v5, batch <- v6, created <- v7

-----------------------------------------------------------------------------
(* The variables a component with n of them leaves alone.                   *)
Above18 == <<v19>>
Above17 == <<v18, Above18>>
Above16 == <<v17, Above17>>
Above15 == <<v16, Above16>>
Above14 == <<v15, Above15>>
Above13 == <<v14, Above14>>
Above12 == <<v13, Above13>>
Above11 == <<v12, Above12>>
Above10 == <<v11, Above11>>
Above9 == <<v10, Above10>>
Above8 == <<v9, Above9>>
Above7 == <<v8, Above8>>
Above6 == <<v7, Above7>>
Above5 == <<v6, Above6>>

(* They never hold anything.                                               *)
Unused(n) ==
  /\ n < 6 => v6 = None
  /\ n < 7 => v7 = None
  /\ n < 8 => v8 = None
  /\ n < 9 => v9 = None
  /\ n < 10 => v10 = None
  /\ n < 11 => v11 = None
  /\ n < 12 => v12 = None
  /\ n < 13 => v13 = None
  /\ n < 14 => v14 = None
  /\ n < 15 => v15 = None
  /\ n < 16 => v16 = None
  /\ n < 17 => v17 = None
  /\ n < 18 => v18 = None
  /\ n < 19 => v19 = None

vars == <<component, v1, v2, v3, v4, v5, Above5>>

Init ==
  /\ component \in Components
  /\ \/ component = "dispatching" /\ Dispatching!DispatchInit /\ Unused(11)
     \/ component = "delivery" /\ Delivery!Init /\ Unused(8)
     \/ component = "scheduling" /\ Scheduling!Init /\ Unused(6)
     \/ component = "listing" /\ Listing!Init /\ Unused(7)
     \/ component = "events" /\ Events!Init /\ Unused(6)
     \/ component = "library" /\ Library!Init /\ Unused(7)
     \/ component = "voices" /\ Voices!Init /\ Unused(11)
     \/ component = "knowledge" /\ Knowledge!Init /\ Unused(5)
     \/ component = "review" /\ Review!Init /\ Unused(6)
     \/ component = "metering" /\ Metering!Init /\ Unused(6)
     \/ component = "users" /\ Users!Init /\ Unused(7)
     \/ component = "sessions" /\ Sessions!Init /\ Unused(13)
     \/ component = "roles" /\ Roles!Init /\ Unused(6)
     \/ component = "reports" /\ Reports!Init /\ Unused(7)
     \/ component = "audio" /\ Audio!Init /\ Unused(14)
     \/ component = "recognition" /\ Recognition!Init /\ Unused(19)
     \/ component = "local" /\ Local!Init /\ Unused(10)
     \/ component = "files" /\ SpeechFile!Init /\ Unused(11)
     \/ component = "generation" /\ Generating!Init /\ Unused(11)
     \/ component = "execution" /\ Execution!Init /\ Unused(9)
     \/ component = "synthesis" /\ Synthesis!Init /\ Unused(14)
     \/ component = "esl" /\ Esl!Init /\ Unused(12)
     \/ component = "command" /\ Command!Init /\ Unused(11)
     \/ component = "browsercall" /\ WebCall!Init /\ Unused(13)
     \/ component = "browserspeech" /\ WebSpeech!Init /\ Unused(10)
     \/ component = "browserlistening" /\ Listening!Init /\ Unused(14)
     \/ component = "debug" /\ Debug!Init /\ Unused(10)
     \/ component = "editor" /\ Editor!Init /\ Unused(15)
     \/ component = "graph" /\ Graph!Init /\ Unused(6)
     \/ component = "settings" /\ Settings!Init /\ Unused(12)
     \/ component = "import" /\ Import!Init /\ Unused(7)

Next ==
  /\ UNCHANGED component
  /\ \/ component = "dispatching" /\ Dispatching!DispatchNext /\ UNCHANGED Above11
     \/ component = "delivery" /\ Delivery!Next /\ UNCHANGED Above8
     \/ component = "scheduling" /\ Scheduling!Next /\ UNCHANGED Above6
     \/ component = "listing" /\ Listing!Next /\ UNCHANGED Above7
     \/ component = "events" /\ Events!Next /\ UNCHANGED Above6
     \/ component = "library" /\ Library!Next /\ UNCHANGED Above7
     \/ component = "voices" /\ Voices!Next /\ UNCHANGED Above11
     \/ component = "knowledge" /\ Knowledge!Next /\ UNCHANGED Above5
     \/ component = "review" /\ Review!Next /\ UNCHANGED Above6
     \/ component = "metering" /\ Metering!Next /\ UNCHANGED Above6
     \/ component = "users" /\ Users!Next /\ UNCHANGED Above7
     \/ component = "sessions" /\ Sessions!Next /\ UNCHANGED Above13
     \/ component = "roles" /\ Roles!Next /\ UNCHANGED Above6
     \/ component = "reports" /\ Reports!Next /\ UNCHANGED Above7
     \/ component = "audio" /\ Audio!Next /\ UNCHANGED Above14
     \/ component = "recognition" /\ Recognition!Next
     \/ component = "local" /\ Local!Next /\ UNCHANGED Above10
     \/ component = "files" /\ SpeechFile!Next /\ UNCHANGED Above11
     \/ component = "generation" /\ Generating!Next /\ UNCHANGED Above11
     \/ component = "execution" /\ Execution!Next /\ UNCHANGED Above9
     \/ component = "synthesis" /\ Synthesis!Next /\ UNCHANGED Above14
     \/ component = "esl" /\ Esl!Next /\ UNCHANGED Above12
     \/ component = "command" /\ Command!Next /\ UNCHANGED Above11
     \/ component = "browsercall" /\ WebCall!Next /\ UNCHANGED Above13
     \/ component = "browserspeech" /\ WebSpeech!Next /\ UNCHANGED Above10
     \/ component = "browserlistening" /\ Listening!Next /\ UNCHANGED Above14
     \/ component = "debug" /\ Debug!Next /\ UNCHANGED Above10
     \/ component = "editor" /\ Editor!Next /\ UNCHANGED Above15
     \/ component = "graph" /\ Graph!Next /\ UNCHANGED Above6
     \/ component = "settings" /\ Settings!Next /\ UNCHANGED Above12
     \/ component = "import" /\ Import!Next /\ UNCHANGED Above7

Spec == Init /\ [][Next]_vars

(* What goes on of itself, whatever callers, operators and peers do: awaits *)
(* return, timers fire, models and servers that were asked answer.         *)
StepsOfOne ==
  \/ component = "scheduling" /\ Scheduling!Progress /\ UNCHANGED Above6
  \/ component = "recognition" /\ Recognition!Progress
  \/ component = "files" /\ SpeechFile!Progress /\ UNCHANGED Above11
  \/ component = "execution" /\ Execution!Progress /\ UNCHANGED Above9
  \/ component = "synthesis" /\ Synthesis!Progress /\ UNCHANGED Above14
  \/ component = "esl" /\ Esl!Exchange /\ UNCHANGED Above12
  \/ component = "browserspeech" /\ WebSpeech!Progress /\ UNCHANGED Above10
  \/ component = "browserlistening" /\ Listening!Progress /\ UNCHANGED Above14

(* Two that may keep each other busy have a part each: the two outbox      *)
(* workers, two tests of a flow, the awaits and the timers of a call.      *)
Progress(part) ==
  /\ UNCHANGED component
  /\ \/ component = "dispatching" /\ Dispatching!Progress(part) /\ UNCHANGED Above11
     \/ component = "delivery" /\ Delivery!WorkerStep(part) /\ UNCHANGED Above8
     \/ component = "browsercall" /\ part = "p1" /\ WebCall!Awaits /\ UNCHANGED Above13
     \/ component = "browsercall" /\ part = "p2" /\ WebCall!Timers /\ UNCHANGED Above13
     \/ component = "debug" /\ Debug!Progress(IF part = "p1" THEN 1 ELSE 2) /\ UNCHANGED Above10
     \/ part = "p1" /\ StepsOfOne

FairSpec == Spec /\ \A part \in Processes : WF_vars(Progress(part))

-----------------------------------------------------------------------------
(* Every component's rows, memory and messages keep their types.           *)
ComponentsTypeOK ==
  /\ component = "dispatching" => Dispatching!DispatchTypeOK
  /\ component = "delivery" => Delivery!TypeOK
  /\ component = "scheduling" => Scheduling!TypeOK
  /\ component = "listing" => Listing!TypeOK
  /\ component = "events" => Events!TypeOK
  /\ component = "library" => Library!TypeOK
  /\ component = "voices" => Voices!TypeOK
  /\ component = "knowledge" => Knowledge!TypeOK
  /\ component = "review" => Review!TypeOK
  /\ component = "metering" => Metering!TypeOK
  /\ component = "users" => Users!TypeOK
  /\ component = "sessions" => Sessions!TypeOK
  /\ component = "roles" => Roles!TypeOK
  /\ component = "reports" => Reports!TypeOK
  /\ component = "audio" => Audio!TypeOK
  /\ component = "recognition" => Recognition!TypeOK
  /\ component = "local" => Local!TypeOK
  /\ component = "files" => SpeechFile!TypeOK
  /\ component = "generation" => Generating!TypeOK
  /\ component = "execution" => Execution!TypeOK
  /\ component = "synthesis" => Synthesis!TypeOK
  /\ component = "esl" => Esl!TypeOK
  /\ component = "command" => Command!TypeOK
  /\ component = "browsercall" => WebCall!TypeOK
  /\ component = "browserspeech" => WebSpeech!TypeOK
  /\ component = "browserlistening" => Listening!TypeOK
  /\ component = "debug" => Debug!TypeOK
  /\ component = "editor" => Editor!TypeOK
  /\ component = "graph" => Graph!TypeOK
  /\ component = "settings" => Settings!TypeOK
  /\ component = "import" => Import!TypeOK

(* What is retried, redelivered or asked for by two at once is done once,  *)
(* or its repetition can be told: webhooks and texts by their key, events  *)
(* and metered use by their identifier, sentences of the caller, refresh   *)
(* tokens, the first load of a model, tasks in a walk of the list, calls   *)
(* of a callee in a day, conversations of a browser.                       *)
DoneOnce ==
  /\ component = "delivery" => Delivery!RepeatsAreKnown
  /\ component = "events" => Events!EachEventRecordedOnce
  /\ component = "metering" => Metering!MeteredOnce
  /\ component = "recognition" => Recognition!NothingTwice
  /\ component = "local" => Local!OneFinalPerUtterance
  /\ component = "sessions" => Sessions!TokenSpentOnce
  /\ component = "files" => SpeechFile!EmbedModelLoadedOnce
  /\ component = "listing" => Listing!WalkShowsEachOnce
  /\ component = "scheduling" => Scheduling!DailyLimitHolds
  /\ component = "browsercall" => WebCall!OneCallAtATime

(* What arrives in pieces is passed on whole and in order: the transcript, *)
(* the caller's frames and the segments cut from them, the sentences made  *)
(* of them, commands and answers of FreeSWITCH, the events of a stream,    *)
(* the last words of a call, the tasks of an import, the uploads of a base.*)
KeptInOrder ==
  /\ component = "reports" => Reports!TranscriptFaithful
  /\ component = "audio" => /\ Audio!HeardInOrder /\ Audio!SegmentsWhole
                            /\ Audio!LongSpeechIsHeard /\ Audio!HeldBriefly
  /\ component = "recognition" => Recognition!OneUtterancePerFinal
  /\ component = "local" => Local!FinalsKeepToUtterances
  /\ component = "esl" => Esl!CallsKeepTheirOrder
  /\ component = "command" => Command!FramesAsSent
  /\ component = "files" => SpeechFile!StreamsAreWhole
  /\ component = "browsercall" => WebCall!LastWordsPlayed
  /\ component = "import" => Import!UrgentFirst
  /\ component = "knowledge" => Knowledge!LaterUploadIsNewer

(* An answer goes with its question and a result with what it is of: the   *)
(* events and the outcomes of calls and commands, previews of voices, tool *)
(* calls and their results, the caller's answer and the node it moves,     *)
(* passages and the best of all bases, a test and its conversation.        *)
RightAnswers ==
  /\ component = "events" => Events!EventsKeepToTheirCall
  /\ component = "esl" => Esl!AnswersMatch
  /\ component = "command" => Command!OutcomesAreTrue
  /\ component = "voices" => Voices!PreviewIsOfItsVoice
  /\ component = "generation" => /\ Generating!RequestsPairUp /\ Generating!QuestionIsAsked
                                 /\ Generating!ToolsRunAsCalled
  /\ component = "execution" => Execution!CommitsLatestAnswer
  /\ component = "knowledge" => Knowledge!MergeIsGlobal
  /\ component = "debug" => Debug!FreshConversation

(* Two records of one thing agree once nothing is under way: users here    *)
(* and in the identity service, roles in the table and in memory, what a   *)
(* page shows and what is stored, a list and its details, a finished task  *)
(* and its marks, an action and its event, a voice and its enrolment.      *)
CopiesAgree ==
  /\ component = "users" => Users!ProjectionAgrees /\ Users!NoGhosts
  /\ component = "roles" => Roles!MapIsCurrent
  /\ component = "editor" => Editor!QuietIsSaved
  /\ component = "settings" => Settings!QuietIsStored /\ Settings!AutosaveKeepsNumbers
  /\ component = "listing" => Listing!ListAgreesWithDetails
  /\ component = "review" => Review!FinishedIsMarked
  /\ component = "reports" => Reports!FinishedIsClosed
  /\ component = "delivery" => Delivery!NothingSilent
  /\ component = "voices" => Voices!ConfirmedVoiceIsEnrolled

(* Only whole, published flows are run, and what the canvas makes is one:  *)
(* versions are valid and outlive the tasks they are locked by, scenarios  *)
(* point at published flows, edges join nodes, layouts read downwards.     *)
OnlyWholeFlowsRun ==
  /\ component = "library" => /\ Library!LockedVersionsLast /\ Library!VersionsAreValid
                              /\ Library!PublishedIsExecuted /\ Library!DefaultFlowIsPublished
  /\ component = "graph" => Graph!EdgesJoinNodes /\ Graph!LayoutDescends

(* What ends leaves nothing behind: threads and handles of a synthesis and *)
(* a consumer that waits for them, generations, files, permits and threads *)
(* of recognition, voices in the cloud, audio and sockets of a browser,    *)
(* sessions after a reset, numbers in the headers kept of an event.        *)
NothingLeftBehind ==
  /\ component = "synthesis" => /\ Synthesis!ThreadsJoined /\ Synthesis!InterruptReaches
                                /\ Synthesis!ConsumerIsFed
  /\ component = "execution" => Execution!NoOrphanGeneration
  /\ component = "files" => SpeechFile!NothingLeaks
  /\ component = "voices" => Voices!VoicesAccountedFor /\ Voices!RemovedLeavesNothing
  /\ component = "browserspeech" => WebSpeech!IdleIsSilent
  /\ component = "browsercall" => WebCall!OverIsSilentOnceUp
  /\ component = "browserlistening" => /\ Listening!StoppedStaysClosed
                                       /\ Listening!ListeningHasMicrophoneAtFirst
  /\ component = "sessions" => Sessions!ResetEndsSessions /\ Sessions!OneTabStaysIn
  /\ component = "events" => Events!NumberStaysOut

(* What a step may never do: move an action that is settled, publish what  *)
(* was not shown, cut off the rest of a flow with an edit, change another  *)
(* row of an import.                                                       *)
StepsKeepTheRest ==
  [][ /\ component = "delivery" => Delivery!SettledForGood
      /\ component = "editor" => Editor!PublishedWasShown
      /\ component = "graph" => Graph!EditsKeepPaths
      /\ component = "import" => Import!EditsKeepOtherRows ]_vars

AtRest ==
  /\ component = "dispatching" => Dispatching!DispatchesSettled
  /\ component = "delivery" => Delivery!ActionsSettled
  /\ component = "scheduling" => Scheduling!DueAreDispatched
  /\ component = "recognition" => Recognition!OwedIsReported
  /\ component = "files" => SpeechFile!RequestsEnded
  /\ component = "execution" => Execution!WalkEnded
  /\ component = "synthesis" => Synthesis!SynthesisEnded
  /\ component = "esl" => Esl!CommandsEnded
  /\ component = "browsercall" => WebCall!NotDialling
  /\ component = "browserspeech" => WebSpeech!SpeechReturned
  /\ component = "browserlistening" => Listening!ConnectionSettled
  /\ component = "debug" => Debug!LetGoSessionsEnded

(* Everything that was begun comes to an end, through crashes, lost answers, *)
(* time-outs and interrupts: dispatches, deliveries, due tasks, requests,  *)
(* walks of a flow, syntheses, commands, calls and texts of a browser,     *)
(* sessions nobody holds; and a sentence the recogniser still owes when an *)
(* utterance ends is heard.                                                *)
EverythingSettles == []<>AtRest
=============================================================================
