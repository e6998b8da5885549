------------------------------ MODULE ServiceProofs ------------------------------
(***************************************************************************)
(* Proofs about the services of the API that are checked together.         *)
(*                                                                         *)
(* A component is a module of its own; it is instantiated here, and every  *)
(* section is about the specification of its component alone.  Variables   *)
(* that two components name alike are declared once: no theorem speaks of  *)
(* two components.                                                         *)
(*                                                                         *)
(* Each section states the invariant that is inductive, what a step of     *)
(* each kind does to it, and the theorem.                                  *)
(***************************************************************************)
EXTENDS Integers, FiniteSets, Sequences, FiniteSetTheorems, TLAPS

CONSTANTS Operators, Drafts, MaxVersion, MaxTasks, MaxConfig, Tabs, PerTab,
          MaxTokens, MaxResets, To, Whitelist, Limit, BatchSize, Slots,
          StartTime, EndTime, Offered, Roles, Processes, Requests, Handler,
          MaxChanges, MaxIds, MaxLocalFaults, MaxCallbacks, Models, Fallback,
          MaxVoices, MaxTries, Bases, Shipped, Texts, Uploads, Keywords, TopK

VARIABLES flow, versions, tasks, scenario, req, seen, overtaken, row, born,
          spent, issued, user, password, resetting, jar, access, call,
          crossed, raced, task, blocked, now, worker, batch, ticked, table,
          assigned, map, changes, behind, remote, ids, op, faults, unsure,
          analysis, ticket, writing, callbacks, source, preview, cloud, at,
          voice, heard, maker, tries, stored, upload, asked, hits, answer

-----------------------------------------------------------------------------
(***************************************************************************)
(* Flows and scenarios (FlowLibrary.tla: task-flows.service.ts and         *)
(* scenarios.service.ts).  Requests read, validate and write in separate   *)
(* steps; the invariant says what a request may still rely on of what it   *)
(* has read.                                                               *)
(***************************************************************************)
Library == INSTANCE FlowLibrary

(* What a request has read is of the kind its next step uses, and a flow it *)
(* saw published has a version for as long as the flow is there.            *)
LibrarySeen ==
  /\ DOMAIN seen = Operators
  /\ \A o \in Operators :
       /\ req[o] = "update" => seen[o] \in [status : {"draft", "published"}]
       /\ req[o] = "publish" => seen[o] \in [draft : Drafts, config : 0 .. MaxConfig]
       /\ req[o] \in {"scenario", "materialize", "create"} =>
            /\ seen[o] \in [wants : BOOLEAN]
            /\ seen[o].wants /\ Library!HasFlow => flow.version > 0
       /\ req[o] = "scenario" => scenario # Library!Absent

LibraryInv ==
  /\ Library!TypeOK
  /\ DOMAIN versions = Library!Numbers
  /\ LibrarySeen
  /\ Library!HasFlow /\ flow.status = "published" => flow.version > 0
  /\ Library!LockedVersionsLast /\ Library!VersionsAreValid
  /\ Library!PublishedIsExecuted /\ Library!DefaultFlowIsPublished

LibraryBounds == MaxVersion \in Nat /\ MaxConfig \in Nat \ {0}

LEMMA LibraryInit == ASSUME LibraryBounds, Library!Init PROVE LibraryInv
<1>. USE DEF LibraryBounds, Library!Init, Library!Row, Library!Absent
<1>1. Library!TypeOK
  BY DEF Library!TypeOK, Library!Numbers, Library!Steps
<1>2. LibrarySeen
  BY DEF LibrarySeen, Library!HasFlow
<1>. QED
  BY <1>1, <1>2 DEF LibraryInv, Library!LockedVersionsLast, Library!VersionsAreValid,
     Library!PublishedIsExecuted, Library!DefaultFlowIsPublished, Library!Published,
     Library!HasFlow, Library!Numbers

LEMMA LibraryDone ==
  ASSUME LibraryInv, NEW o \in Operators, Library!Done(o)
  PROVE  /\ req' \in [Operators -> Library!Steps] /\ DOMAIN seen' = Operators
         /\ req'[o] = "idle"
         /\ \A p \in Operators \ {o} : req'[p] = req[p] /\ seen'[p] = seen[p]
BY DEF LibraryInv, LibrarySeen, Library!TypeOK, Library!Done, Library!Steps

(* What the writes of the others can take from what a request has read.    *)
LEMMA LibrarySeenKept ==
  ASSUME LibrarySeen, DOMAIN seen' = Operators, NEW o \in Operators, req'[o] = "idle",
         \A p \in Operators \ {o} : req'[p] = req[p] /\ seen'[p] = seen[p],
         Library!HasFlow' => Library!HasFlow /\ flow'.version \in Nat /\ flow.version \in Nat
                             /\ flow'.version >= flow.version,
         scenario # Library!Absent => scenario' # Library!Absent
  PROVE  LibrarySeen'
BY DEF LibrarySeen

(* A step that writes none of the tables.                                  *)
LEMMA LibraryUnwritten ==
  ASSUME LibraryInv, UNCHANGED <<flow, versions, tasks, scenario, overtaken>>,
         req' \in [Operators -> Library!Steps], LibrarySeen'
  PROVE  LibraryInv'
<1>1. Library!TypeOK'
  BY DEF LibraryInv, Library!TypeOK
<1>. QED
  BY <1>1 DEF LibraryInv, Library!LockedVersionsLast, Library!VersionsAreValid,
     Library!PublishedIsExecuted, Library!DefaultFlowIsPublished, Library!Published,
     Library!HasFlow, Library!Numbers

LEMMA LibraryRead ==
  ASSUME LibraryBounds, LibraryInv, NEW o \in Operators,
         NEW what \in {"update", "publish", "remove"}, Library!Read(o, what)
  PROVE  LibraryInv'
<1>. USE DEF Library!Read
<1>1. req' \in [Operators -> Library!Steps]
  BY DEF LibraryInv, Library!TypeOK, Library!Steps
<1>2. LibrarySeen'
  <2>1. Library!Config \in 0 .. MaxConfig
    BY DEF LibraryBounds, LibraryInv, Library!TypeOK, Library!Config, Library!NoScenario,
       Library!Absent
  <2>2. flow \in [status : {"draft", "published"}, draft : Drafts, uses : BOOLEAN,
                  version : 0 .. MaxVersion]
    BY DEF LibraryInv, Library!TypeOK, Library!HasFlow
  <2>3. CASE what = "update"
    BY <2>2, <2>3 DEF LibraryInv, LibrarySeen, Library!HasFlow, Library!TypeOK
  <2>4. CASE what = "publish"
    <3>1. seen'[o] = [draft |-> flow.draft,
                      config |-> IF flow.uses THEN Library!Config ELSE Library!NoScenario]
      BY <2>4 DEF LibraryInv, LibrarySeen
    <3>2. seen'[o] \in [draft : Drafts, config : 0 .. MaxConfig]
      BY <2>1, <2>2, <3>1 DEF Library!NoScenario, LibraryBounds
    <3>. QED
      BY <2>4, <3>2 DEF LibraryInv, LibrarySeen, Library!HasFlow, Library!TypeOK
  <2>5. CASE what = "remove"
    BY <2>5 DEF LibraryInv, LibrarySeen, Library!HasFlow, Library!TypeOK
  <2>. QED
    BY <2>3, <2>4, <2>5
<1>. QED
  BY <1>1, <1>2, LibraryUnwritten

LEMMA LibraryUpdate ==
  ASSUME LibraryBounds, LibraryInv, NEW o \in Operators, NEW d \in Drafts, NEW uses \in BOOLEAN,
         Library!Update(o, d, uses)
  PROVE  LibraryInv'
<1>1. /\ req[o] = "update" /\ Library!Done(o) /\ UNCHANGED <<versions, tasks, scenario>>
      /\ seen[o].status \in {"draft", "published"}
  BY DEF Library!Update, LibraryInv, LibrarySeen
<1>2. CASE ~Library!HasFlow
  <2>1. UNCHANGED <<flow, overtaken>>
    BY <1>2 DEF Library!Update
  <2>2. LibrarySeen'
    BY <1>1, <1>2, <2>1, LibraryDone, LibrarySeenKept DEF LibraryInv, Library!HasFlow
  <2>. QED
    BY <1>1, <2>1, <2>2, LibraryDone, LibraryUnwritten
<1>3. CASE Library!HasFlow
  <2>1. /\ flow' = [flow EXCEPT !.draft = d, !.uses = uses,
                        !.status = IF seen[o].status = "published" THEN "draft" ELSE @]
        /\ overtaken' = IF seen[o].status = "draft" /\ flow.status = "published"
                        THEN overtaken \cup {0} ELSE overtaken
    BY <1>3 DEF Library!Update
  <2>2. flow \in [status : {"draft", "published"}, draft : Drafts, uses : BOOLEAN,
                  version : 0 .. MaxVersion]
    BY <1>3 DEF LibraryInv, Library!TypeOK, Library!HasFlow
  <2>3. /\ flow' \in [status : {"draft", "published"}, draft : Drafts, uses : BOOLEAN,
                      version : 0 .. MaxVersion]
        /\ flow'.version = flow.version
        /\ flow'.status = "published" => flow.status = "published" /\ 0 \in overtaken'
    BY <1>1, <2>1, <2>2
  <2>4. Library!TypeOK'
    BY <1>1, <2>3, LibraryDone DEF LibraryInv, Library!TypeOK
  <2>5. flow'.version \in Nat /\ flow.version \in Nat /\ flow'.version >= flow.version
    BY <2>2, <2>3 DEF LibraryBounds
  <2>6. LibrarySeen'
    BY <1>1, <1>3, <2>5, LibraryDone, LibrarySeenKept DEF LibraryInv
  <2>7. Library!VersionsAreValid'
    BY <1>1, <2>1 DEF LibraryInv, Library!VersionsAreValid, Library!Published, Library!Numbers
  <2>8. Library!LockedVersionsLast'
    BY <1>1 DEF LibraryInv, Library!LockedVersionsLast, Library!Published, Library!Numbers
  <2>9. Library!HasFlow'
    BY <2>3 DEF Library!HasFlow, Library!Absent
  <2>10. flow'.status = "published" => flow'.version > 0
    BY <1>3, <2>3 DEF LibraryInv
  <2>11. Library!PublishedIsExecuted'
    BY <2>3 DEF Library!PublishedIsExecuted
  <2>12. Library!DefaultFlowIsPublished'
    BY <1>1, <2>3, <2>9 DEF LibraryInv, Library!DefaultFlowIsPublished
  <2>. QED
    BY <1>1, <2>4, <2>6, <2>7, <2>8, <2>10, <2>11, <2>12 DEF LibraryInv
<1>. QED
  BY <1>2, <1>3

LEMMA LibraryInvalid ==
  ASSUME LibraryBounds, LibraryInv, NEW o \in Operators, Library!Invalid(o) PROVE LibraryInv'
<1>1. Library!Done(o) /\ UNCHANGED <<flow, versions, tasks, scenario, overtaken>>
  BY DEF Library!Invalid
<1>2. LibrarySeen'
  BY <1>1, LibraryDone, LibrarySeenKept
     DEF LibraryInv, Library!HasFlow, Library!TypeOK, LibraryBounds,
     Library!Absent
<1>. QED
  BY <1>1, <1>2, LibraryDone, LibraryUnwritten

LEMMA LibraryPublish ==
  ASSUME LibraryBounds, LibraryInv, NEW o \in Operators, Library!Publish(o) PROVE LibraryInv'
<1>. DEFINE n == flow.version + 1
<1>1. /\ req[o] = "publish" /\ Library!Done(o) /\ UNCHANGED <<tasks, scenario>>
      /\ Library!Valid(seen[o].draft) /\ seen[o].config \in 0 .. MaxConfig
  BY DEF Library!Publish, Library!Publication, LibraryInv, LibrarySeen
<1>2. CASE ~Library!HasFlow
  <2>1. UNCHANGED <<flow, versions, overtaken>>
    BY <1>2 DEF Library!Publish, Library!Publication
  <2>2. LibrarySeen'
    BY <1>1, <1>2, <2>1, LibraryDone, LibrarySeenKept DEF LibraryInv, Library!HasFlow
  <2>. QED
    BY <1>1, <2>1, <2>2, LibraryDone, LibraryUnwritten
<1>3. CASE Library!HasFlow
  <2>1. /\ flow' = [flow EXCEPT !.status = "published", !.version = @ + 1]
        /\ versions' = [versions EXCEPT ![n] =
               [status |-> "version", draft |-> flow.draft, uses |-> flow.uses,
                snapshot |-> seen[o].config]]
        /\ overtaken' = IF seen[o].draft # flow.draft THEN overtaken \cup {n} ELSE overtaken
        /\ flow.version < MaxVersion
    BY <1>3 DEF Library!Publish, Library!Publication
  <2>2. flow \in [status : {"draft", "published"}, draft : Drafts, uses : BOOLEAN,
                  version : 0 .. MaxVersion]
    BY <1>3 DEF LibraryInv, Library!TypeOK, Library!HasFlow
  <2>3. /\ flow' \in [status : {"draft", "published"}, draft : Drafts, uses : BOOLEAN,
                      version : 0 .. MaxVersion]
        /\ flow'.version = n /\ flow'.draft = flow.draft /\ n \in Library!Numbers
    <3>1. flow.version \in 0 .. MaxVersion /\ MaxVersion \in Nat
      BY <2>2 DEF LibraryBounds
    <3>2. n \in 0 .. MaxVersion /\ n \in Library!Numbers
      BY <2>1, <3>1 DEF Library!Numbers
    <3>3. flow' = [flow EXCEPT !.status = "published", !.version = n]
      BY <2>1
    <3>. HIDE DEF n
    <3>. QED
      BY <2>2, <3>2, <3>3
  <2>4. /\ DOMAIN versions' = Library!Numbers
        /\ versions'[n] = [status |-> "version", draft |-> flow.draft, uses |-> flow.uses,
                           snapshot |-> seen[o].config]
        /\ \A v \in Library!Numbers \ {n} : versions'[v] = versions[v]
    BY <2>1, <2>3 DEF LibraryInv
  <2>5. /\ versions'[n] \in [status : {"version"}, draft : Drafts, uses : BOOLEAN,
                             snapshot : 0 .. MaxConfig]
        /\ versions'[n] # Library!Absent /\ versions'[n].draft = flow.draft
    BY <1>1, <2>2, <2>4 DEF Library!Absent
  <2>. HIDE DEF n
  <2>6. Library!TypeOK'
    BY <1>1, <2>3, <2>4, <2>5, LibraryDone DEF LibraryInv, Library!TypeOK
  <2>7. flow'.version \in Nat /\ flow.version \in Nat /\ flow'.version >= flow.version
        /\ flow'.version > 0
    BY <2>2, <2>3 DEF LibraryBounds, n
  <2>8. LibrarySeen'
    BY <1>1, <1>3, <2>7, LibraryDone, LibrarySeenKept DEF LibraryInv
  <2>9. Library!LockedVersionsLast'
    BY <1>1, <2>4, <2>5 DEF LibraryInv, Library!LockedVersionsLast, Library!Published
  <2>10. Library!VersionsAreValid'
    <3>. SUFFICES ASSUME NEW v \in Library!Numbers, versions'[v] # Library!Absent
                  PROVE  Library!Valid(versions'[v].draft) \/ v \in overtaken'
      BY DEF Library!VersionsAreValid, Library!Published, Library!Numbers, Library!Absent
    <3>1. CASE v = n
      BY <1>1, <2>1, <2>5, <3>1
    <3>2. CASE v # n
      BY <2>1, <2>4, <3>2 DEF LibraryInv, Library!VersionsAreValid, Library!Published
    <3>. QED
      BY <3>1, <3>2
  <2>11. Library!PublishedIsExecuted'
    BY <2>3, <2>5 DEF Library!PublishedIsExecuted, Library!Absent
  <2>12. Library!HasFlow'
    BY <2>3 DEF Library!HasFlow, Library!Absent
  <2>13. Library!DefaultFlowIsPublished'
    BY <2>7, <2>12 DEF Library!DefaultFlowIsPublished
  <2>. QED
    BY <2>4, <2>6, <2>7, <2>8, <2>9, <2>10, <2>11, <2>13 DEF LibraryInv, Library!Numbers
<1>. QED
  BY <1>2, <1>3

LEMMA LibraryRemove ==
  ASSUME LibraryBounds, LibraryInv, NEW o \in Operators,
         Library!RemoveVersions(o) \/ Library!RemoveFlow(o)
  PROVE  LibraryInv'
<1>0. Library!HasFlow => flow.version \in Nat
  BY DEF LibraryInv, Library!TypeOK, Library!HasFlow, LibraryBounds
<1>1. CASE Library!RemoveVersions(o)
  <2>1. UNCHANGED <<flow, versions, tasks, scenario, overtaken>>
    BY <1>1 DEF Library!RemoveVersions
  <2>2. CASE Library!Done(o)
    <3>1. LibrarySeen'
      BY <1>0, <2>1, <2>2, LibraryDone, LibrarySeenKept
         DEF LibraryInv, Library!HasFlow, Library!Absent
    <3>. QED
      BY <2>1, <2>2, <3>1, LibraryDone, LibraryUnwritten
  <2>3. CASE ~Library!Done(o)
    <3>1. /\ req' = [req EXCEPT ![o] = "removing"]
          /\ seen' = [seen EXCEPT ![o] = [gone |-> Library!Published]]
      BY <1>1, <2>3 DEF Library!RemoveVersions
    <3>2. req' \in [Operators -> Library!Steps] /\ LibrarySeen'
      BY <2>1, <3>1 DEF LibraryInv, LibrarySeen, Library!TypeOK, Library!Steps, Library!HasFlow,
         Library!Absent
    <3>. QED
      BY <2>1, <3>2, LibraryUnwritten
  <2>. QED
    BY <2>2, <2>3
<1>2. CASE Library!RemoveFlow(o)
  <2>1. Library!Done(o) /\ UNCHANGED <<tasks, overtaken>>
    BY <1>2 DEF Library!RemoveFlow
  <2>2. CASE UNCHANGED <<flow, versions, scenario>>
    <3>1. LibrarySeen'
      BY <1>0, <2>1, <2>2, LibraryDone, LibrarySeenKept
         DEF LibraryInv, Library!HasFlow, Library!Absent
    <3>. QED
      BY <2>1, <2>2, <3>1, LibraryDone, LibraryUnwritten
  <2>3. CASE ~UNCHANGED <<flow, versions, scenario>>
    <3>1. /\ flow' = Library!Absent /\ tasks = {}
          /\ versions' = [v \in Library!Numbers |-> Library!Absent]
          /\ scenario' = IF scenario = Library!Absent THEN Library!Absent
                         ELSE [scenario EXCEPT !.flow = FALSE]
      BY <1>2, <2>3 DEF Library!RemoveFlow
    <3>2. /\ scenario = Library!Absent => scenario' = Library!Absent
          /\ scenario # Library!Absent =>
               /\ scenario' \in [status : {"active", "inactive"}, config : 1 .. MaxConfig,
                                 flow : BOOLEAN]
               /\ scenario' # Library!Absent /\ scenario'.flow = FALSE
      BY <3>1 DEF LibraryInv, Library!TypeOK, Library!Absent
    <3>3. ~Library!HasFlow'
      BY <3>1 DEF Library!HasFlow, Library!Absent
    <3>4. Library!TypeOK'
      BY <2>1, <3>1, <3>2, LibraryDone
         DEF LibraryInv, Library!TypeOK, Library!Absent, Library!Numbers
    <3>5. LibrarySeen'
      BY <2>1, <3>2, <3>3, LibraryDone, LibrarySeenKept DEF LibraryInv, Library!Absent
    <3>6. Library!LockedVersionsLast' /\ Library!VersionsAreValid'
      BY <2>1, <3>1 DEF Library!LockedVersionsLast, Library!VersionsAreValid, Library!Published,
         Library!Numbers, Library!Absent
    <3>7. Library!PublishedIsExecuted' /\ Library!DefaultFlowIsPublished'
      BY <3>2, <3>3 DEF Library!PublishedIsExecuted, Library!DefaultFlowIsPublished, Library!Absent
    <3>. QED
      BY <3>1, <3>3, <3>4, <3>5, <3>6, <3>7 DEF LibraryInv, Library!Numbers
  <2>. QED
    BY <2>2, <2>3
<1>. QED
  BY <1>1, <1>2

LEMMA LibraryTask ==
  ASSUME LibraryBounds, LibraryInv, NEW o \in Operators,
         Library!ResolvePublishedVersion(o) \/ Library!CreateTask(o)
  PROVE  LibraryInv'
<1>0. Library!HasFlow => flow.version \in Nat
  BY DEF LibraryInv, Library!TypeOK, Library!HasFlow, LibraryBounds
<1>1. CASE Library!ResolvePublishedVersion(o)
  <2>1. /\ UNCHANGED <<flow, versions, tasks, scenario, overtaken>>
        /\ req' = [req EXCEPT ![o] = "task"]
        /\ seen' = [seen EXCEPT ![o] = [locked |-> Library!Latest]]
    BY <1>1 DEF Library!ResolvePublishedVersion
  <2>2. req' \in [Operators -> Library!Steps] /\ LibrarySeen'
    BY <2>1
       DEF LibraryInv, LibrarySeen, Library!TypeOK, Library!Steps, Library!HasFlow, Library!Absent
  <2>. QED
    BY <2>1, <2>2, LibraryUnwritten
<1>2. CASE Library!CreateTask(o)
  <2>1. /\ Library!Done(o) /\ UNCHANGED <<flow, versions, scenario, overtaken>>
        /\ tasks' = IF seen[o].locked \in Library!Published
                     THEN tasks \cup {seen[o].locked} ELSE tasks
    BY <1>2 DEF Library!CreateTask
  <2>2. LibrarySeen'
    BY <1>0, <2>1, LibraryDone, LibrarySeenKept DEF LibraryInv, Library!HasFlow, Library!Absent
  <2>3. tasks' \subseteq Library!Published /\ tasks' \subseteq Library!Numbers
    BY <2>1 DEF LibraryInv, Library!LockedVersionsLast, Library!Published
  <2>4. Library!TypeOK'
    BY <2>1, <2>3, LibraryDone DEF LibraryInv, Library!TypeOK
  <2>. QED
    BY <2>1, <2>2, <2>3, <2>4 DEF LibraryInv, Library!LockedVersionsLast, Library!VersionsAreValid,
       Library!PublishedIsExecuted, Library!DefaultFlowIsPublished, Library!Published,
       Library!HasFlow, Library!Numbers
<1>. QED
  BY <1>1, <1>2

(* A flow that may be selected has a version, and keeps it.                *)
LEMMA LibrarySelects ==
  ASSUME LibraryBounds, LibraryInv, NEW o \in Operators, NEW wants \in BOOLEAN,
         Library!Select(o, wants) \/ Library!CreateScenario(o, wants)
  PROVE  LibraryInv'
<1>1. /\ UNCHANGED <<flow, versions, tasks, scenario, overtaken>>
      /\ req' = [req EXCEPT ![o] = req'[o]] /\ req'[o] \in {"materialize", "scenario", "create"}
      /\ req'[o] = "scenario" => scenario # Library!Absent
      /\ seen' = [seen EXCEPT ![o] = [wants |-> wants]]
      /\ wants => Library!HasFlow /\ (flow.status = "published" \/ flow.version > 0)
  BY DEF Library!Select, Library!Selection, Library!CreateScenario, LibraryInv, Library!TypeOK
<1>2. wants => flow.version > 0
  BY <1>1 DEF LibraryInv
<1>3. req' \in [Operators -> Library!Steps]
  BY <1>1 DEF LibraryInv, Library!TypeOK, Library!Steps
<1>4. LibrarySeen'
  BY <1>1, <1>2 DEF LibraryInv, LibrarySeen, Library!TypeOK, Library!HasFlow, Library!Absent
<1>. QED
  BY <1>1, <1>3, <1>4, LibraryUnwritten

LEMMA LibraryScenario ==
  ASSUME LibraryBounds, LibraryInv, UNCHANGED <<flow, versions, tasks, overtaken>>,
         req' \in [Operators -> Library!Steps], LibrarySeen',
         scenario' = Library!Absent
           \/ scenario' \in [status : {"active", "inactive"}, config : 1 .. MaxConfig,
                             flow : BOOLEAN],
         Library!DefaultFlowIsPublished'
  PROVE  LibraryInv'
<1>1. Library!TypeOK'
  BY DEF LibraryInv, Library!TypeOK, Library!Absent
<1>. QED
  BY <1>1 DEF LibraryInv, Library!LockedVersionsLast, Library!VersionsAreValid,
     Library!PublishedIsExecuted, Library!Published, Library!HasFlow, Library!Numbers

LEMMA LibraryInsert ==
  ASSUME LibraryBounds, LibraryInv, NEW o \in Operators, Library!InsertScenario(o)
  PROVE  LibraryInv'
<1>. DEFINE fails == \/ scenario # Library!Absent
                       \/ (req[o] = "create" /\ seen[o].wants /\ ~Library!HasFlow)
<1>0. /\ Library!HasFlow => flow.version \in Nat
      /\ req[o] \in {"materialize", "create"} /\ UNCHANGED <<flow, versions, tasks, overtaken>>
      /\ seen[o] \in [wants : BOOLEAN] /\ (seen[o].wants /\ Library!HasFlow => flow.version > 0)
  BY DEF Library!InsertScenario, LibraryInv, LibrarySeen, Library!TypeOK, Library!HasFlow,
     LibraryBounds
<1>1. CASE fails
  <2>1. Library!Done(o) /\ UNCHANGED scenario
    BY <1>1 DEF Library!InsertScenario
  <2>2. LibrarySeen'
    BY <1>0, <2>1, LibraryDone, LibrarySeenKept DEF LibraryInv, Library!HasFlow, Library!Absent
  <2>. QED
    BY <1>0, <2>1, <2>2, LibraryDone, LibraryUnwritten
<1>2. CASE ~fails
  <2>1. /\ scenario' = [status |-> "active", config |-> 1,
                        flow |-> req[o] = "create" /\ seen[o].wants]
        /\ \/ Library!Done(o)
           \/ req[o] = "materialize" /\ req' = [req EXCEPT ![o] = "scenario"] /\ UNCHANGED seen
    BY <1>0, <1>2 DEF Library!InsertScenario
  <2>2. /\ scenario' \in [status : {"active", "inactive"}, config : 1 .. MaxConfig, flow : BOOLEAN]
        /\ scenario' # Library!Absent
        /\ scenario'.flow => Library!HasFlow /\ flow.version > 0
    <3>. DEFINE w == req[o] = "create" /\ seen[o].wants
    <3>1. w \in BOOLEAN /\ 1 \in 1 .. MaxConfig /\ (w => Library!HasFlow /\ flow.version > 0)
      BY <1>0, <1>2 DEF LibraryBounds
    <3>2. scenario' = [status |-> "active", config |-> 1, flow |-> w]
      BY <2>1
    <3>. HIDE DEF w
    <3>. QED
      BY <3>1, <3>2 DEF Library!Absent
  <2>3. Library!DefaultFlowIsPublished'
    BY <1>0, <2>2 DEF Library!DefaultFlowIsPublished, Library!HasFlow, Library!Absent
  <2>4. CASE Library!Done(o)
    <3>1. LibrarySeen'
      BY <1>0, <2>2, <2>4, LibraryDone, LibrarySeenKept
         DEF LibraryInv, Library!HasFlow, Library!Absent
    <3>. QED
      BY <1>0, <2>2, <2>3, <2>4, <3>1, LibraryDone, LibraryScenario
  <2>5. CASE req[o] = "materialize" /\ req' = [req EXCEPT ![o] = "scenario"] /\ UNCHANGED seen
    <3>1. req' \in [Operators -> Library!Steps]
      BY <2>5 DEF LibraryInv, Library!TypeOK, Library!Steps
    <3>2. LibrarySeen'
      BY <1>0, <2>2, <2>5
         DEF LibraryInv, LibrarySeen, Library!TypeOK, Library!HasFlow, Library!Absent
    <3>. QED
      BY <1>0, <2>2, <2>3, <3>1, <3>2, LibraryScenario
  <2>. QED
    BY <2>1, <2>4, <2>5
<1>. QED
  BY <1>1, <1>2

LEMMA LibraryConfigures ==
  ASSUME LibraryBounds, LibraryInv, NEW o \in Operators, Library!UpdateScenario(o)
  PROVE  LibraryInv'
<1>1. /\ Library!Done(o) /\ UNCHANGED <<flow, versions, tasks, overtaken>>
      /\ scenario # Library!Absent /\ Library!Config < MaxConfig /\ seen[o] \in [wants : BOOLEAN]
      /\ seen[o].wants /\ Library!HasFlow => flow.version > 0
      /\ scenario' = IF seen[o].wants /\ ~Library!HasFlow THEN scenario
                     ELSE [scenario EXCEPT !.config = @ + 1, !.flow = @ \/ seen[o].wants]
  BY DEF Library!UpdateScenario, LibraryInv, LibrarySeen
<1>2. scenario \in [status : {"active", "inactive"}, config : 1 .. MaxConfig, flow : BOOLEAN]
  BY <1>1 DEF LibraryInv, Library!TypeOK
<1>3. scenario.config < MaxConfig
  BY <1>1 DEF Library!Config
<1>4. /\ scenario' \in [status : {"active", "inactive"}, config : 1 .. MaxConfig, flow : BOOLEAN]
      /\ scenario'.flow => scenario.flow \/ (seen[o].wants /\ Library!HasFlow)
  <2>. DEFINE w == scenario.flow \/ seen[o].wants
              n == scenario.config + 1
  <2>1. CASE seen[o].wants /\ ~Library!HasFlow
    BY <1>1, <1>2, <2>1
  <2>2. CASE ~(seen[o].wants /\ ~Library!HasFlow)
    <3>1. w \in BOOLEAN /\ (w => scenario.flow \/ (seen[o].wants /\ Library!HasFlow))
      BY <1>1, <1>2, <2>2
    <3>2. n \in 1 .. MaxConfig
      <4>1. scenario.config \in 1 .. MaxConfig
        BY <1>2
      <4>. QED
        BY <1>3, <4>1 DEF LibraryBounds
    <3>3. scenario' = [scenario EXCEPT !.config = n, !.flow = w]
      BY <1>1, <2>2
    <3>. HIDE DEF n, w
    <3>. QED
      BY <1>2, <3>1, <3>2, <3>3
  <2>. QED
    BY <2>1, <2>2
<1>5. Library!DefaultFlowIsPublished'
  BY <1>1, <1>4 DEF LibraryInv, Library!DefaultFlowIsPublished, Library!HasFlow, Library!Absent
<1>6. Library!HasFlow => flow.version \in Nat
  BY DEF LibraryInv, Library!TypeOK, Library!HasFlow, LibraryBounds
<1>7. scenario' # Library!Absent
  BY <1>4 DEF Library!Absent
<1>8. LibrarySeen'
  BY <1>1, <1>6, <1>7, LibraryDone, LibrarySeenKept DEF LibraryInv, Library!HasFlow, Library!Absent
<1>. QED
  BY <1>1, <1>4, <1>5, <1>8, LibraryDone, LibraryScenario

LEMMA LibraryDeactivate ==
  ASSUME LibraryBounds, LibraryInv, Library!Deactivate PROVE LibraryInv'
<1>1. /\ scenario # Library!Absent /\ scenario' = [scenario EXCEPT !.status = "inactive"]
      /\ UNCHANGED <<flow, versions, tasks, req, seen, overtaken>>
  BY DEF Library!Deactivate
<1>2. /\ scenario' \in [status : {"active", "inactive"}, config : 1 .. MaxConfig, flow : BOOLEAN]
      /\ scenario'.flow = scenario.flow
  BY <1>1 DEF LibraryInv, Library!TypeOK
<1>3. scenario' # Library!Absent
  BY <1>2 DEF Library!Absent
<1>4. req' \in [Operators -> Library!Steps]
  BY <1>1 DEF LibraryInv, Library!TypeOK
<1>5. LibrarySeen'
  BY <1>1, <1>3 DEF LibraryInv, LibrarySeen, Library!HasFlow, Library!Absent
<1>6. Library!DefaultFlowIsPublished'
  BY <1>1, <1>2 DEF LibraryInv, Library!DefaultFlowIsPublished, Library!HasFlow, Library!Absent
<1>. QED
  BY <1>1, <1>2, <1>4, <1>5, <1>6, LibraryScenario

LEMMA LibraryInvariance == ASSUME LibraryBounds PROVE Library!Spec => []LibraryInv
<1>1. Library!Init => LibraryInv
  BY LibraryInit
<1>2. LibraryInv /\ [Library!Next]_(Library!vars) => LibraryInv'
  <2>1. ASSUME LibraryInv, Library!Next PROVE LibraryInv'
    BY <2>1, LibraryRead, LibraryUpdate, LibraryInvalid, LibraryPublish, LibraryRemove, LibraryTask,
       LibrarySelects, LibraryInsert, LibraryConfigures, LibraryDeactivate DEF Library!Next
  <2>2. ASSUME LibraryInv, UNCHANGED Library!vars PROVE LibraryInv'
    <3>1. UNCHANGED <<flow, versions, tasks, scenario, req, seen, overtaken>>
      BY <2>2 DEF Library!vars
    <3>2. req' \in [Operators -> Library!Steps] /\ LibrarySeen'
      BY <2>2, <3>1 DEF LibraryInv, LibrarySeen, Library!TypeOK, Library!HasFlow, Library!Absent
    <3>. QED
      BY <2>2, <3>1, <3>2, LibraryUnwritten
  <2>. QED
    BY <2>1, <2>2
<1>. QED
  BY <1>1, <1>2, PTL DEF Library!Spec

\* However edits, publications, deletions, scenarios and tasks interleave: the version a
\* task is locked to is there (task-flows.service.ts:107-111), versions are valid graphs and
\* a published flow is what its version says, but for edits that overtook a publication
\* (132-160, 76-103), and a scenario's default flow has a version
\* (scenarios.service.ts:164-177).
THEOREM FlowsStayWhole ==
  ASSUME MaxVersion \in Nat, MaxConfig \in Nat \ {0}
  PROVE  Library!Spec => [](/\ Library!LockedVersionsLast /\ Library!VersionsAreValid
                            /\ Library!PublishedIsExecuted /\ Library!DefaultFlowIsPublished)
<1>1. LibraryInv => /\ Library!LockedVersionsLast /\ Library!VersionsAreValid
                    /\ Library!PublishedIsExecuted /\ Library!DefaultFlowIsPublished
  BY DEF LibraryInv
<1>2. LibraryBounds
  BY DEF LibraryBounds
<1>. QED
  BY <1>1, <1>2, LibraryInvariance, PTL

-----------------------------------------------------------------------------
(***************************************************************************)
(* Sessions (UserSessions.tla: auth.service.ts, system.service.ts and      *)
(* client.ts).  The last of the three parts of the invariant is about one  *)
(* tab alone: while nothing crossed, the token in the cookie is the live   *)
(* one until the tab's own refresh exchanges it.                           *)
(***************************************************************************)
Sessions == INSTANCE UserSessions

SessionsBounds == MaxTokens \in Nat \ {0} /\ MaxResets \in Nat

SessionsTypes ==
  /\ Sessions!TypeOK
  /\ born \in [Sessions!Tokens -> 0 .. MaxResets]
  /\ spent \in [Sessions!Tokens -> Nat]
  /\ password \in 0 .. MaxResets
  /\ user \in {"active", "inactive"}
  /\ resetting \in BOOLEAN /\ access \in BOOLEAN /\ crossed \in BOOLEAN /\ raced \in BOOLEAN
  /\ \A t \in Tabs : call[t].step \in {"sent", "matched", "issued"} => call[t].token # 0

(* A token that was exchanged is not found again: its row is gone, and     *)
(* numbers of tokens are not used twice.                                   *)
SpentInv ==
  \A k \in Sessions!Tokens :
    /\ k > issued => row[k] = "none"
    /\ row[k] \in {"none", "live"} => spent[k] = 0
    /\ spent[k] <= 1

(* While no reset was met half done, whoever is about to get a session has *)
(* shown the password of now.                                              *)
ResetInv ==
  ~resetting /\ ~raced =>
    /\ \A k \in Sessions!Tokens : row[k] = "live" => born[k] = password
    /\ \A t \in Tabs : call[t].step \in {"matched", "checked"} => call[t].password = password

(* While nothing crossed, one tab at most refreshes, with the token of the *)
(* cookie, and that token is live until it is exchanged.                   *)
StayInv ==
  /\ resetting => crossed
  /\ ~crossed =>
       /\ \A r \in Sessions!Requests : req[r] # "login"
       /\ user = "active"
       /\ jar # 0
       /\ \A t, u \in Tabs : Sessions!Refreshing(t) /\ Sessions!Refreshing(u) => t = u
       /\ \A t \in Tabs :
            /\ call[t].step # "failed"
            /\ call[t].step \in {"sent", "matched"} => call[t].token = jar
            /\ call[t].step = "issued" => row[call[t].token] = "live"
       /\ (\A t \in Tabs : call[t].step \in {"none", "sent", "matched"}) => row[jar] = "live"

SessionsInv == SessionsTypes /\ SpentInv /\ ResetInv /\ StayInv

LEMMA SessionsInit == ASSUME SessionsBounds, Sessions!Init PROVE SessionsInv
<1>. USE DEF SessionsBounds, Sessions!Init, Sessions!Tokens, Sessions!NoCall
<1>1. SessionsTypes
  <2>1. row \in [Sessions!Tokens -> {"none", "live", "gone"}]
    OBVIOUS
  <2>2. /\ req \in [Sessions!Requests -> {"idle", "refused", "waiting", "retrying", "login"}]
        /\ issued \in Sessions!Tokens /\ jar \in Sessions!Tokens \cup {0}
    OBVIOUS
  <2>3. call \in [Tabs -> [step : {"none", "sent", "matched", "checked", "issued", "failed"},
                           token : Sessions!Tokens \cup {0}, password : 0 .. MaxResets]]
    OBVIOUS
  <2>4. \A t \in Tabs : call[t].step \notin {"sent", "matched", "issued"}
    OBVIOUS
  <2>5. born \in [Sessions!Tokens -> 0 .. MaxResets] /\ spent \in [Sessions!Tokens -> Nat]
        /\ password \in 0 .. MaxResets
    OBVIOUS
  <2>. QED
    BY <2>1, <2>2, <2>3, <2>4, <2>5 DEF SessionsTypes, Sessions!TypeOK
<1>2. SpentInv /\ ResetInv /\ StayInv
  BY DEF SpentInv, ResetInv, StayInv, Sessions!Refreshing
<1>. QED
  BY <1>1, <1>2 DEF SessionsInv

(* The requests of a tab, and its refresh, when a promise settles.         *)
LEMMA SettleIs ==
  ASSUME SessionsInv, NEW t \in Tabs, NEW ok \in BOOLEAN, Sessions!Settle(t, ok)
  PROVE  /\ call' = [call EXCEPT ![t] = Sessions!NoCall]
         /\ req' \in [Sessions!Requests -> {"idle", "refused", "waiting", "retrying", "login"}]
         /\ \A r \in Sessions!Requests : req'[r] = "login" => ~ok \/ req[r] = "login"
<1>1. req' = [r \in Sessions!Requests |->
                 IF r[1] # t THEN req[r]
                 ELSE IF ~ok /\ req[r] = "waiting" THEN "login"
                 ELSE IF req[r] = "waiting" THEN "retrying" ELSE req[r]]
  BY DEF Sessions!Settle
<1>. QED
  BY <1>1 DEF Sessions!Settle, SessionsInv, SessionsTypes, Sessions!TypeOK

LEMMA SessionsTypesKept ==
  ASSUME SessionsBounds, SessionsInv, Sessions!Next PROVE SessionsTypes'
<1>. USE DEF SessionsBounds, SessionsInv, SessionsTypes, Sessions!TypeOK, Sessions!tokens,
     Sessions!account
<1>1. ASSUME NEW r \in Sessions!Requests, Sessions!Ask(r) \/ Sessions!Retry(r) PROVE SessionsTypes'
  BY <1>1 DEF Sessions!Ask, Sessions!Retry
<1>2. ASSUME NEW r \in Sessions!Requests, Sessions!Refresh(r) PROVE SessionsTypes'
  <2>1. r[1] \in Tabs
    BY DEF Sessions!Requests
  <2>2. call' = call \/ Sessions!Post(r[1])
    BY <1>2 DEF Sessions!Refresh
  <2>3. call' \in [Tabs -> [step : {"none", "sent", "matched", "checked", "issued", "failed"},
                            token : Sessions!Tokens \cup {0}, password : 0 .. MaxResets]]
    BY <2>1, <2>2 DEF Sessions!Post
  <2>4. \A t \in Tabs : call'[t].step \in {"sent", "matched", "issued"} => call'[t].token # 0
    BY <2>1, <2>2 DEF Sessions!Post
  <2>5. crossed' \in BOOLEAN
    BY <1>2 DEF Sessions!Refresh, Sessions!Post
  <2>6. req' \in [Sessions!Requests -> {"idle", "refused", "waiting", "retrying", "login"}]
    BY <1>2 DEF Sessions!Refresh
  <2>. QED
    BY <1>2, <2>3, <2>4, <2>5, <2>6 DEF Sessions!Refresh
<1>3. ASSUME NEW t \in Tabs, Sessions!Returns(t) \/ Sessions!Fails(t) PROVE SessionsTypes'
  <2>1. PICK ok \in BOOLEAN : Sessions!Settle(t, ok)
    BY <1>3 DEF Sessions!Returns, Sessions!Fails
  <2>2. /\ call' = [call EXCEPT ![t] = Sessions!NoCall]
        /\ req' \in [Sessions!Requests -> {"idle", "refused", "waiting", "retrying", "login"}]
    BY <2>1, SettleIs
  <2>3. /\ call' \in [Tabs -> [step : {"none", "sent", "matched", "checked", "issued", "failed"},
                                token : Sessions!Tokens \cup {0}, password : 0 .. MaxResets]]
        /\ \A u \in Tabs : call'[u].step \in {"sent", "matched", "issued"} => call'[u].token # 0
    BY <2>2 DEF Sessions!NoCall
  <2>4. jar' \in Sessions!Tokens \cup {0} /\ access' \in BOOLEAN /\ crossed' \in BOOLEAN
    BY <1>3 DEF Sessions!Returns, Sessions!Fails
  <2>. QED
    BY <1>3, <2>2, <2>3, <2>4 DEF Sessions!Returns, Sessions!Fails
<1>4. ASSUME NEW t \in Tabs, Sessions!Logout(t) PROVE SessionsTypes'
  BY <1>4 DEF Sessions!Logout
<1>5. ASSUME NEW t \in Tabs, Sessions!LoginChecks(t) PROVE SessionsTypes'
  <2>1. /\ call' \in [Tabs -> [step : {"none", "sent", "matched", "checked", "issued", "failed"},
                                token : Sessions!Tokens \cup {0}, password : 0 .. MaxResets]]
        /\ \A u \in Tabs : call'[u].step \in {"sent", "matched", "issued"} => call'[u].token # 0
    BY <1>5 DEF Sessions!LoginChecks
  <2>2. req' \in [Sessions!Requests -> {"idle", "refused", "waiting", "retrying", "login"}]
    BY <1>5 DEF Sessions!LoginChecks
  <2>. QED
    BY <1>5, <2>1, <2>2 DEF Sessions!LoginChecks
<1>6. ASSUME NEW t \in Tabs, Sessions!Match(t) PROVE SessionsTypes'
  <2>1. call[t].token \in Sessions!Tokens
    BY <1>6 DEF Sessions!Match
  <2>2. born[call[t].token] \in 0 .. MaxResets
    BY <2>1
  <2>3. /\ call' \in [Tabs -> [step : {"none", "sent", "matched", "checked", "issued", "failed"},
                                token : Sessions!Tokens \cup {0}, password : 0 .. MaxResets]]
        /\ \A u \in Tabs : call'[u].step \in {"sent", "matched", "issued"} => call'[u].token # 0
    BY <1>6, <2>1, <2>2 DEF Sessions!Match
  <2>4. row' \in [Sessions!Tokens -> {"none", "live", "gone"}]
    BY <1>6 DEF Sessions!Match
  <2>. QED
    BY <1>6, <2>3, <2>4 DEF Sessions!Match
<1>7. ASSUME NEW t \in Tabs, Sessions!Rotate(t) PROVE SessionsTypes'
  <2>1. /\ call' \in [Tabs -> [step : {"none", "sent", "matched", "checked", "issued", "failed"},
                                token : Sessions!Tokens \cup {0}, password : 0 .. MaxResets]]
        /\ \A u \in Tabs : call'[u].step \in {"sent", "matched", "issued"} => call'[u].token # 0
    BY <1>7, SMTT(30) DEF Sessions!Rotate
  <2>3. /\ row' = row \/ row' = [row EXCEPT ![call[t].token] = "gone"]
        /\ spent' = spent \/ spent' = [spent EXCEPT ![call[t].token] = @ + 1]
    BY <1>7 DEF Sessions!Rotate
  <2>2. row' \in [Sessions!Tokens -> {"none", "live", "gone"}]
    BY <2>3
  <2>4. spent' \in [Sessions!Tokens -> Nat]
    BY <2>3
  <2>. QED
    BY <1>7, <2>1, <2>2, <2>4 DEF Sessions!Rotate
<1>8. ASSUME NEW t \in Tabs, Sessions!Issue(t) PROVE SessionsTypes'
  <2>1. issued' \in Sessions!Tokens /\ issued' # 0
    BY <1>8 DEF Sessions!Issue, Sessions!Tokens
  <2>2. call[t].password \in 0 .. MaxResets
    OBVIOUS
  <2>3. /\ call' \in [Tabs -> [step : {"none", "sent", "matched", "checked", "issued", "failed"},
                                token : Sessions!Tokens \cup {0}, password : 0 .. MaxResets]]
        /\ \A u \in Tabs : call'[u].step \in {"sent", "matched", "issued"} => call'[u].token # 0
    BY <1>8, <2>1, ZenonT(60) DEF Sessions!Issue
  <2>4. row' \in [Sessions!Tokens -> {"none", "live", "gone"}]
        /\ born' \in [Sessions!Tokens -> 0 .. MaxResets]
    BY <1>8, <2>1, <2>2 DEF Sessions!Issue
  <2>. QED
    BY <1>8, <2>1, <2>3, <2>4 DEF Sessions!Issue
<1>9. ASSUME NEW k \in Sessions!Tokens, Sessions!SessionExpires(k) PROVE SessionsTypes'
  BY <1>9 DEF Sessions!SessionExpires
<1>10. CASE Sessions!Expires \/ Sessions!SetStatus
  BY <1>10 DEF Sessions!Expires, Sessions!SetStatus
<1>11. CASE Sessions!ResetPassword
  BY <1>11 DEF Sessions!ResetPassword
<1>12. CASE Sessions!EndSessions
  <2>1. row' \in [Sessions!Tokens -> {"none", "live", "gone"}]
    BY <1>12 DEF Sessions!EndSessions
  <2>. QED
    BY <1>12, <2>1 DEF Sessions!EndSessions
<1>. QED
  BY <1>1, <1>2, <1>3, <1>4, <1>5, <1>6, <1>7, <1>8, <1>9, <1>10, <1>11, <1>12
     DEF Sessions!Next, Sessions!Progress

LEMMA SpentKept ==
  ASSUME SessionsBounds, SessionsInv, Sessions!Next PROVE SpentInv'
<1>. USE DEF SessionsBounds, SessionsInv, SessionsTypes, Sessions!TypeOK
<1>1. ASSUME NEW t \in Tabs, Sessions!Match(t) PROVE SpentInv'
  BY <1>1 DEF Sessions!Match, SpentInv
<1>2. ASSUME NEW t \in Tabs, Sessions!Rotate(t) PROVE SpentInv'
  <2>1. CASE row[call[t].token] = "live"
    <3>1. call[t].token \in Sessions!Tokens
      BY <1>2 DEF Sessions!Rotate
    <3>. QED
      BY <1>2, <2>1, <3>1 DEF Sessions!Rotate, SpentInv
  <2>2. CASE row[call[t].token] # "live"
    BY <1>2, <2>2 DEF Sessions!Rotate, SpentInv
  <2>. QED
    BY <2>1, <2>2
<1>3. ASSUME NEW t \in Tabs, Sessions!Issue(t) PROVE SpentInv'
  <2>1. issued' = issued + 1 /\ row[issued'] = "none" /\ UNCHANGED spent
        /\ issued' \in Sessions!Tokens
        /\ row' = [row EXCEPT ![issued'] = "live"]
    BY <1>3 DEF Sessions!Issue, SpentInv, Sessions!Tokens
  <2>2. \A k \in Sessions!Tokens : k > issued' => k > issued /\ k # issued'
    BY <2>1 DEF Sessions!Tokens
  <2>. QED
    BY <2>1, <2>2 DEF SpentInv
<1>4. ASSUME NEW k \in Sessions!Tokens, Sessions!SessionExpires(k) PROVE SpentInv'
  BY <1>4 DEF Sessions!SessionExpires, SpentInv
<1>5. CASE Sessions!EndSessions
  BY <1>5 DEF Sessions!EndSessions, SpentInv
<1>6. CASE UNCHANGED <<row, spent, issued>>
  BY <1>6 DEF SpentInv
<1>. QED
  BY <1>1, <1>2, <1>3, <1>4, <1>5, <1>6 DEF Sessions!Next, Sessions!Progress, Sessions!tokens,
     Sessions!Ask, Sessions!Retry, Sessions!Refresh, Sessions!Returns, Sessions!Fails,
     Sessions!Logout, Sessions!LoginChecks, Sessions!Expires, Sessions!SetStatus,
     Sessions!ResetPassword

LEMMA ResetKept ==
  ASSUME SessionsBounds, SessionsInv, Sessions!Next PROVE ResetInv'
<1>. USE DEF SessionsBounds, SessionsInv, SessionsTypes, Sessions!TypeOK, Sessions!tokens,
     Sessions!account
<1>1. ASSUME NEW t \in Tabs, Sessions!Match(t) PROVE ResetInv'
  <2>1. call[t].token \in Sessions!Tokens
    BY <1>1 DEF Sessions!Match
  <2>. QED
    BY <1>1, <2>1 DEF Sessions!Match, ResetInv
<1>2. ASSUME NEW t \in Tabs, Sessions!Rotate(t) PROVE ResetInv'
  BY <1>2 DEF Sessions!Rotate, ResetInv
<1>3. ASSUME NEW t \in Tabs, Sessions!Issue(t) PROVE ResetInv'
  BY <1>3 DEF Sessions!Issue, ResetInv
<1>4. ASSUME NEW k \in Sessions!Tokens, Sessions!SessionExpires(k) PROVE ResetInv'
  BY <1>4 DEF Sessions!SessionExpires, ResetInv
<1>5. CASE Sessions!EndSessions
  BY <1>5 DEF Sessions!EndSessions, ResetInv
<1>6. ASSUME NEW t \in Tabs, Sessions!LoginChecks(t) PROVE ResetInv'
  BY <1>6 DEF Sessions!LoginChecks, ResetInv
<1>7. ASSUME NEW r \in Sessions!Requests, Sessions!Refresh(r) PROVE ResetInv'
  <2>1. r[1] \in Tabs
    BY DEF Sessions!Requests
  <2>2. call' = call \/ Sessions!Post(r[1])
    BY <1>7 DEF Sessions!Refresh
  <2>3. \A t \in Tabs : call'[t] = call[t] \/ call'[t].step \in {"failed", "sent"}
    BY <2>1, <2>2 DEF Sessions!Post
  <2>. QED
    BY <1>7, <2>3 DEF Sessions!Refresh, ResetInv
<1>8. ASSUME NEW t \in Tabs, Sessions!Returns(t) \/ Sessions!Fails(t) PROVE ResetInv'
  <2>1. PICK ok \in BOOLEAN : Sessions!Settle(t, ok)
    BY <1>8 DEF Sessions!Returns, Sessions!Fails
  <2>2. \A u \in Tabs : call'[u] = call[u] \/ call'[u].step = "none"
    BY <2>1, SettleIs DEF Sessions!NoCall
  <2>. QED
    BY <1>8, <2>2 DEF Sessions!Returns, Sessions!Fails, ResetInv
<1>9. CASE Sessions!ResetPassword
  BY <1>9 DEF Sessions!ResetPassword, ResetInv
<1>10. CASE UNCHANGED <<row, born, password, resetting, call, raced>>
  BY <1>10 DEF ResetInv
<1>. QED
  BY <1>1, <1>2, <1>3, <1>4, <1>5, <1>6, <1>7, <1>8, <1>9, <1>10 DEF Sessions!Next,
     Sessions!Progress, Sessions!Ask, Sessions!Retry, Sessions!Logout, Sessions!Expires,
     Sessions!SetStatus

LEMMA StayKept ==
  ASSUME SessionsBounds, SessionsInv, Sessions!Next PROVE StayInv'
<1>. USE DEF SessionsBounds, SessionsInv, SessionsTypes, Sessions!TypeOK, Sessions!tokens,
     Sessions!account, Sessions!Refreshing
<1>1. ASSUME NEW t \in Tabs, Sessions!Match(t) PROVE StayInv'
  <2>1. call[t].token \in Sessions!Tokens
    BY <1>1 DEF Sessions!Match
  <2>. QED
    BY <1>1, <2>1 DEF Sessions!Match, StayInv
<1>2. ASSUME NEW t \in Tabs, Sessions!Rotate(t) PROVE StayInv'
  BY <1>2, SMTT(30) DEF Sessions!Rotate, StayInv
<1>3. ASSUME NEW t \in Tabs, Sessions!Issue(t) PROVE StayInv'
  <2>1. issued' \in Sessions!Tokens
    BY <1>3 DEF Sessions!Issue, Sessions!Tokens
  <2>. QED
    BY <1>3, <2>1 DEF Sessions!Issue, StayInv
<1>4. ASSUME NEW k \in Sessions!Tokens, Sessions!SessionExpires(k) PROVE StayInv'
  BY <1>4 DEF Sessions!SessionExpires, StayInv
<1>5. CASE Sessions!EndSessions
  BY <1>5 DEF Sessions!EndSessions, StayInv
<1>6. ASSUME NEW t \in Tabs, Sessions!LoginChecks(t) PROVE StayInv'
  <2>1. crossed /\ UNCHANGED <<crossed, resetting>>
    BY <1>6 DEF Sessions!LoginChecks, StayInv, Sessions!Of
  <2>. QED
    BY <2>1 DEF StayInv
<1>7. ASSUME NEW r \in Sessions!Requests, Sessions!Refresh(r) PROVE StayInv'
  <2>1. r[1] \in Tabs
    BY DEF Sessions!Requests
  <2>2. /\ req[r] = "refused" /\ req' = [req EXCEPT ![r] = "waiting"]
        /\ UNCHANGED <<row, user, resetting, jar>>
    BY <1>7 DEF Sessions!Refresh
  <2>3. CASE UNCHANGED <<call, crossed>>
    BY <2>2, <2>3 DEF StayInv
  <2>4. CASE ~Sessions!Refreshing(r[1]) /\ Sessions!Post(r[1])
    <3>. SUFFICES ASSUME ~crossed' PROVE StayInv'
      BY <2>2, <2>4 DEF Sessions!Post, StayInv
    <3>1. ~crossed /\ \A u \in Tabs \ {r[1]} : call[u].step = "none"
      BY <2>4 DEF Sessions!Post
    <3>2. /\ call'[r[1]] = [step |-> "sent", token |-> jar, password |-> 0]
          /\ \A u \in Tabs \ {r[1]} : call'[u] = call[u]
      BY <2>1, <2>4, <3>1 DEF Sessions!Post, StayInv
    <3>. QED
      BY <2>1, <2>2, <2>4, <3>1, <3>2 DEF StayInv
  <2>. QED
    BY <1>7, <2>3, <2>4 DEF Sessions!Refresh
<1>8. ASSUME NEW t \in Tabs, Sessions!Returns(t) \/ Sessions!Fails(t) PROVE StayInv'
  <2>. SUFFICES ASSUME ~crossed' PROVE StayInv'
    BY <1>8 DEF StayInv, Sessions!Returns, Sessions!Fails
  <2>1. /\ ~crossed /\ call[t].step = "issued" /\ jar' = call[t].token /\ Sessions!Settle(t, TRUE)
        /\ UNCHANGED <<row, user, resetting>>
    BY <1>8 DEF StayInv, Sessions!Returns, Sessions!Fails
  <2>2. /\ call' = [call EXCEPT ![t] = Sessions!NoCall]
        /\ \A r \in Sessions!Requests : req'[r] = "login" => req[r] = "login"
    BY <2>1, SettleIs
  <2>3. /\ call'[t].step = "none" /\ \A u \in Tabs \ {t} : call'[u] = call[u]
        /\ row[jar'] = "live" /\ jar' # 0
    BY <2>1, <2>2 DEF Sessions!NoCall, StayInv
  <2>4. \A u \in Tabs \ {t} : call[u].step = "none"
    BY <2>1 DEF StayInv
  <2>. QED
    BY <2>1, <2>2, <2>3, <2>4 DEF StayInv
<1>9. CASE crossed' /\ UNCHANGED call
  BY <1>9 DEF StayInv
<1>10. ASSUME NEW r \in Sessions!Requests, Sessions!Ask(r) \/ Sessions!Retry(r) PROVE StayInv'
  <2>1. /\ UNCHANGED <<row, user, resetting, jar, call, crossed>>
        /\ \A q \in Sessions!Requests : req'[q] = "login" => req[q] = "login"
    BY <1>10 DEF Sessions!Ask, Sessions!Retry
  <2>. QED
    BY <2>1 DEF StayInv
<1>11. CASE Sessions!Expires
  BY <1>11 DEF Sessions!Expires, StayInv
<1>. QED
  BY <1>1, <1>2, <1>3, <1>4, <1>5, <1>6, <1>7, <1>8, <1>9, <1>10, <1>11 DEF Sessions!Next,
     Sessions!Progress, Sessions!Logout, Sessions!SetStatus, Sessions!ResetPassword

LEMMA SessionsInvariance == ASSUME SessionsBounds PROVE Sessions!Spec => []SessionsInv
<1>1. Sessions!Init => SessionsInv
  BY SessionsInit
<1>2. SessionsInv /\ [Sessions!Next]_(Sessions!vars) => SessionsInv'
  <2>1. ASSUME SessionsInv, Sessions!Next PROVE SessionsInv'
    BY <2>1, SessionsTypesKept, SpentKept, ResetKept, StayKept DEF SessionsInv
  <2>2. ASSUME SessionsInv, UNCHANGED Sessions!vars PROVE SessionsInv'
    BY <2>2 DEF Sessions!vars, SessionsInv, SessionsTypes, Sessions!TypeOK, SpentInv, ResetInv,
       StayInv, Sessions!Refreshing
  <2>. QED
    BY <2>1, <2>2
<1>. QED
  BY <1>1, <1>2, PTL DEF Sessions!Spec

\* A refresh token is exchanged once, however many tabs present it (auth.service.ts:72-103);
\* a password reset leaves no session of an earlier password, but for one half made at that
\* moment (system.service.ts:163-175); and a tab on its own is never thrown back to the login
\* page while its session lasts (client.ts:13-32).
THEOREM SessionsAreSound ==
  ASSUME MaxTokens \in Nat \ {0}, MaxResets \in Nat
  PROVE  Sessions!Spec => [](/\ Sessions!TokenSpentOnce /\ Sessions!ResetEndsSessions
                             /\ Sessions!OneTabStaysIn)
<1>1. SessionsInv => /\ Sessions!TokenSpentOnce /\ Sessions!ResetEndsSessions
                     /\ Sessions!OneTabStaysIn
  BY DEF SessionsInv, SpentInv, ResetInv, StayInv, Sessions!TokenSpentOnce,
     Sessions!ResetEndsSessions, Sessions!OneTabStaysIn
<1>2. SessionsBounds
  BY DEF SessionsBounds
<1>. QED
  BY <1>1, <1>2, SessionsInvariance, PTL

-----------------------------------------------------------------------------
(***************************************************************************)
(* Scheduling (TaskScheduling.tla: tasks.service.ts).  A worker counts the *)
(* tasks of a callee before it claims one; the load of a callee is what    *)
(* has been claimed today together with what such a worker still holds.    *)
(* Counting sees all of that, since what is held is scheduled for today.   *)
(***************************************************************************)
Scheduling == INSTANCE TaskScheduling

SchedulingBounds ==
  /\ IsFiniteSet(DOMAIN To) /\ DOMAIN To \subseteq Nat \ {0}
  /\ Limit \in Nat /\ Slots \in Nat \ {0} /\ Offered \subseteq Int

SchedulingTypes ==
  /\ task \in [Scheduling!Tasks ->
                 [status : {"none", "new", "PENDING", "CALLING", "FAILED", "CANCELLED"},
                  at : Int, counted : BOOLEAN]]
  /\ now \in 0..Slots - 1
  /\ worker \in [Scheduling!Dispatchers -> [task : Scheduling!Tasks \cup {0},
                   read : {"none", "PENDING", "FAILED"}, counted : BOOLEAN]]
  /\ \A d \in Scheduling!Dispatchers : worker[d] # Scheduling!NoDispatch =>
       worker[d].task \in Scheduling!Tasks /\ worker[d].read \in {"PENDING", "FAILED"}
  /\ batch \subseteq Scheduling!Tasks

(* Dispatched for today, or about to be by a worker that has counted.      *)
Spoken(t) == task[t].counted
             \/ \E d \in Scheduling!Dispatchers : worker[d].task = t /\ worker[d].counted

Load(c) == {t \in Scheduling!Tasks :
              To[t] = c /\ Spoken(t) /\ task[t].status # "CANCELLED"}

(* The check passes only below the limit, and what it lets through was     *)
(* scheduled for today, so that the next check counts it whether or not    *)
(* the call has been claimed.                                              *)
SchedulingInv ==
  /\ SchedulingTypes
  /\ \A t \in Scheduling!Tasks : Spoken(t) =>
       task[t].status \notin {"none", "new"} /\ Scheduling!DayOf(task[t].at) = 0
  /\ \A c \in Scheduling!Callees \ Whitelist : Cardinality(Load(c)) <= Limit

(* The library's Cardinality is the one the instance has of its own.       *)
LEMMA SameCardinality == ASSUME NEW S PROVE Scheduling!Cardinality(S) = Cardinality(S)
  BY DEF Scheduling!Cardinality, Cardinality

LEMMA DayIsZero == ASSUME NEW n \in Nat, NEW s \in Nat \ {0}, n < s PROVE n \div s = 0
  OBVIOUS

LEMMA LaterMax == ASSUME NEW x \in Int PROVE Scheduling!Max({-1, x}) \in Int
<1>1. \E m \in {-1, x} : \A k \in {-1, x} : m >= k
  OBVIOUS
<1>2. Scheduling!Max({-1, x}) \in {-1, x}
  BY <1>1 DEF Scheduling!Max
<1>. QED
  BY <1>2

LEMMA LoadFinite ==
  ASSUME SchedulingBounds, NEW T, T \subseteq Scheduling!Tasks PROVE IsFiniteSet(T)
  BY FS_Subset DEF SchedulingBounds, Scheduling!Tasks

LEMMA SchedulingInit == ASSUME SchedulingBounds, Scheduling!Init PROVE SchedulingInv
<1>. USE DEF SchedulingBounds, Scheduling!Init, Scheduling!NoDispatch
<1>1. SchedulingTypes
  BY DEF SchedulingTypes
<1>2. \A t \in Scheduling!Tasks : ~Spoken(t)
  BY DEF Spoken
<1>3. \A c : Load(c) = {}
  BY <1>2 DEF Load
<1>4. \A c : Cardinality(Load(c)) <= Limit
  <2>1. Cardinality({}) <= Limit
    BY FS_EmptySet
  <2>. QED
    BY <1>3, <2>1, Zenon
<1>. QED
  BY <1>1, <1>2, <1>4 DEF SchedulingInv

(* Whatever does not let a call through does not add to the load.          *)
LEMMA LoadShrinks ==
  ASSUME SchedulingBounds, SchedulingInv, SchedulingTypes',
         \A t \in Scheduling!Tasks : Spoken(t)' =>
           /\ Spoken(t) /\ Scheduling!DayOf(task'[t].at) = 0
           /\ task'[t].status \notin {"none", "new"}
           /\ task'[t].status # "CANCELLED" => task[t].status # "CANCELLED"
  PROVE  SchedulingInv'
<1>1. ASSUME NEW c \in Scheduling!Callees \ Whitelist PROVE Cardinality(Load(c)') <= Limit
  <2>1. Load(c)' \subseteq Load(c)
    BY DEF Load
  <2>2. IsFiniteSet(Load(c)) /\ IsFiniteSet(Load(c)')
    BY <2>1, LoadFinite DEF Load
  <2>3. Cardinality(Load(c)') <= Cardinality(Load(c)) /\ Cardinality(Load(c)) <= Limit
    BY <2>1, <2>2, FS_Subset DEF SchedulingInv
  <2>. QED
    BY <2>2, <2>3, FS_CardinalityType DEF SchedulingBounds
<1>. QED
  BY <1>1 DEF SchedulingInv, Scheduling!Callees, Scheduling!Tasks

(* dispatch() lets a call through: it was below the limit without it.      *)
LEMMA CheckKeeps ==
  ASSUME SchedulingBounds, SchedulingInv, NEW d \in Scheduling!Dispatchers,
         NEW t \in Scheduling!Tasks, Scheduling!Check(d, t), batch' \subseteq batch
  PROVE  SchedulingInv'
<1>. DEFINE w == [task |-> t, read |-> task[t].status, counted |-> Scheduling!DayOf(task[t].at) = 0]
<1>0. /\ UNCHANGED <<task, now>> /\ worker[d] = Scheduling!NoDispatch /\ t # 0
      /\ now \in Nat /\ Slots \in Nat \ {0} /\ now < Slots
  BY DEF Scheduling!Check, SchedulingInv, SchedulingTypes, SchedulingBounds, Scheduling!Tasks
<1>1. CASE UNCHANGED worker
  <2>1. SchedulingTypes'
    BY <1>0, <1>1 DEF SchedulingInv, SchedulingTypes
  <2>2. \A u \in Scheduling!Tasks : Spoken(u)' <=> Spoken(u)
    BY <1>0, <1>1 DEF Spoken
  <2>. QED
    BY <1>0, <2>1, <2>2, LoadShrinks DEF SchedulingInv
<1>2. CASE /\ task[t].status \in {"PENDING", "FAILED"} /\ Scheduling!OutboundPolicyAllowed(t, now)
           /\ worker' = [worker EXCEPT ![d] = w]
  <2>1. w.task = t /\ w.read \in {"PENDING", "FAILED"} /\ w.counted \in BOOLEAN
        /\ w \in [task : Scheduling!Tasks \cup {0},
                   read : {"none", "PENDING", "FAILED"}, counted : BOOLEAN]
        /\ (w.counted <=> Scheduling!DayOf(task[t].at) = 0)
    BY <1>2
  <2>. HIDE DEF w
  <2>2. /\ worker'[d] = w /\ \A e \in Scheduling!Dispatchers \ {d} : worker'[e] = worker[e]
        /\ worker' \in [Scheduling!Dispatchers -> [task : Scheduling!Tasks \cup {0},
                   read : {"none", "PENDING", "FAILED"}, counted : BOOLEAN]]
    BY <1>2, <2>1 DEF SchedulingInv, SchedulingTypes
  <2>3. SchedulingTypes'
    BY <1>0, <2>1, <2>2 DEF SchedulingInv, SchedulingTypes
  <2>4. \A u \in Scheduling!Tasks : Spoken(u)' <=> Spoken(u) \/ (u = t /\ w.counted)
    BY <1>0, <2>1, <2>2 DEF Spoken, Scheduling!NoDispatch
  <2>5. \A u \in Scheduling!Tasks : Spoken(u)' =>
          task'[u].status \notin {"none", "new"} /\ Scheduling!DayOf(task'[u].at) = 0
    BY <1>0, <1>2, <2>1, <2>4 DEF SchedulingInv
  <2>6. ASSUME NEW c \in Scheduling!Callees \ Whitelist PROVE Cardinality(Load(c)') <= Limit
    <3>0. Cardinality(Load(c)) <= Limit /\ IsFiniteSet(Load(c)) /\ IsFiniteSet(Load(c)')
      BY LoadFinite DEF SchedulingInv, Load
    <3>1. CASE ~(w.counted /\ To[t] = c)
      <4>1. Load(c)' = Load(c)
        BY <1>0, <2>4, <3>1 DEF Load
      <4>. QED
        BY <3>0, <4>1
    <3>2. CASE w.counted /\ To[t] = c
      <4>. DEFINE E == {u \in Scheduling!Existing \ {t} :
                          /\ To[u] = To[t] /\ Scheduling!DayOf(task[u].at) = Scheduling!DayOf(now)
                          /\ task[u].status # "CANCELLED"}
      <4>1. Cardinality(E) < Limit
        BY SameCardinality, <1>2, <3>2
           DEF Scheduling!OutboundPolicyAllowed, Scheduling!CountScheduledTasksForCallee
      <4>2. Scheduling!DayOf(now) = 0
        BY <1>0, DayIsZero DEF Scheduling!DayOf
      <4>3. Load(c)' \subseteq E \cup {t}
        BY <1>0, <2>4, <3>2, <4>2 DEF Load, SchedulingInv, Scheduling!Existing
      <4>4. IsFiniteSet(E)
        BY LoadFinite DEF Scheduling!Existing
      <4>. HIDE DEF E
      <4>5. IsFiniteSet(E \cup {t}) /\ Cardinality(E \cup {t}) <= Cardinality(E) + 1
        <5>1. Cardinality(E) \in Nat
          BY <4>4, FS_CardinalityType, Zenon
        <5>2. IsFiniteSet(E \cup {t}) /\ Cardinality(E \cup {t}) =
                IF t \in E THEN Cardinality(E) ELSE Cardinality(E) + 1
          BY <4>4, FS_AddElement, Zenon
        <5>. QED
          BY <5>1, <5>2
      <4>6. Cardinality(Load(c)') <= Cardinality(E \cup {t})
        BY <4>3, <4>5, FS_Subset
      <4>7. Cardinality(Load(c)') \in Nat /\ Cardinality(E) \in Nat
            /\ Cardinality(E \cup {t}) \in Nat
        BY <3>0, <4>4, <4>5, FS_CardinalityType
      <4>. QED
        BY <4>1, <4>5, <4>6, <4>7 DEF SchedulingBounds
    <3>. QED
      BY <3>1, <3>2
  <2>. QED
    BY <2>3, <2>5, <2>6 DEF SchedulingInv, Scheduling!Callees, Scheduling!Tasks
<1>. QED
  BY <1>1, <1>2 DEF Scheduling!Check

(* The claim writes what the worker had read and counted, or nothing.      *)
LEMMA ClaimKeeps ==
  ASSUME SchedulingBounds, SchedulingInv, NEW d \in Scheduling!Dispatchers, Scheduling!Claim(d)
  PROVE  SchedulingInv'
<1>. DEFINE w == worker[d]
            t == w.task
            r == [task[t] EXCEPT !.status = "CALLING", !.counted = w.counted]
<1>1. /\ t \in Scheduling!Tasks /\ w.read \in {"PENDING", "FAILED"} /\ w.counted \in BOOLEAN
      /\ UNCHANGED <<now, batch>> /\ worker' = [worker EXCEPT ![d] = Scheduling!NoDispatch]
      /\ task' = IF task[t].status = w.read THEN [task EXCEPT ![t] = r] ELSE task
  BY DEF Scheduling!Claim, SchedulingInv, SchedulingTypes
<1>2. worker' \in [Scheduling!Dispatchers -> [task : Scheduling!Tasks \cup {0},
                   read : {"none", "PENDING", "FAILED"}, counted : BOOLEAN]]
      /\ worker'[d] = Scheduling!NoDispatch
      /\ \A e \in Scheduling!Dispatchers \ {d} : worker'[e] = worker[e]
  BY <1>1 DEF SchedulingInv, SchedulingTypes, Scheduling!NoDispatch
<1>3. /\ r.status = "CALLING" /\ r.counted = w.counted /\ r.at = task[t].at
      /\ r \in [status : {"none", "new", "PENDING", "CALLING", "FAILED", "CANCELLED"},
                  at : Int, counted : BOOLEAN]
  BY <1>1, ZenonT(60) DEF SchedulingInv, SchedulingTypes
<1>. HIDE DEF r
<1>4. /\ \A u \in Scheduling!Tasks : task'[u] = IF u = t /\ task[t].status = w.read
                                                   THEN r ELSE task[u]
      /\ task' \in [Scheduling!Tasks -> [status : {"none", "new", "PENDING", "CALLING", "FAILED",
                                                   "CANCELLED"},
                  at : Int, counted : BOOLEAN]]
  BY <1>1, <1>3 DEF SchedulingInv, SchedulingTypes
<1>5. SchedulingTypes'
  BY <1>1, <1>2, <1>4 DEF SchedulingInv, SchedulingTypes
<1>6. ASSUME NEW u \in Scheduling!Tasks, Spoken(u)'
      PROVE  /\ Spoken(u) /\ task'[u].at = task[u].at
             /\ task'[u].status # task[u].status =>
                  task'[u].status = "CALLING" /\ task[u].status # "CANCELLED"
  <2>1. ~Scheduling!NoDispatch.counted
    BY DEF Scheduling!NoDispatch
  <2>2. CASE \E e \in Scheduling!Dispatchers : worker'[e].task = u /\ worker'[e].counted
    <3>1. Spoken(u)
      BY <1>2, <2>1, <2>2 DEF Spoken
    <3>. QED
      BY <1>1, <1>3, <1>4, <3>1
  <2>3. CASE task'[u].counted
    <3>1. Spoken(u)
      BY <1>3, <1>4, <2>3 DEF Spoken
    <3>. QED
      BY <1>1, <1>3, <1>4, <3>1
  <2>. QED
    BY <1>6, <2>2, <2>3 DEF Spoken
<1>7. \A u \in Scheduling!Tasks : Spoken(u)' =>
           /\ Spoken(u) /\ Scheduling!DayOf(task'[u].at) = 0
           /\ task'[u].status \notin {"none", "new"}
           /\ task'[u].status # "CANCELLED" => task[u].status # "CANCELLED"
  BY <1>6 DEF SchedulingInv
<1>. QED
  BY <1>5, <1>7, LoadShrinks

(* Creation, cancelling and the end of a call rewrite one row; none of     *)
(* them makes a call count.                                                *)
LEMMA RowKeeps ==
  ASSUME SchedulingBounds, SchedulingInv, NEW t \in Scheduling!Tasks,
         NEW r \in [status : {"none", "new", "PENDING", "CALLING", "FAILED", "CANCELLED"},
                    at : Int, counted : BOOLEAN],
         task' = [task EXCEPT ![t] = r], UNCHANGED <<now, worker, batch>>,
         r.counted => task[t].counted,
         \/ task[t].status = "none"
         \/ task[t].status = "new" /\ r.counted = task[t].counted
         \/ /\ task[t].status # "CANCELLED" \/ r.status = "CANCELLED"
            /\ r.status \notin {"none", "new"} /\ r.at = task[t].at
  PROVE  SchedulingInv'
<1>1. /\ \A u \in Scheduling!Tasks : task'[u] = IF u = t THEN r ELSE task[u]
      /\ task' \in [Scheduling!Tasks -> [status : {"none", "new", "PENDING", "CALLING", "FAILED",
                                                   "CANCELLED"},
                  at : Int, counted : BOOLEAN]]
  BY DEF SchedulingInv, SchedulingTypes
<1>2. SchedulingTypes'
  BY <1>1 DEF SchedulingInv, SchedulingTypes
<1>3. \A u \in Scheduling!Tasks : Spoken(u)' => Spoken(u)
  BY <1>1 DEF Spoken
<1>4. ASSUME NEW u \in Scheduling!Tasks, Spoken(u)'
      PROVE  /\ Spoken(u) /\ Scheduling!DayOf(task'[u].at) = 0
             /\ task'[u].status \notin {"none", "new"}
             /\ task'[u].status # "CANCELLED" => task[u].status # "CANCELLED"
  <2>1. Spoken(u) /\ task[u].status \notin {"none", "new"} /\ Scheduling!DayOf(task[u].at) = 0
    BY <1>3, <1>4 DEF SchedulingInv
  <2>. QED
    BY <1>1, <2>1
<1>. QED
  BY <1>2, <1>4, LoadShrinks

LEMMA SchedulingNext ==
  ASSUME SchedulingBounds, SchedulingInv, [Scheduling!Next]_Scheduling!vars PROVE SchedulingInv'
<1>. DEFINE Row == [status : {"none", "new", "PENDING", "CALLING", "FAILED", "CANCELLED"},
                    at : Int, counted : BOOLEAN]
<1>0. \A t \in Scheduling!Tasks : task[t] \in Row
  BY DEF SchedulingInv, SchedulingTypes
<1>1. ASSUME NEW t \in Scheduling!Tasks, NEW when \in Offered, Scheduling!CheckCreate(t, when)
      PROVE  SchedulingInv'
  <2>. DEFINE r == [status |-> "new", at |-> when, counted |-> FALSE]
  <2>1. r \in Row /\ ~r.counted
    BY DEF SchedulingBounds
  <2>2. task[t].status = "none" /\ task' = [task EXCEPT ![t] = r]
        /\ UNCHANGED <<now, worker, batch>>
    BY <1>1 DEF Scheduling!CheckCreate
  <2>. QED
    BY <2>1, <2>2, RowKeeps
<1>2. ASSUME NEW t \in Scheduling!Tasks, NEW s \in {"PENDING", "FAILED", "CANCELLED"},
             task' = [task EXCEPT ![t].status = s], UNCHANGED <<now, worker, batch>>,
             task[t].status # "CANCELLED"
      PROVE  SchedulingInv'
  <2>. DEFINE r == [task[t] EXCEPT !.status = s]
  <2>1. r \in Row /\ r.counted = task[t].counted /\ r.status = s /\ r.at = task[t].at
    BY <1>0
  <2>2. task' = [task EXCEPT ![t] = r]
    BY <1>2
  <2>. HIDE DEF r
  <2>. QED
    BY <1>2, <2>1, <2>2, RowKeeps
<1>3. ASSUME NEW t \in Scheduling!Tasks, Scheduling!Create(t) PROVE SchedulingInv'
  BY <1>2, <1>3 DEF Scheduling!Create
<1>4. ASSUME NEW t \in Scheduling!Tasks, Scheduling!CallEnds(t) PROVE SchedulingInv'
  BY <1>2, <1>4 DEF Scheduling!CallEnds
<1>5. ASSUME NEW t \in Scheduling!Tasks, Scheduling!Cancel(t) PROVE SchedulingInv'
  BY <1>2, <1>5 DEF Scheduling!Cancel
<1>6. ASSUME NEW t \in Scheduling!Tasks, Scheduling!Remove(t) PROVE SchedulingInv'
  <2>. DEFINE r == [task[t] EXCEPT !.status = "CANCELLED", !.counted = FALSE]
  <2>1. r \in Row /\ ~r.counted /\ r.status = "CANCELLED" /\ r.at = task[t].at
    BY <1>0
  <2>2. task' = [task EXCEPT ![t] = r] /\ UNCHANGED <<now, worker, batch>>
    BY <1>6 DEF Scheduling!Remove
  <2>. HIDE DEF r
  <2>. QED
    BY <2>1, <2>2, RowKeeps
<1>7. ASSUME NEW t \in Scheduling!Tasks, Scheduling!DispatchByOperator(t) PROVE SchedulingInv'
  BY <1>7, CheckKeeps DEF Scheduling!DispatchByOperator, Scheduling!Dispatchers
<1>8. CASE Scheduling!DispatchNext
  <2>1. PICK t \in batch : Scheduling!Check("scheduler", t) /\ batch' = batch \ {t}
    BY <1>8 DEF Scheduling!DispatchNext
  <2>2. t \in Scheduling!Tasks /\ "scheduler" \in Scheduling!Dispatchers
    BY DEF SchedulingInv, SchedulingTypes, Scheduling!Dispatchers
  <2>. QED
    BY <2>1, <2>2, CheckKeeps
<1>9. CASE Scheduling!RunDueTasks
  <2>1. UNCHANGED <<task, now, worker>> /\ batch' \subseteq Scheduling!Tasks
    BY <1>9 DEF Scheduling!RunDueTasks, Scheduling!DueBatches, Scheduling!kSubset, Scheduling!Due
  <2>2. SchedulingTypes'
    BY <2>1 DEF SchedulingInv, SchedulingTypes
  <2>. QED
    BY <2>1, <2>2, LoadShrinks DEF SchedulingInv, Spoken
<1>10. CASE Scheduling!Clock
  <2>1. CASE now + 1 < Slots
    <3>1. now' = now + 1 /\ UNCHANGED <<task, worker, batch>>
      BY <1>10, <2>1 DEF Scheduling!Clock
    <3>2. SchedulingTypes'
      BY <2>1, <3>1 DEF SchedulingInv, SchedulingTypes, SchedulingBounds
    <3>. QED
      BY <3>1, <3>2, LoadShrinks DEF SchedulingInv, Spoken
  <2>2. CASE ~(now + 1 < Slots)
    <3>. DEFINE moved(t) == [task[t] EXCEPT !.at = Scheduling!Max({-1, @ - Slots}),
                             !.counted = FALSE]
                freed(d) == [worker[d] EXCEPT !.counted = FALSE]
    <3>1. /\ now' = 0 /\ UNCHANGED batch
          /\ task' = [t \in Scheduling!Tasks |-> moved(t)]
          /\ worker' = [d \in Scheduling!Dispatchers |-> freed(d)]
      BY <1>10, <2>2 DEF Scheduling!Clock
    <3>2. ASSUME NEW t \in Scheduling!Tasks PROVE moved(t) \in Row /\ ~moved(t).counted
      <4>1. task[t] \in Row /\ task[t].at \in Int
        BY <1>0
      <4>2. Scheduling!Max({-1, task[t].at - Slots}) \in Int
        BY <4>1, LaterMax DEF SchedulingBounds
      <4>. QED
        BY <4>1, <4>2
    <3>3. ASSUME NEW d \in Scheduling!Dispatchers
          PROVE  /\ freed(d) \in [task : Scheduling!Tasks \cup {0},
                                 read : {"none", "PENDING", "FAILED"}, counted : BOOLEAN]
                 /\ freed(d).task = worker[d].task /\ freed(d).read = worker[d].read
                 /\ ~freed(d).counted
                 /\ worker[d] = Scheduling!NoDispatch => freed(d) = Scheduling!NoDispatch
      <4>. DEFINE W == [task : Scheduling!Tasks \cup {0},
                        read : {"none", "PENDING", "FAILED"}, counted : BOOLEAN]
      <4>1. \A w \in W : [w EXCEPT !.counted = FALSE] \in W
        OBVIOUS
      <4>2. worker[d] \in W
        BY DEF SchedulingInv, SchedulingTypes
      <4>3. freed(d) \in W
        BY <4>1, <4>2
      <4>4. \A w \in W : LET h == [w EXCEPT !.counted = FALSE] IN
              h.task = w.task /\ h.read = w.read /\ ~h.counted
        OBVIOUS
      <4>5. freed(d).task = worker[d].task /\ freed(d).read = worker[d].read /\ ~freed(d).counted
        BY <4>2, <4>4
      <4>6. [Scheduling!NoDispatch EXCEPT !.counted = FALSE] = Scheduling!NoDispatch
        <5>1. \A w \in W : w.counted = FALSE => [w EXCEPT !.counted = FALSE] = w
          OBVIOUS
        <5>2. Scheduling!NoDispatch \in W /\ Scheduling!NoDispatch.counted = FALSE
          BY DEF Scheduling!NoDispatch
        <5>. QED
          BY <5>1, <5>2, Zenon
      <4>. HIDE DEF W
      <4>. QED
        BY <4>3, <4>5, <4>6 DEF W
    <3>. HIDE DEF moved, freed
    <3>4. SchedulingTypes'
      BY <3>1, <3>2, <3>3 DEF SchedulingInv, SchedulingTypes, SchedulingBounds
    <3>5. \A t \in Scheduling!Tasks : ~Spoken(t)'
      BY <3>1, <3>2, <3>3 DEF Spoken
    <3>. QED
      BY <3>4, <3>5, LoadShrinks
  <2>. QED
    BY <2>1, <2>2
<1>11. CASE UNCHANGED <<task, now, worker, batch>>
  <2>1. SchedulingTypes'
    BY <1>11 DEF SchedulingInv, SchedulingTypes
  <2>. QED
    BY <1>11, <2>1, LoadShrinks DEF SchedulingInv, Spoken
<1>12. ASSUME NEW c \in Scheduling!Callees, Scheduling!Block(c) PROVE SchedulingInv'
  BY <1>11, <1>12 DEF Scheduling!Block
<1>13. ASSUME NEW d \in Scheduling!Dispatchers, Scheduling!Claim(d) PROVE SchedulingInv'
  BY <1>13, ClaimKeeps
<1>14. CASE UNCHANGED Scheduling!vars
  BY <1>11, <1>14 DEF Scheduling!vars
<1>. QED
  BY <1>1, <1>3, <1>4, <1>5, <1>6, <1>7, <1>8, <1>9, <1>10, <1>12, <1>13, <1>14
     DEF Scheduling!Next, Scheduling!SchedulerStep, Scheduling!Dispatchers

\* countScheduledTasksForCallee, dispatch: for any callees, tasks and limit, and however
\* operators and the scheduler interleave, no more tasks of a callee outside the whitelist
\* are dispatched on their day than the limit.
THEOREM LimitIsKept ==
  ASSUME SchedulingBounds PROVE Scheduling!Spec => []Scheduling!DailyLimitHolds
<1>1. Scheduling!Init => SchedulingInv
  BY SchedulingInit
<1>2. SchedulingInv /\ [Scheduling!Next]_Scheduling!vars => SchedulingInv'
  BY SchedulingNext
<1>3. SchedulingInv => Scheduling!DailyLimitHolds
  <2>. SUFFICES ASSUME SchedulingInv, NEW c \in Scheduling!Callees \ Whitelist
                PROVE  Cardinality({t \in Scheduling!Tasks : /\ To[t] = c /\ task[t].counted
                               /\ task[t].status \in {"CALLING", "FAILED"}}) <= Limit
    BY SameCardinality DEF Scheduling!DailyLimitHolds
  <2>. DEFINE T == {t \in Scheduling!Tasks : /\ To[t] = c /\ task[t].counted
                               /\ task[t].status \in {"CALLING", "FAILED"}}
  <2>1. T \subseteq Load(c)
    BY DEF Load, Spoken
  <2>2. IsFiniteSet(Load(c)) /\ Cardinality(Load(c)) <= Limit
    BY LoadFinite DEF SchedulingInv, Load
  <2>. HIDE DEF T
  <2>3. IsFiniteSet(T) /\ Cardinality(T) <= Cardinality(Load(c))
    BY <2>1, <2>2, FS_Subset
  <2>4. Cardinality(T) \in Nat /\ Cardinality(Load(c)) \in Nat
    BY <2>2, <2>3, FS_CardinalityType
  <2>5. Cardinality(T) <= Limit
    BY <2>2, <2>3, <2>4 DEF SchedulingBounds
  <2>. QED
    BY <2>5 DEF T
<1>. QED
  BY <1>1, <1>2, <1>3, PTL DEF Scheduling!Spec

-----------------------------------------------------------------------------
(***************************************************************************)
(* Roles in memory (RoleMap.tla: system.service.ts and                     *)
(* role-permission-map.refresher.ts).                                      *)
(***************************************************************************)
Permissions == INSTANCE RoleMap

HandlerBound == Handler \in [Requests -> Processes]

RoleRequests == [step : {"none", "counted", "read", "set"}, role : Roles \cup {"none"},
                 seen : [Roles -> Nat]]

(* A process that is not behind has one refresh under way at most, and if  *)
(* that one has read the roles, it has read them as they are.              *)
RolesInv ==
  /\ table \in [Roles -> Nat]
  /\ map \in [Processes -> [Roles -> Nat]]
  /\ req \in [Requests -> RoleRequests]
  /\ \A x \in Requests : req[x].step = "none" => req[x] = Permissions!NoRequest
  /\ \A x \in Requests : req[x].step = "counted" => req[x].role \in Roles
  /\ \A p \in Processes \ behind :
       /\ \A x, y \in Permissions!Refreshing(p) : x = y
       /\ Permissions!Refreshing(p) = {} => map[p] = table
       /\ \A x \in Permissions!Refreshing(p) : req[x].step = "set" => req[x].seen = table

LEMMA RolesInit == ASSUME HandlerBound, Permissions!Init PROVE RolesInv
<1>1. Permissions!Empty \in [Roles -> Nat]
  BY DEF Permissions!Empty
<1>2. table \in [Roles -> Nat] /\ map = [p \in Processes |-> table]
      /\ req = [x \in Requests |-> Permissions!NoRequest]
  BY DEF Permissions!Init
<1>3. \A x \in Requests : req[x] = Permissions!NoRequest
  BY <1>2
<1>4. /\ Permissions!NoRequest.step = "none"
      /\ Permissions!NoRequest \in RoleRequests
  BY <1>1 DEF Permissions!NoRequest, RoleRequests
<1>5. \A p \in Processes : Permissions!Refreshing(p) = {} /\ map[p] = table
  BY <1>2, <1>3, <1>4 DEF Permissions!Refreshing, Permissions!In
<1>. QED
  BY <1>2, <1>3, <1>4, <1>5 DEF RolesInv

(* One request moves on, in its own process.                               *)
OneMoves(x, r) ==
  /\ req' \in [Requests -> RoleRequests]
  /\ req'[x] = r /\ \A y \in Requests \ {x} : req'[y] = req[y]
  /\ \A y \in Requests : req'[y].step = "none" => req'[y] = Permissions!NoRequest
  /\ \A y \in Requests : req'[y].step = "counted" => req'[y].role \in Roles
  /\ \A p \in Processes \ {Handler[x]} :
       /\ Permissions!Refreshing(p)' = Permissions!Refreshing(p)
       /\ \A y \in Permissions!Refreshing(p) : req'[y] = req[y]
  /\ Permissions!Refreshing(Handler[x])' =
       IF r.step \in {"read", "set"} THEN Permissions!Refreshing(Handler[x]) \cup {x}
       ELSE Permissions!Refreshing(Handler[x]) \ {x}

LEMMA OneRequest ==
  ASSUME HandlerBound, RolesInv, NEW x \in Requests, NEW r \in RoleRequests,
         req' = [req EXCEPT ![x] = r],
         r.step = "none" => r = Permissions!NoRequest,
         r.step = "counted" => r.role \in Roles
  PROVE  OneMoves(x, r)
<1>1. req \in [Requests -> RoleRequests]
  BY DEF RolesInv
<1>2. req'[x] = r /\ \A y \in Requests \ {x} : req'[y] = req[y]
  BY <1>1
<1>3. req' \in [Requests -> RoleRequests]
  BY <1>1
<1>4. \A y \in Requests : /\ req'[y].step = "none" => req'[y] = Permissions!NoRequest
                          /\ req'[y].step = "counted" => req'[y].role \in Roles
  BY <1>2 DEF RolesInv
<1>5. \A p \in Processes \ {Handler[x]} :
       /\ Permissions!Refreshing(p)' = Permissions!Refreshing(p)
       /\ \A y \in Permissions!Refreshing(p) : req'[y] = req[y]
  BY <1>2 DEF Permissions!Refreshing, Permissions!In
<1>6. Permissions!Refreshing(Handler[x])' =
       IF r.step \in {"read", "set"} THEN Permissions!Refreshing(Handler[x]) \cup {x}
       ELSE Permissions!Refreshing(Handler[x]) \ {x}
  BY <1>2 DEF Permissions!Refreshing, Permissions!In
<1>. QED
  BY <1>2, <1>3, <1>4, <1>5, <1>6 DEF OneMoves

(* What is left to show of a step of one request.                          *)
KeepsUp(x, p) ==
  \/ /\ p # Handler[x] /\ p \notin behind /\ table' = table /\ map'[p] = map[p]
  \/ /\ p = Handler[x]
     /\ \A y, z \in Permissions!Refreshing(p)' : y = z
     /\ Permissions!Refreshing(p)' = {} => map'[p] = table'
     /\ \A y \in Permissions!Refreshing(p)' : req'[y].step = "set" => req'[y].seen = table'

LEMMA RolesKept ==
  ASSUME RolesInv, NEW x \in Requests, NEW r, OneMoves(x, r),
         table' \in [Roles -> Nat], map' \in [Processes -> [Roles -> Nat]],
         \A p \in Processes \ behind' : KeepsUp(x, p)
  PROVE  RolesInv'
<1>1. ASSUME NEW p \in Processes \ behind'
      PROVE  /\ \A y, z \in Permissions!Refreshing(p)' : y = z
             /\ Permissions!Refreshing(p)' = {} => map'[p] = table'
             /\ \A y \in Permissions!Refreshing(p)' :
                  req'[y].step = "set" => req'[y].seen = table'
  <2>1. CASE p # Handler[x] /\ p \notin behind /\ table' = table /\ map'[p] = map[p]
    <3>1. /\ Permissions!Refreshing(p)' = Permissions!Refreshing(p)
          /\ \A y \in Permissions!Refreshing(p) : req'[y] = req[y]
      BY <2>1 DEF OneMoves
    <3>2. /\ \A y, z \in Permissions!Refreshing(p) : y = z
          /\ Permissions!Refreshing(p) = {} => map[p] = table
          /\ \A y \in Permissions!Refreshing(p) : req[y].step = "set" => req[y].seen = table
      BY <2>1 DEF RolesInv
    <3>. QED
      BY <2>1, <3>1, <3>2
  <2>. QED
    BY <2>1 DEF KeepsUp
<1>. QED
  BY <1>1 DEF RolesInv, OneMoves

LEMMA StoredKeeps ==
  ASSUME HandlerBound, RolesInv, NEW x \in Requests, NEW r \in Roles, NEW g \in Nat,
         req[x].step \in {"none", "counted"}, Permissions!Stored(x, r, g)
  PROVE  RolesInv'
<1>. DEFINE n == [Permissions!NoRequest EXCEPT !.step = "read"]
<1>1. /\ table' = [table EXCEPT ![r] = g] /\ req' = [req EXCEPT ![x] = n] /\ UNCHANGED map
      /\ behind' = behind \cup (Processes \ {Handler[x]})
                   \cup (IF Permissions!Refreshing(Handler[x]) = {} THEN {} ELSE {Handler[x]})
  BY DEF Permissions!Stored
<1>2. n \in RoleRequests /\ n.step = "read"
  BY DEF Permissions!NoRequest, Permissions!Empty, RoleRequests
<1>3. table' \in [Roles -> Nat] /\ map' \in [Processes -> [Roles -> Nat]]
  BY <1>1 DEF RolesInv
<1>. HIDE DEF n
<1>4. OneMoves(x, n)
  BY <1>1, <1>2, OneRequest
<1>5. ASSUME NEW p \in Processes \ behind'
      PROVE  /\ p = Handler[x] /\ Permissions!Refreshing(p)' = {x} /\ req'[x].step = "read"
  <2>1. p = Handler[x] /\ Permissions!Refreshing(p) = {}
    BY <1>1
  <2>. QED
    BY <1>2, <1>4, <2>1 DEF OneMoves
<1>. QED
  BY <1>3, <1>4, <1>5, RolesKept DEF KeepsUp

LEMMA RolesNext ==
  ASSUME HandlerBound, RolesInv, [Permissions!Next]_Permissions!vars PROVE RolesInv'
<1>0. /\ Permissions!NoRequest \in RoleRequests /\ Permissions!NoRequest.step = "none"
      /\ Permissions!Empty \in [Roles -> Nat]
      /\ table \in [Roles -> Nat] /\ map \in [Processes -> [Roles -> Nat]]
      /\ req \in [Requests -> RoleRequests]
      /\ \A x \in Requests : req[x] \in RoleRequests /\ Handler[x] \in Processes
  BY DEF RolesInv, Permissions!NoRequest, Permissions!Empty, HandlerBound, RoleRequests
<1>. DEFINE Own(x) == /\ \A y, z \in Permissions!Refreshing(Handler[x]) : y = z
                      /\ Permissions!Refreshing(Handler[x]) = {} => map[Handler[x]] = table
                      /\ \A y \in Permissions!Refreshing(Handler[x]) :
                           req[y].step = "set" => req[y].seen = table
<1>a. \A x \in Requests : Handler[x] \notin behind => Own(x)
  BY <1>0 DEF RolesInv
<1>1. ASSUME NEW x \in Requests, NEW r \in Roles,
             Permissions!CreateRole(x, r) \/ Permissions!UpdateRole(x, r)
      PROVE  RolesInv'
  <2>1. PICK g \in Nat : req[x] = Permissions!NoRequest /\ Permissions!Stored(x, r, g)
    BY <1>1 DEF Permissions!CreateRole, Permissions!UpdateRole, Permissions!Grants
  <2>. QED
    BY <1>0, <2>1, StoredKeeps
<1>2. ASSUME NEW x \in Requests, NEW n \in RoleRequests, req' = [req EXCEPT ![x] = n],
             n.step \in {"none", "counted"}, req[x].step \in {"none", "counted"},
             n.step = "none" => n = Permissions!NoRequest, n.step = "counted" => n.role \in Roles,
             UNCHANGED <<table, map, behind>>
      PROVE  RolesInv'
  <2>1. OneMoves(x, n)
    BY <1>2, OneRequest
  <2>2. x \notin Permissions!Refreshing(Handler[x])
    BY <1>2 DEF Permissions!Refreshing
  <2>3. Permissions!Refreshing(Handler[x])' = Permissions!Refreshing(Handler[x])
        /\ \A y \in Permissions!Refreshing(Handler[x]) : y \in Requests \ {x} /\ req'[y] = req[y]
    BY <1>2, <2>1, <2>2 DEF OneMoves, Permissions!Refreshing, Permissions!In
  <2>4. ASSUME NEW p \in Processes \ behind PROVE KeepsUp(x, p)
    <3>1. CASE p = Handler[x]
      BY <1>2, <1>a, <2>3, <3>1 DEF KeepsUp
    <3>2. CASE p # Handler[x]
      BY <1>2, <3>2 DEF KeepsUp
    <3>. QED
      BY <3>1, <3>2
  <2>. QED
    BY <1>0, <1>2, <2>1, <2>4, RolesKept
<1>3. ASSUME NEW x \in Requests, NEW r \in Roles, Permissions!CountUsers(x, r)
      PROVE  RolesInv'
  <2>. DEFINE n == [req[x] EXCEPT !.step = "counted", !.role = r]
  <2>1. n \in RoleRequests /\ n.step = "counted" /\ n.role = r
    BY <1>0 DEF RoleRequests
  <2>2. req' = [req EXCEPT ![x] = n] /\ UNCHANGED <<table, map, behind>>
        /\ req[x] = Permissions!NoRequest
    BY <1>3 DEF Permissions!CountUsers
  <2>. HIDE DEF n
  <2>. QED
    BY <1>0, <1>2, <2>1, <2>2
<1>4. ASSUME NEW x \in Requests, Permissions!DeleteRole(x) PROVE RolesInv'
  <2>1. req[x].step = "counted" /\ req[x].role \in Roles
    BY <1>4 DEF Permissions!DeleteRole, RolesInv
  <2>2. CASE Permissions!Stored(x, req[x].role, 0)
    BY <2>1, <2>2, StoredKeeps
  <2>3. CASE req' = [req EXCEPT ![x] = Permissions!NoRequest] /\ UNCHANGED <<table, map, behind>>
    BY <1>0, <1>2, <2>1, <2>3
  <2>. QED
    BY <1>4, <2>2, <2>3 DEF Permissions!DeleteRole
<1>5. ASSUME NEW x \in Requests, Permissions!Read(x) PROVE RolesInv'
  <2>. DEFINE n == [req[x] EXCEPT !.step = "set", !.seen = table]
  <2>1. n \in RoleRequests /\ n.step = "set" /\ n.seen = table
    BY <1>0 DEF RoleRequests
  <2>2. /\ req' = [req EXCEPT ![x] = n] /\ UNCHANGED <<table, map>>
        /\ behind' = IF Permissions!Refreshing(Handler[x]) = {x}
                        THEN behind \ {Handler[x]} ELSE behind
    BY <1>5 DEF Permissions!Read
  <2>3. x \in Permissions!Refreshing(Handler[x])
    BY <1>5 DEF Permissions!Read, Permissions!Refreshing, Permissions!In
  <2>. HIDE DEF n
  <2>4. OneMoves(x, n)
    BY <2>1, <2>2, OneRequest
  <2>5. Permissions!Refreshing(Handler[x])' = Permissions!Refreshing(Handler[x])
    BY <2>1, <2>3, <2>4 DEF OneMoves
  <2>6. Handler[x] \notin behind' => Permissions!Refreshing(Handler[x]) = {x}
    <3>1. CASE Handler[x] \notin behind
      BY <1>a, <2>3, <3>1
    <3>. QED
      BY <2>2, <3>1
  <2>7. req'[x].seen = table
    BY <2>1, <2>4 DEF OneMoves
  <2>8. \A p \in Processes \ behind' : p # Handler[x] => p \notin behind
    BY <2>2
  <2>9. ASSUME NEW p \in Processes \ behind' PROVE KeepsUp(x, p)
    <3>1. CASE p = Handler[x]
      BY <2>2, <2>5, <2>6, <2>7, <2>9, <3>1 DEF KeepsUp
    <3>2. CASE p # Handler[x]
      BY <2>2, <2>8, <2>9, <3>2 DEF KeepsUp
    <3>. QED
      BY <3>1, <3>2
  <2>. QED
    BY <1>0, <2>2, <2>4, <2>9, RolesKept
<1>6. ASSUME NEW x \in Requests, Permissions!SetMap(x) PROVE RolesInv'
  <2>1. /\ req' = [req EXCEPT ![x] = Permissions!NoRequest] /\ UNCHANGED <<table, behind>>
        /\ map' = [map EXCEPT ![Handler[x]] = req[x].seen] /\ req[x].step = "set"
        /\ req[x].seen \in [Roles -> Nat]
    BY <1>0, <1>6 DEF Permissions!SetMap, RoleRequests
  <2>2. x \in Permissions!Refreshing(Handler[x])
    BY <2>1 DEF Permissions!Refreshing, Permissions!In
  <2>3. map' \in [Processes -> [Roles -> Nat]] /\ map'[Handler[x]] = req[x].seen
        /\ \A p \in Processes \ {Handler[x]} : map'[p] = map[p]
    BY <1>0, <2>1
  <2>4. OneMoves(x, Permissions!NoRequest)
    BY <1>0, <2>1, OneRequest
  <2>5. Handler[x] \notin behind =>
          Permissions!Refreshing(Handler[x])' = {} /\ req[x].seen = table
    BY <1>0, <1>a, <2>1, <2>2, <2>4 DEF OneMoves
  <2>. QED
    BY <1>0, <2>1, <2>3, <2>4, <2>5, RolesKept DEF KeepsUp
<1>7. ASSUME NEW x \in Requests, Permissions!RefreshFails(x) PROVE RolesInv'
  <2>1. /\ req' = [req EXCEPT ![x] = Permissions!NoRequest] /\ UNCHANGED <<table, map>>
        /\ behind' = behind \cup {Handler[x]}
    BY <1>7 DEF Permissions!RefreshFails
  <2>2. OneMoves(x, Permissions!NoRequest)
    BY <1>0, <2>1, OneRequest
  <2>. QED
    BY <1>0, <2>1, <2>2, RolesKept DEF KeepsUp
<1>8. ASSUME NEW r \in Roles, Permissions!Assign(r) PROVE RolesInv'
  BY <1>8 DEF Permissions!Assign, RolesInv, Permissions!Refreshing, Permissions!In
<1>9. ASSUME NEW p \in Processes, Permissions!Restart(p) PROVE RolesInv'
  <2>1. /\ UNCHANGED table
        /\ req' = [x \in Requests |-> IF x \in Permissions!In(p)
                                         THEN Permissions!NoRequest ELSE req[x]]
        /\ \/ map' = [map EXCEPT ![p] = table] /\ behind' = behind \ {p}
           \/ map' = [map EXCEPT ![p] = Permissions!Empty] /\ behind' = behind \cup {p}
    BY <1>9 DEF Permissions!Restart
  <2>2. map' \in [Processes -> [Roles -> Nat]] /\ (p \notin behind' => map'[p] = table)
        /\ \A q \in Processes \ {p} : map'[q] = map[q] /\ (q \in behind' <=> q \in behind)
    BY <1>0, <2>1
  <2>3. req' \in [Requests -> RoleRequests]
        /\ \A x \in Requests : req'[x] = IF x \in Permissions!In(p)
                                            THEN Permissions!NoRequest ELSE req[x]
    BY <1>0, <2>1
  <2>4. Permissions!Refreshing(p)' = {}
    BY <1>0, <2>3 DEF Permissions!Refreshing, Permissions!In
  <2>5. \A q \in Processes \ {p} :
          /\ Permissions!Refreshing(q)' = Permissions!Refreshing(q)
          /\ \A y \in Permissions!Refreshing(q) : req'[y] = req[y]
    BY <2>3 DEF Permissions!Refreshing, Permissions!In
  <2>6. ASSUME NEW q \in Processes \ behind'
        PROVE  /\ \A y, z \in Permissions!Refreshing(q)' : y = z
               /\ Permissions!Refreshing(q)' = {} => map'[q] = table
               /\ \A y \in Permissions!Refreshing(q)' : req'[y].step = "set" => req'[y].seen = table
    <3>1. CASE q = p
      BY <2>2, <2>4, <3>1
    <3>2. CASE q # p
      BY <2>2, <2>5, <3>2 DEF RolesInv
    <3>. QED
      BY <3>1, <3>2
  <2>7. \A x \in Requests : /\ req'[x].step = "none" => req'[x] = Permissions!NoRequest
                            /\ req'[x].step = "counted" => req'[x].role \in Roles
    BY <1>0, <2>3 DEF RolesInv
  <2>. QED
    BY <1>0, <2>1, <2>2, <2>3, <2>6, <2>7 DEF RolesInv
<1>10. CASE UNCHANGED Permissions!vars
  BY <1>10 DEF Permissions!vars, RolesInv, Permissions!Refreshing, Permissions!In
<1>. QED
  BY <1>1, <1>3, <1>4, <1>5, <1>6, <1>7, <1>8, <1>9, <1>10 DEF Permissions!Next

\* A process that no change, refresh or failure left behind goes by the roles as they are
\* once no request is under way in it, however the reads and writes of its requests
\* interleave (role-permission-map.refresher.ts:24-35); for any number of processes.
THEOREM MapsAreCurrent == ASSUME HandlerBound PROVE Permissions!Spec => []Permissions!MapIsCurrent
<1>1. Permissions!Init => RolesInv
  BY RolesInit
<1>2. RolesInv /\ [Permissions!Next]_Permissions!vars => RolesInv'
  BY RolesNext
<1>3. RolesInv => Permissions!MapIsCurrent
  BY DEF RolesInv, Permissions!MapIsCurrent, Permissions!Refreshing, Permissions!In,
     Permissions!NoRequest
<1>. QED
  BY <1>1, <1>2, <1>3, PTL DEF Permissions!Spec

-----------------------------------------------------------------------------
(***************************************************************************)
(* Users (UserProjection.tla: system.service.ts).  While one call is under *)
(* way the two tables differ in its account alone, by what that call has   *)
(* done so far.                                                            *)
(***************************************************************************)
Users == INSTANCE UserProjection

UserOps == [kind : {"none", "create", "update", "delete", "sync"},
            step : {"none", "put", "remove", "applied", "failed"}, id : Users!Ids \cup {0},
            account : Users!Accounts, field : {"none", "status", "role"}]

UserTypes ==
  /\ row \in [Users!Ids -> Users!Accounts] /\ remote \in [Users!Ids -> Users!Accounts]
  /\ ids \in 0..MaxIds
  /\ op \in [Operators -> UserOps]
  /\ \A o \in Operators : ~Users!Idle(o) =>
       /\ op[o].kind # "none" /\ op[o].step # "none" /\ op[o].id \in Users!Ids
       /\ op[o].step = "put" => op[o].kind # "delete"
       /\ op[o].step = "remove" => op[o].kind = "delete"
       /\ op[o].kind = "update" => op[o].field \in {"status", "role"}
       /\ op[o].kind # "delete" => op[o].account \in Users!Account

SameBut(i) == \A j \in Users!Ids \ {i} : remote[j] = row[j]

(* How far the two tables are apart while the call w is under way.         *)
Apart(w) ==
  /\ SameBut(w.id) /\ row[w.id] # Users!Absent
  /\ w.kind = "create" => /\ row[w.id] = w.account
                          /\ remote[w.id] = IF w.step = "applied" THEN w.account ELSE Users!Absent
  /\ w.kind = "update" =>
       /\ \A f \in {"status", "role"} \ {w.field} : w.account[f] = row[w.id][f]
       /\ remote[w.id] = IF w.step = "applied" THEN w.account ELSE row[w.id]
  /\ w.kind = "sync" => row[w.id] = w.account /\ remote[w.id] = row[w.id]
  /\ w.kind = "delete" =>
       remote[w.id] = IF w.step = "applied" THEN Users!Absent ELSE row[w.id]

UsersInv ==
  /\ UserTypes
  /\ unsure \in BOOLEAN /\ crossed \in BOOLEAN
  /\ ~unsure /\ ~crossed =>
       /\ \A o, p \in Operators : Users!Idle(o) \/ Users!Idle(p) \/ o = p
       /\ (\A o \in Operators : Users!Idle(o)) => row = remote
       /\ \A o \in Operators : Users!Idle(o) \/ Apart(op[o])

LEMMA UsersInit == ASSUME MaxIds \in Nat, Users!Init PROVE UsersInv
<1>1. Users!NoOp \in UserOps /\ Users!Absent \in Users!Accounts
  BY DEF Users!NoOp, UserOps, Users!Accounts, Users!Absent
<1>2. UserTypes
  BY <1>1 DEF UserTypes, Users!Init, Users!Idle
<1>3. \A o \in Operators : Users!Idle(o)
  BY DEF Users!Init, Users!Idle
<1>4. row = remote /\ unsure \in BOOLEAN /\ crossed \in BOOLEAN
  BY DEF Users!Init
<1>. QED
  BY <1>2, <1>3, <1>4 DEF UsersInv

LEMMA AccountsDiffer ==
  /\ Users!Absent \notin Users!Account
  /\ \A a \in Users!Account : a \in Users!Accounts /\ a # Users!Absent
  /\ Users!Absent \in Users!Accounts
  /\ \A a \in Users!Accounts : a \in Users!Account \/ a = Users!Absent
  /\ \A a, b \in Users!Account : a.status = b.status /\ a.role = b.role => a = b
<1>1. Users!Absent \notin Users!Account
  BY DEF Users!Absent, Users!Account
<1>2. \A a, b \in Users!Account : a.status = b.status /\ a.role = b.role => a = b
  BY DEF Users!Account
<1>. QED
  BY <1>1, <1>2 DEF Users!Accounts

(* A call begins: alone, with the tables agreeing, or it is remembered     *)
(* that two met.                                                           *)
LEMMA StartKeeps ==
  ASSUME MaxIds \in Nat, UsersInv, NEW o \in Operators, NEW w \in UserOps,
         Users!Start(o, w.kind, w.step, w.id, w.account, w.field),
         w.kind # "none", w.id \in Users!Ids, w.step = IF w.kind = "delete"
                                                          THEN "remove" ELSE "put",
         w.kind = "update" => w.field \in {"status", "role"},
         w.kind # "delete" => w.account \in Users!Account,
         UNCHANGED <<remote, unsure>>, ids' \in 0..MaxIds,
         row' \in [Users!Ids -> Users!Accounts],
         row = remote => Apart(w)'
  PROVE  UsersInv'
<1>1. w = [kind |-> w.kind, step |-> w.step, id |-> w.id, account |-> w.account, field |-> w.field]
  BY DEF UserOps
<1>2. op' = [op EXCEPT ![o] = w] /\ Users!Idle(o)
      /\ crossed' = (crossed \/ \E p \in Operators \ {o} : ~Users!Idle(p))
  BY <1>1 DEF Users!Start
<1>3. op' \in [Operators -> UserOps] /\ op'[o] = w
      /\ \A p \in Operators \ {o} : op'[p] = op[p]
  BY <1>2 DEF UsersInv, UserTypes
<1>4. \A p \in Operators \ {o} : Users!Idle(p)' <=> Users!Idle(p)
  BY <1>3 DEF Users!Idle
<1>5. UserTypes'
  <2>1. ASSUME NEW p \in Operators, ~Users!Idle(p)'
        PROVE  /\ op'[p].kind # "none" /\ op'[p].step # "none" /\ op'[p].id \in Users!Ids
               /\ op'[p].step = "put" => op'[p].kind # "delete"
               /\ op'[p].step = "remove" => op'[p].kind = "delete"
               /\ op'[p].kind = "update" => op'[p].field \in {"status", "role"}
               /\ op'[p].kind # "delete" => op'[p].account \in Users!Account
    <3>1. CASE p = o
      BY <1>3, <3>1
    <3>2. CASE p # o
      BY <1>3, <1>4, <2>1, <3>2 DEF UsersInv, UserTypes
    <3>. QED
      BY <3>1, <3>2
  <2>. QED
    BY <1>3, <2>1 DEF UsersInv, UserTypes
<1>b. unsure' \in BOOLEAN /\ crossed' \in BOOLEAN
  BY <1>2 DEF UsersInv
<1>6. CASE unsure \/ crossed'
  BY <1>b, <1>5, <1>6 DEF UsersInv
<1>7. CASE ~unsure /\ ~crossed'
  <2>1. ~crossed /\ \A p \in Operators : Users!Idle(p)
    BY <1>2, <1>7 DEF UsersInv
  <2>2. row = remote
    BY <1>7, <2>1 DEF UsersInv
  <2>3. ~Users!Idle(o)'
    BY <1>3 DEF Users!Idle, Users!NoOp
  <2>4. Apart(op[o])'
    BY <1>3, <2>2 DEF Apart, SameBut
  <2>5. \A p \in Operators \ {o} : Users!Idle(p)'
    BY <1>4, <2>1
  <2>. QED
    BY <1>5, <1>b, <2>3, <2>4, <2>5 DEF UsersInv
<1>. QED
  BY <1>5, <1>6, <1>7 DEF UsersInv

(* A call goes on or returns; the others have nothing under way.           *)
LEMMA StepKeeps ==
  ASSUME UsersInv, NEW o \in Operators, ~Users!Idle(o), NEW w \in UserOps,
         op' = [op EXCEPT ![o] = w], UNCHANGED <<ids, crossed>>,
         row' \in [Users!Ids -> Users!Accounts], remote' \in [Users!Ids -> Users!Accounts],
         \/ w = Users!NoOp
         \/ /\ w.step \in {"applied", "failed"} /\ w.kind = op[o].kind /\ w.id = op[o].id
            /\ w.account = op[o].account /\ w.field = op[o].field,
         unsure' \in BOOLEAN, unsure => unsure',
         ~unsure' /\ Apart(op[o]) => IF w = Users!NoOp THEN row' = remote' ELSE Apart(w)'
  PROVE  UsersInv'
<1>1. op' \in [Operators -> UserOps] /\ op'[o] = w /\ \A p \in Operators \ {o} : op'[p] = op[p]
  BY DEF UsersInv, UserTypes
<1>2. \A p \in Operators \ {o} : Users!Idle(p)' <=> Users!Idle(p)
  BY <1>1 DEF Users!Idle
<1>3. UserTypes'
  <2>1. ASSUME NEW p \in Operators, ~Users!Idle(p)'
        PROVE  /\ op'[p].kind # "none" /\ op'[p].step # "none" /\ op'[p].id \in Users!Ids
               /\ op'[p].step = "put" => op'[p].kind # "delete"
               /\ op'[p].step = "remove" => op'[p].kind = "delete"
               /\ op'[p].kind = "update" => op'[p].field \in {"status", "role"}
               /\ op'[p].kind # "delete" => op'[p].account \in Users!Account
    <3>1. CASE p = o
      <4>1. w # Users!NoOp
        BY <1>1, <2>1, <3>1 DEF Users!Idle
      <4>2. op[o].kind # "none" /\ op[o].id \in Users!Ids
            /\ (op[o].kind = "update" => op[o].field \in {"status", "role"})
            /\ (op[o].kind # "delete" => op[o].account \in Users!Account)
        BY DEF UsersInv, UserTypes
      <4>. QED
        BY <1>1, <3>1, <4>1, <4>2
    <3>2. CASE p # o
      BY <1>1, <1>2, <2>1, <3>2 DEF UsersInv, UserTypes
    <3>. QED
      BY <3>1, <3>2
  <2>. QED
    BY <1>1, <2>1 DEF UsersInv, UserTypes
<1>4. CASE unsure' \/ crossed
  BY <1>3, <1>4 DEF UsersInv
<1>5. CASE ~unsure' /\ ~crossed
  <2>1. ~unsure /\ Apart(op[o]) /\ \A p \in Operators \ {o} : Users!Idle(p)
    BY <1>5 DEF UsersInv
  <2>2. IF w = Users!NoOp THEN row' = remote' ELSE Apart(w)'
    BY <1>5, <2>1
  <2>3. \A p \in Operators \ {o} : Users!Idle(p)'
    BY <1>2, <2>1
  <2>4. Users!Idle(o)' <=> w = Users!NoOp
    BY <1>1 DEF Users!Idle
  <2>5. Users!Idle(o)' \/ Apart(op[o])'
    BY <1>1, <2>2, <2>4 DEF Apart, SameBut
  <2>. QED
    BY <1>3, <1>5, <2>2, <2>3, <2>4, <2>5 DEF UsersInv
<1>. QED
  BY <1>3, <1>4, <1>5 DEF UsersInv

LEMMA UsersNext == ASSUME MaxIds \in Nat, UsersInv, [Users!Next]_Users!vars PROVE UsersInv'
<1>0. /\ row \in [Users!Ids -> Users!Accounts] /\ remote \in [Users!Ids -> Users!Accounts]
      /\ ids \in 0..MaxIds /\ op \in [Operators -> UserOps]
  BY DEF UsersInv, UserTypes
<1>1. ASSUME NEW o \in Operators, Users!CreateUser(o) PROVE UsersInv'
  <2>1. PICK r \in {"viewer", "editor"} :
          LET new == [status |-> "active", role |-> r]
          IN  /\ row' = [row EXCEPT ![ids'] = new]
              /\ Users!Start(o, "create", "put", ids', new, "none")
    BY <1>1 DEF Users!CreateUser
  <2>. DEFINE new == [status |-> "active", role |-> r]
  <2>2. /\ ids' \in Users!Ids /\ ids' \in 0..MaxIds /\ UNCHANGED <<remote, unsure>>
        /\ \A i \in Users!Ids : row[i] = Users!Absent
    BY <1>0, <1>1 DEF Users!CreateUser, Users!Ids
  <2>3. new \in Users!Account
    BY DEF Users!Account
  <2>. HIDE DEF new
  <2>4. PICK w \in UserOps : /\ w.kind = "create" /\ w.step = "put" /\ w.id = ids'
                             /\ w.account = new /\ w.field = "none"
    <3>. DEFINE e == [kind |-> "create", step |-> "put", id |-> ids', account |-> new,
                      field |-> "none"]
    <3>1. e \in UserOps /\ e.kind = "create" /\ e.step = "put" /\ e.id = ids'
          /\ e.account = new /\ e.field = "none"
      BY <2>2, <2>3, AccountsDiffer DEF UserOps
    <3>. HIDE DEF e
    <3>. QED
      BY <3>1
  <2>5. Users!Start(o, w.kind, w.step, w.id, w.account, w.field)
    BY <2>1, <2>4 DEF new
  <2>6. row' = [row EXCEPT ![ids'] = new]
    BY <2>1 DEF new
  <2>7. row' \in [Users!Ids -> Users!Accounts] /\ row'[ids'] = new
        /\ \A j \in Users!Ids \ {ids'} : row'[j] = row[j]
    BY <1>0, <2>2, <2>3, <2>6, AccountsDiffer
  <2>8. row = remote => Apart(w)'
    BY <2>2, <2>3, <2>4, <2>7, AccountsDiffer DEF Apart, SameBut
  <2>. QED
    BY <2>2, <2>3, <2>4, <2>5, <2>7, <2>8, StartKeeps
<1>2. ASSUME NEW o \in Operators, NEW id \in Users!Ids, NEW w \in UserOps,
             Users!Start(o, w.kind, w.step, w.id, w.account, w.field), w.id = id,
             row[id] # Users!Absent, w.account \in Users!Account,
             UNCHANGED <<row, remote, ids, unsure>>,
             \/ w.kind = "sync" /\ w.step = "put" /\ w.account = row[id]
             \/ w.kind = "delete" /\ w.step = "remove"
             \/ /\ w.kind = "update" /\ w.step = "put" /\ w.field \in {"status", "role"}
                /\ \A f \in {"status", "role"} \ {w.field} : w.account[f] = row[id][f]
      PROVE  UsersInv'
  <2>1. row = remote => Apart(w)'
    BY <1>2 DEF Apart, SameBut
  <2>. QED
    BY <1>0, <1>2, <2>1, StartKeeps
<1>3. ASSUME NEW o \in Operators, NEW id \in Users!Ids, Users!UpdateUser(o, id) PROVE UsersInv'
  <2>1. PICK field \in {"status", "role"}, change \in Users!Account :
          /\ \A other \in {"status", "role"} : (change[other] # row[id][other]) = (other = field)
          /\ Users!Start(o, "update", "put", id, change, field)
    BY <1>3 DEF Users!UpdateUser
  <2>. DEFINE w == [kind |-> "update", step |-> "put", id |-> id, account |-> change,
                    field |-> field]
  <2>2. w \in UserOps /\ w.kind = "update" /\ w.step = "put" /\ w.id = id /\ w.account = change
        /\ w.field = field
    BY AccountsDiffer DEF UserOps
  <2>3. row[id] # Users!Absent /\ UNCHANGED <<row, remote, ids, unsure>>
    BY <1>3 DEF Users!UpdateUser
  <2>4. \A f \in {"status", "role"} \ {field} : change[f] = row[id][f]
    BY <2>1
  <2>. HIDE DEF w
  <2>. QED
    BY <1>2, <2>1, <2>2, <2>3, <2>4
<1>4. ASSUME NEW o \in Operators, NEW id \in Users!Ids, Users!DeleteUser(o, id) PROVE UsersInv'
  <2>. DEFINE w == [kind |-> "delete", step |-> "remove", id |-> id, account |-> row[id],
                    field |-> "none"]
  <2>1. row[id] # Users!Absent /\ UNCHANGED <<row, remote, ids, unsure>>
        /\ Users!Start(o, "delete", "remove", id, row[id], "none")
    BY <1>4 DEF Users!DeleteUser
  <2>2. row[id] \in Users!Account /\ row[id] \in Users!Accounts
    BY <1>0, <2>1, AccountsDiffer
  <2>3. w \in UserOps /\ w.kind = "delete" /\ w.step = "remove" /\ w.id = id /\ w.account = row[id]
        /\ w.field = "none"
    BY <2>2 DEF UserOps
  <2>. HIDE DEF w
  <2>. QED
    BY <1>2, <2>1, <2>2, <2>3
<1>5. ASSUME NEW o \in Operators, NEW id \in Users!Ids, Users!SyncAll(o, id) PROVE UsersInv'
  <2>. DEFINE w == [kind |-> "sync", step |-> "put", id |-> id, account |-> row[id],
                    field |-> "none"]
  <2>1. row[id] # Users!Absent /\ UNCHANGED <<row, remote, ids, unsure>>
        /\ Users!Start(o, "sync", "put", id, row[id], "none")
    BY <1>5 DEF Users!SyncAll
  <2>2. row[id] \in Users!Account /\ row[id] \in Users!Accounts
    BY <1>0, <2>1, AccountsDiffer
  <2>3. w \in UserOps /\ w.kind = "sync" /\ w.step = "put" /\ w.id = id /\ w.account = row[id]
        /\ w.field = "none"
    BY <2>2 DEF UserOps
  <2>. HIDE DEF w
  <2>. QED
    BY <1>2, <2>1, <2>2, <2>3
<1>6. ASSUME NEW o \in Operators, NEW s \in {"applied", "failed"}, ~Users!Idle(o),
             op[o].step \in {"put", "remove"}, Users!Step(o, s),
             UNCHANGED <<row, ids, crossed>>, unsure' \in BOOLEAN, unsure => unsure',
             \/ s = "failed" /\ (UNCHANGED remote \/ unsure')
             \/ s = "applied" /\ remote' = [remote EXCEPT ![op[o].id] =
                            IF op[o].step = "put" THEN op[o].account ELSE Users!Absent],
             remote' \in [Users!Ids -> Users!Accounts]
      PROVE  UsersInv'
  <2>. PICK v : v = op[o]
    OBVIOUS
  <2>. DEFINE w == [v EXCEPT !.step = s]
  <2>1. v \in UserOps /\ v.id \in Users!Ids /\ v.kind \in {"create", "update", "delete", "sync"}
        /\ (v.step = "put" => v.kind # "delete") /\ (v.step = "remove" => v.kind = "delete")
        /\ v.step \in {"put", "remove"}
    BY <1>0, <1>6 DEF UsersInv, UserTypes, UserOps
  <2>2. w \in UserOps /\ w.step = s /\ w.kind = v.kind /\ w.id = v.id /\ w.account = v.account
        /\ w.field = v.field
    BY <2>1 DEF UserOps
  <2>3. op' = [op EXCEPT ![o] = w]
    BY <1>6 DEF Users!Step
  <2>4. w # Users!NoOp
    BY <2>1, <2>2 DEF Users!NoOp
  <2>. HIDE DEF w
  <2>5. ASSUME ~unsure', Apart(v) PROVE Apart(w)'
    <3>1. CASE s = "failed"
      <4>1. UNCHANGED <<row, remote>>
        BY <1>6, <2>5, <3>1
      <4>2. Apart(w)
        BY <2>1, <2>2, <2>5, <3>1 DEF Apart, SameBut
      <4>. QED
        BY <4>1, <4>2 DEF Apart, SameBut
    <3>2. CASE s = "applied"
      <4>1. remote'[v.id] = IF v.kind = "delete" THEN Users!Absent ELSE v.account
        BY <1>0, <1>6, <2>1, <3>2
      <4>2. \A j \in Users!Ids \ {v.id} : remote'[j] = remote[j]
        BY <1>0, <1>6, <2>1, <3>2
      <4>3. UNCHANGED row
        BY <1>6
      <4>4. SameBut(w.id)' /\ row'[w.id] # Users!Absent
        BY <2>2, <2>5, <4>2, <4>3 DEF Apart, SameBut
      <4>5. w.kind = "sync" => row'[w.id] = w.account /\ remote'[w.id] = row'[w.id]
        BY <2>1, <2>2, <2>5, <4>1, <4>3 DEF Apart
      <4>. QED
        BY <2>2, <2>5, <3>2, <4>1, <4>3, <4>4, <4>5 DEF Apart
    <3>. QED
      BY <3>1, <3>2
  <2>6. \/ w = Users!NoOp
        \/ /\ w.step \in {"applied", "failed"} /\ w.kind = op[o].kind /\ w.id = op[o].id
           /\ w.account = op[o].account /\ w.field = op[o].field
    BY <2>2
  <2>. QED
    BY <1>0, <1>6, <2>2, <2>3, <2>4, <2>5, <2>6, StepKeeps
<1>7. ASSUME NEW o \in Operators, op[o].step \in {"put", "remove"}
      PROVE  /\ ~Users!Idle(o)
             /\ [remote EXCEPT ![op[o].id] = IF op[o].step = "put" THEN op[o].account
                                            ELSE Users!Absent] \in [Users!Ids -> Users!Accounts]
  <2>1. ~Users!Idle(o)
    BY <1>7 DEF Users!Idle, Users!NoOp
  <2>2. op[o].id \in Users!Ids /\ op[o].account \in Users!Accounts
    BY <1>0, <2>1 DEF UsersInv, UserTypes, UserOps
  <2>. QED
    BY <1>0, <2>1, <2>2, AccountsDiffer
<1>8. ASSUME NEW o \in Operators, Users!Answered(o) PROVE UsersInv'
  <2>1. op[o].step \in {"put", "remove"} /\ UNCHANGED <<row, ids, unsure, crossed>>
        /\ unsure \in BOOLEAN
    BY <1>8 DEF Users!Answered, UsersInv
  <2>2. \/ Users!Step(o, "failed") /\ UNCHANGED remote
        \/ /\ Users!Step(o, "applied")
           /\ remote' = [remote EXCEPT ![op[o].id] =
                            IF op[o].step = "put" THEN op[o].account ELSE Users!Absent]
    BY <1>8 DEF Users!Answered
  <2>. QED
    BY <1>0, <1>6, <1>7, <2>1, <2>2
<1>9. ASSUME NEW o \in Operators, Users!Unanswered(o) PROVE UsersInv'
  <2>1. op[o].step \in {"put", "remove"} /\ UNCHANGED <<row, ids, crossed>>
        /\ Users!Step(o, "failed") /\ unsure \in BOOLEAN
    BY <1>9 DEF Users!Unanswered, UsersInv
  <2>2. \/ UNCHANGED <<remote, unsure>>
        \/ /\ unsure' = TRUE
           /\ remote' = [remote EXCEPT ![op[o].id] =
                            IF op[o].step = "put" THEN op[o].account ELSE Users!Absent]
    BY <1>9 DEF Users!Unanswered
  <2>. QED
    BY <1>0, <1>6, <1>7, <2>1, <2>2
<1>10. ASSUME NEW o \in Operators, ~Users!Idle(o), Users!Return(o),
              UNCHANGED <<remote, ids, crossed>>, unsure' \in BOOLEAN, unsure => unsure',
              row' \in [Users!Ids -> Users!Accounts],
              ~unsure' /\ Apart(op[o]) =>
                /\ \A j \in Users!Ids \ {op[o].id} : row'[j] = row[j]
                /\ row'[op[o].id] = remote[op[o].id]
       PROVE  UsersInv'
  <2>1. Users!NoOp \in UserOps
    BY DEF Users!NoOp, UserOps, Users!Accounts
  <2>2. ~unsure' /\ Apart(op[o]) => row' = remote'
    BY <1>0, <1>10 DEF Apart, SameBut
  <2>. QED
    BY <1>0, <1>10, <2>1, <2>2, StepKeeps DEF Users!Return
<1>11. ASSUME NEW o \in Operators, op[o].step \in {"applied", "failed"}
       PROVE  ~Users!Idle(o) /\ op[o].id \in Users!Ids /\ op[o].account \in Users!Accounts
              /\ op[o].kind \in {"create", "update", "delete", "sync"}
              /\ (op[o].kind = "update" => op[o].field \in {"status", "role"}
                                           /\ op[o].account \in Users!Account)
  <2>1. ~Users!Idle(o)
    BY <1>11 DEF Users!Idle, Users!NoOp
  <2>. QED
    BY <1>0, <2>1 DEF UsersInv, UserTypes, UserOps
<1>12. ASSUME NEW o \in Operators, Users!LocalWrite(o) PROVE UsersInv'
  <2>. DEFINE v == op[o]
              i == v.id
  <2>0. v.step = "applied" /\ Users!Return(o) /\ UNCHANGED <<remote, ids, unsure, crossed>>
        /\ unsure \in BOOLEAN
    BY <1>12 DEF Users!LocalWrite, UsersInv
  <2>1. CASE v.kind = "update" /\ row[i] # Users!Absent
    <3>1. row' = [row EXCEPT ![i][v.field] = v.account[v.field]]
      BY <1>12, <2>1 DEF Users!LocalWrite
    <3>. DEFINE e == [row[i] EXCEPT ![v.field] = v.account[v.field]]
    <3>2. row[i] \in Users!Account /\ v.account \in Users!Account /\ v.field \in {"status", "role"}
          /\ i \in Users!Ids
      BY <1>0, <1>11, <2>0, <2>1, AccountsDiffer
    <3>3. e \in Users!Account /\ e[v.field] = v.account[v.field]
          /\ \A f \in {"status", "role"} \ {v.field} : e[f] = row[i][f]
      BY <3>2 DEF Users!Account
    <3>. HIDE DEF e
    <3>4. row'[i] = e /\ \A j \in Users!Ids \ {i} : row'[j] = row[j]
      BY <1>0, <3>1, <3>2 DEF e
    <3>5. row' \in [Users!Ids -> Users!Accounts]
      BY <1>0, <3>1, <3>2, <3>3, AccountsDiffer DEF e
    <3>6. ASSUME Apart(v) PROVE e = remote[i]
      <4>1. remote[i] = v.account
        BY <2>0, <2>1, <3>6 DEF Apart
      <4>2. e.status = v.account.status /\ e.role = v.account.role
        BY <2>1, <3>2, <3>3, <3>6 DEF Apart
      <4>. QED
        BY <3>2, <3>3, <4>1, <4>2, AccountsDiffer
    <3>. QED
      BY <1>10, <1>11, <2>0, <3>4, <3>5, <3>6
  <2>2. CASE v.kind = "delete"
    <3>1. row' = [row EXCEPT ![i] = Users!Absent]
      BY <1>12, <2>2 DEF Users!LocalWrite
    <3>2. row' \in [Users!Ids -> Users!Accounts] /\ i \in Users!Ids
      BY <1>0, <1>11, <2>0, <3>1, AccountsDiffer
    <3>3. row'[i] = Users!Absent /\ \A j \in Users!Ids \ {i} : row'[j] = row[j]
      BY <1>0, <3>1, <3>2
    <3>4. Apart(v) => remote[i] = Users!Absent
      BY <2>0, <2>2 DEF Apart
    <3>. QED
      BY <1>10, <1>11, <2>0, <3>2, <3>3, <3>4
  <2>3. CASE v.kind \notin {"update", "delete"} \/ (v.kind = "update" /\ row[i] = Users!Absent)
    <3>1. UNCHANGED row
      BY <1>12, <2>3 DEF Users!LocalWrite
    <3>2. Apart(v) => remote[i] = row[i]
      BY <1>11, <2>0, <2>3 DEF Apart
    <3>. QED
      BY <1>0, <1>10, <1>11, <2>0, <3>1, <3>2
  <2>. QED
    BY <2>1, <2>2, <2>3
<1>13. ASSUME NEW o \in Operators, Users!LocalWriteFails(o) PROVE UsersInv'
  BY <1>0, <1>10, <1>11, <1>13 DEF Users!LocalWriteFails
<1>14. ASSUME NEW o \in Operators, Users!Compensate(o) PROVE UsersInv'
  <2>. DEFINE v == op[o]
              i == v.id
  <2>0. v.step = "failed" /\ Users!Return(o) /\ UNCHANGED <<remote, ids, unsure, crossed>>
        /\ unsure \in BOOLEAN
        /\ row' = IF v.kind = "create" THEN [row EXCEPT ![i] = Users!Absent] ELSE row
    BY <1>14 DEF Users!Compensate, UsersInv
  <2>1. row' \in [Users!Ids -> Users!Accounts] /\ i \in Users!Ids
    BY <1>0, <1>11, <2>0, AccountsDiffer
  <2>2. row'[i] = (IF v.kind = "create" THEN Users!Absent ELSE row[i])
        /\ \A j \in Users!Ids \ {i} : row'[j] = row[j]
    BY <1>0, <2>0, <2>1
  <2>3. Apart(v) => remote[i] = IF v.kind = "create" THEN Users!Absent ELSE row[i]
    BY <1>11, <2>0 DEF Apart
  <2>. QED
    BY <1>10, <1>11, <2>0, <2>1, <2>2, <2>3
<1>15. CASE UNCHANGED Users!vars
  BY <1>15 DEF Users!vars, UsersInv, UserTypes, Users!Idle, Apart, SameBut
<1>. QED
  BY <1>1, <1>3, <1>4, <1>5, <1>8, <1>9, <1>12, <1>13, <1>14, <1>15 DEF Users!Next

\* While no answer was lost, no local write failed and no two calls met, ai-knowledge holds
\* the users that ai-call holds whenever no call is under way, and never one that ai-call
\* does not hold (system.service.ts:82-141, 184-185).
THEOREM ProjectionIsTrue ==
  ASSUME MaxIds \in Nat PROVE Users!Spec => [](Users!ProjectionAgrees /\ Users!NoGhosts)
<1>1. Users!Init => UsersInv
  BY UsersInit
<1>2. UsersInv /\ [Users!Next]_Users!vars => UsersInv'
  BY UsersNext
<1>3. UsersInv => Users!ProjectionAgrees
  BY DEF UsersInv, Users!ProjectionAgrees
<1>4. UsersInv => Users!NoGhosts
  <2>. SUFFICES ASSUME UsersInv, ~unsure, ~crossed, NEW i \in Users!Ids, remote[i] # Users!Absent
                PROVE  row[i] # Users!Absent
    BY DEF Users!NoGhosts
  <2>1. CASE \A o \in Operators : Users!Idle(o)
    BY <2>1 DEF UsersInv
  <2>2. ASSUME NEW o \in Operators, ~Users!Idle(o) PROVE row[i] # Users!Absent
    BY <2>2 DEF UsersInv, Apart, SameBut
  <2>. QED
    BY <2>1, <2>2
<1>. QED
  BY <1>1, <1>2, <1>3, <1>4, PTL DEF Users!Spec

-----------------------------------------------------------------------------
(***************************************************************************)
(* Handoff tickets (CallReview.tla: quality.service.ts and                 *)
(* handoffs.service.ts).                                                   *)
(***************************************************************************)
Review == INSTANCE CallReview

TicketFields == {"known", "status", "disposition", "completed", "callback"}

(* A ticket is not written before it was asked for; an operator that is    *)
(* between the two writes of a callback has seen it.                       *)
ReviewInv ==
  /\ DOMAIN writing = Operators
  /\ DOMAIN ticket = TicketFields
  /\ ticket.known \in BOOLEAN /\ ticket.completed \in BOOLEAN
  /\ \A o \in Operators : writing[o].at = "called" => ticket.known
  /\ ~ticket.known => ticket.status = "pending" /\ ~ticket.completed
  /\ Review!FinishedIsMarked

LEMMA ReviewInit == ASSUME Review!Init PROVE ReviewInv
BY DEF Review!Init, Review!Idle, ReviewInv, TicketFields, Review!FinishedIsMarked, Review!Final

LEMMA ReviewNext == ASSUME ReviewInv, [Review!Next]_Review!vars PROVE ReviewInv'
<1>. USE DEF Review!FinishedIsMarked, Review!Final
<1>1. ASSUME UNCHANGED ticket,
             \A o \in Operators : writing'[o].at = "called" => writing[o].at = "called"
                                                           \/ ticket.known,
             DOMAIN writing' = Operators
      PROVE  ReviewInv'
  BY <1>1 DEF ReviewInv
<1>2. ASSUME NEW o \in Operators,
             Review!AnalyzeReads(o) \/ Review!AnalyzeWrites(o) \/ Review!ApplyDisposition(o)
               \/ Review!CallBack(o) \/ Review!Fail(o)
      PROVE  ReviewInv'
  BY <1>1, <1>2 DEF ReviewInv, Review!AnalyzeReads, Review!AnalyzeWrites,
     Review!ApplyDisposition, Review!CallBack, Review!Fail, Review!Idle
<1>3. ASSUME NEW said \in Review!Outcomes,
             Review!Report(said) \/ \E o \in Operators : Review!Correct(o, said)
      PROVE  ReviewInv'
  BY <1>1, <1>3 DEF ReviewInv, Review!Report, Review!Correct
<1>4. ASSUME NEW o \in Operators, Review!CreateFromAnalysis(o) PROVE ReviewInv'
  BY <1>4 DEF ReviewInv, TicketFields, Review!CreateFromAnalysis
<1>5. ASSUME NEW o \in Operators, NEW given \in Review!Statuses \cup {"same"},
             NEW disposition \in Review!Dispositions, Review!Update(o, given, disposition)
      PROVE  ReviewInv'
  <2>1. /\ ticket.known /\ ticket'.known /\ DOMAIN ticket' = TicketFields
        /\ ticket'.status = IF given = "same" THEN ticket.status ELSE given
    BY <1>5 DEF ReviewInv, TicketFields, Review!Update
  <2>2. ticket'.completed = IF given = "same" THEN ticket.completed
                            ELSE given \in {"completed", "closed"}
    BY <1>5 DEF ReviewInv, TicketFields, Review!Update
  <2>3. DOMAIN writing' = Operators
    BY <1>5 DEF ReviewInv, Review!Update
  <2>4. CASE given = "same"
    BY <2>1, <2>3, <2>4, <2>2 DEF ReviewInv
  <2>5. CASE given # "same"
    <3>1. ticket'.status = given /\ ticket'.completed = (given \in {"completed", "closed"})
      BY <2>1, <2>5, <2>2
    <3>2. ticket'.status = "pending" => given \notin {"completed", "closed"}
      BY <3>1
    <3>3. ticket'.completed \in BOOLEAN
      BY <3>1
    <3>4. Review!FinishedIsMarked'
      BY <3>1, <3>2, Zenon
    <3>5. /\ \A p \in Operators : writing'[p].at = "called" => ticket'.known
          /\ ~ticket'.known => ticket'.status = "pending" /\ ~ticket'.completed
      BY <2>1, Zenon
    <3>. QED
      BY <2>1, <2>3, <3>3, <3>4, <3>5, Zenon DEF ReviewInv
  <2>. QED
    BY <2>4, <2>5
<1>6. ASSUME NEW o \in Operators, Review!LinkCallback(o) PROVE ReviewInv'
  <2>1. /\ ticket.known /\ ticket'.known /\ DOMAIN ticket' = TicketFields
        /\ ticket'.status = "processing" /\ ticket'.completed = ticket.completed
    BY <1>6 DEF ReviewInv, TicketFields, Review!LinkCallback
  <2>2. DOMAIN writing' = Operators
    BY <1>6 DEF ReviewInv, Review!LinkCallback
  <2>. QED
    BY <2>1, <2>2 DEF ReviewInv
<1>7. CASE UNCHANGED Review!vars
  BY <1>7 DEF Review!vars, ReviewInv
<1>. QED
  BY <1>2, <1>3, <1>4, <1>5, <1>6, <1>7 DEF Review!Next

\* For any number of operators, changes and callbacks: a finished ticket says when it was
\* finished and a pending one does not (handoffs.service.ts:90-105, 134-145).
THEOREM TicketIsMarked == Review!Spec => []Review!FinishedIsMarked
<1>1. ReviewInv => Review!FinishedIsMarked
  BY DEF ReviewInv
<1>. QED
  BY <1>1, ReviewInit, ReviewNext, PTL DEF Review!Spec

-----------------------------------------------------------------------------
(***************************************************************************)
(* Cloned voices (VoiceClones.tla: voice-clones.service.ts).  The row, the *)
(* files on disk and the voices in the cloud are written in turn, by       *)
(* requests that await in between; the invariant says what each stage of   *)
(* a request has written already and what it has yet to undo.              *)
(***************************************************************************)
Clones == INSTANCE VoiceClones

CloneRows == [status : {"preview", "ready", "failed"}, model : Models,
              voice : {Clones!Local} \cup Clones!CloudVoices, preview : Clones!Voices]

CloneTypes ==
  /\ row = Clones!Absent \/ row \in CloneRows
  /\ cloud \subseteq Clones!CloudVoices
  /\ at \in [Operators -> Clones!Stages]
  /\ seen \in [Operators -> {Clones!Absent} \cup CloneRows]
  /\ voice \in [Operators -> {Clones!None, Clones!Local} \cup Clones!CloudVoices]
  /\ \A o \in Operators : at[o] \in Clones!Synthesizing \cup {"insert"} => seen[o] \in CloneRows
  /\ tries \in Nat

Busy(o) == at[o] \in Clones!Synthesizing
Here == row # Clones!Absent

(* An upload is alone until its row is there; a removal has taken the row  *)
(* before it takes the files.                                              *)
UploadInv ==
  /\ \A o \in Operators : at[o] = "insert" =>
       /\ row = Clones!Absent /\ tries = 0
       /\ \A p \in Operators \ {o} : at[p] = "idle"
       /\ seen[o].voice = Clones!Local /\ seen[o].preview = Clones!None
  /\ \A o \in Operators : Busy(o) => tries > 0
  /\ tries = 0 => cloud = {}
  /\ \A o \in Operators : at[o] = "erase" => row = Clones!Absent

(* A synthesis speaks with the voice it found or with one it enrolled, and *)
(* what it found stays the row's unless requests replace it.               *)
SpeakInv ==
  /\ \A o \in Operators : Busy(o) =>
       /\ at[o] \in {"draft", "enroll"} => voice[o] = seen[o].voice
       /\ seen[o].voice # Clones!Local => voice[o] = seen[o].voice
       /\ at[o] \in {"speak", "store", "record"} => voice[o] \in cloud
       /\ seen[o].voice \in {Clones!Local} \cup cloud
       /\ Here /\ "replaced" \notin raced /\ seen[o].voice # Clones!Local =>
            row.voice = seen[o].voice
  /\ Here => /\ row.voice \in {Clones!Local} \cup cloud
             /\ row.preview \in {Clones!None, Clones!Uploaded} \cup cloud

ClonesBase == CloneTypes /\ UploadInv /\ SpeakInv

LEMMA CloudFacts ==
  /\ \A v \in Clones!CloudVoices : v \notin {Clones!None, Clones!Local, Clones!Uploaded}
  /\ \A m \in Models, n \in 1..MaxVoices :
       [model |-> m, no |-> n] \in Clones!CloudVoices
  /\ Clones!Absent \notin CloneRows
  /\ Clones!Local \in Clones!Voices /\ Clones!None \in Clones!Voices
  /\ Clones!Uploaded \in Clones!Voices /\ Clones!CloudVoices \subseteq Clones!Voices
<1>1. ASSUME NEW v \in Clones!CloudVoices
      PROVE  v \notin {Clones!None, Clones!Local, Clones!Uploaded}
  <2>1. PICK m \in Models, n \in 1..MaxVoices : v = [model |-> m, no |-> n]
    BY DEF Clones!CloudVoices
  <2>2. v.no # 0
    BY <2>1
  <2>. QED
    BY <2>2 DEF Clones!None, Clones!Local, Clones!Uploaded
<1>2. Clones!Absent \notin CloneRows
  BY DEF Clones!Absent, CloneRows
<1>. QED
  BY <1>1, <1>2 DEF Clones!CloudVoices, Clones!Voices

LEMMA ClonesInit == ASSUME Clones!Init PROVE ClonesBase
BY DEF Clones!Init, ClonesBase, CloneTypes, UploadInv, SpeakInv, Busy, Here, Clones!Stages,
   Clones!Synthesizing

(* A request that is over has nothing left.                                *)
LEMMA DoneIs ==
  ASSUME CloneTypes, NEW o \in Operators, Clones!Done(o)
  PROVE  /\ at' \in [Operators -> Clones!Stages]
         /\ seen' \in [Operators -> {Clones!Absent} \cup CloneRows]
         /\ voice' \in [Operators -> {Clones!None, Clones!Local} \cup Clones!CloudVoices]
         /\ at'[o] = "idle"
         /\ \A p \in Operators \ {o} : at'[p] = at[p] /\ seen'[p] = seen[p] /\ voice'[p] = voice[p]
BY DEF CloneTypes, Clones!Done, Clones!Go, Clones!Stages

(* Another stage of a request leaves the other requests where they are.    *)
Moves(o, s) ==
  /\ at' \in [Operators -> Clones!Stages] /\ at'[o] = s
  /\ seen' \in [Operators -> {Clones!Absent} \cup CloneRows]
  /\ voice' \in [Operators -> {Clones!None, Clones!Local} \cup Clones!CloudVoices]
  /\ \A p \in Operators \ {o} : at'[p] = at[p] /\ seen'[p] = seen[p] /\ voice'[p] = voice[p]

LEMMA GoIs ==
  ASSUME CloneTypes, NEW o \in Operators, NEW s \in Clones!Stages, Clones!Go(o, s)
  PROVE  /\ at' \in [Operators -> Clones!Stages] /\ at'[o] = s
         /\ \A p \in Operators \ {o} : at'[p] = at[p]
BY DEF CloneTypes, Clones!Go

(* Each request, as the invariants see it.                                 *)
UploadStep(o) ==
  /\ Moves(o, "insert") /\ at[o] = "idle" /\ row = Clones!Absent /\ tries = 0 /\ source'
  /\ ~source
  /\ \A p \in Operators : at[p] = "idle"
  /\ seen'[o] \in CloneRows /\ seen'[o].voice = Clones!Local /\ seen'[o].preview = Clones!None
  /\ UNCHANGED <<row, preview, cloud, voice, tries, raced>>

LEMMA UploadIs ==
  ASSUME CloneTypes, NEW o \in Operators, NEW want \in {"ready", "preview"}, NEW m \in Models,
         Clones!Upload(o, want, m)
  PROVE  UploadStep(o)
<1>. DEFINE r == [status |-> want, model |-> m, voice |-> Clones!Local, preview |-> Clones!None]
<1>1. r \in CloneRows /\ r.voice = Clones!Local /\ r.preview = Clones!None
  BY CloudFacts DEF CloneRows
<1>2. seen' = [seen EXCEPT ![o] = r]
  BY DEF Clones!Upload
<1>. HIDE DEF r
<1>3. /\ seen' \in [Operators -> {Clones!Absent} \cup CloneRows] /\ seen'[o] = r
      /\ \A p \in Operators \ {o} : seen'[p] = seen[p]
  BY <1>1, <1>2 DEF CloneTypes
<1>4. voice' \in [Operators -> {Clones!None, Clones!Local} \cup Clones!CloudVoices]
  BY DEF Clones!Upload, CloneTypes
<1>. QED
  BY <1>1, <1>3, <1>4, GoIs DEF Clones!Upload, UploadStep, Moves, Clones!Stages

InsertStep(o) ==
  /\ at[o] = "insert" /\ row' = seen[o] /\ seen[o] \in CloneRows
  /\ \/ Moves(o, "idle") /\ tries' = tries
     \/ /\ Moves(o, "enroll") /\ tries' = tries + 1
        /\ seen'[o] = seen[o] /\ voice'[o] = Clones!Local
  /\ UNCHANGED <<source, preview, cloud, raced>>

LEMMA InsertIs ==
  ASSUME CloneTypes, NEW o \in Operators, Clones!Insert(o)
  PROVE  InsertStep(o)
<1>1. CASE seen[o].status = "ready"
  BY <1>1, DoneIs DEF Clones!Insert, InsertStep, CloneTypes, Moves
<1>2. CASE seen[o].status # "ready"
  <2>1. /\ voice' \in [Operators -> {Clones!None, Clones!Local} \cup Clones!CloudVoices]
        /\ voice'[o] = Clones!Local /\ \A p \in Operators \ {o} : voice'[p] = voice[p]
    BY <1>2 DEF Clones!Insert, CloneTypes
  <2>. QED
    BY <1>2, <2>1, GoIs DEF Clones!Insert, InsertStep, CloneTypes, Moves, Clones!Stages
<1>. QED
  BY <1>1, <1>2

SynthesizeStep(o) ==
  /\ at[o] = "idle" /\ Here /\ Moves(o, "draft") /\ tries' = tries + 1
  /\ seen'[o] = row /\ voice'[o] = row.voice
  /\ raced' = IF \E p \in Operators \ {o} : Busy(p) THEN raced \cup {"overlap"} ELSE raced
  /\ UNCHANGED <<row, source, preview, cloud>>

LEMMA SynthesizeIs ==
  ASSUME CloneTypes, NEW o \in Operators, Clones!Synthesize(o)
  PROVE  SynthesizeStep(o)
<1>1. row \in CloneRows /\ row.voice \in {Clones!Local} \cup Clones!CloudVoices
  BY DEF Clones!Synthesize, CloneTypes, CloneRows
<1>2. /\ seen' \in [Operators -> {Clones!Absent} \cup CloneRows] /\ seen'[o] = row
      /\ voice' \in [Operators -> {Clones!None, Clones!Local} \cup Clones!CloudVoices]
      /\ voice'[o] = row.voice
      /\ \A p \in Operators \ {o} : seen'[p] = seen[p] /\ voice'[p] = voice[p]
  BY <1>1 DEF Clones!Synthesize, CloneTypes
<1>. QED
  BY <1>2, GoIs DEF Clones!Synthesize, SynthesizeStep, Moves, Clones!Stages, Here,
     Clones!Overlaps, Busy

DraftStep(o) ==
  /\ at[o] = "draft"
  /\ \/ /\ Moves(o, "enroll") /\ UNCHANGED <<row, seen, voice, raced>>
     \/ Moves(o, "idle") /\ UNCHANGED <<row, raced>>
     \/ /\ Moves(o, "enroll") /\ Here /\ row' \in CloneRows
        /\ row'.voice = row.voice /\ row'.preview = row.preview
        /\ seen'[o] = row' /\ voice'[o] = row.voice
        /\ raced' = IF row.voice # Clones!Local THEN raced \cup {"switched"} ELSE raced
  /\ UNCHANGED <<source, preview, cloud, tries>>

LEMMA DraftIs ==
  ASSUME CloneTypes, NEW o \in Operators, NEW m \in Models, Clones!UpdateDraft(o, m)
  PROVE  DraftStep(o)
<1>1. CASE m = seen[o].model
  BY <1>1, GoIs DEF CloneTypes, Clones!UpdateDraft, Clones!Keep, DraftStep, Moves, Clones!Stages
<1>2. CASE m # seen[o].model /\ (seen[o].status # "preview" \/ row = Clones!Absent)
  BY <1>2, DoneIs DEF Clones!UpdateDraft, DraftStep, Moves
<1>3. CASE m # seen[o].model /\ ~(seen[o].status # "preview" \/ row = Clones!Absent)
  <2>1. /\ row \in CloneRows /\ row' = [row EXCEPT !.model = m]
        /\ seen' = [seen EXCEPT ![o] = row'] /\ voice' = [voice EXCEPT ![o] = row.voice]
    BY <1>3 DEF Clones!UpdateDraft, CloneTypes
  <2>2. row' \in CloneRows /\ row'.voice = row.voice /\ row'.preview = row.preview
    BY <2>1 DEF CloneRows
  <2>3. /\ seen' \in [Operators -> {Clones!Absent} \cup CloneRows] /\ seen'[o] = row'
        /\ voice' \in [Operators -> {Clones!None, Clones!Local} \cup Clones!CloudVoices]
        /\ voice'[o] = row.voice
        /\ \A p \in Operators \ {o} : seen'[p] = seen[p] /\ voice'[p] = voice[p]
    BY <2>1, <2>2 DEF CloneTypes, CloneRows
  <2>. QED
    BY <1>3, <2>1, <2>2, <2>3, GoIs DEF Clones!UpdateDraft, DraftStep, Moves, Clones!Stages, Here
<1>. QED
  BY <1>1, <1>2, <1>3

EnrollStep(o) ==
  /\ at[o] = "enroll" /\ cloud \subseteq cloud' /\ cloud' \subseteq Clones!CloudVoices
  /\ \/ Moves(o, "speak") /\ seen[o].voice # Clones!Local /\ UNCHANGED <<cloud, voice>>
     \/ /\ Moves(o, "speak") /\ seen[o].voice = Clones!Local
        /\ \E n \in 1..MaxVoices : voice'[o] = [model |-> seen[o].model, no |-> n]
        /\ voice'[o] \in Clones!CloudVoices /\ cloud' = cloud \cup {voice'[o]}
     \/ Moves(o, "failed") /\ seen[o].voice = Clones!Local /\ UNCHANGED <<cloud, voice>>
  /\ UNCHANGED <<row, source, preview, seen, tries, raced>>

LEMMA EnrollIs ==
  ASSUME CloneTypes, NEW o \in Operators, NEW answers \in BOOLEAN, Clones!Enroll(o, answers)
  PROVE  EnrollStep(o)
<1>0. at[o] = "enroll" /\ seen[o] \in CloneRows
  BY DEF Clones!Enroll, CloneTypes, Clones!Synthesizing
<1>1. CASE seen[o].voice # Clones!Local
  BY <1>0, <1>1, GoIs DEF Clones!Enroll, EnrollStep, Moves, Clones!Stages, CloneTypes
<1>2. CASE seen[o].voice = Clones!Local /\ answers /\ source
  <2>1. PICK n \in 1..MaxVoices :
          /\ cloud' = cloud \cup {[model |-> seen[o].model, no |-> n]}
          /\ voice' = [voice EXCEPT ![o] = [model |-> seen[o].model, no |-> n]]
          /\ Clones!Go(o, "speak")
    BY <1>2 DEF Clones!Enroll
  <2>2. [model |-> seen[o].model, no |-> n] \in Clones!CloudVoices
    BY <1>0, CloudFacts DEF CloneRows
  <2>3. /\ voice'[o] = [model |-> seen[o].model, no |-> n]
        /\ \A p \in Operators \ {o} : voice'[p] = voice[p]
    BY <2>1 DEF CloneTypes
  <2>. QED
    BY <1>0, <1>2, <2>1, <2>2, <2>3, GoIs DEF Clones!Enroll, EnrollStep, Moves, Clones!Stages,
       CloneTypes
<1>3. CASE seen[o].voice = Clones!Local /\ ~(answers /\ source)
  BY <1>0, <1>3, GoIs DEF Clones!Enroll, EnrollStep, Moves, Clones!Stages, CloneTypes
<1>. QED
  BY <1>1, <1>2, <1>3

(* The voice agent's answer, and the requests for a confirmation or a      *)
(* removal, move a request and nothing else that counts here.              *)
PlainStep(o) ==
  /\ \/ /\ at[o] = "speak"
        /\ Moves(o, "store") \/ Moves(o, "failed") \/ Moves(o, "speak")
        /\ UNCHANGED <<voice, seen, raced>>
     \/ /\ at[o] = "idle" /\ Here
        /\ Moves(o, "confirm") \/ Moves(o, "delete")
        /\ UNCHANGED <<voice, seen>> /\ raced \subseteq raced'
        /\ \A x \in raced' : x \in raced \/ x = "confirmed early"
  /\ UNCHANGED <<row, source, preview, cloud, tries>>

LEMMA PlainIs ==
  ASSUME CloneTypes, NEW o \in Operators,
         \/ Clones!OnAudio(o) \/ Clones!OnFinal(o) \/ Clones!Breaks(o)
         \/ Clones!AskConfirm(o) \/ Clones!Remove(o)
  PROVE  PlainStep(o)
<1>1. CASE Clones!OnAudio(o)
  BY <1>1 DEF Clones!OnAudio, PlainStep, Moves, CloneTypes
<1>2. CASE Clones!OnFinal(o) \/ Clones!Breaks(o)
  BY <1>2, GoIs DEF CloneTypes, Clones!OnFinal, Clones!Breaks, PlainStep, Moves, Clones!Stages
<1>3. CASE Clones!AskConfirm(o)
  BY <1>3, GoIs DEF CloneTypes, Clones!AskConfirm, PlainStep, Moves, Clones!Stages, Here
<1>4. CASE Clones!Remove(o)
  BY <1>4, GoIs DEF CloneTypes, Clones!Remove, PlainStep, Moves, Clones!Stages, Here
<1>. QED
  BY <1>1, <1>2, <1>3, <1>4

StoreStep(o) ==
  /\ at[o] = "store" /\ Moves(o, "record") /\ preview' = voice[o]
  /\ raced' = IF Here THEN raced ELSE raced \cup {"removed"}
  /\ UNCHANGED <<row, source, cloud, seen, voice, tries>>

LEMMA StoreIs ==
  ASSUME CloneTypes, NEW o \in Operators, Clones!Store(o)
  PROVE  StoreStep(o)
BY GoIs DEF CloneTypes, Clones!Store, StoreStep, Moves, Clones!Stages, Here

RecordStep(o) ==
  /\ at[o] = "record"
  /\ \/ ~Here /\ Moves(o, "failed") /\ UNCHANGED <<row, seen, voice, raced>>
     \/ /\ Here /\ Moves(o, "idle") /\ row' \in CloneRows
        /\ row'.preview = voice[o] /\ row'.model = row.model
        /\ row'.voice = IF voice[o] # seen[o].voice THEN voice[o] ELSE row.voice
        /\ raced' = IF voice[o] # seen[o].voice /\ row.voice # seen[o].voice
                     THEN raced \cup {"replaced"} ELSE raced
  /\ UNCHANGED <<source, preview, cloud, tries>>

LEMMA RecordIs ==
  ASSUME CloneTypes, SpeakInv, NEW o \in Operators, Clones!Record(o)
  PROVE  RecordStep(o)
<1>1. CASE row = Clones!Absent
  BY <1>1, GoIs DEF CloneTypes, Clones!Record, Clones!Keep, RecordStep, Moves, Clones!Stages, Here
<1>2. CASE row # Clones!Absent
  <2>. DEFINE v == IF voice[o] # seen[o].voice THEN voice[o] ELSE row.voice
  <2>1. row \in CloneRows /\ voice[o] \in cloud /\ at[o] = "record"
    BY <1>2 DEF Clones!Record, CloneTypes, SpeakInv, Busy, Clones!Synthesizing
  <2>2. voice[o] \in Clones!CloudVoices /\ row.voice \in {Clones!Local} \cup Clones!CloudVoices
    BY <2>1 DEF CloneTypes, CloneRows
  <2>3. row' = [row EXCEPT !.preview = voice[o], !.voice = v]
    BY <1>2 DEF Clones!Record
  <2>4. v \in {Clones!Local} \cup Clones!CloudVoices /\ voice[o] \in Clones!Voices
    BY <2>2, CloudFacts
  <2>. HIDE DEF v
  <2>5. /\ row' \in CloneRows /\ row'.preview = voice[o] /\ row'.voice = v
        /\ row'.model = row.model
    BY <2>1, <2>3, <2>4 DEF CloneRows
  <2>. QED
    BY <1>2, <2>1, <2>5, DoneIs DEF Clones!Record, RecordStep, Moves, Here, v
<1>. QED
  BY <1>1, <1>2

(* Failing and confirming leave the row its voice.                         *)
FailStep(o) ==
  /\ at[o] = "failed" /\ Moves(o, "idle")
  /\ raced' = IF Clones!Enrolled(o) THEN raced \cup {"unrecorded"} ELSE raced
  /\ \/ row' = row
     \/ /\ Here /\ row' \in CloneRows /\ row'.voice = row.voice /\ row'.model = row.model
        /\ row'.preview \in {row.preview, Clones!Uploaded}
  /\ UNCHANGED <<source, preview, cloud, tries>>

LEMMA FailIs ==
  ASSUME CloneTypes, NEW o \in Operators, Clones!Fail(o)
  PROVE  FailStep(o)
<1>1. CASE row' = row
  BY <1>1, DoneIs DEF Clones!Fail, FailStep, Moves
<1>2. CASE row' # row
  <2>1. row \in CloneRows /\ row # Clones!Absent
    BY <1>2 DEF Clones!Fail, CloneTypes
  <2>2. /\ row' \in CloneRows /\ row'.voice = row.voice /\ row'.model = row.model
        /\ row'.preview \in {row.preview, Clones!Uploaded}
    BY <1>2, <2>1, CloudFacts DEF Clones!Fail, CloneRows
  <2>. QED
    BY <2>1, <2>2, DoneIs DEF Clones!Fail, FailStep, Moves, Here
<1>. QED
  BY <1>1, <1>2

ConfirmStep(o) ==
  /\ at[o] = "confirm" /\ Moves(o, "idle") /\ raced \subseteq raced'
  /\ \A x \in raced' : x \in raced \/ x = "confirmed early"
  /\ \/ row' = row
     \/ /\ Here /\ row' \in CloneRows /\ row'.voice = row.voice /\ row'.model = row.model
        /\ row'.preview = row.preview
  /\ UNCHANGED <<source, preview, cloud, tries>>

LEMMA ConfirmIs ==
  ASSUME CloneTypes, NEW o \in Operators, Clones!Confirm(o)
  PROVE  ConfirmStep(o)
<1>1. CASE row = Clones!Absent
  BY <1>1, DoneIs DEF Clones!Confirm, ConfirmStep, Moves
<1>2. CASE row # Clones!Absent
  <2>1. /\ row' \in CloneRows /\ row'.voice = row.voice /\ row'.model = row.model
        /\ row'.preview = row.preview
    BY <1>2 DEF Clones!Confirm, CloneTypes, CloneRows
  <2>. QED
    BY <1>2, <2>1, DoneIs DEF Clones!Confirm, ConfirmStep, Moves, Here
<1>. QED
  BY <1>1, <1>2

DeleteStep(o) ==
  /\ at[o] = "delete" /\ Moves(o, IF Here THEN "erase" ELSE "idle")
  /\ row' = Clones!Absent
  /\ UNCHANGED <<source, preview, cloud, seen, voice, tries, raced>>

EraseStep(o) ==
  /\ at[o] = "erase" /\ Moves(o, "idle") /\ ~source' /\ preview' = Clones!None
  /\ UNCHANGED <<row, cloud, tries, raced>>

LEMMA DeleteIs ==
  ASSUME CloneTypes, NEW o \in Operators
  PROVE  /\ Clones!Delete(o) => DeleteStep(o)
         /\ Clones!Erase(o) => EraseStep(o)
BY DoneIs, GoIs
   DEF CloneTypes, Clones!Delete, DeleteStep, Clones!Erase, EraseStep, Moves, Clones!Stages, Here

CloneStep(o) ==
  \/ UploadStep(o) \/ InsertStep(o) \/ SynthesizeStep(o) \/ DraftStep(o) \/ EnrollStep(o)
  \/ PlainStep(o) \/ StoreStep(o) \/ RecordStep(o) \/ FailStep(o) \/ ConfirmStep(o)
  \/ DeleteStep(o) \/ EraseStep(o)

LEMMA ClonesStep ==
  ASSUME CloneTypes, SpeakInv, Clones!Next PROVE \E o \in Operators : CloneStep(o)
BY UploadIs, InsertIs, SynthesizeIs, DraftIs, EnrollIs, PlainIs, StoreIs, RecordIs, FailIs,
   ConfirmIs, DeleteIs DEF Clones!Next, CloneStep

LEMMA CloneTypesKept ==
  ASSUME ClonesBase, NEW o \in Operators, CloneStep(o) PROVE CloneTypes'
<1>1. row' = Clones!Absent \/ row' \in CloneRows
  BY DEF ClonesBase, CloneTypes, CloneStep, UploadStep, InsertStep, SynthesizeStep, DraftStep,
     EnrollStep, PlainStep, StoreStep, RecordStep, FailStep, ConfirmStep, DeleteStep, EraseStep
<1>2. cloud' \subseteq Clones!CloudVoices
  BY DEF ClonesBase, CloneTypes, CloneStep, UploadStep, InsertStep, SynthesizeStep, DraftStep,
     EnrollStep, PlainStep, StoreStep, RecordStep, FailStep, ConfirmStep, DeleteStep, EraseStep
<1>3. tries' = tries \/ tries' = tries + 1
  BY DEF CloneStep, UploadStep, InsertStep, SynthesizeStep, DraftStep,
     EnrollStep, PlainStep, StoreStep, RecordStep, FailStep, ConfirmStep, DeleteStep, EraseStep
<1>4. \E s \in Clones!Stages : Moves(o, s)
  BY DEF CloneStep, UploadStep, InsertStep, SynthesizeStep, DraftStep, EnrollStep, PlainStep,
     StoreStep, RecordStep, FailStep, ConfirmStep, DeleteStep, EraseStep, Clones!Stages
<1>5. at'[o] \in Clones!Synthesizing \cup {"insert"} => seen'[o] \in CloneRows
  BY DEF ClonesBase, CloneTypes, CloneStep, UploadStep, InsertStep, SynthesizeStep, DraftStep,
     EnrollStep, PlainStep, StoreStep, RecordStep, FailStep, ConfirmStep, DeleteStep, EraseStep,
     Moves, Here, Clones!Synthesizing
<1>. QED
  BY <1>1, <1>2, <1>3, <1>4, <1>5 DEF ClonesBase, CloneTypes, Moves

LEMMA UploadKept ==
  ASSUME ClonesBase, NEW o \in Operators, CloneStep(o) PROVE UploadInv'
<1>. USE DEF ClonesBase, CloneTypes, UploadInv, Moves, Busy, Here, Clones!Synthesizing
<1>1. CASE UploadStep(o)
  BY <1>1 DEF UploadStep
<1>2. CASE InsertStep(o)
  BY <1>2 DEF InsertStep
<1>3. CASE SynthesizeStep(o)
  BY <1>3 DEF SynthesizeStep
<1>4. CASE DraftStep(o)
  BY <1>4, CloudFacts DEF DraftStep
<1>5. CASE EnrollStep(o)
  BY <1>5 DEF EnrollStep
<1>6. CASE PlainStep(o)
  BY <1>6 DEF PlainStep
<1>7. CASE StoreStep(o)
  BY <1>7 DEF StoreStep
<1>8. CASE RecordStep(o)
  BY <1>8, CloudFacts DEF RecordStep
<1>9. CASE FailStep(o)
  BY <1>9, CloudFacts DEF FailStep
<1>10. CASE ConfirmStep(o)
  BY <1>10, CloudFacts DEF ConfirmStep
<1>11. CASE DeleteStep(o)
  BY <1>11 DEF DeleteStep
<1>12. CASE EraseStep(o)
  BY <1>12 DEF EraseStep
<1>. QED
  BY <1>1, <1>2, <1>3, <1>4, <1>5, <1>6, <1>7, <1>8, <1>9, <1>10, <1>11, <1>12 DEF CloneStep

LEMMA SpeakKept ==
  ASSUME ClonesBase, NEW o \in Operators, CloneStep(o) PROVE SpeakInv'
<1>. USE DEF ClonesBase, UploadInv, SpeakInv, Moves, Busy, Here, Clones!Synthesizing
<1>1. CASE UploadStep(o)
  BY <1>1 DEF UploadStep
<1>2. CASE InsertStep(o)
  BY <1>2 DEF InsertStep
<1>3. CASE SynthesizeStep(o)
  BY <1>3 DEF SynthesizeStep
<1>4. CASE DraftStep(o)
  BY <1>4 DEF DraftStep
<1>5. CASE EnrollStep(o)
  BY <1>5 DEF EnrollStep
<1>6. CASE PlainStep(o)
  BY <1>6, ZenonT(60) DEF PlainStep
<1>7. CASE StoreStep(o)
  BY <1>7 DEF StoreStep
<1>8. CASE RecordStep(o)
  BY <1>8, CloudFacts DEF RecordStep
<1>9. CASE FailStep(o)
  BY <1>9 DEF FailStep
<1>10. CASE ConfirmStep(o)
  BY <1>10, ZenonT(60) DEF ConfirmStep
<1>11. CASE DeleteStep(o)
  BY <1>11 DEF DeleteStep
<1>12. CASE EraseStep(o)
  BY <1>12 DEF EraseStep
<1>. QED
  BY <1>1, <1>2, <1>3, <1>4, <1>5, <1>6, <1>7, <1>8, <1>9, <1>10, <1>11, <1>12 DEF CloneStep

AccountInv == Clones!VoicesAccountedFor

LEMMA AccountKept ==
  ASSUME ClonesBase, AccountInv, NEW o \in Operators, CloneStep(o) PROVE AccountInv'
<1>. SUFFICES ASSUME NEW v \in cloud', row' # Clones!Absent,
                     raced' \cap {"unrecorded", "replaced"} = {},
                     \A p \in Operators : ~(voice'[p] = v /\ at'[p] \in Clones!Synthesizing)
              PROVE  row'.voice = v
  BY DEF AccountInv, Clones!VoicesAccountedFor
<1>. USE DEF ClonesBase, UploadInv, SpeakInv, Moves, Busy, Here, Clones!Synthesizing
<1>0. v \in cloud => \/ row = Clones!Absent \/ row.voice = v
                     \/ \E p \in Operators : voice[p] = v /\ at[p] \in Clones!Synthesizing
                     \/ raced \cap {"unrecorded", "replaced"} # {}
  BY DEF AccountInv, Clones!VoicesAccountedFor
<1>00. v # Clones!Local
  BY CloneTypesKept, CloudFacts DEF CloneTypes
<1>1. CASE UploadStep(o)
  BY <1>0, <1>1 DEF UploadStep
<1>2. CASE InsertStep(o)
  BY <1>0, <1>2 DEF InsertStep
<1>3. CASE SynthesizeStep(o)
  BY <1>0, <1>3 DEF SynthesizeStep
<1>4. CASE DraftStep(o)
  BY <1>0, <1>00, <1>4 DEF DraftStep
<1>5. CASE EnrollStep(o)
  BY <1>0, <1>00, <1>5 DEF EnrollStep
<1>6. CASE PlainStep(o)
  BY <1>0, <1>6 DEF PlainStep
<1>7. CASE StoreStep(o)
  BY <1>0, <1>7 DEF StoreStep
<1>8. CASE RecordStep(o)
  BY <1>0, <1>00, <1>8 DEF RecordStep
<1>9. CASE FailStep(o)
  BY <1>0, <1>00, <1>9 DEF FailStep, Clones!Enrolled
<1>10. CASE ConfirmStep(o)
  BY <1>0, <1>10 DEF ConfirmStep
<1>11. CASE DeleteStep(o) \/ EraseStep(o)
  BY <1>0, <1>11 DEF DeleteStep, EraseStep
<1>. QED
  BY <1>1, <1>2, <1>3, <1>4, <1>5, <1>6, <1>7, <1>8, <1>9, <1>10, <1>11 DEF CloneStep

(* Without an overlap one synthesis at most is under way, and the row is   *)
(* what it has seen.                                                       *)
AloneInv ==
  "overlap" \notin raced =>
    /\ \A o, p \in Operators : Busy(o) /\ Busy(p) => o = p
    /\ Here => /\ \A o \in Operators : Busy(o) => /\ row.voice = seen[o].voice
                                                 /\ row.model = seen[o].model
               /\ row.preview \in cloud => row.voice = row.preview
               /\ "switched" \notin raced /\ row.voice \in cloud => row.voice.model = row.model
    /\ \A o \in Operators : at[o] \in {"speak", "store", "record"}
                            /\ seen[o].voice = Clones!Local => voice[o].model = seen[o].model

LEMMA AloneKept ==
  ASSUME ClonesBase, AloneInv, NEW o \in Operators, CloneStep(o) PROVE AloneInv'
<1>. SUFFICES ASSUME "overlap" \notin raced' PROVE AloneInv'
  BY DEF AloneInv
<1>. USE DEF ClonesBase, UploadInv, SpeakInv, AloneInv, Moves, Busy, Here, Clones!Synthesizing
<1>1. CASE UploadStep(o)
  BY <1>1 DEF UploadStep
<1>2. CASE InsertStep(o)
  BY <1>2 DEF InsertStep
<1>3. CASE SynthesizeStep(o)
  BY <1>3 DEF SynthesizeStep
<1>4. CASE DraftStep(o)
  BY <1>4, CloudFacts DEF DraftStep, CloneTypes
<1>5. CASE EnrollStep(o)
  <2>1. Here => /\ row.voice \in cloud' => row.voice \in cloud
                /\ row.preview \in cloud' => row.preview \in cloud
    BY <1>5, CloudFacts DEF EnrollStep, CloneTypes
  <2>2. /\ \A p \in Operators \ {o} : at'[p] = at[p] /\ seen'[p] = seen[p] /\ voice'[p] = voice[p]
        /\ at[o] = "enroll" /\ at'[o] \in {"speak", "failed"} /\ seen'[o] = seen[o]
        /\ UNCHANGED <<row, raced>>
    BY <1>5 DEF EnrollStep
  <2>3. at'[o] = "speak" /\ seen[o].voice = Clones!Local => voice'[o].model = seen[o].model
    BY <1>5 DEF EnrollStep
  <2>. QED
    BY <2>1, <2>2, <2>3
<1>6. CASE PlainStep(o)
  <2>1. /\ \A p \in Operators \ {o} : at'[p] = at[p] /\ seen'[p] = seen[p] /\ voice'[p] = voice[p]
        /\ \/ at[o] = "speak" /\ at'[o] \in {"speak", "store", "failed"}
           \/ at[o] = "idle" /\ at'[o] \in {"confirm", "delete"}
        /\ UNCHANGED <<row, cloud, seen, voice>> /\ raced \subseteq raced'
    BY <1>6 DEF PlainStep
  <2>. QED
    BY <2>1
<1>7. CASE StoreStep(o)
  BY <1>7 DEF StoreStep
<1>8. CASE RecordStep(o)
  BY <1>8 DEF RecordStep
<1>9. CASE FailStep(o)
  BY <1>9, CloudFacts DEF FailStep, CloneTypes
<1>10. CASE ConfirmStep(o)
  BY <1>10, ZenonT(60) DEF ConfirmStep
<1>11. CASE DeleteStep(o)
  BY <1>11 DEF DeleteStep
<1>12. CASE EraseStep(o)
  BY <1>12 DEF EraseStep
<1>. QED
  BY <1>1, <1>2, <1>3, <1>4, <1>5, <1>6, <1>7, <1>8, <1>9, <1>10, <1>11, <1>12 DEF CloneStep

(* A synthesis that is about to record has just stored what it records; a  *)
(* removal that has not been through the files is still at it.             *)
FilesInv ==
  /\ raced \cap {"overlap", "removed"} = {} /\ Here =>
       /\ \A o \in Operators : at[o] = "record" => preview = voice[o]
       /\ row.preview \in cloud /\ (\A o \in Operators : at[o] # "record") =>
            preview = row.preview
  /\ ~Here /\ "removed" \notin raced =>
       \/ ~source /\ preview = Clones!None
       \/ \E o \in Operators : at[o] \in {"insert", "erase"}

LEMMA FilesKept ==
  ASSUME ClonesBase, AloneInv, FilesInv, NEW o \in Operators, CloneStep(o) PROVE FilesInv'
<1>. USE DEF ClonesBase, UploadInv, SpeakInv, AloneInv, FilesInv, Moves, Busy, Here,
             Clones!Synthesizing
<1>1. CASE UploadStep(o)
  BY <1>1 DEF UploadStep
<1>2. CASE InsertStep(o)
  <2>1. Here' /\ row'.preview \notin cloud'
    BY <1>2, CloudFacts DEF InsertStep
  <2>2. \A p \in Operators : at'[p] # "record"
    BY <1>2 DEF InsertStep
  <2>. QED
    BY <2>1, <2>2
<1>3. CASE SynthesizeStep(o)
  BY <1>3 DEF SynthesizeStep
<1>4. CASE DraftStep(o)
  BY <1>4, CloudFacts DEF DraftStep, CloneTypes
<1>5. CASE EnrollStep(o)
  BY <1>5, CloudFacts DEF EnrollStep, CloneTypes
<1>6. CASE PlainStep(o)
  <2>1. /\ \A p \in Operators \ {o} : at'[p] = at[p]
        /\ at[o] \notin {"record", "insert", "erase"}
        /\ at'[o] \notin {"record", "insert", "erase"}
        /\ UNCHANGED <<row, source, preview, cloud, voice>> /\ raced \subseteq raced'
    BY <1>6 DEF PlainStep
  <2>. QED
    BY <2>1
<1>7. CASE StoreStep(o)
  BY <1>7 DEF StoreStep
<1>8. CASE RecordStep(o)
  BY <1>8, CloudFacts DEF RecordStep
<1>9. CASE FailStep(o)
  BY <1>9, CloudFacts DEF FailStep, CloneTypes
<1>10. CASE ConfirmStep(o)
  <2>1. /\ \A p \in Operators \ {o} : at'[p] = at[p] /\ voice'[p] = voice[p]
        /\ at[o] = "confirm" /\ at'[o] = "idle"
        /\ Here <=> Here'
        /\ Here => row'.preview = row.preview
        /\ UNCHANGED <<source, preview, cloud>> /\ raced \subseteq raced'
    BY <1>10, CloudFacts DEF ConfirmStep
  <2>. QED
    BY <2>1
<1>11. CASE DeleteStep(o)
  BY <1>11 DEF DeleteStep
<1>12. CASE EraseStep(o)
  BY <1>12 DEF EraseStep
<1>. QED
  BY <1>1, <1>2, <1>3, <1>4, <1>5, <1>6, <1>7, <1>8, <1>9, <1>10, <1>11, <1>12 DEF CloneStep

ClonesInv == ClonesBase /\ AccountInv /\ AloneInv /\ FilesInv

\* For any operators, models and tries: the audio a reviewer plays was spoken with the voice
\* of its row, a voice in the cloud is the row's or a request's, a confirmed voice is one the
\* cloud knows for the row's model, and a removed clone leaves no file, each but for the
\* races it names (voice-clones.service.ts:130-175, 196-200, 248-275).
THEOREM ClonesAreAccountedFor ==
  Clones!Spec => [](/\ Clones!PreviewIsOfItsVoice /\ Clones!VoicesAccountedFor
                    /\ Clones!ConfirmedVoiceIsEnrolled /\ Clones!RemovedLeavesNothing)
<1>1. Clones!Init => ClonesInv
  BY ClonesInit DEF Clones!Init, ClonesInv, AccountInv, Clones!VoicesAccountedFor, AloneInv,
     FilesInv, Busy, Here, Clones!Synthesizing
<1>2. ClonesInv /\ [Clones!Next]_Clones!vars => ClonesInv'
  <2>1. ASSUME ClonesInv, Clones!Next PROVE ClonesInv'
    <3>1. PICK o \in Operators : CloneStep(o)
      BY <2>1, ClonesStep DEF ClonesInv, ClonesBase
    <3>. QED
      BY <2>1, <3>1, CloneTypesKept, UploadKept, SpeakKept, AccountKept, AloneKept, FilesKept
         DEF ClonesInv, ClonesBase
  <2>2. ASSUME ClonesInv, UNCHANGED Clones!vars PROVE ClonesInv'
    BY <2>2 DEF Clones!vars, ClonesInv, ClonesBase, CloneTypes, UploadInv, SpeakInv, AccountInv,
       Clones!VoicesAccountedFor, AloneInv, FilesInv, Busy, Here
  <2>. QED
    BY <2>1, <2>2
<1>3. ClonesInv => /\ Clones!PreviewIsOfItsVoice /\ Clones!VoicesAccountedFor
                   /\ Clones!ConfirmedVoiceIsEnrolled /\ Clones!RemovedLeavesNothing
  <2>. SUFFICES ASSUME ClonesInv
                PROVE  /\ Clones!PreviewIsOfItsVoice /\ Clones!VoicesAccountedFor
                       /\ Clones!ConfirmedVoiceIsEnrolled /\ Clones!RemovedLeavesNothing
    OBVIOUS
  <2>1. Clones!Quiet => \A o \in Operators : at[o] \notin {"record", "insert", "erase"}
    BY DEF Clones!Quiet
  <2>2. Clones!PreviewIsOfItsVoice
    BY <2>1 DEF ClonesInv, AloneInv, FilesInv, Here, Clones!PreviewIsOfItsVoice
  <2>3. Clones!ConfirmedVoiceIsEnrolled
    BY DEF ClonesInv, AloneInv, Here, Clones!ConfirmedVoiceIsEnrolled
  <2>4. Clones!RemovedLeavesNothing
    BY <2>1 DEF ClonesInv, FilesInv, Here, Clones!RemovedLeavesNothing
  <2>. QED
    BY <2>2, <2>3, <2>4 DEF ClonesInv, AccountInv
<1>. QED
  BY <1>1, <1>2, <1>3, PTL DEF Clones!Spec

-----------------------------------------------------------------------------
(***************************************************************************)
(* Uploads to a knowledge base (KnowledgeBase.tla: knowledge-              *)
(* base.service.ts). A version is chosen from what an upload has read and  *)
(* written later; the invariant keeps the latest document of a base in     *)
(* sight, because the version after it is a maximum.                       *)
(***************************************************************************)
Knowledge == INSTANCE KnowledgeBase

(* The latest document of a base: there is one wherever there is any.       *)
LatestOf(base, d, docs) == d.base = base /\ \A e \in docs : e.base = base => e.version <= d.version

(* A document is what its upload, which is over, said it would be.         *)
DocumentsInv ==
  /\ \A d \in stored :
       /\ d.version \in Nat /\ d.by \in Uploads /\ upload[d.by].at = "done"
       /\ upload[d.by].base = d.base
  /\ \A base : (\A d \in stored : d.base # base) \/ \E d \in stored : LatestOf(base, d, stored)
  /\ DOMAIN upload = Uploads
  /\ \A u \in Uploads : DOMAIN upload[u] = {"at", "base", "text", "version", "after"}

(* An upload that is about to write has looked at what it comes after.     *)
AfterInv ==
  /\ \A u \in Uploads : upload[u].version \in Nat
  /\ \A u \in Uploads : \A v \in upload[u].after : v \in Uploads /\ upload[v].at = "done"
  /\ \A u \in Uploads : \A d \in stored :
       /\ upload[u].at = "read" /\ d.by \in upload[u].after /\ d.base = upload[u].base
       => d.version < upload[u].version

UploadsInv == DocumentsInv /\ AfterInv /\ Knowledge!LaterUploadIsNewer

LEMMA NextIsAbove ==
  ASSUME DocumentsInv, NEW base
  PROVE  /\ Knowledge!NextVersion(base) \in Nat
         /\ \A d \in stored : d.base = base => d.version < Knowledge!NextVersion(base)
<1>. DEFINE V == {d.version : d \in {e \in stored : e.base = base}}
<1>1. V \subseteq Nat /\ \A d \in stored : d.base = base => d.version \in V
  BY DEF DocumentsInv
<1>2. CASE V = {}
  <2>1. Knowledge!NextVersion(base) = 1 /\ \A d \in stored : d.base # base
    BY <1>2 DEF Knowledge!NextVersion
  <2>. QED
    BY <2>1
<1>3. CASE V # {}
  <2>1. \E d \in stored : LatestOf(base, d, stored)
    BY <1>3 DEF DocumentsInv
  <2>2. \E v \in V : \A w \in V : v >= w
    <3>1. PICK d \in stored : LatestOf(base, d, stored)
      BY <2>1
    <3>2. d.version \in V /\ \A w \in V : d.version >= w
      BY <1>1, <3>1 DEF LatestOf
    <3>. QED
      BY <3>2
  <2>3. PICK v \in V : Knowledge!NextVersion(base) = 1 + v /\ \A w \in V : v >= w
    BY <1>3, <2>2 DEF Knowledge!NextVersion
  <2>. HIDE DEF V
  <2>4. v \in Nat /\ \A w \in V : w \in Nat /\ w < 1 + v
    BY <1>1, <2>3
  <2>5. \A d \in stored : d.base = base => d.version < 1 + v
    BY <1>1, <2>4
  <2>6. 1 + v \in Nat
    BY <2>4
  <2>. QED
    BY <2>3, <2>5, <2>6
<1>. QED
  BY <1>2, <1>3

LEMMA ReadKeepsUploads ==
  ASSUME UploadsInv, NEW u \in Uploads, NEW base \in Bases, NEW text \in Texts,
         Knowledge!UploadReads(u, base, text)
  PROVE  UploadsInv'
<1>1. /\ UNCHANGED stored /\ upload[u].at = "idle" /\ DOMAIN upload' = Uploads
      /\ \A v \in Uploads : v # u => upload'[v] = upload[v]
      /\ upload'[u] = [at |-> "read", base |-> base, text |-> text,
                       version |-> Knowledge!NextVersion(base),
                       after |-> {d.by : d \in {e \in stored : e.base = base}}]
  BY DEF Knowledge!UploadReads, UploadsInv, DocumentsInv
<1>2. \A d \in stored : d.by # u
  BY <1>1 DEF UploadsInv, DocumentsInv
<1>3. DocumentsInv'
  BY <1>1, <1>2 DEF UploadsInv, DocumentsInv
<1>4. AfterInv'
  <2>1. \A v \in Uploads : upload'[v].version \in Nat
    BY <1>1, NextIsAbove DEF UploadsInv, AfterInv
  <2>2. \A v \in Uploads : \A w \in upload'[v].after : w \in Uploads /\ upload'[w].at = "done"
    <3>. SUFFICES ASSUME NEW v \in Uploads, NEW w \in upload'[v].after
                  PROVE  w \in Uploads /\ upload'[w].at = "done"
      OBVIOUS
    <3>1. w \in Uploads /\ upload[w].at = "done"
      BY <1>1 DEF UploadsInv, AfterInv, DocumentsInv
    <3>. QED
      BY <1>1, <3>1
  <2>3. \A v \in Uploads, d \in stored :
          /\ upload'[v].at = "read" /\ d.by \in upload'[v].after /\ d.base = upload'[v].base
          => d.version < upload'[v].version
    BY <1>1, NextIsAbove DEF UploadsInv, AfterInv
  <2>. QED
    BY <1>1, <2>1, <2>2, <2>3 DEF AfterInv
<1>5. Knowledge!LaterUploadIsNewer'
  BY <1>1, <1>2 DEF UploadsInv, DocumentsInv, Knowledge!LaterUploadIsNewer
<1>. QED
  BY <1>3, <1>4, <1>5 DEF UploadsInv

LEMMA WriteKeepsUploads ==
  ASSUME UploadsInv, NEW u \in Uploads, Knowledge!UploadWrites(u)
  PROVE  UploadsInv'
<1>. DEFINE new == Knowledge!Document(upload[u].base, upload[u].version, upload[u].text, u)
<1>1. /\ upload[u].at = "read" /\ stored' = stored \cup {new} /\ DOMAIN upload' = Uploads
      /\ new.by = u /\ new.base = upload[u].base /\ new.version = upload[u].version
      /\ upload[u].version \in Nat
  BY DEF Knowledge!UploadWrites, Knowledge!Document, UploadsInv, DocumentsInv, AfterInv
<1>2. /\ \A v \in Uploads : v # u => upload'[v] = upload[v]
      /\ upload'[u].at = "done" /\ upload'[u].base = upload[u].base
      /\ upload'[u].version = upload[u].version /\ upload'[u].after = upload[u].after
      /\ DOMAIN upload'[u] = DOMAIN upload[u]
  BY DEF Knowledge!UploadWrites, UploadsInv, DocumentsInv
<1>. HIDE DEF new
<1>3. DocumentsInv'
  <2>1. \A d \in stored' :
          /\ d.version \in Nat /\ d.by \in Uploads /\ upload'[d.by].at = "done"
          /\ upload'[d.by].base = d.base
    BY <1>1, <1>2 DEF UploadsInv, DocumentsInv
  <2>2. ASSUME NEW base, \E d \in stored' : d.base = base
        PROVE  \E d \in stored' : LatestOf(base, d, stored')
    <3>1. CASE new.base # base
      <4>1. PICK d \in stored : LatestOf(base, d, stored)
        BY <1>1, <2>2, <3>1 DEF UploadsInv, DocumentsInv
      <4>2. LatestOf(base, d, stored')
        BY <1>1, <3>1, <4>1 DEF LatestOf
      <4>. QED
        BY <1>1, <4>1, <4>2
    <3>2. CASE new.base = base /\ \A d \in stored : d.base = base => d.version <= new.version
      <4>1. new \in stored' /\ LatestOf(base, new, stored')
        BY <1>1, <3>2 DEF LatestOf
      <4>. QED
        BY <4>1
    <3>3. CASE new.base = base /\ \E d \in stored : d.base = base /\ ~(d.version <= new.version)
      <4>1. PICK d \in stored : LatestOf(base, d, stored)
        BY <3>3 DEF UploadsInv, DocumentsInv
      <4>2. \A e \in stored : e.version \in Nat
        BY DEF UploadsInv, DocumentsInv
      <4>3. LatestOf(base, d, stored')
        BY <1>1, <3>3, <4>1, <4>2 DEF LatestOf
      <4>. QED
        BY <1>1, <4>1, <4>3
    <3>. QED
      BY <3>1, <3>2, <3>3
  <2>3. \A v \in Uploads : DOMAIN upload'[v] = {"at", "base", "text", "version", "after"}
    BY <1>2 DEF UploadsInv, DocumentsInv
  <2>. QED
    BY <1>1, <2>1, <2>2, <2>3 DEF DocumentsInv
<1>4. AfterInv'
  <2>1. \A v \in Uploads : upload'[v].version \in Nat /\ upload'[v].after = upload[v].after
                           /\ upload'[v].base = upload[v].base
    BY <1>2 DEF UploadsInv, AfterInv
  <2>2. \A v \in Uploads : \A w \in upload'[v].after : w \in Uploads /\ upload'[w].at = "done"
    BY <1>2, <2>1 DEF UploadsInv, AfterInv
  <2>3. \A v \in Uploads : u \notin upload[v].after
    BY <1>1 DEF UploadsInv, AfterInv
  <2>4. \A v \in Uploads, d \in stored' :
          /\ upload'[v].at = "read" /\ d.by \in upload'[v].after /\ d.base = upload'[v].base
          => d.version < upload'[v].version
    BY <1>1, <1>2, <2>1, <2>3 DEF UploadsInv, AfterInv
  <2>. QED
    BY <2>1, <2>2, <2>4 DEF AfterInv
<1>5. Knowledge!LaterUploadIsNewer'
  <2>1. \A v \in Uploads : upload'[v].after = upload[v].after /\ u \notin upload[v].after
    BY <1>1, <1>2 DEF UploadsInv, AfterInv
  <2>2. \A d \in stored : d.by \in upload[u].after /\ d.base = upload[u].base
                          => d.version < upload[u].version
    BY <1>1 DEF UploadsInv, AfterInv
  <2>3. \A d \in stored : d.by \in Uploads
    BY DEF UploadsInv, DocumentsInv
  <2>. QED
    BY <1>1, <2>1, <2>2, <2>3 DEF UploadsInv, Knowledge!LaterUploadIsNewer
<1>. QED
  BY <1>3, <1>4, <1>5 DEF UploadsInv

LEMMA UploadsStart == ASSUME Knowledge!Init PROVE UploadsInv
BY DEF Knowledge!Init, Knowledge!NoUpload,  UploadsInv, DocumentsInv, AfterInv,
   Knowledge!LaterUploadIsNewer

\* For any bases, texts and uploads: a document uploaded after another of its base was
\* there has a higher version, whatever uploads ran beside either (knowledge-
\* base.service.ts, the version read before the write).
THEOREM LaterIsNewer == Knowledge!Spec => []Knowledge!LaterUploadIsNewer
<1>1. Knowledge!Init => UploadsInv
  BY UploadsStart
<1>2. UploadsInv /\ [Knowledge!Next]_(Knowledge!vars) => UploadsInv'
  <2>. SUFFICES ASSUME UploadsInv, [Knowledge!Next]_(Knowledge!vars) PROVE UploadsInv'
    OBVIOUS
  <2>1. ASSUME UNCHANGED <<stored, upload>> PROVE UploadsInv'
    BY <2>1 DEF UploadsInv, DocumentsInv, AfterInv, Knowledge!LaterUploadIsNewer
  <2>2. ASSUME NEW u \in Uploads, Knowledge!UploadWrites(u) PROVE UploadsInv'
    BY <2>2, WriteKeepsUploads
  <2>3. ASSUME NEW u \in Uploads, NEW base \in Bases, NEW text \in Texts,
               Knowledge!UploadReads(u, base, text)
        PROVE  UploadsInv'
    BY <2>3, ReadKeepsUploads
  <2>4. CASE \/ \E bases \in SUBSET Bases : Knowledge!Retrieve(bases)
             \/ \E base \in Bases : Knowledge!Read(base)
             \/ Knowledge!Answer
    BY <2>1, <2>4 DEF Knowledge!Retrieve, Knowledge!Read, Knowledge!Answer
  <2>5. CASE UNCHANGED Knowledge!vars
    BY <2>1, <2>5 DEF Knowledge!vars
  <2>. QED
    BY <2>2, <2>3, <2>4, <2>5 DEF Knowledge!Next
<1>. QED
  BY <1>1, <1>2, PTL DEF UploadsInv, Knowledge!Spec

=============================================================================
