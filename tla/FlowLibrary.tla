---------------------------- MODULE FlowLibrary ----------------------------
(***************************************************************************)
(* The flow a call follows: one row of task_flows with its immutable       *)
(* versions (task-flows.service.ts), the scenario row it is drawn with     *)
(* (scenarios.service.ts) and the tasks locked to a version                *)
(* (TasksService.create).  Each service call reads, then writes in a later *)
(* statement: the requests of Operators run side by side, and `seen` is    *)
(* what a request read.  A version is never written again.                 *)
(***************************************************************************)
EXTENDS Naturals, FiniteSets

CONSTANTS
    Operators,      \* requests in progress at one time
    Drafts,         \* the graphs an editor may save: [kind, edges]
    MaxVersion,     \* bound: publications
    MaxTasks,       \* bound: tasks locked to a version
    MaxConfig       \* bound: how often the scenario is reconfigured

VARIABLES
    flow,           \* the task_flows row
    versions,       \* the task_flow_versions rows, by version number
    tasks,          \* the versions outbound_tasks rows are locked to
    scenario,       \* the outbound_scenarios row of the (built-in) key
    req,            \* per operator: what its request is doing
    seen,           \* per operator: what it read and will still use
    overtaken       \* history: versions copied after an edit nobody validated, and
                    \* 0 for an edit of a draft written after its publication

vars == <<flow, versions, tasks, scenario, req, seen, overtaken>>

Absent == [status |-> "absent"]
NoScenario == 0                 \* a scenario's configuration is a number, 0 is none
Numbers == 1 .. MaxVersion
Steps == {"idle", "update", "publish", "remove", "removing", "task", "scenario",
          "materialize", "create"}

----------------------------------------------------------------------------
(* validateFlowDefinition: one start, an end, no edge to a missing node,   *)
(* a way out of every other node, and everything reached from the start.   *)

NodesOf(d) == DOMAIN d.kind
Starts(d) == {n \in NodesOf(d) : d.kind[n] = "start"}
Kept(d) == {e \in d.edges : e[1] \in NodesOf(d) /\ e[2] \in NodesOf(d)}

Reached(d) ==
    LET Grow[i \in 0 .. Cardinality(NodesOf(d))] ==
            IF i = 0 THEN Starts(d)
            ELSE Grow[i - 1] \cup {e[2] : e \in {x \in Kept(d) : x[1] \in Grow[i - 1]}}
    IN  Grow[Cardinality(NodesOf(d))]

Issues(d) ==
    (IF Cardinality(Starts(d)) # 1 THEN {"start_count"} ELSE {})
    \cup (IF \E n \in NodesOf(d) : d.kind[n] = "end" THEN {} ELSE {"missing_end"})
    \cup (IF Kept(d) # d.edges THEN {"dangling_edge"} ELSE {})
    \cup (IF \E n \in NodesOf(d) : d.kind[n] # "end" /\ ~\E e \in Kept(d) : e[1] = n
          THEN {"dead_end"} ELSE {})
    \cup (IF Cardinality(Starts(d)) = 1 /\ NodesOf(d) \ Reached(d) # {}
          THEN {"unreachable_node"} ELSE {})

Valid(d) == Issues(d) = {}

\* The editor saves incomplete drafts too; a flow is made outside of a race.
Row(d, uses) == [status |-> "draft", draft |-> d, uses |-> uses, version |-> 0]

Init ==
    /\ \E d \in Drafts : flow = Row(d, FALSE)
    /\ versions = [v \in Numbers |-> Absent]
    /\ tasks = {}
    /\ scenario = Absent
    /\ req = [o \in Operators |-> "idle"]
    /\ seen = [o \in Operators |-> Absent]
    /\ overtaken = {}

----------------------------------------------------------------------------
Config == IF scenario = Absent THEN NoScenario ELSE scenario.config
Published == {v \in Numbers : versions[v] # Absent}
Latest == CHOOSE v \in Published : \A w \in Published : w <= v
HasFlow == flow # Absent

\* A row under a pending DELETE is locked: another transaction waits for it.
Removing == \E o \in Operators : req[o] = "removing"

Done(o) == /\ req' = [req EXCEPT ![o] = "idle"]
           /\ seen' = [seen EXCEPT ![o] = Absent]

\* get(id), the read every operation begins with, and the scenario row that
\* flowInclude joins to it; 404 when the flow is gone.
Read(o, what) ==
    /\ req[o] = "idle"
    /\ HasFlow
    /\ req' = [req EXCEPT ![o] = what]
    /\ seen' = [seen EXCEPT ![o] =
          CASE what = "update" -> [status |-> flow.status]
            [] what = "publish" ->
                 [draft |-> flow.draft, config |-> IF flow.uses THEN Config ELSE NoScenario]
            [] OTHER -> Absent]
    /\ UNCHANGED <<flow, versions, tasks, scenario, overtaken>>

\* update(): an edit of a published flow returns it to draft, as the status
\* was when it was read.
Update(o, d, uses) ==
    /\ req[o] = "update"
    /\ uses => scenario # Absent
    /\ Done(o)
    /\ IF HasFlow
       THEN /\ flow' = [flow EXCEPT !.draft = d, !.uses = uses,
                            !.status = IF seen[o].status = "published"
                                       THEN "draft" ELSE @]
            /\ overtaken' = IF seen[o].status = "draft" /\ flow.status = "published"
                            THEN overtaken \cup {0} ELSE overtaken
       ELSE UNCHANGED <<flow, overtaken>>
    /\ UNCHANGED <<versions, tasks, scenario>>

\* publish(): the graph read first is validated; the transaction copies the
\* row as it is by then, with the scenario configuration read first.
Invalid(o) ==
    /\ req[o] = "publish"
    /\ ~Valid(seen[o].draft)
    /\ Done(o)
    /\ UNCHANGED <<flow, versions, tasks, scenario, overtaken>>

Publication(o) ==
    /\ req[o] = "publish"
    /\ HasFlow => flow.version < MaxVersion
    /\ Done(o)
    /\ IF HasFlow
       THEN /\ flow' = [flow EXCEPT !.status = "published", !.version = @ + 1]
            /\ versions' = [versions EXCEPT ![flow.version + 1] =
                   [status |-> "version", draft |-> flow.draft, uses |-> flow.uses,
                    snapshot |-> seen[o].config]]
            /\ overtaken' = IF seen[o].draft # flow.draft
                            THEN overtaken \cup {flow.version + 1} ELSE overtaken
       ELSE UNCHANGED <<flow, versions, overtaken>>
    /\ UNCHANGED <<tasks, scenario>>

Publish(o) ==
    /\ req[o] = "publish"
    /\ Valid(seen[o].draft)
    /\ Publication(o)

\* remove(), first statement: every version is deleted in the transaction,
\* and the foreign key of a task locked to one refuses it (409).
RemoveVersions(o) ==
    /\ req[o] = "remove"
    /\ ~Removing
    /\ IF HasFlow /\ tasks = {}
       THEN /\ req' = [req EXCEPT ![o] = "removing"]
            /\ seen' = [seen EXCEPT ![o] = [gone |-> Published]]
       ELSE Done(o)
    /\ UNCHANGED <<flow, versions, tasks, scenario, overtaken>>

\* The second statement deletes the flow; a version published since the first
\* refuses it and rolls the transaction back.  A scenario that has the flow as
\* its default loses it (ON DELETE SET NULL).
RemoveUnchecked(o) ==
    /\ req[o] = "removing"
    /\ Done(o)
    /\ flow' = Absent
    /\ versions' = [v \in Numbers |-> Absent]
    /\ scenario' = IF scenario = Absent THEN Absent ELSE [scenario EXCEPT !.flow = FALSE]
    /\ UNCHANGED <<tasks, overtaken>>

RemoveFlow(o) ==
    /\ req[o] = "removing"
    /\ Done(o)
    /\ IF Published = seen[o].gone /\ tasks = {}
       THEN /\ flow' = Absent
            /\ versions' = [v \in Numbers |-> Absent]
            /\ scenario' = IF scenario = Absent THEN Absent
                           ELSE [scenario EXCEPT !.flow = FALSE]
       ELSE UNCHANGED <<flow, versions, scenario>>
    /\ UNCHANGED <<tasks, overtaken>>

----------------------------------------------------------------------------
(* TasksService.create: resolvePublishedVersion takes the latest version,  *)
(* also of a flow that is a draft again; the row is inserted at the end.   *)

ResolvePublishedVersion(o) ==
    /\ req[o] = "idle"
    /\ Published # {}
    /\ Cardinality(tasks) < MaxTasks
    /\ req' = [req EXCEPT ![o] = "task"]
    /\ seen' = [seen EXCEPT ![o] = [locked |-> Latest]]
    /\ UNCHANGED <<flow, versions, tasks, scenario, overtaken>>

\* A version deleted meanwhile is refused by the foreign key, one being
\* deleted is waited for.
CreateTask(o) ==
    /\ req[o] = "task"
    /\ \A p \in Operators : req[p] = "removing" => seen[o].locked \notin seen[p].gone
    /\ Done(o)
    /\ tasks' = IF seen[o].locked \in Published THEN tasks \cup {seen[o].locked} ELSE tasks
    /\ UNCHANGED <<flow, versions, scenario, overtaken>>

----------------------------------------------------------------------------
(* Scenarios: create() and update() check the default flow first, look the *)
(* key up, and write; update() of a built-in scenario first inserts it.    *)

\* assertSelectablePublishedFlow and findUnique, then the write: `wants` says
\* whether the request selects the flow as the scenario's default.
Selection(o, wants) ==
    /\ req[o] = "idle"
    /\ Config < MaxConfig
    /\ req' = [req EXCEPT ![o] =
                IF scenario = Absent THEN "materialize" ELSE "scenario"]
    /\ seen' = [seen EXCEPT ![o] = [wants |-> wants]]
    /\ UNCHANGED <<flow, versions, tasks, scenario, overtaken>>

Select(o, wants) ==
    /\ wants => HasFlow /\ (flow.status = "published" \/ flow.version > 0)
    /\ Selection(o, wants)

\* create() of a new key, refused when it exists: its own read.
CreateScenario(o, wants) ==
    /\ req[o] = "idle"
    /\ scenario = Absent
    /\ wants => HasFlow /\ (flow.status = "published" \/ flow.version > 0)
    /\ req' = [req EXCEPT ![o] = "create"]
    /\ seen' = [seen EXCEPT ![o] = [wants |-> wants]]
    /\ UNCHANGED <<flow, versions, tasks, scenario, overtaken>>

\* materializeBuiltin and create() insert the key: unique, so of two only the
\* first succeeds, and a flow deleted meanwhile fails the foreign key.
InsertScenario(o) ==
    /\ req[o] \in {"materialize", "create"}
    /\ LET fails == scenario # Absent \/ (req[o] = "create" /\ seen[o].wants /\ ~HasFlow)
       IN  IF fails
           THEN Done(o) /\ UNCHANGED scenario
           ELSE /\ scenario' = [status |-> "active", config |-> 1,
                                flow |-> req[o] = "create" /\ seen[o].wants]
                /\ IF req[o] = "create" THEN Done(o)
                   ELSE req' = [req EXCEPT ![o] = "scenario"] /\ UNCHANGED seen
    /\ UNCHANGED <<flow, versions, tasks, overtaken>>

UpdateScenario(o) ==
    /\ req[o] = "scenario"
    /\ Config < MaxConfig
    /\ Done(o)
    /\ scenario' = IF seen[o].wants /\ ~HasFlow THEN scenario
                   ELSE [scenario EXCEPT !.config = @ + 1, !.flow = @ \/ seen[o].wants]
    /\ UNCHANGED <<flow, versions, tasks, overtaken>>

\* deactivate(): the row stays, and its tasks and versions with it.
Deactivate ==
    /\ scenario # Absent
    /\ scenario.status = "active"
    /\ scenario' = [scenario EXCEPT !.status = "inactive"]
    /\ UNCHANGED <<flow, versions, tasks, req, seen, overtaken>>

Next ==
    \/ \E o \in Operators :
        \/ \E what \in {"update", "publish", "remove"} : Read(o, what)
        \/ \E d \in Drafts, uses \in BOOLEAN : Update(o, d, uses)
        \/ Invalid(o) \/ Publish(o)
        \/ RemoveVersions(o) \/ RemoveFlow(o)
        \/ ResolvePublishedVersion(o) \/ CreateTask(o)
        \/ \E wants \in BOOLEAN : Select(o, wants) \/ CreateScenario(o, wants)
        \/ InsertScenario(o) \/ UpdateScenario(o)
    \/ Deactivate

Spec == Init /\ [][Next]_vars

----------------------------------------------------------------------------
TypeOK ==
    /\ flow = Absent \/ flow \in [status : {"draft", "published"}, draft : Drafts,
                                  uses : BOOLEAN, version : 0 .. MaxVersion]
    /\ \A v \in Numbers : versions[v] = Absent
         \/ versions[v] \in [status : {"version"}, draft : Drafts, uses : BOOLEAN,
                             snapshot : 0 .. MaxConfig]
    /\ tasks \subseteq Numbers
    /\ scenario = Absent \/ scenario \in [status : {"active", "inactive"},
                                          config : 1 .. MaxConfig, flow : BOOLEAN]
    /\ req \in [Operators -> Steps]

\* A task's version is there for as long as the task: no deletion takes it
\* away, whichever way removing the flow and creating the task interleave
\* (task-flows.service.ts:107-111).
LockedVersionsLast == tasks \subseteq Published

\* A version was a valid graph, unless an edit landed between the validation
\* and the publication, which copies what it never looked at
\* (task-flows.service.ts:132-160).
VersionsAreValid ==
    \A v \in Published : Valid(versions[v].draft) \/ v \in overtaken

\* What a published flow shows in the editor is what its calls execute: its
\* latest version has the same graph, unless an edit that had read a draft was
\* written after a publication (task-flows.service.ts:76-103).
PublishedIsExecuted ==
    HasFlow /\ flow.status = "published" =>
        \/ versions[flow.version] # Absent /\ versions[flow.version].draft = flow.draft
        \/ 0 \in overtaken

\* A scenario's default flow can be dialled with: it exists and has a version
\* (scenarios.service.ts:164-177).
DefaultFlowIsPublished ==
    scenario # Absent /\ scenario.flow => HasFlow /\ flow.version > 0
============================================================================
