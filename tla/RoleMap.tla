------------------------------- MODULE RoleMap -------------------------------
(***************************************************************************)
(* Roles (system.service.ts) and the map from roles to permissions that    *)
(* each API process keeps in memory (role-permission-map.refresher.ts).    *)
(* A set of permissions is a number, 0 the role that does not exist.       *)
(***************************************************************************)
EXTENDS Naturals

CONSTANTS
    Roles,          \* roles other than admin
    Processes,
    Requests,       \* requests of administrators, each handled by one process
    Handler,        \* which process, per request
    MaxChanges      \* bound: changes of roles and assignments

Grants == 0 .. 2
Empty == [r \in Roles |-> 0]

VARIABLES
    table,          \* the role table
    assigned,       \* roles some user has
    map,            \* per process: what its guards go by
    req,            \* per request: [step, role, seen], seen what a refresh has read
    changes,
    behind          \* history: processes whose map another process's change, a failed
                    \*   or an overlapping refresh has left behind

vars == <<table, assigned, map, req, changes, behind>>

NoRequest == [step |-> "none", role |-> "none", seen |-> Empty]

\* Processes start with the map they have read, or an empty one.
Init ==
    /\ table = [r \in Roles |-> 1]
    /\ assigned = {}
    /\ map = [p \in Processes |-> table]
    /\ req = [x \in Requests |-> NoRequest]
    /\ changes = 0
    /\ behind = {}

In(p) == {x \in Requests : Handler[x] = p}
Refreshing(p) == {x \in In(p) : req[x].step \in {"read", "set"}}

----------------------------------------------------------------------------
\* The change is stored; the map of the process that made it is read again.
Stored(x, r, grants) ==
    /\ table' = [table EXCEPT ![r] = grants]
    /\ changes' = changes + 1
    /\ req' = [req EXCEPT ![x] = [NoRequest EXCEPT !.step = "read"]]
    /\ behind' = behind \cup (Processes \ {Handler[x]})
                   \cup (IF Refreshing(Handler[x]) = {} THEN {} ELSE {Handler[x]})
    /\ UNCHANGED map

CreateRole(x, r) ==
    /\ req[x] = NoRequest /\ changes < MaxChanges
    /\ table[r] = 0
    /\ \E g \in Grants \ {0} : Stored(x, r, g)
    /\ UNCHANGED assigned

UpdateRole(x, r) ==
    /\ req[x] = NoRequest /\ changes < MaxChanges
    /\ table[r] # 0
    /\ \E g \in Grants \ {0, table[r]} : Stored(x, r, g)
    /\ UNCHANGED assigned

\* deleteRole: the users of the role are counted, then it is deleted.
CountUsers(x, r) ==
    /\ req[x] = NoRequest /\ changes < MaxChanges
    /\ table[r] # 0 /\ r \notin assigned
    /\ req' = [req EXCEPT ![x].step = "counted", ![x].role = r]
    /\ UNCHANGED <<table, assigned, map, changes, behind>>

\* user_roles go with their role (onDelete: Cascade); the delete of a role that
\* is gone throws.
DeleteRole(x) ==
    /\ req[x].step = "counted"
    /\ LET r == req[x].role
       IN  IF table[r] = 0
           THEN /\ req' = [req EXCEPT ![x] = NoRequest]
                /\ UNCHANGED <<table, assigned, map, changes, behind>>
           ELSE Stored(x, r, 0) /\ assigned' = assigned \ {r}

\* updateUser and createUser, with a role that exists.
Assign(r) ==
    /\ changes < MaxChanges /\ table[r] # 0
    /\ assigned' = IF r \in assigned THEN assigned \ {r} ELSE assigned \cup {r}
    /\ changes' = changes + 1
    /\ UNCHANGED <<table, map, req, behind>>

----------------------------------------------------------------------------
\* refresh(): all roles are read ...
Read(x) ==
    /\ req[x].step = "read"
    /\ req' = [req EXCEPT ![x].step = "set", ![x].seen = table]
    /\ behind' = IF Refreshing(Handler[x]) = {x} THEN behind \ {Handler[x]} ELSE behind
    /\ UNCHANGED <<table, assigned, map, changes>>

\* ... and become the map, whatever has been set meanwhile.
SetMap(x) ==
    /\ req[x].step = "set"
    /\ map' = [map EXCEPT ![Handler[x]] = req[x].seen]
    /\ req' = [req EXCEPT ![x] = NoRequest]
    /\ UNCHANGED <<table, assigned, changes, behind>>

\* The database fails: the role is changed, the request answered with an error.
RefreshFails(x) ==
    /\ req[x].step = "read"
    /\ req' = [req EXCEPT ![x] = NoRequest]
    /\ behind' = behind \cup {Handler[x]}
    /\ UNCHANGED <<table, assigned, map, changes>>

\* A process starts again; onModuleInit goes on without a map.
Restart(p) ==
    /\ changes < MaxChanges
    /\ changes' = changes + 1
    /\ req' = [x \in Requests |-> IF x \in In(p) THEN NoRequest ELSE req[x]]
    /\ \/ map' = [map EXCEPT ![p] = table] /\ behind' = behind \ {p}
       \/ map' = [map EXCEPT ![p] = Empty] /\ behind' = behind \cup {p}
    /\ UNCHANGED <<table, assigned>>

----------------------------------------------------------------------------
Next ==
    \/ \E x \in Requests :
          \/ DeleteRole(x) \/ Read(x) \/ SetMap(x) \/ RefreshFails(x)
          \/ \E r \in Roles : CreateRole(x, r) \/ UpdateRole(x, r) \/ CountUsers(x, r)
    \/ \E r \in Roles : Assign(r)
    \/ \E p \in Processes : Restart(p)

Spec == Init /\ [][Next]_vars

----------------------------------------------------------------------------
TypeOK ==
    /\ table \in [Roles -> Grants]
    /\ assigned \subseteq Roles
    /\ map \in [Processes -> [Roles -> Grants]]
    /\ \A x \in Requests : req[x].step \in {"none", "counted", "read", "set"}
    /\ behind \subseteq Processes

\* Once no request is under way in it, a process goes by the roles as they are,
\* the deleted ones gone; the exceptions are a change made through another
\* process, two refreshes at once and a refresh that failed
\* (system.service.ts:227-293, role-permission-map.refresher.ts:24-35).
MapIsCurrent ==
    \A p \in Processes :
        p \notin behind /\ (\A x \in In(p) : req[x] = NoRequest) => map[p] = table
==============================================================================
