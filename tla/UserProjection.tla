---------------------------- MODULE UserProjection ----------------------------
(***************************************************************************)
(* Accounts of one person in ai-call and their projection to ai-knowledge  *)
(* (system.service.ts, knowledge-identity-sync.service.ts).  Ids are       *)
(* numbered as they are given out; all have the person's email, of which   *)
(* either side allows one.  What is projected is the status and the role.  *)
(***************************************************************************)
EXTENDS Naturals

CONSTANTS
    Operators,      \* administrators at work at once
    MaxIds,         \* bound: accounts made
    MaxLocalFaults  \* bound: local writes that fail

Ids == 1 .. MaxIds
Account == [status : {"active", "inactive"}, role : {"viewer", "editor"}]
Absent == [status |-> "absent", role |-> "absent"]
Accounts == Account \cup {Absent}

VARIABLES
    row,            \* the users table
    remote,         \* what ai-knowledge holds
    ids,            \* ids given out
    op,             \* per operator: the call under way
    faults,         \* local writes that failed
    unsure,         \* history: an answer was lost after it took effect, or a local
                    \*   write failed after the remote one
    crossed         \* history: two calls were under way at once

vars == <<row, remote, ids, op, faults, unsure, crossed>>

NoOp == [kind |-> "none", step |-> "none", id |-> 0, account |-> Absent, field |-> "none"]

Init ==
    /\ row = [i \in Ids |-> Absent]
    /\ remote = [i \in Ids |-> Absent]
    /\ ids = 0
    /\ op = [o \in Operators |-> NoOp]
    /\ faults = 0
    /\ unsure = FALSE
    /\ crossed = FALSE

Idle(o) == op[o] = NoOp
Start(o, kind, step, id, account, field) ==
    /\ Idle(o)
    /\ op' = [op EXCEPT ![o] = [kind |-> kind, step |-> step, id |-> id, account |-> account,
                               field |-> field]]
    /\ crossed' = (crossed \/ \E p \in Operators \ {o} : ~Idle(p))
Step(o, step) == op' = [op EXCEPT ![o].step = step]
Return(o) == op' = [op EXCEPT ![o] = NoOp]

----------------------------------------------------------------------------
\* createUser: the email is free here; the row, then the projection.
CreateUser(o) ==
    /\ ids < MaxIds
    /\ \A i \in Ids : row[i] = Absent
    /\ ids' = ids + 1
    /\ \E r \in {"viewer", "editor"} :
          LET new == [status |-> "active", role |-> r]
          IN  /\ row' = [row EXCEPT ![ids'] = new]
              /\ Start(o, "create", "put", ids', new, "none")
    /\ UNCHANGED <<remote, faults, unsure>>

\* updateUser: what the form leaves out is taken from the row as it is now.
UpdateUser(o, id) ==
    /\ row[id] # Absent
    /\ \E field \in {"status", "role"} : \E change \in Account :
          /\ \A other \in {"status", "role"} : (change[other] # row[id][other]) = (other = field)
          /\ Start(o, "update", "put", id, change, field)
    /\ UNCHANGED <<row, remote, ids, faults, unsure>>

DeleteUser(o, id) ==
    /\ row[id] # Absent
    /\ Start(o, "delete", "remove", id, row[id], "none")
    /\ UNCHANGED <<row, remote, ids, faults, unsure>>

\* syncAllKnowledgeUsers, of the one account there is.
SyncAll(o, id) ==
    /\ row[id] # Absent
    /\ Start(o, "sync", "put", id, row[id], "none")
    /\ UNCHANGED <<row, remote, ids, faults, unsure>>

----------------------------------------------------------------------------
\* The request is answered: the account as it is to be, unless another of the
\* same email is there (409).
Conflict(id) == \E i \in Ids \ {id} : remote[i] # Absent

Answered(o) ==
    /\ op[o].step \in {"put", "remove"}
    /\ IF op[o].step = "put" /\ Conflict(op[o].id)
       THEN Step(o, "failed") /\ UNCHANGED remote
       ELSE /\ Step(o, "applied")
            /\ remote' = [remote EXCEPT ![op[o].id] =
                            IF op[o].step = "put" THEN op[o].account ELSE Absent]
    /\ UNCHANGED <<row, ids, faults, unsure, crossed>>

\* An error, a timeout or a lost answer: request() throws; it may have taken
\* effect all the same.
Unanswered(o) ==
    /\ op[o].step \in {"put", "remove"}
    /\ Step(o, "failed")
    /\ \/ UNCHANGED <<remote, unsure>>
       \/ /\ op[o].step = "put" => ~Conflict(op[o].id)
          /\ remote' = [remote EXCEPT ![op[o].id] =
                          IF op[o].step = "put" THEN op[o].account ELSE Absent]
          /\ unsure' = TRUE
    /\ UNCHANGED <<row, ids, faults, crossed>>

\* The local half, last; of an update only the fields of the form.
LocalWrite(o) ==
    /\ op[o].step = "applied"
    /\ Return(o)
    /\ row' = CASE op[o].kind = "update" /\ row[op[o].id] # Absent ->
                       [row EXCEPT ![op[o].id][op[o].field] = op[o].account[op[o].field]]
                [] op[o].kind = "delete" -> [row EXCEPT ![op[o].id] = Absent]
                [] OTHER -> row
    /\ UNCHANGED <<remote, ids, faults, unsure, crossed>>

LocalWriteFails(o) ==
    /\ op[o].step = "applied" /\ op[o].kind \in {"update", "delete"}
    /\ faults < MaxLocalFaults
    /\ faults' = faults + 1
    /\ unsure' = TRUE
    /\ Return(o)
    /\ UNCHANGED <<row, remote, ids, crossed>>

\* A creation that could not be projected is taken back; nothing else is.
Compensate(o) ==
    /\ op[o].step = "failed"
    /\ Return(o)
    /\ row' = IF op[o].kind = "create" THEN [row EXCEPT ![op[o].id] = Absent] ELSE row
    /\ UNCHANGED <<remote, ids, faults, unsure, crossed>>

----------------------------------------------------------------------------
Next ==
    \E o \in Operators :
        \/ CreateUser(o) \/ Answered(o) \/ Unanswered(o)
        \/ LocalWrite(o) \/ LocalWriteFails(o) \/ Compensate(o)
        \/ \E id \in Ids : UpdateUser(o, id) \/ DeleteUser(o, id) \/ SyncAll(o, id)

Spec == Init /\ [][Next]_vars

----------------------------------------------------------------------------
TypeOK ==
    /\ row \in [Ids -> Accounts] /\ remote \in [Ids -> Accounts]
    /\ ids \in 0 .. MaxIds
    /\ \A o \in Operators :
          /\ op[o].kind \in {"none", "create", "update", "delete", "sync"}
          /\ op[o].step \in {"none", "put", "remove", "applied", "failed"}
    /\ unsure \in BOOLEAN /\ crossed \in BOOLEAN

\* Between calls ai-knowledge holds what ai-call holds, whichever requests
\* failed; the exceptions are an answer lost after it took effect, a local
\* write that failed and two calls that met (system.service.ts:82-141).
ProjectionAgrees ==
    (\A o \in Operators : Idle(o)) /\ ~unsure /\ ~crossed => row = remote

\* An account that is not here, because it was deleted or its creation was
\* taken back, is not left in ai-knowledge, where its email would stand in the
\* way of the next (system.service.ts:82-94, 184-185), with the same exceptions.
NoGhosts ==
    ~unsure /\ ~crossed =>
        \A i \in Ids : remote[i] # Absent => row[i] # Absent
===============================================================================
