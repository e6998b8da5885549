------------------------------ MODULE TaskListing ------------------------------
(***************************************************************************)
(* Reading the list of tasks page by page while tasks come, go and change, *)
(* and what of it an account may see: its own tasks, those nobody owns and *)
(* those it was granted; the account of a bypassing role sees all.         *)
(*                                                                         *)
(* Tasks are numbered in the order of their creation; the list shows the   *)
(* newest first.  A query with a cursor begins at the cursor's place in    *)
(* that order, whether or not the cursor's row still matches, and skips    *)
(* the first row it finds; without the cursor's row it finds nothing.      *)
(***************************************************************************)
EXTENDS Integers, FiniteSets, SequencesExt

CONSTANTS MaxTasks,    \* bound on the tasks created
          MaxChanges,  \* bound on changes of tasks and grants during the walk
          PageSize

VARIABLES rows,        \* the tasks there are: [owner, status] by number
          made,        \* tasks ever created
          grants,      \* [task, to, view]: to the account or to its role
          bypass,      \* the account has a bypassing role
          walk,        \* [filter, cursor, seen, going, held]
          steady,      \* tasks in the list ever since the walk began
          changes

vars == <<rows, made, grants, bypass, walk, steady, changes>>

Numbers == 1..MaxTasks
Statuses == {"pending", "calling"}
Owners == {"me", "other", "nobody"}
NoCursor == 0

HasViewPerm(grant) == grant.view
GrantsOf(n) == {g \in grants : g.task = n}

(* taskVisibilityWhere: the condition of the list.                         *)
TaskVisibilityWhere(n) ==
  \/ bypass
  \/ rows[n].owner \in {"me", "nobody"}
  \/ \E g \in GrantsOf(n) : HasViewPerm(g)

(* assertTaskVisible: the condition of the details, which asks the first   *)
(* grant the database returns.                                             *)
MayOpen(n) ==
  \/ bypass
  \/ rows[n].owner \in {"me", "nobody"}
  \/ \E g \in GrantsOf(n) : HasViewPerm(g)

MustOpen(n) ==
  \/ bypass
  \/ rows[n].owner \in {"me", "nobody"}
  \/ GrantsOf(n) # {} /\ \A g \in GrantsOf(n) : HasViewPerm(g)

Listed(filter) ==
  {n \in DOMAIN rows : filter \in {"all", rows[n].status} /\ TaskVisibilityWhere(n)}

Newest(S) == SetToSortSeq(S, LAMBDA a, b : a > b)
FirstOf(rs, k) == SubSeq(rs, 1, Min({k, Len(rs)}))

Found(filter, cursor) ==
  IF cursor = NoCursor THEN Newest(Listed(filter))
  ELSE LET from == Newest({n \in Listed(filter) : n <= cursor})
       IN IF cursor \notin DOMAIN rows \/ from = <<>> THEN <<>> ELSE Tail(from)

-----------------------------------------------------------------------------
NoWalk == [filter |-> "all", cursor |-> NoCursor, seen |-> <<>>, going |-> FALSE,
           held |-> TRUE]

Init ==
  /\ rows = <<>> /\ made = 0 /\ grants = {} /\ bypass \in BOOLEAN
  /\ walk = NoWalk /\ steady = {} /\ changes = 0

(* Whatever happens to the tasks, those that left the list are no longer   *)
(* steady.                                                                 *)
Settle == steady' = IF walk.going THEN steady \cap Listed(walk.filter)' ELSE steady

Create(owner) ==
  /\ made < MaxTasks /\ made' = made + 1
  /\ rows' = [n \in DOMAIN rows \cup {made + 1} |->
                IF n = made + 1 THEN [owner |-> owner, status |-> "pending"] ELSE rows[n]]
  /\ UNCHANGED <<grants, bypass, walk, changes>> /\ Settle

Changes == changes < MaxChanges /\ changes' = changes + 1

Move(n) ==
  /\ n \in DOMAIN rows /\ Changes
  /\ \E s \in Statuses \ {rows[n].status} : rows' = [rows EXCEPT ![n].status = s]
  /\ UNCHANGED <<made, grants, bypass, walk>> /\ Settle

RemoveTask(n) ==
  /\ n \in DOMAIN rows /\ Changes
  /\ rows' = [m \in DOMAIN rows \ {n} |-> rows[m]]
  /\ UNCHANGED <<made, grants, bypass, walk>> /\ Settle

(* One grant to the account and one to its role at most; the database      *)
(* keeps them apart.                                                       *)
Grant(n, to, view) ==
  /\ n \in DOMAIN rows /\ Changes
  /\ grants' = {g \in grants : g.task # n \/ g.to # to}
               \cup {[task |-> n, to |-> to, view |-> view]}
  /\ UNCHANGED <<rows, made, bypass, walk>> /\ Settle

(* list: a page, and the cursor of the next one when there is more.        *)
Page(filter, cursor, seen) ==
  LET found == Found(filter, cursor)
      page == FirstOf(found, PageSize)
  IN /\ walk' = [filter |-> filter, seen |-> seen \o page,
                 going |-> Len(found) > PageSize,
                 cursor |-> IF Len(found) > PageSize THEN Last(page) ELSE NoCursor,
                 held |-> /\ cursor = NoCursor \/ walk.held
                          /\ cursor = NoCursor \/ cursor \in Listed(filter)]
     /\ UNCHANGED <<rows, made, grants, bypass, changes>>

FirstPage(filter) ==
  /\ ~walk.going /\ Page(filter, NoCursor, <<>>)
  /\ steady' = Listed(filter)

NextPage ==
  /\ walk.going /\ Page(walk.filter, walk.cursor, walk.seen)
  /\ UNCHANGED steady

Next ==
  \/ \E owner \in Owners : Create(owner)
  \/ \E n \in Numbers :
       \/ Move(n) \/ RemoveTask(n)
       \/ \E to \in {"account", "role"}, view \in BOOLEAN : Grant(n, to, view)
  \/ \E filter \in {"all"} \cup Statuses : FirstPage(filter)
  \/ NextPage

Spec == Init /\ [][Next]_vars

-----------------------------------------------------------------------------
TypeOK ==
  /\ DOMAIN rows \subseteq 1..made /\ made \in 0..MaxTasks
  /\ \A n \in DOMAIN rows : rows[n].owner \in Owners /\ rows[n].status \in Statuses
  /\ steady \subseteq Numbers /\ walk.cursor \in 0..MaxTasks

(* No task is shown twice in one walk through the pages, and a walk whose  *)
(* cursors were all still in the list when they were used has shown, when  *)
(* it is over, every task that was in the list all the time, whatever was  *)
(* created, changed, deleted and granted between two pages.                *)
WalkShowsEachOnce ==
  /\ IsInjective(walk.seen)
  /\ ~walk.going /\ walk.held /\ walk.seen # <<>> => steady \subseteq ToSet(walk.seen)

(* The list and the details agree on what an account may see: what it can  *)
(* open is in its list, and what its list shows it can open unless one of  *)
(* the task's grants to it gives no view.                                  *)
ListAgreesWithDetails ==
  \A n \in DOMAIN rows :
    /\ MayOpen(n) => n \in Listed("all")
    /\ n \in Listed("all") /\ (\A g \in GrantsOf(n) : HasViewPerm(g)) => MustOpen(n)
=============================================================================
