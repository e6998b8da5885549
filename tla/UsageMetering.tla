---------------------------- MODULE UsageMetering ----------------------------
(***************************************************************************)
(* Metering of a tenant's usage (tenants.service.ts): events with an       *)
(* idempotency key, and aggregates per bucket (metric, period and day or   *)
(* month) kept beside them.  Callers repeat what they got no answer to,    *)
(* perhaps on another day.                                                 *)
(***************************************************************************)
EXTENDS Naturals, FiniteSets, FiniteSetsExt

CONSTANTS
    Callers,        \* requests under way at once
    Keys,           \* idempotency keys
    Buckets,
    MaxQuantity,
    MaxRequests     \* bound: requests made

VARIABLES
    tenant,         \* whether it is there
    events,         \* usage_events: [key, bucket, quantity]
    aggregate,      \* usage_aggregates: per bucket [quantity, count]
    request,        \* per caller: the request under way
    made,           \* requests made
    told            \* history: keys, per request answered, that were told to be new

vars == <<tenant, events, aggregate, request, made, told>>

NoRequest == [step |-> "none", key |-> "none", bucket |-> "none", quantity |-> 0]
Nothing == [quantity |-> 0, count |-> 0]

Init ==
    /\ tenant = TRUE
    /\ events = {}
    /\ aggregate = [b \in Buckets |-> Nothing]
    /\ request = [c \in Callers |-> NoRequest]
    /\ made = 0
    /\ told = [k \in Keys |-> 0]

Known(key) == \E e \in events : e.key = key
Step(c, step) == request' = [request EXCEPT ![c].step = step]
Answer(c) == request' = [request EXCEPT ![c] = NoRequest]

----------------------------------------------------------------------------
\* normalizePositiveInt cuts a fraction off, so that one half is 0.
RecordUsageEvent(c) ==
    /\ request[c] = NoRequest /\ made < MaxRequests
    /\ made' = made + 1
    /\ \E k \in Keys, b \in Buckets, q \in 0 .. MaxQuantity :
          request' = [request EXCEPT ![c] =
                        [step |-> "ensured", key |-> k, bucket |-> b, quantity |-> q]]
    /\ tenant
    /\ UNCHANGED <<tenant, events, aggregate, told>>

\* findUsageEvent: a key that is known is answered as a duplicate.
Find(c) ==
    /\ request[c].step = "ensured"
    /\ IF Known(request[c].key) THEN Answer(c) ELSE Step(c, "new")
    /\ UNCHANGED <<tenant, events, aggregate, made, told>>

\* As Count without the transaction: the conflict comes when the bucket is counted.
CountFirst(c) ==
    /\ request[c].step = "new"
    /\ tenant
    /\ LET r == request[c]
       IN  /\ events' = IF Known(r.key) THEN events
                        ELSE events \cup {[key |-> r.key, bucket |-> r.bucket, quantity |-> r.quantity]}
           /\ aggregate' = [aggregate EXCEPT ![r.bucket].quantity = @ + r.quantity,
                                             ![r.bucket].count = @ + 1]
           /\ told' = [told EXCEPT ![r.key] = IF Known(r.key) THEN @ ELSE @ + 1]
    /\ Answer(c)
    /\ UNCHANGED <<tenant, made>>

\* The transaction: the event, unique by its key, and its bucket with it.
Count(c) ==
    /\ request[c].step = "new"
    /\ tenant /\ ~Known(request[c].key)
    /\ LET r == request[c]
       IN  /\ events' = events \cup {[key |-> r.key, bucket |-> r.bucket, quantity |-> r.quantity]}
           /\ aggregate' = [aggregate EXCEPT ![r.bucket].quantity = @ + r.quantity,
                                             ![r.bucket].count = @ + 1]
           /\ told' = [told EXCEPT ![r.key] = @ + 1]
    /\ Answer(c)
    /\ UNCHANGED <<tenant, made>>

\* Another request was first: nothing is written, and the event is looked up.
Conflicts(c) ==
    /\ request[c].step = "new"
    /\ tenant /\ Known(request[c].key)
    /\ Step(c, "conflict")
    /\ UNCHANGED <<tenant, events, aggregate, made, told>>

\* ... as is done when two requests insert the first row of a bucket.
BucketConflicts(c) ==
    /\ request[c].step = "new" /\ tenant
    /\ \E d \in Callers \ {c} : request[d].step = "new" /\ request[d].bucket = request[c].bucket
    /\ aggregate[request[c].bucket] = Nothing
    /\ Step(c, "conflict")
    /\ UNCHANGED <<tenant, events, aggregate, made, told>>

\* The duplicate's answer, or the error when there is no such event.
LookUp(c) ==
    /\ request[c].step = "conflict"
    /\ Answer(c)
    /\ UNCHANGED <<tenant, events, aggregate, made, told>>

\* The tenant is gone: the foreign key refuses the event.
Refused(c) ==
    /\ request[c].step = "new" /\ ~tenant
    /\ Answer(c)
    /\ UNCHANGED <<tenant, events, aggregate, made, told>>

\* deleteTenant, never the default one: what was metered goes with it.
DeleteTenant ==
    /\ tenant
    /\ tenant' = FALSE
    /\ events' = {}
    /\ aggregate' = [b \in Buckets |-> Nothing]
    /\ told' = [k \in Keys |-> 0]
    /\ UNCHANGED <<request, made>>

----------------------------------------------------------------------------
Next ==
    \/ \E c \in Callers :
          \/ RecordUsageEvent(c) \/ Find(c) \/ Count(c) \/ Conflicts(c)
          \/ BucketConflicts(c) \/ LookUp(c) \/ Refused(c)
    \/ DeleteTenant

Spec == Init /\ [][Next]_vars

----------------------------------------------------------------------------
TypeOK ==
    /\ tenant \in BOOLEAN
    /\ events \subseteq [key : Keys, bucket : Buckets, quantity : 0 .. MaxQuantity]
    /\ \A c \in Callers : request[c].step \in {"none", "ensured", "new", "conflict"}
    /\ told \in [Keys -> Nat]

\* The aggregates are the sums of the events, whichever requests conflicted and
\* whatever was deleted, and a key repeated on any day is counted and called new
\* once (tenants.service.ts:209-273).
MeteredOnce ==
    /\ \A b \in Buckets :
          LET of == {e \in events : e.bucket = b}
          IN  /\ aggregate[b].count = Cardinality(of)
              /\ aggregate[b].quantity = MapThenSumSet(LAMBDA e : e.quantity, of)
    /\ \A k \in Keys : Cardinality({e \in events : e.key = k}) = told[k] /\ told[k] <= 1
==============================================================================
