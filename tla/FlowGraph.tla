------------------------------ MODULE FlowGraph ------------------------------
(***************************************************************************)
(* The graph edits of the flow builder (store/flow-store.ts): adding,      *)
(* deleting and copying nodes, connecting them, and laying them out in     *)
(* layers.  Nodes are numbered as they are made, 1 is the start node;      *)
(* edges are <<source, target>> in the order of the store's array, which   *)
(* decides which edge of a node is its first.                              *)
(***************************************************************************)
EXTENDS Integers, FiniteSets, Sequences, SequencesExt

CONSTANTS
    MaxNodes,       \* bound: nodes made
    MaxEdges        \* bound: edges held

Start == 1

VARIABLES
    nodes,          \* the nodes, in the order of the store's array
    edges,
    made,           \* nodes made so far
    place,          \* where organizeLayout has put each node: <<layer, column>>
    tidy,           \* nothing has changed since organizeLayout
    looped          \* history: deleteNode has led a node to itself

vars == <<nodes, edges, made, place, tidy, looped>>

\* Where the user has put the nodes: not told apart.
Scattered == [n \in 1 .. MaxNodes |-> <<0, n>>]

Init ==
    /\ nodes = <<1, 2>>
    /\ edges = <<<<1, 2>>>>
    /\ made = 2
    /\ place = Scattered
    /\ tidy = FALSE
    /\ looped = FALSE

Source(e) == e[1]
Target(e) == e[2]
NodeSet == ToSet(nodes)
EdgeSet == ToSet(edges)
From(n) == SelectSeq(edges, LAMBDA e : Source(e) = n)
Without(n) == SelectSeq(edges, LAMBDA e : Source(e) # n /\ Target(e) # n)

\* An edit: the layout is no longer the one organizeLayout made.
Moved == tidy' = FALSE /\ place' = Scattered

----------------------------------------------------------------------------
\* addNode: the new node goes between afterNode and the first node after it.
AddNode(after) ==
    /\ made < MaxNodes
    /\ after \in NodeSet
    /\ Len(edges) < MaxEdges
    /\ made' = made + 1
    /\ nodes' = Append(nodes, made')
    /\ edges' = IF From(after) = <<>>
                THEN Append(edges, <<after, made'>>)
                ELSE Remove(edges, Head(From(after)))
                       \o <<<<after, made'>>, <<made', Target(Head(From(after)))>>>>
    /\ Moved
    /\ UNCHANGED looped

\* deleteNode: never the start; what led to it leads to the first node after it.
Bridged(n) ==
    IF From(n) = <<>> THEN <<>>
    ELSE LET into == SelectSeq(edges, LAMBDA e : Target(e) = n)
         IN  [i \in 1 .. Len(into) |-> <<Source(into[i]), Target(Head(From(n)))>>]

DeleteNode(n) ==
    /\ n \in NodeSet \ {Start}
    /\ nodes' = Remove(nodes, n)
    /\ edges' = Without(n) \o Bridged(n)
    /\ looped' = (looped \/ \E e \in ToSet(Bridged(n)) : Source(e) = Target(e))
    /\ Moved
    /\ UNCHANGED made

\* duplicateNode: the copy is connected to nothing.
DuplicateNode(n) ==
    /\ made < MaxNodes
    /\ n \in NodeSet \ {Start}
    /\ made' = made + 1
    /\ nodes' = Append(nodes, made')
    /\ Moved
    /\ UNCHANGED <<edges, looped>>

\* connectEdge: neither a node to itself nor twice the same two nodes.
ConnectEdge(s, t) ==
    /\ s # t
    /\ {s, t} \subseteq NodeSet
    /\ <<s, t>> \notin EdgeSet
    /\ Len(edges) < MaxEdges
    /\ edges' = Append(edges, <<s, t>>)
    /\ Moved
    /\ UNCHANGED <<nodes, made, looped>>

DeleteEdge(i) ==
    /\ i \in 1 .. Len(edges)
    /\ edges' = RemoveAt(edges, i)
    /\ Moved
    /\ UNCHANGED <<nodes, made, looped>>

\* The delete key on the canvas: applyNodeChanges and applyEdgeChanges take the
\* selected node and the edges at it, the start node not excepted.
RemoveOnCanvas(n) ==
    /\ n \in NodeSet
    /\ nodes' = Remove(nodes, n)
    /\ edges' = Without(n)
    /\ Moved
    /\ UNCHANGED <<made, looped>>

----------------------------------------------------------------------------
\* organizeFlowNodes: a breadth-first walk from the roots; a node met again at a
\* greater depth is put there and walked again, never along its own path.
Joins(e) == {Source(e), Target(e)} \subseteq NodeSet
Incoming(n) == \E e \in EdgeSet : Joins(e) /\ Target(e) = n

Roots ==
    LET roots == SelectSeq(nodes, LAMBDA n : n = Start \/ ~Incoming(n))
        ofStart == SelectSeq(roots, LAMBDA n : n = Start)
    IN  IF roots = <<>> THEN SubSeq(nodes, 1, 1)
        ELSE ofStart \o SelectSeq(roots, LAMBDA n : n # Start)

Unreached == -1

Deeper(known, next) == next > known
RECURSIVE Walk(_, _, _, _)
Walk(queue, i, depth, order) ==
    IF i > Len(queue) THEN [depth |-> depth, order |-> order]
    ELSE
      LET id == queue[i].id
          next == depth[id] + 1
          visited == IF Contains(order, id) THEN order ELSE Append(order, id)
          Meet(acc, e) ==
            LET t == Target(e)
            IN  IF ~Joins(e) \/ t \in queue[i].path \/ ~Deeper(acc.depth[t], next) THEN acc
                ELSE [depth |-> [acc.depth EXCEPT ![t] = next],
                      queue |-> Append(acc.queue, [id |-> t, path |-> queue[i].path \cup {t}])]
          met == FoldLeft(Meet, [depth |-> depth, queue |-> queue], From(id))
      IN  Walk(met.queue, i + 1, met.depth, visited)

\* The layers of all nodes, those no root leads to below the deepest; a row is
\* in the order of the walk.
Layout ==
    LET walk == Walk([i \in 1 .. Len(Roots) |-> [id |-> Roots[i], path |-> {Roots[i]}]], 1,
                     [n \in 1 .. MaxNodes |-> IF Contains(Roots, n) THEN 0 ELSE Unreached],
                     <<>>)
        deepest == CHOOSE d \in 0 .. MaxNodes :
                      /\ \A n \in NodeSet : walk.depth[n] <= d
                      /\ d = 0 \/ \E n \in NodeSet : walk.depth[n] = d
        order == walk.order \o SelectSeq(nodes, LAMBDA n : walk.depth[n] = Unreached)
        Layer(n) == IF walk.depth[n] = Unreached THEN deepest + 1 ELSE walk.depth[n]
        Before(n) == {k \in NodeSet : Layer(k) = Layer(n)
                                      /\ \E i, j \in 1 .. Len(order) :
                                            i < j /\ order[i] = k /\ order[j] = n}
    IN  [n \in 1 .. MaxNodes |->
           IF n \in NodeSet THEN <<Layer(n), Cardinality(Before(n))>> ELSE <<0, n>>]

OrganizeLayout ==
    /\ nodes # <<>>
    /\ ~tidy
    /\ place' = Layout
    /\ tidy' = TRUE
    /\ UNCHANGED <<nodes, edges, made, looped>>

----------------------------------------------------------------------------
Next ==
    \/ \E n \in NodeSet :
          AddNode(n) \/ DeleteNode(n) \/ DuplicateNode(n) \/ RemoveOnCanvas(n)
    \/ \E s, t \in NodeSet : ConnectEdge(s, t)
    \/ \E i \in 1 .. Len(edges) : DeleteEdge(i)
    \/ OrganizeLayout

Spec == Init /\ [][Next]_vars

----------------------------------------------------------------------------
ReachedIn(k, E) ==
    LET r[i \in 0 .. k] == IF i = 0 THEN {Start}
                           ELSE r[i - 1] \cup {Target(e) : e \in {f \in E : Source(f) \in r[i - 1]}}
    IN  r[k]
Reached == ReachedIn(MaxNodes, EdgeSet)

\* No node is above itself.
Acyclic ==
    LET up[i \in 0 .. MaxNodes] ==
          IF i = 0 THEN EdgeSet
          ELSE up[i - 1] \cup {<<Source(p[1]), Target(p[2])>> :
                                 p \in {q \in up[i - 1] \X EdgeSet : Target(q[1]) = Source(q[2])}}
    IN  \A n \in NodeSet : <<n, n>> \notin up[MaxNodes]

TypeOK ==
    /\ NodeSet \subseteq 1 .. made
    /\ IsInjective(nodes)
    /\ made \in 2 .. MaxNodes
    /\ tidy \in BOOLEAN /\ looped \in BOOLEAN

\* Every edge joins two nodes of the flow, whatever was deleted, reconnected or
\* copied; an edge to a deleted node would fail the flow's validation.  Deleting
\* one of two nodes that lead to each other leads the other to itself, and
\* deleting that one leaves such an edge behind (flow-store.ts:143-181).
EdgesJoinNodes ==
    looped \/ \A e \in EdgeSet : Joins(e)

\* Putting a node in, or taking out one with at most one way on, cuts nothing
\* off: what the start led to it still leads to (flow-store.ts:74-181).
EditsKeepPaths ==
    \A n \in NodeSet : AddNode(n) \/ (Len(From(n)) <= 1 /\ DeleteNode(n))
          => (Reached \ {n}) \cap ToSet(nodes') \subseteq ReachedIn(MaxNodes, ToSet(edges'))

\* A flow just laid out has no two nodes in one place, and unless it has a
\* cycle every edge goes down (flow-store.ts:293-374).
LayoutDescends ==
    tidy => /\ \A a, b \in NodeSet : a # b => place[a] # place[b]
            /\ Acyclic => \A e \in {f \in EdgeSet : Joins(f)} :
                             place[Source(e)][1] < place[Target(e)][1]
============================================================================
