------------------------------ MODULE AgentProofs ------------------------------
(***************************************************************************)
(* Theorems about three parts of the voice agent: SharedEsl, for every set *)
(* of calls and every number of commands and connections; recognition by   *)
(* the project's own server, for calls of any length; and, in the last     *)
(* part, recognition in the cloud, for any number of utterances.           *)
(***************************************************************************)
EXTENDS SharedEsl, TLAPS

CONSTANTS MaxFrames, ChunkInterval, Kept,       \* of LocalRecognition
          Utterances, FramesEach, InFlight      \* of SpeechToText

VARIABLES spoken, utterance,                                      \* of both
          vad, speaking, buffered, wire, srv, results, heard,     \* of LocalRecognition
          rx, task, runSent, started, pending, text, local, rescue, waiter, flush, open, closed,
          server, inbox, finals, carried, owed                    \* of SpeechToText

Steps == {"none", "queued", "written", "done", "failed"}
Bounds == MaxCommands \in Nat /\ MaxConns \in Nat

(* The types the proofs need of the rows, the streams and the histories.   *)
TypeInv ==
    /\ client \in Conns \cup {0}
    /\ made \in Conns \cup {0}
    /\ conn \in [Conns -> {"none", "open", "ended", "closed"}]
    /\ asking \subseteq Calls
    /\ held \in [Calls -> Conns \cup {0}]
    /\ command \in [Commands -> [call : Calls \cup {"none"}, conn : Conns \cup {0},
                                 step : Steps, got : Commands \cup {0}]]
    /\ issued \in Commands \cup {0}
    /\ awaited \in [Calls -> Commands \cup {0}]
    /\ pipe \in [Conns -> Seq(Commands)]
    /\ replies \in [Conns -> Seq(Commands)]
    /\ ran \in Seq(Commands)

(* Commands are numbered as they are issued, and go to the connection that *)
(* their call keeps.                                                       *)
Numbered == \A x \in Commands : command[x].step = "none" <=> x > issued

Placed ==
    \A x \in Commands : command[x].step # "none" =>
        /\ command[x].call \in Calls
        /\ command[x].conn \in Conns
        /\ command[x].conn = held[command[x].call]

(* The lock: once a command has been written, no earlier one of the same   *)
(* connection waits for its turn or for its answer.                        *)
InTurn ==
    \A x, y \in Commands :
        x < y /\ command[x].conn = command[y].conn
              /\ command[y].step \notin {"none", "queued"}
        => command[x].step \notin {"queued", "written"}

(* A call that waits for the shared connection does not have one.          *)
AskingHasNone == \A c \in asking : held[c] = 0

TurnInv == TypeInv /\ Numbered /\ Placed /\ InTurn /\ AskingHasNone

-----------------------------------------------------------------------------
LEMMA InitTurn == ASSUME Bounds PROVE Init => TurnInv
<1>. SUFFICES ASSUME Init PROVE TurnInv
  OBVIOUS
<1>1. TypeInv
  BY DEF Bounds, Init, TypeInv, NoCommand, Steps, Commands, Conns
<1>2. Numbered
  BY DEF Bounds, Init, Numbered, NoCommand, Commands
<1>3. Placed /\ InTurn /\ AskingHasNone
  BY DEF Init, Placed, InTurn, AskingHasNone, NoCommand
<1>. QED
  BY <1>1, <1>2, <1>3 DEF TurnInv

(* A call issues a command, perhaps its first, for which it is given the   *)
(* connection it will keep.                                                *)
Takes(c, k) ==
    /\ Issue(c, k)
    /\ held[c] \in {0, k}
    /\ held' = [held EXCEPT ![c] = k]
    /\ asking' \subseteq asking \ {c}

LEMMA IssueTurn ==
  ASSUME Bounds, TurnInv, NEW c \in Calls, NEW k \in Conns, Takes(c, k),
         UNCHANGED <<client, conn, made, pipe, replies, ran>>
  PROVE  TurnInv'
<1>0. /\ Issue(c, k)
      /\ held[c] = k \/ held[c] = 0
      /\ held' = [held EXCEPT ![c] = k]
      /\ asking' \subseteq asking \ {c}
  BY DEF Takes
<1>1. /\ issued + 1 \in Commands /\ issued' = issued + 1 /\ issued \in Nat
      /\ command' = [command EXCEPT ![issued + 1] =
                       [call |-> c, conn |-> k, step |-> "queued", got |-> 0]]
      /\ awaited' = [awaited EXCEPT ![c] = issued + 1]
  BY <1>0 DEF Issue, Bounds, TurnInv, TypeInv, Commands
<1>2. TypeInv'
  BY <1>0, <1>1 DEF TurnInv, TypeInv, Steps
<1>3. \A x \in Commands : x # issued + 1 => command'[x] = command[x]
  BY <1>1 DEF TurnInv, TypeInv
<1>4. command'[issued + 1] = [call |-> c, conn |-> k, step |-> "queued", got |-> 0]
  BY <1>1 DEF TurnInv, TypeInv
<1>5. Numbered'
  <2>. SUFFICES ASSUME NEW x \in Commands PROVE command'[x].step = "none" <=> x > issued + 1
    BY <1>1 DEF Numbered
  <2>1. x \in Nat
    BY DEF Commands
  <2>. QED
    BY <1>1, <1>3, <1>4, <2>1 DEF TurnInv, Numbered
<1>6. Placed'
  <2>. SUFFICES ASSUME NEW x \in Commands, command'[x].step # "none"
                PROVE  /\ command'[x].call \in Calls
                       /\ command'[x].conn \in Conns
                       /\ command'[x].conn = held'[command'[x].call]
    BY DEF Placed
  <2>1. CASE x = issued + 1
    BY <1>0, <1>4, <2>1 DEF TurnInv, TypeInv
  <2>2. CASE x # issued + 1
    <3>1. /\ command[x].call \in Calls
          /\ command[x].conn \in Conns
          /\ command[x].conn = held[command[x].call]
      BY <1>3, <2>2 DEF TurnInv, Placed
    <3>2. held[command[x].call] # 0
      BY <3>1 DEF Conns
    <3>. QED
      BY <1>0, <1>3, <2>2, <3>1, <3>2 DEF TurnInv, TypeInv
  <2>. QED
    BY <2>1, <2>2
<1>7. InTurn'
  <2>. SUFFICES ASSUME NEW x \in Commands, NEW y \in Commands, x < y,
                       command'[x].conn = command'[y].conn,
                       command'[y].step \notin {"none", "queued"}
                PROVE  command'[x].step \notin {"queued", "written"}
    BY DEF InTurn
  <2>1. y # issued + 1
    BY <1>4
  <2>2. command[y].step \notin {"none", "queued"}
    BY <1>3, <2>1
  <2>3. ~(y > issued)
    BY <2>2 DEF TurnInv, Numbered
  <2>4. x # issued + 1
    BY <1>1, <2>3 DEF Commands
  <2>. QED
    BY <1>3, <2>1, <2>2, <2>4 DEF TurnInv, InTurn
<1>8. AskingHasNone'
  BY <1>0 DEF TurnInv, TypeInv, AskingHasNone
<1>. QED
  BY <1>2, <1>5, <1>6, <1>7, <1>8 DEF TurnInv

(* A command moves on: nobody else's does.                                 *)
Moves(x, s) ==
    /\ command'[x].step = s
    /\ \A y \in Commands : /\ command'[y].conn = command[y].conn
                           /\ command'[y].call = command[y].call
                           /\ y # x => command'[y].step = command[y].step
                                      /\ command'[y].got = command[y].got
    /\ issued' = issued /\ held' = held /\ asking' = asking

LEMMA MoveTurn ==
  ASSUME TurnInv, TypeInv', NEW x \in Commands, NEW s \in {"written", "done", "failed"},
         Moves(x, s),
         MayWrite(x) \/ (command[x].step = "written" /\ s # "written")
  PROVE  TurnInv'
<1>1. /\ command'[x].step = s
      /\ \A y \in Commands : /\ command'[y].conn = command[y].conn
                             /\ command'[y].call = command[y].call
                             /\ y # x => command'[y].step = command[y].step
      /\ issued' = issued /\ held' = held /\ asking' = asking
  BY DEF Moves
<1>2. command[x].step \in {"queued", "written"}
  BY DEF MayWrite
<1>3. Numbered'
  BY <1>1, <1>2 DEF TurnInv, Numbered
<1>4. Placed'
  BY <1>1, <1>2 DEF TurnInv, Placed
<1>5. InTurn'
  <2>. SUFFICES ASSUME NEW z \in Commands, NEW y \in Commands, z < y,
                       command'[z].conn = command'[y].conn,
                       command'[y].step \notin {"none", "queued"}
                PROVE  command'[z].step \notin {"queued", "written"}
    BY DEF InTurn
  <2>0. command[z].conn = command[y].conn /\ y # z
    BY <1>1 DEF Commands
  <2>1. CASE y = x /\ command[x].step = "queued"
    <3>1. z \in Earlier(x)
      BY <2>0, <2>1 DEF Earlier
    <3>2. command[z].step \notin {"queued", "written"}
      BY <2>1, <3>1 DEF MayWrite
    <3>. QED
      BY <1>1, <2>0, <2>1, <3>2
  <2>2. CASE y = x /\ command[x].step = "written"
    BY <1>1, <2>0, <2>2 DEF TurnInv, InTurn
  <2>3. CASE y # x
    <3>1. command[z].step \notin {"queued", "written"}
      BY <1>1, <2>0, <2>3 DEF TurnInv, InTurn
    <3>2. z # x
      BY <1>2, <3>1
    <3>. QED
      BY <1>1, <3>1, <3>2
  <2>. QED
    BY <1>2, <2>1, <2>2, <2>3
<1>6. AskingHasNone'
  BY <1>1 DEF TurnInv, AskingHasNone
<1>. QED
  BY <1>3, <1>4, <1>5, <1>6 DEF TurnInv

(* What the exchanges do to the rows, whatever becomes of the answer.      *)
LEMMA SettleMoves ==
  ASSUME TypeInv, NEW x \in Commands, NEW s \in {"done", "failed"},
         NEW g \in Commands \cup {0}, Settle(x, s, g), UNCHANGED <<issued, held, asking>>
  PROVE  /\ Moves(x, s)
         /\ command'[x].got = g
         /\ command' \in [Commands -> [call : Calls \cup {"none"}, conn : Conns \cup {0},
                                      step : Steps, got : Commands \cup {0}]]
         /\ awaited' \in [Calls -> Commands \cup {0}]
<1>. DEFINE Row == [call : Calls \cup {"none"}, conn : Conns \cup {0}, step : Steps,
                    got : Commands \cup {0}]
<1>1. /\ command' = [command EXCEPT ![x].step = s, ![x].got = g]
      /\ awaited' = [c \in Calls |-> IF awaited[c] = x THEN 0 ELSE awaited[c]]
  BY DEF Settle
<1>2. command \in [Commands -> Row] /\ s \in Steps
  BY DEF TypeInv, Steps
<1>3. PICK moved \in Row : moved = [command[x] EXCEPT !.step = s, !.got = g]
  BY <1>2
<1>4. command' = [command EXCEPT ![x] = moved]
  BY <1>1, <1>2, <1>3
<1>5. moved.step = s /\ moved.got = g /\ moved.call = command[x].call /\ moved.conn = command[x].conn
  BY <1>2, <1>3
<1>6. Moves(x, s) /\ command'[x].got = g
  BY <1>2, <1>4, <1>5 DEF Moves
<1>7. command' \in [Commands -> Row]
  BY <1>2, <1>4
<1>. QED
  BY <1>1, <1>6, <1>7 DEF TypeInv

LEMMA WriteCases ==
  ASSUME TypeInv, Placed, NEW x \in Commands, Write(x)
  PROVE  LET k == command[x].conn
         IN  /\ k \in Conns
             /\ \/ /\ conn[k] = "closed"
                   /\ Moves(x, "failed")
                   /\ UNCHANGED <<conn, pipe, replies, ran, late>>
                \/ /\ conn[k] = "open"
                   /\ Moves(x, "written")
                   /\ pipe' = [pipe EXCEPT ![k] = Append(@, x)]
                   /\ UNCHANGED <<conn, replies, ran, late>>
                \/ /\ conn[k] \in {"ended", "none"}
                   /\ Moves(x, "written")
                   /\ conn' = [conn EXCEPT ![k] = IF @ = "ended" THEN "closed" ELSE @]
                   /\ UNCHANGED <<pipe, replies, ran, late>>
             /\ TypeInv'
<1>. DEFINE k == command[x].conn
<1>1. k \in Conns /\ command[x].step = "queued"
  BY DEF Placed, Write, MayWrite
<1>2. UNCHANGED <<client, made, asking, held, issued, replies, ran, late>>
  BY DEF Write
<1>3. CASE conn[k] = "closed"
  <2>1. Settle(x, "failed", 0) /\ UNCHANGED <<conn, pipe>>
    BY <1>3 DEF Write
  <2>. QED
    BY <1>1, <1>2, <1>3, <2>1, SettleMoves DEF TypeInv
<1>4. CASE conn[k] # "closed"
  <2>1. /\ command' = [command EXCEPT ![x].step = "written"]
        /\ pipe' = [pipe EXCEPT ![k] = IF conn[k] = "open" THEN Append(@, x) ELSE @]
        /\ conn' = [conn EXCEPT ![k] = IF @ = "ended" THEN "closed" ELSE @]
        /\ UNCHANGED awaited
    BY <1>4 DEF Write
  <2>2. Moves(x, "written")
    BY <1>2, <2>1 DEF TypeInv, Moves
  <2>3. command' \in [Commands -> [call : Calls \cup {"none"}, conn : Conns \cup {0},
                                   step : Steps, got : Commands \cup {0}]]
    BY ZenonT(40), <2>1 DEF TypeInv, Steps
  <2>4. pipe' \in [Conns -> Seq(Commands)]
    BY <1>1, <2>1 DEF TypeInv
  <2>5. conn' \in [Conns -> {"none", "open", "ended", "closed"}]
    BY <1>1, <2>1 DEF TypeInv
  <2>6. TypeInv'
    BY <1>2, <2>1, <2>3, <2>4, <2>5 DEF TypeInv
  <2>7. CASE conn[k] = "open"
    <3>1. conn' = conn
      BY <2>1, <2>7 DEF TypeInv
    <3>2. pipe' = [pipe EXCEPT ![k] = Append(@, x)]
      BY <2>1, <2>7
    <3>. QED
      BY <1>1, <1>2, <2>2, <2>6, <2>7, <3>1, <3>2
  <2>8. CASE conn[k] # "open"
    <3>1. pipe' = pipe
      BY <2>1, <2>8 DEF TypeInv
    <3>2. conn[k] \in {"ended", "none"}
      BY <1>1, <1>4, <2>8 DEF TypeInv
    <3>. QED
      BY <1>1, <1>2, <2>1, <2>2, <2>6, <3>1, <3>2
  <2>. QED
    BY <2>7, <2>8
<1>. QED
  BY <1>3, <1>4

LEMMA ReadCases ==
  ASSUME TypeInv, Placed, NEW x \in Commands, Read(x)
  PROVE  LET k == command[x].conn
         IN  /\ k \in Conns
             /\ replies[k] # <<>>
             /\ replies' = [replies EXCEPT ![k] = Tail(@)]
             /\ Moves(x, "done")
             /\ command'[x].got = Head(replies[k])
             /\ UNCHANGED <<conn, pipe, ran, late>>
             /\ TypeInv'
<1>. DEFINE k == command[x].conn
<1>1. k \in Conns /\ command[x].step = "written"
  BY DEF Placed, Read
<1>2. /\ replies[k] # <<>>
      /\ replies' = [replies EXCEPT ![k] = Tail(@)]
      /\ Settle(x, "done", Head(replies[k]))
      /\ UNCHANGED <<client, conn, made, asking, held, issued, pipe, ran, late>>
  BY DEF Read
<1>3. replies[k] \in Seq(Commands)
  BY <1>1 DEF TypeInv
<1>4. Head(replies[k]) \in Commands /\ Tail(replies[k]) \in Seq(Commands)
  BY <1>2, <1>3
<1>5. replies' \in [Conns -> Seq(Commands)]
  BY <1>1, <1>2, <1>4 DEF TypeInv
<1>. QED
  BY <1>1, <1>2, <1>4, <1>5, SettleMoves DEF TypeInv

LEMMA FailCases ==
  ASSUME TypeInv, Placed, NEW x \in Commands, ReadFails(x) \/ TimesOut(x)
  PROVE  /\ command[x].conn \in Conns /\ command[x].step = "written"
         /\ Moves(x, "failed")
         /\ UNCHANGED <<conn, pipe, replies, ran>>
         /\ TypeInv'
<1>1. command[x].step = "written" /\ Settle(x, "failed", 0)
  BY DEF ReadFails, TimesOut
<1>2. UNCHANGED <<client, conn, made, asking, held, issued, pipe, replies, ran>>
  BY DEF ReadFails, TimesOut
<1>3. command[x].conn \in Conns
  BY <1>1 DEF Placed
<1>. QED
  BY <1>1, <1>2, <1>3, SettleMoves DEF TypeInv

(* Ask and Given issue a command on the connection that the call keeps, or *)
(* change no command.                                                      *)
LEMMA AskCases ==
  ASSUME TurnInv, NEW c \in Calls, Ask(c) \/ Given(c)
  PROVE  /\ UNCHANGED <<client, conn, made, pipe, replies, ran, late>>
         /\ \/ \E k \in Conns : Takes(c, k)
            \/ /\ UNCHANGED <<held, issued, command, awaited>>
               /\ asking' = asking \cup {c} /\ held[c] = 0
<1>1. UNCHANGED <<client, conn, made, pipe, replies, ran, late>>
  BY DEF Ask, Given
<1>2. CASE held[c] # 0 /\ Issue(c, held[c]) /\ held' = held /\ asking' \subseteq asking \ {c}
  <2>1. held[c] \in Conns /\ held' = [held EXCEPT ![c] = held[c]]
    BY <1>2 DEF TurnInv, TypeInv
  <2>2. Takes(c, held[c])
    BY <1>2, <2>1 DEF Takes
  <2>. QED
    BY <1>1, <2>1, <2>2
<1>3. CASE /\ held[c] = 0 /\ IsOpen(client) /\ held' = [held EXCEPT ![c] = client]
           /\ Issue(c, client) /\ asking' \subseteq asking \ {c}
  <2>1. client \in Conns
    BY <1>3 DEF IsOpen, TurnInv, TypeInv
  <2>2. Takes(c, client)
    BY <1>3 DEF Takes
  <2>. QED
    BY <1>1, <2>1, <2>2
<1>4. CASE Ask(c)
  <2>1. c \notin asking
    BY <1>4 DEF Ask
  <2>. QED
    BY <1>1, <1>2, <1>3, <1>4, <2>1 DEF Ask
<1>5. CASE Given(c)
  BY <1>3, <1>5 DEF Given, TurnInv, AskingHasNone
<1>. QED
  BY <1>4, <1>5

(* The steps of the peer and of the calls that change no command.          *)
LEMMA OtherTurn ==
  ASSUME TurnInv, UNCHANGED <<command, issued, held>>, TypeInv', AskingHasNone'
  PROVE  TurnInv'
BY DEF TurnInv, Numbered, Placed, InTurn

LEMMA ServeCases ==
  ASSUME TypeInv, NEW k \in Conns, Serve(k)
  PROVE  /\ pipe[k] # <<>>
         /\ pipe' = [pipe EXCEPT ![k] = Tail(@)]
         /\ ran' = Append(ran, Head(pipe[k]))
         /\ replies' = [replies EXCEPT ![k] =
                          IF conn[k] = "open" THEN Append(@, Head(pipe[k])) ELSE @]
         /\ UNCHANGED <<conn, command, issued, held, asking, late>>
         /\ TypeInv'
<1>1. /\ pipe[k] # <<>>
      /\ pipe' = [pipe EXCEPT ![k] = Tail(@)]
      /\ ran' = Append(ran, Head(pipe[k]))
      /\ replies' = [replies EXCEPT ![k] =
                       IF conn[k] = "open" THEN Append(@, Head(pipe[k])) ELSE @]
      /\ UNCHANGED <<client, conn, made, asking, held, command, issued, awaited, late>>
  BY DEF Serve
<1>2. pipe[k] \in Seq(Commands) /\ replies[k] \in Seq(Commands)
  BY DEF TypeInv
<1>3. Head(pipe[k]) \in Commands /\ Tail(pipe[k]) \in Seq(Commands)
  BY <1>1, <1>2
<1>4. pipe' \in [Conns -> Seq(Commands)] /\ ran' \in Seq(Commands)
  BY <1>1, <1>3 DEF TypeInv
<1>5. replies' \in [Conns -> Seq(Commands)]
  <2>1. Append(replies[k], Head(pipe[k])) \in Seq(Commands)
    BY <1>2, <1>3
  <2>. QED
    BY <1>1, <1>2, <2>1 DEF TypeInv
<1>. QED
  BY <1>1, <1>4, <1>5 DEF TypeInv

LEMMA OtherCases ==
  ASSUME Bounds, TurnInv,
         \/ Connect
         \/ \E c \in Calls : ConnectFails(c) \/ Cancel(c)
         \/ \E k \in Conns : PeerCloses(k)
         \/ UNCHANGED vars
  PROVE  /\ UNCHANGED <<held, issued, command, replies, ran, late>>
         /\ asking' \subseteq asking
         /\ \/ UNCHANGED <<conn, pipe>>
            \/ \E k \in Conns : conn' = [conn EXCEPT ![k] = "open"] /\ pipe' = pipe
            \/ \E k \in Conns : /\ conn' = [conn EXCEPT ![k] = "ended"]
                               /\ pipe' = [pipe EXCEPT ![k] = <<>>]
         /\ TypeInv'
<1>1. CASE Connect
  <2>1. made + 1 \in Conns
    BY <1>1 DEF Bounds, Connect, TurnInv, TypeInv, Conns
  <2>. QED
    BY <1>1, <2>1 DEF Connect, TurnInv, TypeInv
<1>2. CASE \E c \in Calls : ConnectFails(c) \/ Cancel(c)
  BY <1>2 DEF ConnectFails, Cancel, TurnInv, TypeInv
<1>3. CASE \E k \in Conns : PeerCloses(k)
  <2>1. PICK k \in Conns : PeerCloses(k)
    BY <1>3
  <2>2. /\ conn' = [conn EXCEPT ![k] = "ended"]
        /\ pipe' = [pipe EXCEPT ![k] = <<>>]
        /\ UNCHANGED <<client, made, asking, held, command, issued, awaited, replies, ran, late>>
    BY <2>1 DEF PeerCloses
  <2>3. conn' \in [Conns -> {"none", "open", "ended", "closed"}]
    BY <2>2 DEF TurnInv, TypeInv
  <2>4. pipe' \in [Conns -> Seq(Commands)]
    BY <2>2 DEF TurnInv, TypeInv
  <2>5. TypeInv'
    BY <2>2, <2>3, <2>4 DEF TurnInv, TypeInv
  <2>. QED
    BY <2>2, <2>5
<1>4. CASE UNCHANGED vars
  BY <1>4 DEF vars, TurnInv, TypeInv
<1>. QED
  BY <1>1, <1>2, <1>3, <1>4

LEMMA StepTurn == ASSUME Bounds, TurnInv, [Next]_vars PROVE TurnInv'
<1>0. TypeInv /\ Placed /\ AskingHasNone
  BY DEF TurnInv
<1>1. CASE \E c \in Calls : Ask(c) \/ Given(c)
  <2>1. PICK c \in Calls : Ask(c) \/ Given(c)
    BY <1>1
  <2>2. UNCHANGED <<client, conn, made, pipe, replies, ran, late>>
    BY <2>1, AskCases
  <2>3. CASE \E k \in Conns : Takes(c, k)
    BY <2>2, <2>3, IssueTurn
  <2>4. CASE /\ UNCHANGED <<held, issued, command, awaited>>
             /\ asking' = asking \cup {c} /\ held[c] = 0
    <3>1. TypeInv' /\ AskingHasNone'
      BY <1>0, <2>2, <2>4 DEF TypeInv, AskingHasNone
    <3>. QED
      BY <2>4, <3>1, OtherTurn
  <2>. QED
    BY <2>1, <2>3, <2>4, AskCases
<1>2. CASE \E x \in Commands : Write(x)
  <2>1. PICK x \in Commands : Write(x)
    BY <1>2
  <2>2. MayWrite(x)
    BY <2>1 DEF Write
  <2>3. TypeInv' /\ (Moves(x, "failed") \/ Moves(x, "written"))
    BY <1>0, <2>1, WriteCases
  <2>. QED
    BY <2>2, <2>3, MoveTurn
<1>3. CASE \E x \in Commands : Read(x)
  <2>1. PICK x \in Commands : Read(x)
    BY <1>3
  <2>2. command[x].step = "written"
    BY <2>1 DEF Read
  <2>3. TypeInv' /\ Moves(x, "done")
    BY <1>0, <2>1, ReadCases
  <2>. QED
    BY <2>2, <2>3, MoveTurn
<1>4. CASE \E x \in Commands : ReadFails(x) \/ TimesOut(x)
  <2>1. PICK x \in Commands : ReadFails(x) \/ TimesOut(x)
    BY <1>4
  <2>2. command[x].step = "written" /\ TypeInv' /\ Moves(x, "failed")
    BY <1>0, <2>1, FailCases
  <2>. QED
    BY <2>2, MoveTurn
<1>5. CASE \E k \in Conns : Serve(k)
  <2>1. UNCHANGED <<command, issued, held, asking>> /\ TypeInv'
    BY <1>0, <1>5, ServeCases
  <2>. QED
    BY <1>0, <2>1, OtherTurn DEF AskingHasNone
<1>6. CASE \/ Connect
           \/ \E c \in Calls : ConnectFails(c) \/ Cancel(c)
           \/ \E k \in Conns : PeerCloses(k)
           \/ UNCHANGED vars
  <2>1. UNCHANGED <<held, issued, command>> /\ asking' \subseteq asking /\ TypeInv'
    BY <1>6, OtherCases
  <2>. QED
    BY <1>0, <2>1, OtherTurn DEF AskingHasNone
<1>. QED
  BY <1>1, <1>2, <1>3, <1>4, <1>5, <1>6 DEF Next, Exchange

-----------------------------------------------------------------------------
(* On a connection on which no command has timed out at most one command   *)
(* is between its writing and its answer; once this side is closed, or the *)
(* peer has gone and its answers are read, none is.                        *)
Outstanding(k, x) == command[x].step = "written" /\ command[x].conn = k

Aligned(k) ==
    /\ Len(pipe[k]) + Len(replies[k]) <= 1
    /\ \A i \in 1 .. Len(pipe[k]) : Outstanding(k, pipe[k][i])
    /\ \A i \in 1 .. Len(replies[k]) : Outstanding(k, replies[k][i])
    /\ conn[k] = "ended" => pipe[k] = <<>>
    /\ conn[k] = "closed" => pipe[k] = <<>> /\ replies[k] = <<>>

AlignInv == AnswersMatch /\ \A k \in Conns : k \notin late => Aligned(k)

LEMMA ShortQueues ==
  ASSUME NEW q \in Seq(Commands)
  PROVE  /\ Len(q) \in Nat
         /\ q = <<>> <=> Len(q) = 0
         /\ q # <<>> => /\ Head(q) = q[1] /\ q[1] \in Commands
                       /\ Tail(q) \in Seq(Commands) /\ Len(Tail(q)) = Len(q) - 1
OBVIOUS

LEMMA OneOfTwo ==
  ASSUME NEW p \in Seq(Commands), NEW q \in Seq(Commands), p # <<>>,
         Len(p) + Len(q) <= 1 \/ Len(q) + Len(p) <= 1
  PROVE  /\ q = <<>> /\ Tail(p) = <<>>
         /\ Len(p) = 1 /\ Head(p) = p[1] /\ p[1] \in Commands
<1>1. ASSUME NEW a \in Nat, NEW b \in Nat, a # 0, a + b <= 1 \/ b + a <= 1
      PROVE  a = 1 /\ b = 0
  BY <1>1
<1>2. Len(p) \in Nat /\ Len(p) # 0 /\ Len(q) \in Nat
  OBVIOUS
<1>3. Len(p) = 1 /\ Len(q) = 0
  BY <1>1, <1>2
<1>4. Tail(p) \in Seq(Commands) /\ Len(Tail(p)) = 0
  BY <1>3, ShortQueues
<1>5. Tail(p) = <<>>
  BY <1>4, ShortQueues
<1>6. q = <<>>
  BY <1>3, ShortQueues
<1>. QED
  BY <1>3, <1>5, <1>6, ShortQueues

LEMMA AnswerAligned ==
  ASSUME NEW k \in Conns, NEW h \in Commands, pipe'[k] = <<>>, replies'[k] = <<h>>,
         command'[h].step = "written", command'[h].conn = k, conn'[k] # "closed"
  PROVE  Aligned(k)'
<1>1. /\ Len(pipe'[k]) = 0 /\ Len(replies'[k]) = 1
      /\ \A i \in 1 .. Len(replies'[k]) : replies'[k][i] = h
      /\ \A i \in 1 .. Len(pipe'[k]) : FALSE
  OBVIOUS
<1>. QED
  BY <1>1 DEF Aligned, Outstanding

LEMMA EmptyAligned ==
  ASSUME NEW k \in Conns, pipe'[k] = <<>>, replies'[k] = <<>>
  PROVE  Aligned(k)'
<1>1. Len(pipe'[k]) = 0 /\ Len(replies'[k]) = 0
  OBVIOUS
<1>. QED
  BY <1>1 DEF Aligned

(* Who may write finds the connection free.                                *)
LEMMA FreeForWriter ==
  ASSUME TurnInv, NEW x \in Commands, MayWrite(x), NEW k \in Conns, command[x].conn = k, Aligned(k)
  PROVE  pipe[k] = <<>> /\ replies[k] = <<>>
<1>1. \A y \in Commands : ~Outstanding(k, y)
  <2>. SUFFICES ASSUME NEW y \in Commands, Outstanding(k, y) PROVE FALSE
    OBVIOUS
  <2>1. command[y].conn = command[x].conn /\ command[y].step = "written"
        /\ command[x].step = "queued"
    BY DEF Outstanding, MayWrite
  <2>2. y \in Nat /\ x \in Nat /\ x # y
    BY <2>1 DEF Commands
  <2>3. CASE y < x
    BY <2>1, <2>3 DEF MayWrite, Earlier
  <2>4. CASE x < y
    BY <2>1, <2>4 DEF TurnInv, InTurn
  <2>. QED
    BY <2>2, <2>3, <2>4
<1>2. pipe[k] \in Seq(Commands) /\ replies[k] \in Seq(Commands)
  BY DEF TurnInv, TypeInv
<1>3. pipe[k] = <<>>
  <2>. SUFFICES ASSUME pipe[k] # <<>> PROVE FALSE
    OBVIOUS
  <2>1. 1 \in 1 .. Len(pipe[k]) /\ pipe[k][1] \in Commands
    BY <1>2
  <2>. QED
    BY <1>1, <2>1 DEF Aligned
<1>4. replies[k] = <<>>
  <2>. SUFFICES ASSUME replies[k] # <<>> PROVE FALSE
    OBVIOUS
  <2>1. 1 \in 1 .. Len(replies[k]) /\ replies[k][1] \in Commands
    BY <1>2
  <2>. QED
    BY <1>1, <2>1 DEF Aligned
<1>. QED
  BY <1>3, <1>4

(* Nor is there another command between its writing and its answer.        *)
LEMMA OneInFlight ==
  ASSUME TurnInv, NEW k \in Conns, NEW x \in Commands, NEW y \in Commands,
         Outstanding(k, x), Outstanding(k, y)
  PROVE  x = y
<1>1. x \in Nat /\ y \in Nat
  BY DEF Commands
<1>2. CASE x < y
  BY <1>2 DEF Outstanding, TurnInv, InTurn
<1>3. CASE y < x
  BY <1>3 DEF Outstanding, TurnInv, InTurn
<1>. QED
  BY <1>1, <1>2, <1>3

(* A connection is not concerned by what the commands of others do.        *)
LEMMA AlignElsewhere ==
  ASSUME TypeInv, NEW x \in Commands, NEW s \in Steps, Moves(x, s),
         NEW j \in Conns, j # command[x].conn, Aligned(j),
         pipe'[j] = pipe[j], replies'[j] = replies[j], conn'[j] = conn[j]
  PROVE  Aligned(j)'
<1>1. \A y \in Commands : Outstanding(j, y) => Outstanding(j, y)'
  BY DEF Moves, Outstanding
<1>2. pipe[j] \in Seq(Commands) /\ replies[j] \in Seq(Commands)
  BY DEF TypeInv
<1>3. /\ \A i \in 1 .. Len(pipe[j]) : Outstanding(j, pipe[j][i])'
      /\ \A i \in 1 .. Len(replies[j]) : Outstanding(j, replies[j][i])'
  <2>1. /\ \A i \in 1 .. Len(pipe[j]) : pipe[j][i] \in Commands /\ Outstanding(j, pipe[j][i])
        /\ \A i \in 1 .. Len(replies[j]) : replies[j][i] \in Commands /\ Outstanding(j, replies[j][i])
    BY <1>2 DEF Aligned
  <2>2. \A y \in Commands : Outstanding(j, y) <=> command[y].step = "written" /\ command[y].conn = j
    BY DEF Outstanding
  <2>. QED
    BY <1>1, <2>1 DEF Outstanding
<1>. QED
  BY <1>3 DEF Aligned

LEMMA WriteAligns ==
  ASSUME TurnInv, AlignInv, NEW x \in Commands, Write(x)
  PROVE  AlignInv'
<1>. DEFINE k == command[x].conn
<1>0. TypeInv /\ Placed /\ MayWrite(x)
  BY DEF TurnInv, Write
<1>1. k \in Conns
  BY <1>0, WriteCases
<1>2. late' = late /\ (Moves(x, "written") \/ Moves(x, "failed"))
  BY <1>0, WriteCases
<1>3. AnswersMatch'
  <2>1. \A y \in Commands : command'[y].step = "done" => y # x
    BY <1>2 DEF Moves
  <2>. QED
    BY <1>2, <2>1 DEF Moves, AlignInv, AnswersMatch
<1>4. ASSUME NEW j \in Conns, j \notin late PROVE Aligned(j)'
  <2>1. Aligned(j)
    BY <1>4 DEF AlignInv
  <2>2. CASE j # k
    <3>1. pipe'[j] = pipe[j] /\ replies'[j] = replies[j] /\ conn'[j] = conn[j]
      BY <1>0, <2>2, WriteCases DEF TypeInv
    <3>. QED
      BY <1>0, <1>2, <2>1, <2>2, <3>1, AlignElsewhere DEF Steps
  <2>3. CASE j = k
    <3>1. pipe[k] = <<>> /\ replies[k] = <<>>
      BY <1>0, <2>1, <2>3, FreeForWriter
    <3>2. CASE /\ conn[k] = "open" /\ Moves(x, "written")
               /\ pipe' = [pipe EXCEPT ![k] = Append(@, x)]
               /\ UNCHANGED <<conn, replies>>
      <4>1. pipe'[k] = <<x>> /\ replies'[k] = <<>> /\ conn'[k] = "open"
        BY <1>0, <1>1, <3>1, <3>2 DEF TypeInv
      <4>2. command'[x].step = "written" /\ command'[x].conn = k
        BY <3>2 DEF Moves
      <4>. QED
        BY <2>3, <4>1, <4>2 DEF Aligned, Outstanding
    <3>3. CASE UNCHANGED <<pipe, replies>>
      <4>1. pipe'[k] = <<>> /\ replies'[k] = <<>>
        BY <3>1, <3>3
      <4>. QED
        BY <2>3, <4>1, EmptyAligned
    <3>. QED
      BY <1>0, <3>2, <3>3, WriteCases
  <2>. QED
    BY <2>2, <2>3
<1>. QED
  BY <1>2, <1>3, <1>4 DEF AlignInv

LEMMA ReadAligns ==
  ASSUME TurnInv, AlignInv, NEW x \in Commands, Read(x)
  PROVE  AlignInv'
<1>. DEFINE k == command[x].conn
<1>0. TypeInv /\ Placed /\ command[x].step = "written"
  BY DEF TurnInv, Read
<1>1. /\ k \in Conns
      /\ replies[k] # <<>>
      /\ replies' = [replies EXCEPT ![k] = Tail(@)]
      /\ Moves(x, "done")
      /\ command'[x].got = Head(replies[k])
      /\ UNCHANGED <<conn, pipe, late>>
  BY <1>0, ReadCases
<1>2. replies[k] \in Seq(Commands) /\ pipe[k] \in Seq(Commands)
  BY <1>0, <1>1 DEF TypeInv
<1>3. Len(replies[k]) \in Nat \ {0} /\ Head(replies[k]) = replies[k][1] /\ replies[k][1] \in Commands
  BY <1>1, <1>2
<1>4. ASSUME k \notin late
      PROVE  command'[x].got = x /\ Len(replies[k]) = 1 /\ pipe[k] = <<>>
  <2>1. Aligned(k)
    BY <1>1, <1>4 DEF AlignInv
  <2>2. Outstanding(k, replies[k][1]) /\ Outstanding(k, x)
    BY <1>0, <1>3, <2>1 DEF Aligned, Outstanding
  <2>3. replies[k][1] = x
    BY <1>1, <1>3, <2>2, OneInFlight
  <2>4. Len(pipe[k]) + Len(replies[k]) <= 1
    BY <2>1 DEF Aligned
  <2>. QED
    BY <1>1, <1>2, <1>3, <2>3, <2>4, OneOfTwo
<1>5. AnswersMatch'
  <2>. SUFFICES ASSUME NEW y \in Commands, command'[y].step = "done", command'[y].conn \notin late
                PROVE  command'[y].got = y
    BY <1>1 DEF AnswersMatch
  <2>1. CASE y = x
    BY <1>1, <1>4, <2>1 DEF Moves
  <2>2. CASE y # x
    BY <1>1, <2>2 DEF Moves, AlignInv, AnswersMatch
  <2>. QED
    BY <2>1, <2>2
<1>6. ASSUME NEW j \in Conns, j \notin late PROVE Aligned(j)'
  <2>1. Aligned(j)
    BY <1>6 DEF AlignInv
  <2>2. CASE j # k
    <3>1. pipe'[j] = pipe[j] /\ replies'[j] = replies[j] /\ conn'[j] = conn[j]
      BY <1>0, <1>1, <2>2 DEF TypeInv
    <3>. QED
      BY <1>0, <1>1, <2>1, <2>2, <3>1, AlignElsewhere DEF Steps
  <2>3. CASE j = k
    <3>1. pipe'[k] = <<>> /\ replies'[k] = Tail(replies[k])
      BY <1>0, <1>1, <1>4, <1>6, <2>3 DEF TypeInv
    <3>2. Len(Tail(replies[k])) = 0 /\ Tail(replies[k]) \in Seq(Commands)
      BY <1>1, <1>2, <1>4, <1>6, <2>3, ShortQueues
    <3>3. Tail(replies[k]) = <<>>
      BY <3>2, ShortQueues
    <3>. QED
      BY <2>3, <3>1, <3>3, EmptyAligned
  <2>. QED
    BY <2>2, <2>3
<1>. QED
  BY <1>1, <1>5, <1>6 DEF AlignInv

LEMMA FailAligns ==
  ASSUME TurnInv, AlignInv, NEW x \in Commands, ReadFails(x) \/ TimesOut(x)
  PROVE  AlignInv'
<1>. DEFINE k == command[x].conn
<1>0. TypeInv /\ Placed
  BY DEF TurnInv
<1>1. k \in Conns /\ Moves(x, "failed") /\ UNCHANGED <<conn, pipe, replies>>
  BY <1>0, FailCases
<1>2. /\ late \subseteq late'
      /\ k \in late' \/ conn[k] = "closed" \/ (conn[k] = "ended" /\ replies[k] = <<>>)
  BY DEF ReadFails, TimesOut
<1>3. AnswersMatch'
  <2>1. \A y \in Commands : command'[y].step = "done" => y # x
    BY <1>1 DEF Moves
  <2>. QED
    BY <1>1, <1>2, <2>1 DEF Moves, AlignInv, AnswersMatch
<1>4. ASSUME NEW j \in Conns, j \notin late' PROVE Aligned(j)'
  <2>1. Aligned(j)
    BY <1>2, <1>4 DEF AlignInv
  <2>2. CASE j # k
    BY <1>0, <1>1, <2>1, <2>2, AlignElsewhere DEF Steps
  <2>3. CASE j = k
    <3>1. pipe[k] = <<>> /\ replies[k] = <<>>
      BY <1>2, <1>4, <2>1, <2>3 DEF Aligned
    <3>. QED
      BY <1>1, <2>3, <3>1 DEF Aligned
  <2>. QED
    BY <2>2, <2>3
<1>. QED
  BY <1>3, <1>4 DEF AlignInv

LEMMA ServeAligns ==
  ASSUME TurnInv, AlignInv, NEW k \in Conns, Serve(k)
  PROVE  AlignInv'
<1>0. TypeInv
  BY DEF TurnInv
<1>1. /\ pipe[k] # <<>>
      /\ pipe' = [pipe EXCEPT ![k] = Tail(@)]
      /\ replies' = [replies EXCEPT ![k] =
                       IF conn[k] = "open" THEN Append(@, Head(pipe[k])) ELSE @]
      /\ UNCHANGED <<conn, command, late>>
  BY <1>0, ServeCases
<1>2. pipe[k] \in Seq(Commands) /\ replies[k] \in Seq(Commands)
  BY <1>0 DEF TypeInv
<1>3. AnswersMatch'
  BY <1>1 DEF AlignInv, AnswersMatch
<1>4. ASSUME NEW j \in Conns, j \notin late PROVE Aligned(j)'
  <2>1. Aligned(j)
    BY <1>4 DEF AlignInv
  <2>2. CASE j # k
    <3>1. pipe'[j] = pipe[j] /\ replies'[j] = replies[j]
      BY <1>0, <1>1, <2>2 DEF TypeInv
    <3>. QED
      BY <1>1, <2>1, <3>1 DEF Aligned, Outstanding
  <2>3. CASE j = k
    <3>1. Len(pipe[k]) + Len(replies[k]) <= 1
      BY <2>1, <2>3 DEF Aligned
    <3>2. /\ replies[k] = <<>> /\ Tail(pipe[k]) = <<>>
          /\ Len(pipe[k]) = 1 /\ Head(pipe[k]) = pipe[k][1] /\ pipe[k][1] \in Commands
      BY <1>1, <1>2, <3>1, OneOfTwo
    <3>3. PICK h \in Commands : h = pipe[k][1]
      BY <3>2
    <3>4. command[h].step = "written" /\ command[h].conn = k
      BY <2>1, <2>3, <3>2, <3>3 DEF Aligned, Outstanding
    <3>5. pipe'[k] = <<>> /\ replies'[k] \in {<<>>, <<h>>}
      BY <1>0, <1>1, <3>2, <3>3 DEF TypeInv
    <3>6. conn[k] # "closed"
      BY <1>1, <2>1, <2>3 DEF Aligned
    <3>7. CASE replies'[k] = <<>>
      BY <2>3, <3>5, <3>7, EmptyAligned
    <3>8. CASE replies'[k] = <<h>>
      BY <1>1, <2>3, <3>4, <3>5, <3>6, <3>8, AnswerAligned
    <3>. QED
      BY <3>5, <3>7, <3>8
  <2>. QED
    BY <2>2, <2>3
<1>. QED
  BY <1>1, <1>3, <1>4 DEF AlignInv

(* A command that is issued is not yet on its way.                         *)
LEMMA IssueMoves ==
  ASSUME Bounds, TurnInv, NEW c \in Calls, NEW k \in Conns, Takes(c, k)
  PROVE  /\ \A y \in Commands : command[y].step # "none" => command'[y] = command[y]
         /\ \A y \in Commands : command'[y].step = "done" => command[y].step # "none"
<1>1. /\ issued + 1 \in Commands /\ issued \in Nat
      /\ command' = [command EXCEPT ![issued + 1] =
                       [call |-> c, conn |-> k, step |-> "queued", got |-> 0]]
  BY DEF Takes, Issue, Bounds, TurnInv, TypeInv, Commands
<1>2. command[issued + 1].step = "none"
  BY <1>1 DEF TurnInv, Numbered
<1>3. /\ \A y \in Commands : y # issued + 1 => command'[y] = command[y]
      /\ command'[issued + 1].step = "queued"
  BY <1>1 DEF TurnInv, TypeInv
<1>. QED
  BY <1>2, <1>3

LEMMA IssueAligns ==
  ASSUME Bounds, TurnInv, AlignInv, NEW c \in Calls, NEW k \in Conns, Takes(c, k),
         UNCHANGED <<conn, pipe, replies, late>>
  PROVE  AlignInv'
<1>1. /\ \A y \in Commands : command[y].step # "none" => command'[y] = command[y]
      /\ \A y \in Commands : command'[y].step = "done" => command[y].step # "none"
  BY IssueMoves
<1>2. AnswersMatch'
  BY <1>1 DEF AlignInv, AnswersMatch
<1>3. ASSUME NEW j \in Conns, j \notin late PROVE Aligned(j)'
  <2>1. Aligned(j)
    BY <1>3 DEF AlignInv
  <2>2. pipe[j] \in Seq(Commands) /\ replies[j] \in Seq(Commands)
    BY DEF TurnInv, TypeInv
  <2>3. \A y \in Commands : Outstanding(j, y) =>
          command'[y].step = "written" /\ command'[y].conn = j
    BY <1>1 DEF Outstanding
  <2>4. /\ \A i \in 1 .. Len(pipe[j]) : pipe[j][i] \in Commands /\ Outstanding(j, pipe[j][i])
        /\ \A i \in 1 .. Len(replies[j]) : replies[j][i] \in Commands /\ Outstanding(j, replies[j][i])
    BY <2>1, <2>2 DEF Aligned
  <2>. QED
    BY <2>1, <2>3, <2>4 DEF Aligned, Outstanding
<1>. QED
  BY <1>2, <1>3 DEF AlignInv

LEMMA OtherAligns ==
  ASSUME TurnInv, AlignInv, UNCHANGED <<command, replies, late>>,
         \/ UNCHANGED <<conn, pipe>>
         \/ \E k \in Conns : conn' = [conn EXCEPT ![k] = "open"] /\ pipe' = pipe
         \/ \E k \in Conns : /\ conn' = [conn EXCEPT ![k] = "ended"]
                            /\ pipe' = [pipe EXCEPT ![k] = <<>>]
  PROVE  AlignInv'
<1>1. AnswersMatch'
  BY DEF AlignInv, AnswersMatch
<1>2. ASSUME NEW j \in Conns, j \notin late PROVE Aligned(j)'
  <2>1. Aligned(j)
    BY <1>2 DEF AlignInv
  <2>2. pipe[j] \in Seq(Commands) /\ replies[j] \in Seq(Commands)
    BY DEF TurnInv, TypeInv
  <2>3. CASE UNCHANGED <<conn, pipe>>
    BY <2>1, <2>3 DEF Aligned, Outstanding
  <2>4. CASE \E k \in Conns : conn' = [conn EXCEPT ![k] = "open"] /\ pipe' = pipe
    <3>1. conn'[j] \in {"open", conn[j]}
      BY <2>4 DEF TurnInv, TypeInv
    <3>. QED
      BY <2>1, <2>4, <3>1 DEF Aligned, Outstanding
  <2>5. CASE \E k \in Conns : /\ conn' = [conn EXCEPT ![k] = "ended"]
                             /\ pipe' = [pipe EXCEPT ![k] = <<>>]
    <3>1. \/ conn'[j] = conn[j] /\ pipe'[j] = pipe[j]
          \/ conn'[j] = "ended" /\ pipe'[j] = <<>>
      BY <2>5 DEF TurnInv, TypeInv
    <3>2. CASE conn'[j] = conn[j] /\ pipe'[j] = pipe[j]
      BY <2>1, <3>2 DEF Aligned, Outstanding
    <3>3. CASE conn'[j] = "ended" /\ pipe'[j] = <<>>
      <4>1. Len(pipe'[j]) = 0 /\ Len(pipe[j]) \in Nat /\ Len(replies[j]) \in Nat
        BY <2>2, <3>3
      <4>2. ASSUME NEW a \in Nat, NEW b \in Nat, a + b <= 1 PROVE 0 + b <= 1
        BY <4>2
      <4>3. Len(pipe[j]) + Len(replies[j]) <= 1
        BY <2>1 DEF Aligned
      <4>4. 0 + Len(replies[j]) <= 1
        BY <4>1, <4>2, <4>3
      <4>. QED
        BY <2>1, <3>3, <4>1, <4>4 DEF Aligned, Outstanding
    <3>. QED
      BY <3>1, <3>2, <3>3
  <2>. QED
    BY <2>3, <2>4, <2>5
<1>. QED
  BY <1>1, <1>2 DEF AlignInv

LEMMA InitAlign == Init => AlignInv
<1>. SUFFICES ASSUME Init PROVE AlignInv
  OBVIOUS
<1>1. AnswersMatch
  BY DEF Init, AnswersMatch, NoCommand
<1>2. ASSUME NEW j \in Conns PROVE Aligned(j)
  <2>1. pipe[j] = <<>> /\ replies[j] = <<>> /\ conn[j] = "none"
    BY DEF Init
  <2>2. Len(pipe[j]) = 0 /\ Len(replies[j]) = 0
    BY <2>1
  <2>. QED
    BY <2>1, <2>2 DEF Aligned
<1>. QED
  BY <1>1, <1>2 DEF AlignInv

LEMMA StepAlign == ASSUME Bounds, TurnInv, AlignInv, [Next]_vars PROVE AlignInv'
<1>0. TypeInv
  BY DEF TurnInv
<1>1. CASE \E c \in Calls : Ask(c) \/ Given(c)
  <2>1. PICK c \in Calls : Ask(c) \/ Given(c)
    BY <1>1
  <2>2. UNCHANGED <<conn, pipe, replies, late>>
    BY <2>1, AskCases
  <2>3. CASE \E k \in Conns : Takes(c, k)
    BY <2>2, <2>3, IssueAligns
  <2>4. CASE command' = command
    BY <2>2, <2>4, OtherAligns
  <2>. QED
    BY <2>1, <2>3, <2>4, AskCases
<1>2. CASE Exchange
  BY <1>2, WriteAligns, ReadAligns, FailAligns DEF Exchange
<1>3. CASE \E k \in Conns : Serve(k)
  BY <1>3, ServeAligns
<1>4. CASE \/ Connect
           \/ \E c \in Calls : ConnectFails(c) \/ Cancel(c)
           \/ \E k \in Conns : PeerCloses(k)
           \/ UNCHANGED vars
  <2>1. /\ UNCHANGED <<command, replies, late>>
        /\ \/ UNCHANGED <<conn, pipe>>
           \/ \E k \in Conns : conn' = [conn EXCEPT ![k] = "open"] /\ pipe' = pipe
           \/ \E k \in Conns : /\ conn' = [conn EXCEPT ![k] = "ended"]
                              /\ pipe' = [pipe EXCEPT ![k] = <<>>]
    BY <1>4, OtherCases
  <2>. QED
    BY <2>1, OtherAligns
<1>. QED
  BY <1>1, <1>2, <1>3, <1>4 DEF Next

(* However many calls share the connection, whoever is cancelled and       *)
(* whenever the peer goes, an answer reaches the command it is of, unless  *)
(* a command timed out on that connection before (_ESLClient.api,          *)
(* _exchange).                                                             *)
THEOREM EslAnswersMatch ==
  ASSUME MaxCommands \in Nat, MaxConns \in Nat
  PROVE  Spec => []AnswersMatch
<1>1. Init => TurnInv
  BY InitTurn DEF Bounds
<1>2. TurnInv /\ [Next]_vars => TurnInv'
  BY StepTurn DEF Bounds
<1>3. TurnInv /\ AlignInv /\ [Next]_vars => AlignInv'
  BY StepAlign DEF Bounds
<1>4. AlignInv => AnswersMatch
  BY DEF AlignInv
<1>. QED
  BY <1>1, <1>2, <1>3, <1>4, InitAlign, PTL DEF Spec
-----------------------------------------------------------------------------
(* What has been written to a connection is carried out in that order, and *)
(* what is written is later than all that was written there before.        *)
Sent(x) == command[x].step \notin {"none", "queued"}

PipeOrder(k) ==
    /\ \A i \in 1 .. Len(pipe[k]) : Sent(pipe[k][i]) /\ command[pipe[k][i]].conn = k
    /\ \A i, j \in 1 .. Len(pipe[k]) : i < j => pipe[k][i] < pipe[k][j]
    /\ \A i \in 1 .. Len(ran), j \in 1 .. Len(pipe[k]) :
          command[ran[i]].conn = k => ran[i] < pipe[k][j]

RanOrder ==
    /\ \A i \in 1 .. Len(ran) : Sent(ran[i])
    /\ \A i, j \in 1 .. Len(ran) :
          i < j /\ command[ran[i]].conn = command[ran[j]].conn => ran[i] < ran[j]

OrderInv == RanOrder /\ \A k \in Conns : PipeOrder(k)

(* What was sent stays sent, and where it was.                             *)
SentStays ==
    \A y \in Commands : Sent(y) => /\ command'[y].step \notin {"none", "queued"}
                                  /\ command'[y].conn = command[y].conn

LEMMA SentIsKept == ASSUME Bounds, TurnInv, [Next]_vars PROVE SentStays
<1>0. TypeInv /\ Placed
  BY DEF TurnInv
<1>1. CASE \E c \in Calls : Ask(c) \/ Given(c)
  <2>1. PICK c \in Calls : Ask(c) \/ Given(c)
    BY <1>1
  <2>2. CASE \E k \in Conns : Takes(c, k)
    BY <2>2, IssueMoves DEF SentStays, Sent
  <2>3. CASE command' = command
    BY <2>3 DEF SentStays, Sent
  <2>. QED
    BY <2>1, <2>2, <2>3, AskCases
<1>2. CASE Exchange
  <2>1. PICK x \in Commands : Write(x) \/ Read(x) \/ ReadFails(x) \/ TimesOut(x)
    BY <1>2 DEF Exchange
  <2>2. \E s \in {"written", "done", "failed"} : Moves(x, s)
    BY <1>0, <2>1, WriteCases, ReadCases, FailCases
  <2>. QED
    BY <2>2 DEF SentStays, Sent, Moves
<1>3. CASE \/ Connect
           \/ \E c \in Calls : ConnectFails(c) \/ Cancel(c)
           \/ \E k \in Conns : Serve(k) \/ PeerCloses(k)
           \/ UNCHANGED vars
  <2>1. command' = command
    BY <1>3 DEF Connect, ConnectFails, Cancel, Serve, PeerCloses, vars
  <2>. QED
    BY <2>1 DEF SentStays, Sent
<1>. QED
  BY <1>1, <1>2, <1>3 DEF Next

LEMMA QueueItems ==
  ASSUME TypeInv, NEW k \in Conns
  PROVE  /\ pipe[k] \in Seq(Commands) /\ ran \in Seq(Commands)
         /\ Len(pipe[k]) \in Nat /\ Len(ran) \in Nat
         /\ \A i \in 1 .. Len(pipe[k]) : pipe[k][i] \in Commands
         /\ \A i \in 1 .. Len(ran) : ran[i] \in Commands
BY DEF TypeInv

LEMMA RanStays ==
  ASSUME TypeInv, SentStays, RanOrder, ran' = ran
  PROVE  RanOrder'
<1>1. \A i \in 1 .. Len(ran) : ran[i] \in Commands /\ Sent(ran[i])
  BY DEF TypeInv, RanOrder
<1>2. \A i \in 1 .. Len(ran) : /\ command'[ran[i]].step \notin {"none", "queued"}
                             /\ command'[ran[i]].conn = command[ran[i]].conn
  BY <1>1 DEF SentStays
<1>. QED
  BY <1>2 DEF RanOrder, Sent

LEMMA PipeStays ==
  ASSUME TypeInv, SentStays, RanOrder, NEW k \in Conns, PipeOrder(k), ran' = ran,
         pipe'[k] = pipe[k] \/ pipe'[k] = <<>>
  PROVE  PipeOrder(k)'
<1>1. CASE pipe'[k] = <<>>
  <2>1. Len(pipe'[k]) = 0
    BY <1>1
  <2>. QED
    BY <2>1 DEF PipeOrder
<1>2. CASE pipe'[k] = pipe[k]
  <2>1. /\ \A i \in 1 .. Len(ran) : ran[i] \in Commands /\ Sent(ran[i])
        /\ \A i \in 1 .. Len(pipe[k]) : pipe[k][i] \in Commands /\ Sent(pipe[k][i])
    BY QueueItems DEF RanOrder, PipeOrder
  <2>2. /\ \A i \in 1 .. Len(ran) : command'[ran[i]].conn = command[ran[i]].conn
        /\ \A i \in 1 .. Len(pipe[k]) : /\ command'[pipe[k][i]].step \notin {"none", "queued"}
                                       /\ command'[pipe[k][i]].conn = command[pipe[k][i]].conn
    BY <2>1 DEF SentStays
  <2>. QED
    BY <1>2, <2>2 DEF PipeOrder, Sent
<1>. QED
  BY <1>1, <1>2

(* The writer's command is later than all that was sent on its connection. *)
LEMMA WriterIsLast ==
  ASSUME TurnInv, NEW x \in Commands, MayWrite(x), NEW y \in Commands, Sent(y),
         command[y].conn = command[x].conn
  PROVE  y < x
<1>1. command[x].step = "queued"
  BY DEF MayWrite
<1>2. x \in Nat /\ y \in Nat /\ x # y
  BY <1>1 DEF Commands, Sent
<1>3. CASE x < y
  BY <1>1, <1>3 DEF Sent, TurnInv, InTurn
<1>. QED
  BY <1>2, <1>3

(* The sequence r is q with x at its end.                                  *)
Grown(r, q, x) ==
  /\ \A i \in 1 .. Len(r) : (i \in 1 .. Len(q) /\ r[i] = q[i]) \/ r[i] = x
  /\ \A i, j \in 1 .. Len(r) : i < j =>
        /\ i \in 1 .. Len(q) /\ r[i] = q[i]
        /\ (j \in 1 .. Len(q) /\ r[j] = q[j]) \/ r[j] = x

LEMMA Appended ==
  ASSUME NEW q \in Seq(Commands), NEW x \in Commands
  PROVE  Grown(Append(q, x), q, x)
BY DEF Grown

LEMMA Shifted ==
  ASSUME NEW q \in Seq(Commands), q # <<>>
  PROVE  /\ \A i \in 1 .. Len(Tail(q)) : i + 1 \in 1 .. Len(q) /\ Tail(q)[i] = q[i + 1] /\ 1 < i + 1
         /\ \A i, j \in 1 .. Len(Tail(q)) : i < j => i + 1 < j + 1
OBVIOUS

LEMMA WriteOrder ==
  ASSUME TurnInv, OrderInv, SentStays, NEW x \in Commands, Write(x)
  PROVE  OrderInv'
<1>. DEFINE k == command[x].conn
<1>0. TypeInv /\ Placed /\ MayWrite(x) /\ RanOrder
  BY DEF TurnInv, OrderInv, Write
<1>1. k \in Conns /\ ran' = ran
  BY <1>0, WriteCases
<1>2. RanOrder'
  BY <1>0, <1>1, RanStays
<1>3. ASSUME NEW j \in Conns PROVE PipeOrder(j)'
  <2>1. PipeOrder(j)
    BY <1>3 DEF OrderInv
  <2>2. CASE pipe'[j] = pipe[j]
    BY <1>0, <1>1, <2>1, <2>2, PipeStays
  <2>3. CASE pipe'[j] # pipe[j]
    <3>1. /\ j = k /\ Moves(x, "written")
          /\ pipe'[k] = Append(pipe[k], x)
      BY <1>0, <1>1, <2>3, WriteCases DEF TypeInv
    <3>2. /\ pipe[k] \in Seq(Commands) /\ Len(pipe[k]) \in Nat
          /\ \A i \in 1 .. Len(pipe[k]) : pipe[k][i] \in Commands
          /\ \A i \in 1 .. Len(ran) : ran[i] \in Commands
      BY <1>0, <1>1, QueueItems
    <3>3. /\ \A i \in 1 .. Len(pipe[k]) :
                /\ pipe[k][i] < x
                /\ command'[pipe[k][i]].step \notin {"none", "queued"}
                /\ command'[pipe[k][i]].conn = k
          /\ \A i \in 1 .. Len(ran) : command[ran[i]].conn = k => ran[i] < x
      BY <1>0, <2>1, <3>1, <3>2, WriterIsLast DEF PipeOrder, RanOrder, SentStays
    <3>4. \A i \in 1 .. Len(ran) : command'[ran[i]].conn = command[ran[i]].conn
      BY <3>1, <3>2 DEF Moves
    <3>5. /\ \A i \in 1 .. Len(pipe'[k]) :
                (i \in 1 .. Len(pipe[k]) /\ pipe'[k][i] = pipe[k][i]) \/ pipe'[k][i] = x
          /\ \A i, m \in 1 .. Len(pipe'[k]) : i < m =>
                /\ i \in 1 .. Len(pipe[k]) /\ pipe'[k][i] = pipe[k][i]
                /\ (m \in 1 .. Len(pipe[k]) /\ pipe'[k][m] = pipe[k][m]) \/ pipe'[k][m] = x
      <4>1. Grown(pipe'[k], pipe[k], x)
        BY <3>1, <3>2, Appended
      <4>. QED
        BY <4>1 DEF Grown
    <3>6. command'[x].step = "written" /\ command'[x].conn = k
      BY <3>1 DEF Moves
    <3>7. ASSUME NEW i \in 1 .. Len(pipe'[k])
          PROVE  command'[pipe'[k][i]].step \notin {"none", "queued"} /\ command'[pipe'[k][i]].conn = k
      BY <3>3, <3>5, <3>6
    <3>8. ASSUME NEW i \in 1 .. Len(pipe'[k]), NEW m \in 1 .. Len(pipe'[k]), i < m
          PROVE  pipe'[k][i] < pipe'[k][m]
      BY <2>1, <3>1, <3>3, <3>5, <3>8 DEF PipeOrder
    <3>9. ASSUME NEW i \in 1 .. Len(ran'), NEW m \in 1 .. Len(pipe'[k]), command'[ran'[i]].conn = k
          PROVE  ran'[i] < pipe'[k][m]
      BY <1>1, <2>1, <3>1, <3>3, <3>4, <3>5, <3>9 DEF PipeOrder
    <3>. QED
      BY <3>1, <3>7, <3>8, <3>9 DEF PipeOrder, Sent
  <2>. QED
    BY <2>2, <2>3
<1>. QED
  BY <1>2, <1>3 DEF OrderInv

LEMMA ServeOrder ==
  ASSUME TurnInv, OrderInv, NEW k \in Conns, Serve(k)
  PROVE  OrderInv'
<1>0. TypeInv /\ RanOrder /\ PipeOrder(k)
  BY DEF TurnInv, OrderInv
<1>1. /\ pipe[k] # <<>>
      /\ pipe' = [pipe EXCEPT ![k] = Tail(@)]
      /\ ran' = Append(ran, Head(pipe[k]))
      /\ command' = command
  BY <1>0, ServeCases
<1>2. /\ pipe[k] \in Seq(Commands) /\ ran \in Seq(Commands)
      /\ Len(pipe[k]) \in Nat /\ Len(ran) \in Nat
      /\ \A i \in 1 .. Len(pipe[k]) : pipe[k][i] \in Commands
      /\ \A i \in 1 .. Len(ran) : ran[i] \in Commands
  BY <1>0, QueueItems
<1>3. PICK h \in Commands : h = pipe[k][1] /\ h = Head(pipe[k])
  BY <1>1, <1>2
<1>4. 1 \in 1 .. Len(pipe[k])
  BY <1>1, <1>2
<1>5. Sent(h) /\ command[h].conn = k
  BY <1>0, <1>3, <1>4 DEF PipeOrder
<1>6. /\ \A i \in 1 .. Len(ran') : (i \in 1 .. Len(ran) /\ ran'[i] = ran[i]) \/ ran'[i] = h
      /\ \A i, j \in 1 .. Len(ran') : i < j =>
            /\ i \in 1 .. Len(ran) /\ ran'[i] = ran[i]
            /\ (j \in 1 .. Len(ran) /\ ran'[j] = ran[j]) \/ ran'[j] = h
  <2>1. Grown(ran', ran, h)
    BY <1>1, <1>2, <1>3, Appended
  <2>. QED
    BY <2>1 DEF Grown
<1>7. RanOrder'
  <2>1. \A i \in 1 .. Len(ran') : Sent(ran'[i])
    BY <1>0, <1>5, <1>6 DEF RanOrder
  <2>2. \A i \in 1 .. Len(ran) : command[ran[i]].conn = k => ran[i] < h
    BY <1>0, <1>3, <1>4 DEF PipeOrder
  <2>3. ASSUME NEW i \in 1 .. Len(ran'), NEW j \in 1 .. Len(ran'), i < j,
               command[ran'[i]].conn = command[ran'[j]].conn
        PROVE  ran'[i] < ran'[j]
    BY <1>0, <1>5, <1>6, <2>2, <2>3 DEF RanOrder
  <2>. QED
    BY <1>1, <2>1, <2>3 DEF RanOrder, Sent
<1>8. ASSUME NEW j \in Conns PROVE PipeOrder(j)'
  <2>1. PipeOrder(j)
    BY <1>8 DEF OrderInv
  <2>2. CASE j # k
    <3>1. pipe'[j] = pipe[j]
      BY <1>0, <1>1, <2>2 DEF TypeInv
    <3>2. \A i \in 1 .. Len(ran'), m \in 1 .. Len(pipe[j]) :
            command[ran'[i]].conn = j => ran'[i] < pipe[j][m]
      BY <1>2, <1>5, <1>6, <2>1, <2>2 DEF PipeOrder
    <3>. QED
      BY <1>1, <2>1, <3>1, <3>2 DEF PipeOrder, Sent
  <2>3. CASE j = k
    <3>1. pipe'[k] = Tail(pipe[k])
      BY <1>0, <1>1 DEF TypeInv
    <3>2. /\ \A i \in 1 .. Len(pipe'[k]) :
                i + 1 \in 1 .. Len(pipe[k]) /\ pipe'[k][i] = pipe[k][i + 1] /\ 1 < i + 1
          /\ \A i, m \in 1 .. Len(pipe'[k]) : i < m => i + 1 < m + 1
      BY <1>1, <1>2, <3>1, Shifted
    <3>3. \A i \in 1 .. Len(pipe'[k]) : /\ Sent(pipe'[k][i]) /\ command[pipe'[k][i]].conn = k
                                      /\ h < pipe'[k][i]
      BY <1>0, <1>3, <1>4, <3>2 DEF PipeOrder
    <3>4. \A i, m \in 1 .. Len(pipe'[k]) : i < m => pipe'[k][i] < pipe'[k][m]
      BY <1>0, <3>2 DEF PipeOrder
    <3>5. \A i \in 1 .. Len(ran'), m \in 1 .. Len(pipe'[k]) :
            command[ran'[i]].conn = k => ran'[i] < pipe'[k][m]
      <4>. SUFFICES ASSUME NEW i \in 1 .. Len(ran'), NEW m \in 1 .. Len(pipe'[k]),
                           command[ran'[i]].conn = k
                    PROVE  ran'[i] < pipe'[k][m]
        OBVIOUS
      <4>1. CASE ran'[i] = h
        BY <3>3, <4>1
      <4>2. CASE i \in 1 .. Len(ran) /\ ran'[i] = ran[i]
        <5>1. m + 1 \in 1 .. Len(pipe[k]) /\ pipe'[k][m] = pipe[k][m + 1]
          BY <3>2
        <5>. QED
          BY <1>0, <4>2, <5>1 DEF PipeOrder
      <4>. QED
        BY <1>6, <4>1, <4>2
    <3>. QED
      BY <1>1, <2>3, <3>3, <3>4, <3>5 DEF PipeOrder, Sent
  <2>. QED
    BY <2>2, <2>3
<1>. QED
  BY <1>7, <1>8 DEF OrderInv

LEMMA InitOrder == Init => OrderInv
<1>. SUFFICES ASSUME Init PROVE OrderInv
  OBVIOUS
<1>1. ran = <<>> /\ Len(ran) = 0 /\ \A k \in Conns : pipe[k] = <<>> /\ Len(pipe[k]) = 0
  <2>1. ran = <<>> /\ \A k \in Conns : pipe[k] = <<>>
    BY DEF Init
  <2>. QED
    BY <2>1
<1>. QED
  BY <1>1 DEF OrderInv, RanOrder, PipeOrder

LEMMA StepOrder == ASSUME Bounds, TurnInv, OrderInv, [Next]_vars PROVE OrderInv'
<1>0. TypeInv /\ Placed /\ RanOrder /\ SentStays
  BY SentIsKept DEF TurnInv, OrderInv
<1>1. ASSUME ran' = ran, \A k \in Conns : pipe'[k] = pipe[k] \/ pipe'[k] = <<>>
      PROVE  OrderInv'
  BY <1>0, <1>1, RanStays, PipeStays DEF OrderInv
<1>2. CASE \E c \in Calls : Ask(c) \/ Given(c)
  BY <1>1, <1>2, AskCases
<1>3. CASE \E x \in Commands : Write(x)
  BY <1>0, <1>3, WriteOrder
<1>4. CASE \E x \in Commands : Read(x) \/ ReadFails(x) \/ TimesOut(x)
  BY <1>0, <1>1, <1>4, ReadCases, FailCases
<1>5. CASE \E k \in Conns : Serve(k)
  BY <1>5, ServeOrder
<1>6. CASE \/ Connect
           \/ \E c \in Calls : ConnectFails(c) \/ Cancel(c)
           \/ \E k \in Conns : PeerCloses(k)
           \/ UNCHANGED vars
  <2>1. /\ ran' = ran
        /\ \/ pipe' = pipe
           \/ \E k \in Conns : pipe' = [pipe EXCEPT ![k] = <<>>]
    BY <1>6, OtherCases
  <2>2. \A k \in Conns : pipe'[k] = pipe[k] \/ pipe'[k] = <<>>
    BY <1>0, <2>1 DEF TypeInv
  <2>. QED
    BY <1>1, <2>1, <2>2
<1>. QED
  BY <1>2, <1>3, <1>4, <1>5, <1>6 DEF Next, Exchange

(* FreeSWITCH carries out what a call asked for in the order it asked,     *)
(* through time-outs, cancellations and reconnections: a break never       *)
(* overtakes the playback before it (_play_audio_chunk, on_interrupted).   *)
THEOREM EslKeepsOrder ==
  ASSUME MaxCommands \in Nat, MaxConns \in Nat
  PROVE  Spec => []CallsKeepTheirOrder
<1>1. Init => TurnInv
  BY InitTurn DEF Bounds
<1>2. TurnInv /\ [Next]_vars => TurnInv'
  BY StepTurn DEF Bounds
<1>3. TurnInv /\ OrderInv /\ [Next]_vars => OrderInv'
  BY StepOrder DEF Bounds
<1>4. TurnInv /\ OrderInv => CallsKeepTheirOrder
  <2>. SUFFICES ASSUME TurnInv, OrderInv, NEW i \in 1 .. Len(ran), NEW j \in 1 .. Len(ran),
                       i < j, command[ran[i]].call = command[ran[j]].call
                PROVE  ran[i] < ran[j]
    BY DEF CallsKeepTheirOrder
  <2>1. ran[i] \in Commands /\ ran[j] \in Commands
    BY DEF TurnInv, TypeInv
  <2>2. Sent(ran[i]) /\ Sent(ran[j])
    BY DEF OrderInv, RanOrder
  <2>3. command[ran[i]].conn = command[ran[j]].conn
    BY <2>1, <2>2 DEF Sent, TurnInv, Placed
  <2>. QED
    BY <2>3 DEF OrderInv, RanOrder
<1>. QED
  BY <1>1, <1>2, <1>3, <1>4, InitOrder, PTL DEF Spec

-----------------------------------------------------------------------------
(***************************************************************************)
(* Recognition by the project's own server (LocalRecognition.tla: stt.py   *)
(* and ws.py).  The proof follows the stream: what may be next to what on  *)
(* the wire, how its head fits what the server keeps and its end what the  *)
(* client was told.                                                        *)
(***************************************************************************)
Server == INSTANCE LocalRecognition

Items == [type : {"audio", "start", "stop"}, frame : Nat]
Results == [pass : {"online", "offline"}, final : BOOLEAN, frames : Seq(Nat)]

(* The caller's utterances follow one another: s is the utterance of each  *)
(* frame and u the one the caller is in.                                   *)
Caller(s, u) ==
  /\ s \in Seq(Nat) /\ u \in Nat
  /\ \A i, j \in DOMAIN s : i <= j => s[i] <= s[j]
  /\ \A i \in DOMAIN s : s[i] <= u

(* Consecutive frames of one utterance.                                    *)
IsRun(s, q) ==
  /\ q \in Seq(Nat)
  /\ \A j \in DOMAIN q : q[j] \in DOMAIN s /\ q[j] = q[1] + j - 1 /\ s[q[j]] = s[q[1]]

(* The first and the last frame of an utterance; the last is known once    *)
(* the utterance is over.                                                  *)
IsFirst(s, n) == \A k \in DOMAIN s : k < n => s[k] < s[n]
IsLast(s, u, n) == s[n] < u /\ \A k \in DOMAIN s : n < k => s[n] < s[k]

(* What may be next to what on the wire.                                   *)
Follows(s, u, x, y) ==
  /\ y.type = "audio" => /\ y.frame \in DOMAIN s /\ x.type # "stop"
                         /\ x.type = "audio" => /\ y.frame = x.frame + 1
                                                /\ s[y.frame] = s[x.frame]
                         /\ x.type = "start" => IsFirst(s, y.frame)
  /\ y.type = "stop" => x.type = "audio" /\ IsLast(s, u, x.frame)
  /\ y.type = "start" => x.type = "stop"

(* What the client sent last fits the utterance the caller is in; p is its *)
(* flag.                                                                   *)
SentLast(s, u, p, x) ==
  /\ x.type = "audio" => x.frame = Len(s) /\ x.frame \in DOMAIN s /\ s[x.frame] = u
  /\ x.type = "start" => s = <<>>
  /\ x.type = "stop" => (s # <<>> => s[Len(s)] < u)
  /\ x.type = "stop" <=> ~p

(* What the server took last fits what it keeps, k.                        *)
TookLast(s, v, k, x) ==
  /\ x.type = "audio" => x.frame \in DOMAIN s /\ (~v => k.frames # <<>>)
  /\ x.type # "stop" => k.speaking
  /\ k.frames # <<>> => x.type = "audio" /\ x.frame = k.frames[Len(k.frames)]

(* The wire w after what the server took last, and what was sent last.     *)
Chain(s, u, x, w) ==
  \A i \in DOMAIN w : Follows(s, u, IF i = 1 THEN x ELSE w[i - 1], w[i])
EndOf(x, w) == IF w = <<>> THEN x ELSE w[Len(w)]

StreamInv == \E x \in Items :
  /\ TookLast(spoken, vad, srv, x) /\ Chain(spoken, utterance, x, wire)
  /\ SentLast(spoken, utterance, speaking, EndOf(x, wire))

KeptInv ==
  /\ IsRun(spoken, srv.frames) /\ IsRun(spoken, srv.asr)
  /\ srv.asr # <<>> =>
       srv.started /\ srv.frames # <<>> /\ srv.asr[Len(srv.asr)] = srv.frames[Len(srv.frames)]

(* A final, on its way or handed over.                                     *)
Utter(s, r) == s[r.frames[1]]

FinalInv(s, u, v, r) ==
  /\ r \in Results /\ r.pass = "offline" /\ r.final /\ r.frames # <<>> /\ IsRun(s, r.frames)
  /\ ~v => IsFirst(s, r.frames[1]) /\ IsLast(s, u, r.frames[Len(r.frames)])

(* Without a detector the server keeps an utterance from its first frame.  *)
WholeInv ==
  /\ srv.asr = <<>> /\ ~srv.started
  /\ srv.frames # <<>> => IsFirst(spoken, srv.frames[1])
  /\ \A i, j \in DOMAIN wire : wire[i].type = "audio" /\ wire[j].type = "audio" /\ i < j =>
       wire[i].frame < wire[j].frame
  /\ \A i \in DOMAIN srv.frames, j \in DOMAIN wire : wire[j].type = "audio" =>
       srv.frames[i] < wire[j].frame

(* A final is of an utterance before those still on their way.             *)
Past(s, frames, w, r) ==
  /\ frames # <<>> => Utter(s, r) < s[frames[1]]
  /\ \A j \in DOMAIN w : w[j].type = "audio" => Utter(s, r) < s[w[j].frame]

FinalsOrder ==
  /\ \A i \in DOMAIN heard : Past(spoken, srv.frames, wire, heard[i])
  /\ \A i \in DOMAIN results : results[i].final => Past(spoken, srv.frames, wire, results[i])
  /\ \A i \in DOMAIN heard, j \in DOMAIN results :
       results[j].final => Utter(spoken, heard[i]) < Utter(spoken, results[j])
  /\ \A i, j \in DOMAIN results : i < j /\ results[i].final /\ results[j].final =>
       Utter(spoken, results[i]) < Utter(spoken, results[j])

IsResult(s, u, v, r) ==
  r \in Results /\ IF r.final THEN FinalInv(s, u, v, r) ELSE r.pass = "online"

Coming(s, u, v, rs) == rs \in Seq(Results) /\ \A i \in DOMAIN rs : IsResult(s, u, v, rs[i])

HeardInv ==
  /\ heard \in Seq(Results)
  /\ \A i \in DOMAIN heard : FinalInv(spoken, utterance, vad, heard[i])
  /\ ~vad => \A i, j \in DOMAIN heard : i < j => Utter(spoken, heard[i]) < Utter(spoken, heard[j])

OpenInv ==
  /\ wire \in Seq(Items) /\ StreamInv /\ KeptInv
  /\ Coming(spoken, utterance, vad, results)
  /\ ~vad => WholeInv /\ FinalsOrder

ServerState == [frames : Seq(Nat), asr : Seq(Nat), online : Nat, started : BOOLEAN,
                ended : BOOLEAN, speaking : BOOLEAN]

LocalInv ==
  /\ vad \in BOOLEAN /\ srv \in ServerState /\ conn \in {"none", "open", "broken", "closed"}
  /\ Caller(spoken, utterance) /\ HeardInv
  /\ conn = "none" => Server!Init
  /\ conn = "open" => OpenInv

(* The caller goes on in an utterance, or begins the next.                 *)
Goes(s, u, s2, u2) ==
  \/ s2 = Append(s, u) /\ u2 = u
  \/ s2 = s /\ u2 = u + 1

LEMMA CallerGoes ==
  ASSUME NEW s, NEW u, NEW s2, NEW u2, Caller(s, u), Goes(s, u, s2, u2)
  PROVE  /\ Caller(s2, u2) /\ DOMAIN s = 1 .. Len(s) /\ Len(s) \in Nat
         /\ DOMAIN s \subseteq DOMAIN s2 /\ \A i \in DOMAIN s : s2[i] = s[i]
         /\ \A i \in DOMAIN s2 \ DOMAIN s : i = Len(s) + 1 /\ s2[i] = u
<1>1. s \in Seq(Nat) /\ u \in Nat
  BY DEF Caller
<1>2. CASE s2 = s /\ u2 = u + 1
  <2>1. \A i \in DOMAIN s : s[i] \in Nat
    BY <1>1
  <2>. QED
    BY <1>1, <1>2, <2>1 DEF Caller
<1>3. CASE s2 = Append(s, u) /\ u2 = u
  <2>1. /\ s2 \in Seq(Nat) /\ Len(s2) = Len(s) + 1 /\ DOMAIN s = 1 .. Len(s)
        /\ DOMAIN s2 = 1 .. Len(s) + 1 /\ Len(s) \in Nat
        /\ \A i \in 1 .. Len(s) : s2[i] = s[i] /\ s[i] \in Nat
        /\ s2[Len(s) + 1] = u
    BY <1>1, <1>3
  <2>2. ASSUME NEW i \in DOMAIN s2, NEW j \in DOMAIN s2, i <= j PROVE s2[i] <= s2[j]
    <3>1. CASE j \in 1 .. Len(s)
      <4>1. i \in 1 .. Len(s)
        BY <2>1, <2>2, <3>1
      <4>. QED
        BY <2>1, <2>2, <3>1, <4>1 DEF Caller
    <3>2. CASE j = Len(s) + 1
      <4>1. i \in 1 .. Len(s) \/ i = Len(s) + 1
        BY <2>1
      <4>. QED
        BY <1>1, <2>1, <3>2, <4>1 DEF Caller
    <3>. QED
      BY <2>1, <3>1, <3>2
  <2>3. \A i \in DOMAIN s2 : s2[i] <= u
    BY <1>1, <2>1 DEF Caller
  <2>. QED
    BY <1>1, <1>3, <2>1, <2>2, <2>3 DEF Caller
<1>. QED
  BY <1>2, <1>3 DEF Goes

LEMMA RunGoes ==
  ASSUME NEW s, NEW u, NEW s2, NEW u2, Caller(s, u), Goes(s, u, s2, u2)
  PROVE  /\ \A q : IsRun(s, q) => IsRun(s2, q)
         /\ \A n \in DOMAIN s : IsFirst(s, n) => IsFirst(s2, n)
         /\ \A n \in DOMAIN s : IsLast(s, u, n) => IsLast(s2, u2, n)
<1>1. /\ DOMAIN s = 1 .. Len(s) /\ Len(s) \in Nat /\ DOMAIN s \subseteq DOMAIN s2
      /\ \A i \in DOMAIN s : s2[i] = s[i] /\ s[i] \in Nat
      /\ \A i \in DOMAIN s2 \ DOMAIN s : i = Len(s) + 1 /\ s2[i] = u
  BY CallerGoes DEF Caller
<1>2. u \in Nat /\ u2 \in Nat /\ u <= u2 /\ DOMAIN s2 \subseteq Nat
  <2>1. u \in Nat /\ u2 \in Nat /\ u <= u2
    BY DEF Caller, Goes
  <2>2. s2 \in Seq(Nat)
    BY CallerGoes DEF Caller
  <2>. QED
    BY <2>1, <2>2
<1>3. ASSUME NEW q, IsRun(s, q) PROVE IsRun(s2, q)
  <2>1. /\ q \in Seq(Nat)
        /\ \A j \in DOMAIN q : q[j] \in DOMAIN s /\ q[j] = q[1] + j - 1 /\ s[q[j]] = s[q[1]]
    BY <1>3 DEF IsRun
  <2>2. \A j \in DOMAIN q : q[1] \in DOMAIN s
    BY <2>1
  <2>. QED
    BY <1>1, <2>1, <2>2 DEF IsRun
<1>4. ASSUME NEW n \in DOMAIN s, IsFirst(s, n) PROVE IsFirst(s2, n)
  <2>1. \A k \in DOMAIN s2 : k < n => k \in DOMAIN s
    BY <1>1, <1>2
  <2>. QED
    BY <1>1, <1>4, <2>1 DEF IsFirst
<1>5. ASSUME NEW n \in DOMAIN s, IsLast(s, u, n) PROVE IsLast(s2, u2, n)
  <2>1. \A k \in DOMAIN s2 : n < k => s2[n] < s2[k]
    BY <1>1, <1>5 DEF IsLast
  <2>2. s2[n] < u2
    BY <1>1, <1>2, <1>5 DEF IsLast
  <2>. QED
    BY <2>1, <2>2 DEF IsLast
<1>. QED
  BY <1>3, <1>4, <1>5

LEMMA FinalGoes ==
  ASSUME NEW s, NEW u, NEW s2, NEW u2, NEW v, NEW r,
         Caller(s, u), Goes(s, u, s2, u2), FinalInv(s, u, v, r)
  PROVE  /\ FinalInv(s2, u2, v, r) /\ Utter(s2, r) = Utter(s, r) /\ Utter(s, r) \in Nat
         /\ ~v => Utter(s, r) < u
<1>1. r.frames \in Seq(Nat) /\ Len(r.frames) \in Nat \ {0} /\ DOMAIN r.frames = 1 .. Len(r.frames)
  BY DEF FinalInv, IsRun
<1>2. /\ r.frames[1] \in DOMAIN s /\ r.frames[Len(r.frames)] \in DOMAIN s
      /\ s[r.frames[Len(r.frames)]] = s[r.frames[1]]
  <2>1. 1 \in DOMAIN r.frames /\ Len(r.frames) \in DOMAIN r.frames
    BY <1>1
  <2>2. IsRun(s, r.frames)
    BY DEF FinalInv
  <2>. QED
    BY <2>1, <2>2 DEF IsRun
<1>3. FinalInv(s2, u2, v, r)
  BY <1>2, RunGoes DEF FinalInv
<1>4. Utter(s2, r) = Utter(s, r) /\ Utter(s, r) \in Nat
  <2>1. s2[r.frames[1]] = s[r.frames[1]]
    BY <1>2, CallerGoes
  <2>2. s \in Seq(Nat)
    BY DEF Caller
  <2>. QED
    BY <1>2, <2>1, <2>2 DEF Utter
<1>5. ~v => Utter(s, r) < u
  BY <1>2 DEF FinalInv, IsLast, Utter
<1>. QED
  BY <1>3, <1>4, <1>5

LEMMA FollowsGoes ==
  ASSUME NEW s, NEW u, NEW s2, NEW u2, NEW x, NEW y, Caller(s, u), Goes(s, u, s2, u2),
         x.type = "audio" => x.frame \in DOMAIN s, Follows(s, u, x, y)
  PROVE  Follows(s2, u2, x, y)
<1>1. /\ DOMAIN s \subseteq DOMAIN s2 /\ \A i \in DOMAIN s : s2[i] = s[i]
  BY CallerGoes
<1>2. ASSUME y.type = "audio"
      PROVE  /\ y.frame \in DOMAIN s2 /\ x.type # "stop"
             /\ x.type = "audio" => y.frame = x.frame + 1 /\ s2[y.frame] = s2[x.frame]
             /\ x.type = "start" => IsFirst(s2, y.frame)
  BY <1>1, <1>2, RunGoes DEF Follows
<1>3. y.type = "stop" => x.type = "audio" /\ IsLast(s2, u2, x.frame)
  BY RunGoes DEF Follows
<1>. QED
  BY <1>2, <1>3 DEF Follows

(* A run goes on with the next frame of its utterance, and its end is one. *)
LEMMA RunAppend ==
  ASSUME NEW s, NEW q, NEW n, s \in Seq(Nat), IsRun(s, q), n \in DOMAIN s,
         q # <<>> => n = q[Len(q)] + 1 /\ s[n] = s[q[Len(q)]]
  PROVE  IsRun(s, Append(q, n))
<1>1. n \in Nat /\ q \in Seq(Nat) /\ Len(q) \in Nat /\ DOMAIN q = 1 .. Len(q)
  BY DEF IsRun
<1>. DEFINE p == Append(q, n)
<1>2. /\ p \in Seq(Nat) /\ DOMAIN p = 1 .. Len(q) + 1 /\ p[Len(q) + 1] = n
      /\ \A j \in 1 .. Len(q) : p[j] = q[j]
  BY <1>1
<1>. HIDE DEF p
<1>3. CASE q = <<>>
  <2>1. Len(q) = 0
    BY <1>3
  <2>. QED
    BY <1>1, <1>2, <2>1 DEF IsRun, p
<1>4. CASE q # <<>>
  <2>1. Len(q) \in DOMAIN q /\ 1 \in DOMAIN q
    BY <1>1, <1>4
  <2>2. q[Len(q)] = q[1] + Len(q) - 1 /\ s[q[Len(q)]] = s[q[1]] /\ q[1] \in Nat
    <3>1. q[1] \in Nat
      BY <1>1, <2>1
    <3>. QED
      BY <2>1, <3>1 DEF IsRun
  <2>3. p[1] = q[1] /\ n = p[1] + (Len(q) + 1) - 1 /\ s[n] = s[p[1]]
    <3>1. p[1] = q[1]
      BY <1>1, <1>2, <2>1
    <3>2. n = q[Len(q)] + 1 /\ s[n] = s[q[Len(q)]]
      BY <1>4
    <3>3. s[n] = s[p[1]]
      BY <2>2, <3>1, <3>2
    <3>4. q[Len(q)] = q[1] + Len(q) - 1 /\ q[1] \in Nat /\ Len(q) \in Nat
      BY <1>1, <2>2
    <3>5. n = q[1] + (Len(q) + 1) - 1
      <4>1. \A a, b \in Nat : (a + b - 1) + 1 = a + (b + 1) - 1
        OBVIOUS
      <4>2. n = (q[1] + Len(q) - 1) + 1
        BY <3>2, <3>4
      <4>3. (q[1] + Len(q) - 1) + 1 = q[1] + (Len(q) + 1) - 1
        BY ONLY <3>4, <4>1
      <4>. QED
        BY ONLY <4>2, <4>3
    <3>. QED
      BY <3>1, <3>3, <3>5
  <2>4. \A j \in 1 .. Len(q) : p[j] \in DOMAIN s /\ p[j] = p[1] + j - 1 /\ s[p[j]] = s[p[1]]
    BY <1>1, <1>2, <2>3 DEF IsRun
  <2>5. \A j \in DOMAIN p : p[j] \in DOMAIN s /\ p[j] = p[1] + j - 1 /\ s[p[j]] = s[p[1]]
    <3>1. \A j \in DOMAIN p : j \in 1 .. Len(q) \/ j = Len(q) + 1
      BY <1>1, <1>2
    <3>. QED
      BY <1>2, <2>3, <2>4, <3>1
  <2>. QED
    BY <1>2, <2>5 DEF IsRun, p
<1>. QED
  BY <1>3, <1>4

LEMMA RunEnd ==
  ASSUME NEW s, NEW q, IsRun(s, q), NEW b \in Nat, NEW p, p = Server!LastOf(q, b)
  PROVE  IsRun(s, p) /\ (p # <<>> => q # <<>> /\ p[Len(p)] = q[Len(q)])
<1>1. q \in Seq(Nat) /\ Len(q) \in Nat /\ DOMAIN q = 1 .. Len(q)
  BY DEF IsRun
<1>. DEFINE m == IF Len(q) > b THEN Len(q) - b + 1 ELSE 1
<1>2. m \in Nat /\ m >= 1 /\ p = SubSeq(q, m, Len(q))
  BY <1>1 DEF Server!LastOf
<1>3. \A i \in m .. Len(q) : i \in DOMAIN q /\ q[i] \in Nat
  BY <1>1, <1>2
<1>. HIDE DEF m
<1>4. /\ p \in Seq(Nat) /\ Len(p) = (IF m <= Len(q) THEN Len(q) - m + 1 ELSE 0)
      /\ DOMAIN p = 1 .. Len(p) /\ \A i \in 1 .. Len(p) : p[i] = q[m + i - 1]
  BY <1>1, <1>2, <1>3
<1>5. ASSUME NEW j \in DOMAIN p
      PROVE  p[j] \in DOMAIN s /\ p[j] = p[1] + j - 1 /\ s[p[j]] = s[p[1]]
  <2>1. m + j - 1 \in DOMAIN q /\ m \in DOMAIN q /\ p[j] = q[m + j - 1] /\ p[1] = q[m]
    <3>1. j \in 1 .. Len(p) /\ Len(p) \in Nat
      BY <1>4, <1>5
    <3>2. m <= Len(q) /\ Len(p) = Len(q) - m + 1
      BY <1>1, <1>2, <1>4, <3>1
    <3>3. m + j - 1 \in 1 .. Len(q) /\ m \in 1 .. Len(q) /\ 1 \in 1 .. Len(p) /\ m + 1 - 1 = m
      BY <1>1, <1>2, <3>1, <3>2
    <3>. QED
      BY <1>1, <1>4, <3>1, <3>3
  <2>2. /\ q[m + j - 1] \in DOMAIN s /\ q[m + j - 1] = q[1] + (m + j - 1) - 1
        /\ s[q[m + j - 1]] = s[q[1]] /\ q[m] = q[1] + m - 1 /\ s[q[m]] = s[q[1]]
    BY <2>1 DEF IsRun
  <2>3. q[1] \in Nat /\ j \in Nat
    <3>1. 1 \in DOMAIN q
      BY <1>1, <2>1
    <3>. QED
      BY <1>1, <1>4, <1>5, <3>1
  <2>4. p[j] = p[1] + j - 1
    <3>1. m \in Nat
      BY <1>2
    <3>2. q[m + j - 1] = (q[1] + m - 1) + j - 1
      BY <2>2, <2>3, <3>1
    <3>. QED
      BY <2>1, <2>2, <3>2
  <2>. QED
    BY <2>1, <2>2, <2>4
<1>6. ASSUME p # <<>> PROVE q # <<>> /\ p[Len(p)] = q[Len(q)]
  <2>1. Len(p) \in Nat \ {0}
    BY <1>4, <1>6
  <2>2. m <= Len(q) /\ Len(p) = Len(q) - m + 1
    BY <1>1, <1>2, <1>4, <2>1
  <2>. QED
    BY <1>1, <1>2, <1>4, <2>1, <2>2
<1>. QED
  BY <1>4, <1>5, <1>6 DEF IsRun

LEMMA ChainGoes ==
  ASSUME NEW s, NEW u, NEW s2, NEW u2, Caller(s, u), Goes(s, u, s2, u2), NEW w \in Seq(Items),
         NEW x, x.type = "audio" => x.frame \in DOMAIN s, Chain(s, u, x, w)
  PROVE  Chain(s2, u2, x, w)
<1>1. \A i \in DOMAIN w : w[i].type = "audio" => w[i].frame \in DOMAIN s
  BY DEF Chain, Follows
<1>2. ASSUME NEW i \in DOMAIN w PROVE Follows(s2, u2, IF i = 1 THEN x ELSE w[i - 1], w[i])
  <2>1. CASE i = 1
    <3>1. Follows(s, u, x, w[i])
      BY <1>2, <2>1 DEF Chain
    <3>. QED
      BY <2>1, <3>1, FollowsGoes
  <2>2. CASE i # 1
    <3>1. Follows(s, u, w[i - 1], w[i])
      BY <1>2, <2>2 DEF Chain
    <3>2. i - 1 \in DOMAIN w
      BY <1>2, <2>2
    <3>3. w[i - 1].type = "audio" => w[i - 1].frame \in DOMAIN s
      BY <1>1, <3>2
    <3>. QED
      BY <2>2, <3>1, <3>3, FollowsGoes
  <2>. QED
    BY <2>1, <2>2
<1>. QED
  BY <1>2 DEF Chain

LEMMA ChainAppend ==
  ASSUME NEW s, NEW u, NEW w \in Seq(Items), NEW x \in Items, NEW y \in Items,
         Chain(s, u, x, w), Follows(s, u, EndOf(x, w), y)
  PROVE  Chain(s, u, x, Append(w, y)) /\ EndOf(x, Append(w, y)) = y
<1>. DEFINE v == Append(w, y)
<1>1. /\ v \in Seq(Items) /\ Len(v) = Len(w) + 1 /\ DOMAIN v = 1 .. Len(w) + 1 /\ Len(w) \in Nat
      /\ DOMAIN w = 1 .. Len(w) /\ v[Len(w) + 1] = y /\ \A i \in 1 .. Len(w) : v[i] = w[i]
  OBVIOUS
<1>2. v # <<>>
  BY <1>1
<1>. HIDE DEF v
<1>3. ASSUME NEW i \in DOMAIN v PROVE Follows(s, u, IF i = 1 THEN x ELSE v[i - 1], v[i])
  <2>1. CASE i \in DOMAIN w
    <3>1. v[i] = w[i] /\ (i # 1 => i - 1 \in DOMAIN w)
      BY <1>1, <2>1
    <3>2. i # 1 => v[i - 1] = w[i - 1]
      BY <1>1, <3>1
    <3>3. Follows(s, u, IF i = 1 THEN x ELSE w[i - 1], w[i])
      BY <2>1 DEF Chain
    <3>. QED
      BY <3>1, <3>2, <3>3
  <2>2. CASE i = Len(w) + 1
    <3>1. (IF i = 1 THEN x ELSE v[i - 1]) = EndOf(x, w)
      BY <1>1, <2>2 DEF EndOf
    <3>. QED
      BY <1>1, <2>2, <3>1
  <2>. QED
    BY <1>1, <1>3, <2>1, <2>2
<1>4. EndOf(x, v) = y
  BY <1>1, <1>2 DEF EndOf
<1>. QED
  BY <1>3, <1>4 DEF Chain, v

LEMMA ChainTail ==
  ASSUME NEW s, NEW u, NEW w \in Seq(Items), w # <<>>, NEW x \in Items, Chain(s, u, x, w)
  PROVE  /\ Chain(s, u, Head(w), Tail(w)) /\ EndOf(Head(w), Tail(w)) = EndOf(x, w)
         /\ Follows(s, u, x, Head(w)) /\ Head(w) \in Items /\ Tail(w) \in Seq(Items)
         /\ Head(w) = w[1] /\ 1 \in DOMAIN w
         /\ \A i \in DOMAIN Tail(w) : Tail(w)[i] = w[i + 1] /\ i + 1 \in DOMAIN w
<1>. DEFINE v == Tail(w)
<1>1. /\ v \in Seq(Items) /\ Len(w) \in Nat /\ Len(w) > 0 /\ Len(v) = Len(w) - 1
      /\ DOMAIN v = 1 .. Len(w) - 1 /\ DOMAIN w = 1 .. Len(w) /\ Head(w) = w[1]
      /\ \A i \in 1 .. Len(w) - 1 : v[i] = w[i + 1]
  OBVIOUS
<1>. HIDE DEF v
<1>2. v = <<>> <=> Len(w) = 1
  <2>1. v = <<>> <=> Len(v) = 0
    BY <1>1
  <2>. QED
    BY <1>1, <2>1
<1>3. Follows(s, u, x, Head(w)) /\ Head(w) \in Items
  BY <1>1 DEF Chain
<1>4. ASSUME NEW i \in DOMAIN v PROVE Follows(s, u, IF i = 1 THEN Head(w) ELSE v[i - 1], v[i])
  <2>1. i + 1 \in DOMAIN w /\ i + 1 # 1 /\ v[i] = w[i + 1] /\ (i + 1) - 1 = i
    BY <1>1, <1>4
  <2>2. (IF i = 1 THEN Head(w) ELSE v[i - 1]) = w[i]
    <3>1. CASE i = 1
      BY <1>1, <3>1
    <3>2. CASE i # 1
      <4>1. i - 1 \in 1 .. Len(w) - 1 /\ (i - 1) + 1 = i
        BY <1>1, <1>4, <3>2
      <4>. QED
        BY <1>1, <3>2, <4>1
    <3>. QED
      BY <3>1, <3>2
  <2>3. Follows(s, u, w[(i + 1) - 1], w[i + 1])
    BY <2>1 DEF Chain
  <2>. QED
    BY <2>1, <2>2, <2>3
<1>5. EndOf(Head(w), v) = EndOf(x, w)
  <2>1. CASE Len(w) = 1
    BY <1>1, <1>2, <2>1 DEF EndOf
  <2>2. CASE Len(w) # 1
    <3>1. Len(v) \in 1 .. Len(w) - 1 /\ Len(v) + 1 = Len(w)
      BY <1>1, <2>2
    <3>2. v[Len(v)] = w[Len(w)]
      BY <1>1, <3>1
    <3>. QED
      BY <1>2, <2>2, <3>2 DEF EndOf
  <2>. QED
    BY <2>1, <2>2
<1>6. \A i \in DOMAIN v : v[i] = w[i + 1] /\ i + 1 \in DOMAIN w
  BY <1>1
<1>. QED
  <2>1. Chain(s, u, Head(w), v)
    BY <1>4 DEF Chain
  <2>. QED
    BY <1>1, <1>3, <1>5, <1>6, <2>1 DEF v

LEMMA ComingAppend ==
  ASSUME NEW s, NEW u, NEW v, NEW rs, NEW r, Coming(s, u, v, rs), IsResult(s, u, v, r)
  PROVE  Coming(s, u, v, Append(rs, r))
<1>1. rs \in Seq(Results) /\ r \in Results
  BY DEF Coming, IsResult
<1>2. /\ Append(rs, r) \in Seq(Results) /\ DOMAIN Append(rs, r) = 1 .. Len(rs) + 1
      /\ \A i \in 1 .. Len(rs) : Append(rs, r)[i] = rs[i] /\ Append(rs, r)[Len(rs) + 1] = r
      /\ DOMAIN rs = 1 .. Len(rs) /\ Len(rs) \in Nat
  BY <1>1
<1>3. ASSUME NEW i \in DOMAIN Append(rs, r) PROVE IsResult(s, u, v, Append(rs, r)[i])
  <2>1. i \in 1 .. Len(rs) \/ i = Len(rs) + 1
    BY <1>2
  <2>2. CASE i = Len(rs) + 1
    BY <1>1, <2>2
  <2>. QED
    BY <1>2, <2>1, <2>2 DEF Coming
<1>. QED
  BY <1>2, <1>3 DEF Coming

(* The client: what the session sends and the ends it announces.           *)

Fresh(y) ==
  /\ y \in Items
  /\ y.type = "audio" => y.frame = Len(spoken) + 1 /\ y.frame \in DOMAIN spoken'

LEMMA ClientKeeps ==
  ASSUME Caller(spoken, utterance), HeardInv, OpenInv,
         Goes(spoken, utterance, spoken', utterance'),
         UNCHANGED <<vad, srv, results, heard>>, StreamInv', wire' \in Seq(Items),
         \A j \in DOMAIN wire' : \/ j \in DOMAIN wire /\ wire'[j] = wire[j]
                                 \/ Fresh(wire'[j]) /\ (wire'[j].type = "audio" =>
                                      j \notin DOMAIN wire /\ j = Len(wire'))
  PROVE  OpenInv' /\ HeardInv'
<1>. DEFINE s == spoken
            u == utterance
<1>1. /\ DOMAIN s = 1 .. Len(s) /\ Len(s) \in Nat /\ DOMAIN s \subseteq DOMAIN spoken'
      /\ \A i \in DOMAIN s : spoken'[i] = s[i]
      /\ \A i \in DOMAIN spoken' \ DOMAIN s : i = Len(s) + 1 /\ spoken'[i] = u
  BY CallerGoes
<1>2. \A q : IsRun(s, q) => IsRun(spoken', q)
  BY RunGoes
<1>3. \A r : FinalInv(s, u, vad, r) =>
        /\ FinalInv(spoken', utterance', vad, r) /\ Utter(spoken', r) = Utter(s, r)
        /\ Utter(s, r) \in Nat /\ (~vad => Utter(s, r) < u)
  BY FinalGoes
<1>4. HeardInv'
  <2>1. heard \in Seq(Results) /\ \A i \in DOMAIN heard : FinalInv(s, u, vad, heard[i])
    BY DEF HeardInv
  <2>2. ~vad => \A i, j \in DOMAIN heard : i < j => Utter(s, heard[i]) < Utter(s, heard[j])
    BY DEF HeardInv
  <2>3. \A i \in DOMAIN heard : FinalInv(spoken', utterance', vad, heard[i])
    BY <1>3, <2>1
  <2>4. \A i \in DOMAIN heard : Utter(spoken', heard[i]) = Utter(s, heard[i])
    BY <1>3, <2>1
  <2>5. ~vad => \A i, j \in DOMAIN heard : i < j =>
          Utter(spoken', heard[i]) < Utter(spoken', heard[j])
    BY <2>2, <2>4
  <2>. QED
    BY <2>1, <2>3, <2>5 DEF HeardInv
<1>5. Coming(spoken', utterance', vad', results')
  <2>1. results \in Seq(Results) /\ \A i \in DOMAIN results : IsResult(s, u, vad, results[i])
    BY DEF OpenInv, Coming
  <2>2. \A i \in DOMAIN results : IsResult(spoken', utterance', vad, results[i])
    BY <1>3, <2>1 DEF IsResult
  <2>. QED
    BY <2>1, <2>2 DEF Coming
<1>6. KeptInv'
  BY <1>2 DEF OpenInv, KeptInv
<1>7. srv.frames \in Seq(Nat) /\ \A i \in DOMAIN srv.frames : srv.frames[i] \in DOMAIN s
  BY DEF OpenInv, KeptInv, IsRun
<1>8. /\ wire \in Seq(Items)
      /\ \A j \in DOMAIN wire : wire[j].type = "audio" => wire[j].frame \in DOMAIN s
  BY DEF OpenInv, StreamInv, Chain, Follows
<1>9. ASSUME NEW j \in DOMAIN wire', wire'[j].type = "audio"
      PROVE  \/ j \in DOMAIN wire /\ wire'[j] = wire[j] /\ wire[j].frame \in DOMAIN s
             \/ j = Len(wire') /\ wire'[j].frame = Len(s) + 1 /\ spoken'[wire'[j].frame] = u
  <2>1. CASE j \in DOMAIN wire /\ wire'[j] = wire[j]
    BY <1>8, <1>9, <2>1
  <2>2. CASE Fresh(wire'[j]) /\ j = Len(wire')
    <3>1. wire'[j].frame = Len(s) + 1 /\ wire'[j].frame \in DOMAIN spoken'
      BY <1>9, <2>2 DEF Fresh
    <3>2. wire'[j].frame \notin DOMAIN s
      BY <1>1, <3>1
    <3>. QED
      BY <1>1, <2>2, <3>1, <3>2
  <2>. QED
    BY <1>9, <2>1, <2>2
<1>10. ASSUME ~vad PROVE WholeInv'
  <2>1. WholeInv
    BY <1>10 DEF OpenInv
  <2>2. srv.frames # <<>> => IsFirst(spoken', srv.frames[1])
    <3>1. srv.frames # <<>> => 1 \in DOMAIN srv.frames
      BY <1>7
    <3>. QED
      BY <1>7, <2>1, <3>1, RunGoes DEF WholeInv
  <2>3. ASSUME NEW i \in DOMAIN wire', NEW j \in DOMAIN wire', wire'[i].type = "audio",
               wire'[j].type = "audio", i < j
        PROVE  wire'[i].frame < wire'[j].frame
    <3>1. j \in 1 .. Len(wire') /\ i \in 1 .. Len(wire') /\ Len(wire') \in Nat
      BY <2>3
    <3>2. i \in DOMAIN wire /\ wire'[i] = wire[i] /\ wire[i].frame \in DOMAIN s
      BY <1>9, <2>3, <3>1
    <3>3. CASE j \in DOMAIN wire /\ wire'[j] = wire[j]
      BY <2>1, <2>3, <3>2, <3>3 DEF WholeInv
    <3>4. CASE wire'[j].frame = Len(s) + 1
      BY <1>1, <3>2, <3>4
    <3>. QED
      BY <1>9, <2>3, <3>3, <3>4
  <2>4. ASSUME NEW i \in DOMAIN srv.frames, NEW j \in DOMAIN wire', wire'[j].type = "audio"
        PROVE  srv.frames[i] < wire'[j].frame
    <3>1. CASE j \in DOMAIN wire /\ wire'[j] = wire[j]
      BY <2>1, <2>4, <3>1 DEF WholeInv
    <3>2. CASE wire'[j].frame = Len(s) + 1
      BY <1>1, <1>7, <2>4, <3>2
    <3>. QED
      BY <1>9, <2>4, <3>1, <3>2
  <2>. QED
    BY <2>1, <2>2, <2>3, <2>4 DEF WholeInv
<1>11. ASSUME ~vad PROVE FinalsOrder'
  <2>1. FinalsOrder
    BY <1>11 DEF OpenInv
  <2>2. ASSUME NEW r, FinalInv(s, u, vad, r), Past(s, srv.frames, wire, r)
        PROVE  Past(spoken', srv.frames, wire', r)
    <3>1. Utter(spoken', r) = Utter(s, r) /\ Utter(s, r) < u
      BY <1>3, <1>11, <2>2
    <3>2. srv.frames # <<>> => Utter(spoken', r) < spoken'[srv.frames[1]]
      <4>1. srv.frames # <<>> => 1 \in DOMAIN srv.frames
        BY <1>7
      <4>. QED
        BY <1>1, <1>7, <2>2, <3>1, <4>1 DEF Past
    <3>3. ASSUME NEW j \in DOMAIN wire', wire'[j].type = "audio"
          PROVE  Utter(spoken', r) < spoken'[wire'[j].frame]
      <4>1. CASE j \in DOMAIN wire /\ wire'[j] = wire[j] /\ wire[j].frame \in DOMAIN s
        BY <1>1, <2>2, <3>1, <3>3, <4>1 DEF Past
      <4>2. CASE spoken'[wire'[j].frame] = u
        BY <3>1, <4>2
      <4>. QED
        BY <1>9, <3>3, <4>1, <4>2
    <3>. QED
      BY <3>2, <3>3 DEF Past
  <2>3. \A i \in DOMAIN heard : FinalInv(s, u, vad, heard[i])
    BY DEF HeardInv
  <2>4. \A i \in DOMAIN results : results[i].final => FinalInv(s, u, vad, results[i])
    BY DEF OpenInv, Coming, IsResult
  <2>5. /\ \A i \in DOMAIN heard : Utter(spoken', heard[i]) = Utter(s, heard[i])
        /\ \A i \in DOMAIN results : results[i].final =>
             Utter(spoken', results[i]) = Utter(s, results[i])
    BY <1>3, <2>3, <2>4
  <2>6. \A i \in DOMAIN heard : Past(spoken', srv.frames, wire', heard[i])
    BY <2>1, <2>2, <2>3 DEF FinalsOrder
  <2>7. \A i \in DOMAIN results : results[i].final => Past(spoken', srv.frames, wire', results[i])
    BY <2>1, <2>2, <2>4 DEF FinalsOrder
  <2>8. \A i \in DOMAIN heard, j \in DOMAIN results : results[j].final =>
          Utter(spoken', heard[i]) < Utter(spoken', results[j])
    BY <2>1, <2>5 DEF FinalsOrder
  <2>9. \A i, j \in DOMAIN results : i < j /\ results[i].final /\ results[j].final =>
          Utter(spoken', results[i]) < Utter(spoken', results[j])
    BY <2>1, <2>5 DEF FinalsOrder
  <2>. QED
    BY <2>6, <2>7, <2>8, <2>9 DEF FinalsOrder
<1>. QED
  BY <1>4, <1>5, <1>6, <1>10, <1>11 DEF OpenInv

(* The stream after one more item.                                         *)
LEMMA StreamAppend ==
  ASSUME OpenInv, Caller(spoken, utterance), Goes(spoken, utterance, spoken', utterance'),
         UNCHANGED <<vad, srv>>, NEW x \in Items, TookLast(spoken, vad, srv, x),
         NEW w \in Seq(Items), Chain(spoken', utterance', x, w),
         NEW y \in Items, Follows(spoken', utterance', EndOf(x, w), y),
         wire' = Append(w, y), SentLast(spoken', utterance', speaking', y)
  PROVE  StreamInv'
<1>1. TookLast(spoken', vad', srv', x)
  BY CallerGoes DEF TookLast
<1>2. Chain(spoken', utterance', x, wire') /\ EndOf(x, wire') = y
  BY ChainAppend
<1>. QED
  BY <1>1, <1>2 DEF StreamInv

LEMMA LocalConnect == ASSUME LocalInv, Server!Connect PROVE LocalInv'
<1>1. /\ spoken = <<>> /\ utterance = 1 /\ speaking = TRUE /\ results = <<>> /\ heard = <<>>
      /\ srv.frames = <<>> /\ srv.asr = <<>> /\ ~srv.started
  BY DEF LocalInv, Server!Connect, Server!Init
<1>2. UNCHANGED <<vad, speaking, spoken, utterance, srv, results, heard>>
  BY DEF Server!Connect
<1>3. Caller(spoken', utterance') /\ HeardInv' /\ vad' \in BOOLEAN /\ srv' \in ServerState
  BY <1>2 DEF LocalInv, HeardInv
<1>4. CASE conn' = "closed"
  BY <1>3, <1>4 DEF LocalInv
<1>5. CASE conn' = "open" /\ wire' = <<Server!Control("start")>>
  <2>. DEFINE x == Server!Control("stop")
              y == Server!Control("start")
  <2>1. x \in Items /\ x.type = "stop" /\ y \in Items /\ y.type = "start"
    BY DEF Items, Server!Control
  <2>2. wire' = <<y>> /\ wire' # <<>> /\ DOMAIN wire' = 1 .. 1 /\ wire'[1] = y /\ Len(wire') = 1
    BY <1>5
  <2>. HIDE DEF x, y
  <2>3. TookLast(spoken', vad', srv', x)
    BY <1>1, <1>2, <2>1 DEF TookLast
  <2>4. Chain(spoken', utterance', x, wire')
    BY <2>1, <2>2 DEF Chain, Follows
  <2>5. SentLast(spoken', utterance', speaking', EndOf(x, wire'))
    BY <1>1, <1>2, <2>1, <2>2 DEF EndOf, SentLast
  <2>6. StreamInv'
    BY <2>1, <2>3, <2>4, <2>5 DEF StreamInv
  <2>7. IsRun(spoken', <<>>) /\ Coming(spoken', utterance', vad', <<>>)
    BY DEF IsRun, Coming
  <2>8. KeptInv' /\ Coming(spoken', utterance', vad', results')
    BY <1>1, <1>2, <2>7 DEF KeptInv
  <2>9. WholeInv'
    <3>1. srv'.frames = <<>> /\ DOMAIN srv'.frames = {} /\ srv'.asr = <<>> /\ ~srv'.started
      BY <1>1, <1>2
    <3>2. \A i \in DOMAIN wire' : wire'[i].type # "audio"
      BY <2>1, <2>2
    <3>. QED
      BY <3>1, <3>2 DEF WholeInv
  <2>10. FinalsOrder'
    <3>1. heard' = <<>> /\ results' = <<>> /\ DOMAIN heard' = {} /\ DOMAIN results' = {}
      BY <1>1, <1>2
    <3>. QED
      BY <3>1 DEF FinalsOrder
  <2>11. wire' \in Seq(Items)
    BY <2>1, <2>2
  <2>12. OpenInv'
    BY <2>6, <2>8, <2>9, <2>10, <2>11 DEF OpenInv
  <2>. QED
    BY <1>3, <1>5, <2>12 DEF LocalInv
<1>. QED
  BY <1>4, <1>5 DEF Server!Connect

(* Away from the open connection only what was heard matters.              *)
LEMMA AwayKeeps ==
  ASSUME LocalInv, UNCHANGED <<vad, srv, heard>>, conn' \in {"broken", "closed"},
         \/ Goes(spoken, utterance, spoken', utterance')
         \/ UNCHANGED <<spoken, utterance>>
  PROVE  LocalInv'
<1>1. CASE UNCHANGED <<spoken, utterance>>
  BY <1>1 DEF LocalInv, HeardInv
<1>2. CASE Goes(spoken, utterance, spoken', utterance')
  <2>1. Caller(spoken', utterance')
    BY <1>2, CallerGoes DEF LocalInv
  <2>2. \A i \in DOMAIN heard :
          /\ FinalInv(spoken', utterance', vad, heard[i])
          /\ Utter(spoken', heard[i]) = Utter(spoken, heard[i])
    BY <1>2, FinalGoes DEF LocalInv, HeardInv
  <2>3. HeardInv'
    <3>1. ~vad => \A i, j \in DOMAIN heard : i < j =>
            Utter(spoken', heard[i]) < Utter(spoken', heard[j])
      BY <2>2 DEF LocalInv, HeardInv
    <3>2. heard \in Seq(Results)
      BY DEF LocalInv, HeardInv
    <3>. QED
      BY <2>2, <3>1, <3>2 DEF HeardInv
  <2>. QED
    BY <2>1, <2>3 DEF LocalInv
<1>. QED
  BY <1>1, <1>2

LEMMA WireAppended ==
  ASSUME NEW w \in Seq(Items), NEW y \in Items, NEW v, v = Append(w, y)
  PROVE  /\ \A j \in DOMAIN v :
              \/ j \in DOMAIN w /\ v[j] = w[j]
              \/ v[j] = y /\ j \notin DOMAIN w /\ j = Len(v)
         /\ DOMAIN w \subseteq DOMAIN v /\ v = w \o <<y>> /\ v \in Seq(Items)
<1>1. /\ Len(w) \in Nat /\ DOMAIN w = 1 .. Len(w) /\ Len(v) = Len(w) + 1
      /\ DOMAIN v = 1 .. Len(w) + 1 /\ v[Len(w) + 1] = y
      /\ \A i \in 1 .. Len(w) : v[i] = w[i]
  OBVIOUS
<1>2. v = w \o <<y>> /\ v \in Seq(Items)
  OBVIOUS
<1>3. DOMAIN w \subseteq DOMAIN v
  BY <1>1
<1>4. ASSUME NEW j \in DOMAIN v, ~(j \in DOMAIN w /\ v[j] = w[j])
      PROVE  v[j] = y /\ j \notin DOMAIN w /\ j = Len(v)
  <2>1. j = Len(w) + 1
    BY <1>1, <1>4
  <2>. QED
    BY <1>1, <2>1
<1>. QED
  BY <1>2, <1>3, <1>4

LEMMA LocalSend == ASSUME LocalInv, Server!SendAudio PROVE LocalInv'
<1>. DEFINE n == Len(spoken) + 1
            y == Server!Audio(n)
            c == Server!Control("start")
<1>1. /\ spoken' = Append(spoken, utterance) /\ utterance' = utterance /\ conn' = conn
      /\ UNCHANGED <<vad, srv, results, heard>> /\ conn # "none"
  BY DEF Server!SendAudio
<1>2. Goes(spoken, utterance, spoken', utterance') /\ Caller(spoken, utterance)
  BY <1>1 DEF Goes, LocalInv
<1>3. /\ spoken \in Seq(Nat) /\ Len(spoken) \in Nat /\ Len(spoken') = n /\ DOMAIN spoken' = 1 .. n
      /\ spoken'[n] = utterance /\ n \in Nat /\ DOMAIN spoken = 1 .. Len(spoken)
      /\ \A i \in 1 .. Len(spoken) : spoken'[i] = spoken[i]
  <2>1. spoken \in Seq(Nat) /\ utterance \in Nat
    BY <1>2 DEF Caller
  <2>. QED
    BY <1>1, <2>1
<1>4. y \in Items /\ y.type = "audio" /\ y.frame = n /\ c \in Items /\ c.type = "start"
  BY <1>3 DEF Items, Server!Audio, Server!Control
<1>. HIDE DEF y, c
<1>5. CASE conn # "open"
  <2>1. conn' \in {"broken", "closed"}
    <3>. QED
      BY <1>1, <1>5 DEF LocalInv
  <2>. QED
    BY <1>1, <1>2, <2>1, AwayKeeps
<1>6. CASE conn = "open"
  <2>1. /\ wire' = wire \o (IF speaking THEN <<>> ELSE <<c>>) \o <<y>> /\ speaking' = TRUE
        /\ OpenInv /\ wire \in Seq(Items)
    BY <1>1, <1>3, <1>6 DEF Server!SendAudio, LocalInv, OpenInv, y, c
  <2>2. PICK x \in Items :
          /\ TookLast(spoken, vad, srv, x) /\ Chain(spoken, utterance, x, wire)
          /\ SentLast(spoken, utterance, speaking, EndOf(x, wire))
    BY <2>1 DEF OpenInv, StreamInv
  <2>3. Chain(spoken', utterance', x, wire)
    BY <1>2, <2>1, <2>2, ChainGoes DEF TookLast
  <2>4. SentLast(spoken', utterance', speaking', y)
    BY <1>1, <1>3, <1>4, <2>1 DEF SentLast
  <2>. DEFINE z == EndOf(x, wire)
  <2>5. z \in Items
    BY <2>1, <2>2 DEF EndOf
  <2>. HIDE DEF z
  <2>6. CASE speaking
    <3>1. wire' = Append(wire, y)
      BY <2>1, <2>6
    <3>2. Follows(spoken', utterance', z, y)
      <4>1. z.type # "stop" /\ z.type \in {"audio", "start"}
        BY <2>2, <2>5, <2>6 DEF SentLast, z, Items
      <4>2. z.type = "audio" => y.frame = z.frame + 1 /\ spoken'[y.frame] = spoken'[z.frame]
        BY <1>3, <1>4, <2>2 DEF SentLast, z
      <4>3. z.type = "start" => IsFirst(spoken', n)
        <5>1. z.type = "start" => Len(spoken) = 0
          BY <2>2 DEF SentLast, z
        <5>. QED
          BY <1>3, <5>1 DEF IsFirst
      <4>. QED
        BY <1>3, <1>4, <4>1, <4>2, <4>3 DEF Follows
    <3>3. StreamInv'
      BY <1>1, <1>2, <1>4, <2>1, <2>2, <2>3, <2>4, <3>1, <3>2, StreamAppend DEF z
    <3>4. wire' \in Seq(Items)
      BY <1>4, <2>1, <3>1
    <3>5. \A j \in DOMAIN wire' :
            \/ j \in DOMAIN wire /\ wire'[j] = wire[j]
            \/ wire'[j] = y /\ j \notin DOMAIN wire /\ j = Len(wire')
      <4>1. wire \in Seq(Items) /\ y \in Items
        BY <1>4, <2>1
      <4>. QED
        BY <3>1, <4>1, WireAppended
    <3>6. OpenInv' /\ HeardInv'
      <4>1. Fresh(y)
        BY <1>3, <1>4 DEF Fresh
      <4>2. HeardInv
        BY DEF LocalInv
      <4>. QED
        BY <1>1, <1>2, <2>1, <3>3, <3>4, <3>5, <4>1, <4>2, ClientKeeps
    <3>. QED
      BY <1>1, <1>2, <1>6, <3>6, CallerGoes DEF LocalInv
  <2>7. CASE ~speaking
    <3>. DEFINE w == Append(wire, c)
    <3>1. w \in Seq(Items) /\ wire' = Append(w, y) /\ wire' \in Seq(Items)
      <4>1. w \in Seq(Items) /\ w = wire \o <<c>>
        BY <1>4, <2>1
      <4>2. w \o <<y>> = Append(w, y) /\ Append(w, y) \in Seq(Items)
        <5>1. y \in Items
          BY <1>4
        <5>. HIDE DEF w
        <5>. QED
          BY <4>1, <5>1, WireAppended
      <4>. HIDE DEF w
      <4>. QED
        BY <2>1, <2>7, <4>1, <4>2
    <3>2. z.type = "stop" /\ (spoken # <<>> => spoken[Len(spoken)] < utterance)
      BY <2>2, <2>7 DEF SentLast, z
    <3>3. Follows(spoken', utterance', z, c)
      BY <1>4, <3>2 DEF Follows
    <3>4. Chain(spoken', utterance', x, w) /\ EndOf(x, w) = c
      BY <1>4, <2>1, <2>3, <3>3, ChainAppend DEF z
    <3>5. IsFirst(spoken', n)
      <4>1. ASSUME NEW k \in 1 .. Len(spoken) PROVE spoken[k] < utterance
        <5>1. spoken # <<>> /\ Len(spoken) \in 1 .. Len(spoken) /\ k <= Len(spoken)
          BY <1>3, <4>1
        <5>2. spoken[k] <= spoken[Len(spoken)] /\ spoken[Len(spoken)] < utterance
          BY <1>2, <1>3, <3>2, <4>1, <5>1 DEF Caller
        <5>3. spoken[k] \in Nat /\ spoken[Len(spoken)] \in Nat /\ utterance \in Nat
          BY <1>2, <1>3, <4>1, <5>1 DEF Caller
        <5>. QED
          BY <5>2, <5>3
      <4>2. \A k \in DOMAIN spoken' : k < n => k \in 1 .. Len(spoken)
        BY <1>3
      <4>. QED
        BY <1>3, <4>1, <4>2 DEF IsFirst
    <3>6. Follows(spoken', utterance', EndOf(x, w), y)
      BY <1>3, <1>4, <3>4, <3>5 DEF Follows
    <3>7. StreamInv'
      BY <1>1, <1>2, <1>4, <2>1, <2>2, <2>4, <3>1, <3>4, <3>6, StreamAppend
    <3>8. \A j \in DOMAIN wire' :
            \/ j \in DOMAIN wire /\ wire'[j] = wire[j]
            \/ wire'[j] = c
            \/ wire'[j] = y /\ j \notin DOMAIN wire /\ j = Len(wire')
      <4>1. \A j \in DOMAIN w :
              \/ j \in DOMAIN wire /\ w[j] = wire[j]
              \/ w[j] = c
        BY <1>4, <2>1, WireAppended
      <4>2. DOMAIN wire \subseteq DOMAIN w
        BY <1>4, <2>1, WireAppended
      <4>3. \A j \in DOMAIN wire' :
              \/ j \in DOMAIN w /\ wire'[j] = w[j]
              \/ wire'[j] = y /\ j \notin DOMAIN w /\ j = Len(wire')
        <5>1. y \in Items
          BY <1>4
        <5>. HIDE DEF w
        <5>. QED
          BY <3>1, <5>1, WireAppended
      <4>. HIDE DEF w
      <4>. QED
        BY <4>1, <4>2, <4>3
    <3>9. OpenInv' /\ HeardInv'
      <4>1. Fresh(y) /\ Fresh(c) /\ c.type # "audio"
        BY <1>3, <1>4 DEF Fresh
      <4>2. HeardInv
        BY DEF LocalInv
      <4>3. \A j \in DOMAIN wire' :
              \/ j \in DOMAIN wire /\ wire'[j] = wire[j]
              \/ Fresh(wire'[j]) /\ (wire'[j].type = "audio" =>
                   j \notin DOMAIN wire /\ j = Len(wire'))
        BY <3>8, <4>1
      <4>. QED
        BY <1>1, <1>2, <2>1, <3>1, <3>7, <4>2, <4>3, ClientKeeps
    <3>. QED
      BY <1>1, <1>2, <1>6, <3>9, CallerGoes DEF LocalInv
  <2>. QED
    BY <2>6, <2>7
<1>. QED
  BY <1>5, <1>6

LEMMA LocalEnd == ASSUME LocalInv, Server!EndSpeech PROVE LocalInv'
<1>. DEFINE n == Len(spoken)
            y == Server!Control("stop")
<1>1. /\ spoken' = spoken /\ utterance' = utterance + 1 /\ conn' = conn
      /\ UNCHANGED <<vad, srv, results, heard>> /\ conn # "none"
      /\ n > 0 /\ spoken[n] = utterance
  BY DEF Server!EndSpeech
<1>2. Goes(spoken, utterance, spoken', utterance') /\ Caller(spoken, utterance)
  BY <1>1 DEF Goes, LocalInv
<1>3. /\ spoken \in Seq(Nat) /\ n \in Nat /\ DOMAIN spoken = 1 .. n /\ utterance \in Nat
      /\ spoken # <<>>
  <2>1. spoken \in Seq(Nat) /\ utterance \in Nat
    BY <1>2 DEF Caller
  <2>. QED
    BY <1>1, <2>1
<1>4. y \in Items /\ y.type = "stop"
  BY DEF Items, Server!Control
<1>. HIDE DEF y
<1>5. CASE conn # "open"
  <2>1. conn' \in {"broken", "closed"}
    BY <1>1, <1>5 DEF LocalInv
  <2>. QED
    BY <1>1, <1>2, <2>1, AwayKeeps
<1>6. CASE conn = "open"
  <2>1. OpenInv /\ wire \in Seq(Items)
    BY <1>6 DEF LocalInv, OpenInv
  <2>2. PICK x \in Items :
          /\ TookLast(spoken, vad, srv, x) /\ Chain(spoken, utterance, x, wire)
          /\ SentLast(spoken, utterance, speaking, EndOf(x, wire))
    BY <2>1 DEF OpenInv, StreamInv
  <2>. DEFINE z == EndOf(x, wire)
  <2>3. z \in Items
    BY <2>1, <2>2 DEF EndOf
  <2>. HIDE DEF z
  <2>4. z.type = "audio" /\ z.frame = n /\ speaking
    BY <1>1, <1>3, <2>2, <2>3 DEF SentLast, z, Items
  <2>5. wire' = Append(wire, y) /\ speaking' = FALSE
    BY <1>6, <2>4 DEF Server!EndSpeech, y
  <2>6. Chain(spoken', utterance', x, wire)
    BY <1>2, <2>1, <2>2, ChainGoes DEF TookLast
  <2>7. Follows(spoken', utterance', z, y)
    <3>1. IsLast(spoken', utterance', n)
      BY <1>1, <1>3 DEF IsLast
    <3>. QED
      BY <1>4, <2>4, <3>1 DEF Follows
  <2>8. SentLast(spoken', utterance', speaking', y)
    BY <1>1, <1>3, <1>4, <2>5 DEF SentLast
  <2>9. StreamInv'
    BY <1>1, <1>2, <1>4, <2>1, <2>2, <2>5, <2>6, <2>7, <2>8, StreamAppend DEF z
  <2>10. wire' \in Seq(Items) /\ \A j \in DOMAIN wire' :
            \/ j \in DOMAIN wire /\ wire'[j] = wire[j]
            \/ wire'[j] = y
    BY <1>4, <2>1, <2>5
  <2>11. OpenInv' /\ HeardInv'
    <3>1. Fresh(y) /\ y.type # "audio"
      BY <1>4 DEF Fresh
    <3>2. HeardInv
      BY DEF LocalInv
    <3>. QED
      BY <1>1, <1>2, <1>4, <2>1, <2>9, <2>10, <3>1, <3>2, ClientKeeps
  <2>. QED
    BY <1>1, <1>2, <1>6, <2>11, CallerGoes DEF LocalInv
<1>. QED
  BY <1>5, <1>6

LEMMA LocalReceive == ASSUME LocalInv, Server!Receive PROVE LocalInv'
<1>1. /\ conn = "open" /\ conn' = conn /\ results # <<>> /\ results' = Tail(results) /\ OpenInv
      /\ UNCHANGED <<vad, speaking, spoken, utterance, wire, srv>>
  BY DEF Server!Receive, LocalInv
<1>. DEFINE r == Head(results)
            s == spoken
<1>2. /\ results \in Seq(Results) /\ r \in Results /\ r = results[1] /\ 1 \in DOMAIN results
      /\ results' \in Seq(Results)
      /\ \A i \in DOMAIN results' : results'[i] = results[i + 1] /\ i + 1 \in DOMAIN results
      /\ DOMAIN results \subseteq Nat /\ DOMAIN results' \subseteq Nat
      /\ \A i \in DOMAIN results' : 1 < i + 1
  <2>1. results \in Seq(Results)
    BY <1>1 DEF OpenInv, Coming
  <2>. QED
    BY <1>1, <2>1
<1>3. IsResult(s, utterance, vad, r)
  BY <1>1, <1>2 DEF OpenInv, Coming
<1>4. Coming(spoken', utterance', vad', results')
  BY <1>1, <1>2 DEF OpenInv, Coming
<1>5. \/ heard' = heard /\ ~r.final
      \/ heard' = Append(heard, r) /\ FinalInv(s, utterance, vad, r) /\ r.final
  <2>1. heard' = IF r.pass = "offline" \/ r.final THEN Append(heard, r) ELSE heard
    BY DEF Server!Receive
  <2>2. CASE r.final
    BY <1>3, <2>1, <2>2 DEF IsResult
  <2>3. CASE ~r.final
    BY <1>3, <2>1, <2>3 DEF IsResult
  <2>. QED
    BY <2>2, <2>3
<1>. HIDE DEF r
<1>6. CASE heard' = heard /\ ~r.final
  <2>1. HeardInv'
    BY <1>1, <1>6 DEF LocalInv, HeardInv
  <2>2. ASSUME ~vad PROVE FinalsOrder'
    <3>1. FinalsOrder
      BY <1>1, <2>2 DEF OpenInv
    <3>2. \A i \in DOMAIN results' :
            results'[i].final => Past(spoken, srv.frames, wire, results'[i])
      BY <1>2, <3>1 DEF FinalsOrder
    <3>3. \A i \in DOMAIN heard, j \in DOMAIN results' : results'[j].final =>
            Utter(spoken, heard[i]) < Utter(spoken, results'[j])
      BY <1>2, <3>1 DEF FinalsOrder
    <3>4. \A i, j \in DOMAIN results' : i < j /\ results'[i].final /\ results'[j].final =>
            Utter(spoken, results'[i]) < Utter(spoken, results'[j])
      <4>1. \A i, j \in DOMAIN results' : i < j => i + 1 < j + 1
        BY <1>2
      <4>. QED
        BY <1>2, <3>1, <4>1 DEF FinalsOrder
    <3>. QED
      BY <1>1, <1>6, <3>1, <3>2, <3>3, <3>4 DEF FinalsOrder
  <2>3. OpenInv'
    BY <1>1, <1>4, <2>2 DEF OpenInv, StreamInv, KeptInv, WholeInv
  <2>. QED
    BY <1>1, <2>1, <2>3 DEF LocalInv
<1>7. CASE heard' = Append(heard, r) /\ FinalInv(s, utterance, vad, r) /\ r.final
  <2>1. /\ heard \in Seq(Results) /\ heard' \in Seq(Results) /\ DOMAIN heard = 1 .. Len(heard)
        /\ Len(heard) \in Nat /\ DOMAIN heard' = 1 .. Len(heard) + 1
        /\ \A i \in 1 .. Len(heard) : heard'[i] = heard[i]
        /\ heard'[Len(heard) + 1] = r
    <3>1. heard \in Seq(Results)
      BY DEF LocalInv, HeardInv
    <3>. QED
      BY <1>2, <1>7, <3>1
  <2>2. \A i \in DOMAIN heard' :
          \/ i \in DOMAIN heard /\ heard'[i] = heard[i]
          \/ i = Len(heard) + 1 /\ heard'[i] = r
    BY <2>1
  <2>3. ~vad => \A i \in DOMAIN heard : Utter(s, heard[i]) < Utter(s, r)
    BY <1>1, <1>2, <1>7 DEF OpenInv, FinalsOrder, r
  <2>4. HeardInv'
    <3>1. \A i \in DOMAIN heard' : FinalInv(s, utterance, vad, heard'[i])
      BY <1>7, <2>2 DEF LocalInv, HeardInv
    <3>2. ASSUME ~vad, NEW i \in DOMAIN heard', NEW j \in DOMAIN heard', i < j
          PROVE  Utter(s, heard'[i]) < Utter(s, heard'[j])
      <4>1. i \in DOMAIN heard /\ heard'[i] = heard[i]
        BY <2>1, <3>2
      <4>2. CASE j \in DOMAIN heard /\ heard'[j] = heard[j]
        BY <3>2, <4>1, <4>2 DEF LocalInv, HeardInv
      <4>3. CASE heard'[j] = r
        BY <2>3, <3>2, <4>1, <4>3
      <4>. QED
        BY <2>2, <3>2, <4>2, <4>3
    <3>. QED
      BY <1>1, <2>1, <3>1, <3>2 DEF HeardInv
  <2>5. ASSUME ~vad PROVE FinalsOrder'
    <3>1. FinalsOrder
      BY <1>1, <2>5 DEF OpenInv
    <3>2. \A i \in DOMAIN results' :
            results'[i].final => Past(spoken, srv.frames, wire, results'[i])
      BY <1>2, <3>1 DEF FinalsOrder
    <3>3. \A i \in DOMAIN heard' : Past(spoken, srv.frames, wire, heard'[i])
      <4>1. Past(spoken, srv.frames, wire, r)
        BY <1>2, <1>7, <3>1 DEF FinalsOrder
      <4>. QED
        BY <2>2, <3>1, <4>1 DEF FinalsOrder
    <3>4. ASSUME NEW i \in DOMAIN heard', NEW j \in DOMAIN results', results'[j].final
          PROVE  Utter(spoken, heard'[i]) < Utter(spoken, results'[j])
      <4>1. results'[j] = results[j + 1] /\ j + 1 \in DOMAIN results /\ 1 < j + 1
        BY <1>2, <3>4
      <4>2. CASE heard'[i] = r
        BY <1>2, <1>7, <3>1, <3>4, <4>1, <4>2 DEF FinalsOrder
      <4>3. CASE i \in DOMAIN heard /\ heard'[i] = heard[i]
        BY <3>1, <3>4, <4>1, <4>3 DEF FinalsOrder
      <4>. QED
        BY <2>2, <3>4, <4>2, <4>3
    <3>5. \A i, j \in DOMAIN results' : i < j /\ results'[i].final /\ results'[j].final =>
            Utter(spoken, results'[i]) < Utter(spoken, results'[j])
      <4>1. \A i, j \in DOMAIN results' : i < j => i + 1 < j + 1
        BY <1>2
      <4>. QED
        BY <1>2, <3>1, <4>1 DEF FinalsOrder
    <3>. QED
      BY <1>1, <3>2, <3>3, <3>4, <3>5 DEF FinalsOrder
  <2>6. OpenInv'
    BY <1>1, <1>4, <2>5 DEF OpenInv, StreamInv, KeptInv, WholeInv
  <2>. QED
    BY <1>1, <2>4, <2>6 DEF LocalInv
<1>. QED
  BY <1>5, <1>6, <1>7

(* The server: it takes what is next and keeps k of it.                    *)
LEMMA StreamTaken ==
  ASSUME OpenInv, NEW x \in Items, Chain(spoken, utterance, x, wire), wire # <<>>,
         SentLast(spoken, utterance, speaking, EndOf(x, wire)), wire' = Tail(wire),
         UNCHANGED <<vad, speaking, spoken, utterance>>, TookLast(spoken, vad, srv', Head(wire))
  PROVE  StreamInv' /\ wire' \in Seq(Items)
<1>1. wire \in Seq(Items)
  BY DEF OpenInv
<1>2. /\ Chain(spoken, utterance, Head(wire), Tail(wire)) /\ Head(wire) \in Items
      /\ EndOf(Head(wire), Tail(wire)) = EndOf(x, wire) /\ Tail(wire) \in Seq(Items)
  BY <1>1, ChainTail
<1>3. PICK y \in Items : y = Head(wire)
  BY <1>2
<1>4. /\ TookLast(spoken', vad', srv', y) /\ Chain(spoken', utterance', y, wire')
      /\ SentLast(spoken', utterance', speaking', EndOf(y, wire'))
  BY <1>2, <1>3
<1>. QED
  BY <1>2, <1>4 DEF StreamInv

LEMMA PastTail ==
  ASSUME NEW s, NEW f, NEW w \in Seq(Items), w # <<>>, NEW r, Past(s, f, w, r), NEW f2,
         f \in Seq(Nat),
         f2 \in {f, <<>>} \/ (w[1].type = "audio" /\ f2 = Append(f, w[1].frame))
  PROVE  Past(s, f2, Tail(w), r)
<1>1. \A i \in DOMAIN Tail(w) : Tail(w)[i] = w[i + 1] /\ i + 1 \in DOMAIN w
  OBVIOUS
<1>2. \A j \in DOMAIN Tail(w) : Tail(w)[j].type = "audio" => Utter(s, r) < s[Tail(w)[j].frame]
  BY <1>1 DEF Past
<1>3. f2 # <<>> => Utter(s, r) < s[f2[1]]
  <2>1. CASE f2 \in {f, <<>>}
    BY <2>1 DEF Past
  <2>2. CASE w[1].type = "audio" /\ f2 = Append(f, w[1].frame)
    <3>1. 1 \in DOMAIN w /\ w[1].frame \in Nat
      <4>1. 1 \in DOMAIN w /\ w[1] \in Items
        OBVIOUS
      <4>. QED
        BY <4>1 DEF Items
    <3>2. f2[1] = IF f = <<>> THEN w[1].frame ELSE f[1]
      BY <2>2, <3>1
    <3>. QED
      BY <2>2, <3>1, <3>2 DEF Past
  <2>. QED
    BY <2>1, <2>2
<1>. QED
  BY <1>2, <1>3 DEF Past

(* Without a detector: results as they were, with a partial, or with the   *)
(* final of what was kept.                                                 *)
LEMMA OrderTaken ==
  ASSUME FinalsOrder, wire \in Seq(Items), wire # <<>>, wire' = Tail(wire), srv.frames \in Seq(Nat),
         UNCHANGED <<spoken, heard>>, results \in Seq(Results),
         srv'.frames \in {srv.frames, <<>>}
           \/ (wire[1].type = "audio" /\ srv'.frames = Append(srv.frames, wire[1].frame)),
         \/ results' = results
         \/ \E r \in Results :
              /\ results' = Append(results, r)
              /\ r.final => /\ srv.frames # <<>> /\ r.frames = srv.frames
                            /\ Past(spoken, srv'.frames, wire', r)
  PROVE  FinalsOrder'
<1>1. \A r : Past(spoken, srv.frames, wire, r) => Past(spoken, srv'.frames, wire', r)
  BY PastTail
<1>2. \A i \in DOMAIN heard : Past(spoken, srv'.frames, wire', heard[i])
  BY <1>1 DEF FinalsOrder
<1>3. CASE results' = results
  BY <1>1, <1>2, <1>3 DEF FinalsOrder
<1>4. ASSUME NEW r \in Results, results' = Append(results, r),
             r.final => /\ srv.frames # <<>> /\ r.frames = srv.frames
                        /\ Past(spoken, srv'.frames, wire', r)
      PROVE  FinalsOrder'
  <2>1. /\ DOMAIN results' = 1 .. Len(results) + 1 /\ DOMAIN results = 1 .. Len(results)
        /\ Len(results) \in Nat /\ results'[Len(results) + 1] = r
        /\ \A i \in 1 .. Len(results) : results'[i] = results[i]
    BY <1>4
  <2>2. \A i \in DOMAIN results' :
          \/ i \in DOMAIN results /\ results'[i] = results[i]
          \/ i = Len(results) + 1 /\ results'[i] = r
    BY <2>1
  <2>3. r.final => \A q : Past(spoken, srv.frames, wire, q) => Utter(spoken, q) < Utter(spoken, r)
    BY <1>4 DEF Past, Utter
  <2>4. \A i \in DOMAIN results' : results'[i].final =>
          Past(spoken, srv'.frames, wire', results'[i])
    BY <1>1, <1>4, <2>2 DEF FinalsOrder
  <2>5. \A i \in DOMAIN heard, j \in DOMAIN results' : results'[j].final =>
          Utter(spoken, heard[i]) < Utter(spoken, results'[j])
    BY <2>2, <2>3 DEF FinalsOrder
  <2>6. ASSUME NEW i \in DOMAIN results', NEW j \in DOMAIN results', i < j,
               results'[i].final, results'[j].final
        PROVE  Utter(spoken, results'[i]) < Utter(spoken, results'[j])
    <3>1. i \in DOMAIN results /\ results'[i] = results[i]
      BY <2>1, <2>6
    <3>2. CASE j \in DOMAIN results /\ results'[j] = results[j]
      BY <2>6, <3>1, <3>2 DEF FinalsOrder
    <3>3. CASE results'[j] = r
      BY <2>3, <2>6, <3>1, <3>3 DEF FinalsOrder
    <3>. QED
      BY <2>2, <2>6, <3>2, <3>3
  <2>. QED
    BY <1>2, <1>4, <2>4, <2>5, <2>6 DEF FinalsOrder
<1>. QED
  BY <1>3, <1>4

LEMMA StopIs ==
  ASSUME NEW k \in ServerState, NEW t, t = Server!AfterStop(k)
  PROVE  /\ t \in ServerState /\ t.frames = <<>> /\ t.asr = <<>> /\ t.started = FALSE
         /\ t.speaking = k.speaking
<1>1. PICK nothing : nothing = <<>> /\ nothing \in Seq(Nat)
  <2>1. <<>> \in Seq(Nat)
    OBVIOUS
  <2>. QED
    BY <2>1
<1>2. t = [k EXCEPT !.frames = nothing, !.asr = nothing, !.online = 0, !.started = FALSE,
                    !.ended = FALSE]
  BY <1>1 DEF Server!AfterStop
<1>3. t \in ServerState
  <2>1. t = [frames |-> nothing, asr |-> nothing, online |-> 0, started |-> FALSE,
             ended |-> FALSE, speaking |-> k.speaking]
    BY <1>2 DEF ServerState
  <2>2. k.speaking \in BOOLEAN
    BY DEF ServerState
  <2>3. FALSE \in BOOLEAN /\ TRUE \in BOOLEAN /\ 0 \in Nat
    OBVIOUS
  <2>. QED
    BY <1>1, <2>1, <2>2 DEF ServerState
<1>4. t.frames = nothing /\ t.asr = nothing
  BY <1>2 DEF ServerState
<1>5. t.started = FALSE
  BY <1>2 DEF ServerState
<1>6. t.speaking = k.speaking
  BY <1>2 DEF ServerState
<1>. QED
  BY <1>1, <1>3, <1>4, <1>5, <1>6

LEMMA EndIs ==
  ASSUME NEW k \in ServerState, NEW t, t = Server!AfterEnd(k),
         Server!LastOf(k.frames, Kept) \in Seq(Nat)
  PROVE  /\ t \in ServerState /\ t.frames = Server!LastOf(k.frames, Kept) /\ t.asr = <<>>
         /\ t.speaking = k.speaking
<1>1. PICK nothing : nothing = <<>> /\ nothing \in Seq(Nat)
  <2>1. <<>> \in Seq(Nat)
    OBVIOUS
  <2>. QED
    BY <2>1
<1>2. t = [k EXCEPT !.frames = Server!LastOf(k.frames, Kept), !.asr = nothing, !.online = 0,
                    !.started = FALSE, !.ended = TRUE]
  BY <1>1 DEF Server!AfterEnd
<1>3. t \in ServerState
  <2>1. t = [frames |-> Server!LastOf(k.frames, Kept), asr |-> nothing, online |-> 0,
             started |-> FALSE, ended |-> TRUE, speaking |-> k.speaking]
    BY <1>2 DEF ServerState
  <2>2. k.speaking \in BOOLEAN
    BY DEF ServerState
  <2>3. FALSE \in BOOLEAN /\ TRUE \in BOOLEAN /\ 0 \in Nat
    OBVIOUS
  <2>. QED
    BY <1>1, <2>1, <2>2 DEF ServerState
<1>4. t.frames = Server!LastOf(k.frames, Kept) /\ t.asr = nothing
  BY <1>2 DEF ServerState
<1>5. t.speaking = k.speaking
  BY <1>2 DEF ServerState
<1>. QED
  BY <1>1, <1>3, <1>4, <1>5

LEMMA LocalControl == ASSUME LocalInv, Server!HandleControl PROVE LocalInv'
<1>1. /\ conn = "open" /\ conn' = conn /\ wire # <<>> /\ wire' = Tail(wire) /\ OpenInv
      /\ UNCHANGED <<vad, speaking, spoken, utterance, heard>>
      /\ Head(wire).type \in {"start", "stop"}
  BY DEF Server!HandleControl, LocalInv
<1>2. PICK x \in Items :
        /\ TookLast(spoken, vad, srv, x) /\ Chain(spoken, utterance, x, wire)
        /\ SentLast(spoken, utterance, speaking, EndOf(x, wire))
  BY <1>1 DEF OpenInv, StreamInv
<1>3. wire \in Seq(Items) /\ results \in Seq(Results) /\ Coming(spoken, utterance, vad, results)
  BY <1>1 DEF OpenInv, Coming
<1>4. /\ Follows(spoken, utterance, x, Head(wire)) /\ Head(wire) \in Items /\ Head(wire) = wire[1]
      /\ 1 \in DOMAIN wire
      /\ \A i \in DOMAIN wire' : wire'[i] = wire[i + 1] /\ i + 1 \in DOMAIN wire
      /\ DOMAIN wire' \subseteq Nat
  <2>1. DOMAIN wire' \subseteq Nat
    BY <1>1, <1>3
  <2>. QED
    BY <1>1, <1>2, <1>3, <2>1, ChainTail
<1>5. /\ srv \in ServerState /\ IsRun(spoken, srv.frames) /\ IsRun(spoken, srv.asr)
      /\ srv.frames \in Seq(Nat)
  BY <1>1 DEF LocalInv, OpenInv, KeptInv, IsRun
<1>6. CASE Head(wire).type = "start"
  <2>1. srv' = [srv EXCEPT !.speaking = TRUE] /\ results' = results
    <3>. DEFINE k == [srv EXCEPT !.speaking = (Head(wire).type = "start")]
    <3>1. k.speaking /\ k = [srv EXCEPT !.speaking = TRUE]
      BY <1>5, <1>6 DEF ServerState
    <3>. HIDE DEF k
    <3>2. srv' = k /\ results' = results
      BY <3>1 DEF Server!HandleControl, k
    <3>. QED
      BY <3>1, <3>2
  <2>2. /\ srv'.frames = srv.frames /\ srv'.asr = srv.asr /\ srv'.started = srv.started
        /\ srv'.speaking = TRUE /\ srv' \in ServerState
    BY <1>5, <2>1 DEF ServerState
  <2>3. srv.frames = <<>>
    <3>1. x.type = "stop"
      BY <1>4, <1>6 DEF Follows
    <3>. QED
      BY <1>2, <3>1 DEF TookLast
  <2>4. TookLast(spoken, vad, srv', Head(wire))
    BY <1>6, <2>2, <2>3 DEF TookLast
  <2>5. StreamInv' /\ wire' \in Seq(Items)
    BY <1>1, <1>2, <2>4, StreamTaken
  <2>6. KeptInv'
    BY <1>1, <2>2 DEF OpenInv, KeptInv
  <2>7. ASSUME ~vad PROVE WholeInv' /\ FinalsOrder'
    <3>1. WholeInv /\ FinalsOrder
      BY <1>1, <2>7 DEF OpenInv
    <3>2. WholeInv'
      <4>1. \A i, j \in DOMAIN wire' : i < j => i + 1 < j + 1
        BY <1>4
      <4>. QED
        BY <1>1, <1>4, <2>2, <2>3, <3>1, <4>1 DEF WholeInv
    <3>3. FinalsOrder'
      BY <1>1, <1>3, <1>5, <2>1, <2>2, <3>1, OrderTaken
    <3>. QED
      BY <3>2, <3>3
  <2>8. OpenInv'
    BY <1>1, <1>3, <2>1, <2>5, <2>6, <2>7 DEF OpenInv
  <2>. QED
    BY <1>1, <2>2, <2>8 DEF LocalInv, HeardInv
<1>7. CASE Head(wire).type = "stop"
  <2>. DEFINE k == [srv EXCEPT !.speaking = FALSE]
              f == Server!Whole(k)
  <2>1. /\ srv' = Server!AfterStop(k)
        /\ \E out \in Server!Recognise("offline", TRUE, f) : results' = results \o out
    <3>1. k.speaking = FALSE /\ k = [srv EXCEPT !.speaking = (Head(wire).type = "start")]
      BY <1>5, <1>7 DEF ServerState
    <3>. HIDE DEF k
    <3>. QED
      BY <3>1 DEF Server!HandleControl
  <2>2. /\ srv'.frames = <<>> /\ srv'.asr = <<>> /\ srv'.started = FALSE /\ srv' \in ServerState
        /\ srv'.speaking = FALSE
    <3>1. k \in ServerState /\ k.speaking = FALSE
      BY <1>5 DEF ServerState
    <3>. HIDE DEF k
    <3>. QED
      BY <2>1, <3>1, StopIs
  <2>3. f = IF srv.asr # <<>> THEN srv.asr ELSE srv.frames
    BY <1>5 DEF Server!Whole, ServerState
  <2>. HIDE DEF k, f
  <2>4. x.type = "audio" /\ IsLast(spoken, utterance, x.frame) /\ x.frame \in DOMAIN spoken
    BY <1>2, <1>4, <1>7 DEF Follows, TookLast
  <2>5. TookLast(spoken, vad, srv', Head(wire))
    BY <1>7, <2>2 DEF TookLast
  <2>6. StreamInv' /\ wire' \in Seq(Items)
    BY <1>1, <1>2, <2>5, StreamTaken
  <2>7. KeptInv'
    <3>1. IsRun(spoken, <<>>)
      BY DEF IsRun
    <3>. QED
      BY <1>1, <2>2, <3>1 DEF KeptInv
  <2>. DEFINE r == [pass |-> "offline", final |-> TRUE, frames |-> f]
  <2>8. results' = results \/ (f # <<>> /\ results' = results \o <<r>>)
    <3>1. PICK out \in Server!Recognise("offline", TRUE, f) : results' = results \o out
      BY <2>1
    <3>2. out = <<>> \/ (f # <<>> /\ out = <<r>>)
      BY DEF Server!Recognise
    <3>3. results \o <<>> = results
      BY <1>3
    <3>. QED
      BY <3>1, <3>2, <3>3
  <2>9. /\ IsRun(spoken, f) /\ f \in Seq(Nat) /\ r \in Results /\ r.pass = "offline" /\ r.final
        /\ r.frames = f
    BY <1>5, <2>3 DEF IsRun, Results
  <2>. HIDE DEF r
  <2>10. ASSUME ~vad PROVE /\ f = srv.frames /\ f # <<>> /\ IsFirst(spoken, f[1])
                           /\ IsLast(spoken, utterance, f[Len(f)])
    <3>1. WholeInv
      BY <1>1, <2>10 DEF OpenInv
    <3>2. f = srv.frames /\ f # <<>>
      BY <1>2, <2>3, <2>4, <2>10, <3>1 DEF WholeInv, TookLast
    <3>3. f[Len(f)] = x.frame
      BY <1>2, <3>2 DEF TookLast
    <3>. QED
      BY <2>4, <3>1, <3>2, <3>3 DEF WholeInv
  <2>11. Coming(spoken', utterance', vad', results')
    <3>1. CASE f # <<>> /\ results' = results \o <<r>>
      <4>1. results' = Append(results, r)
        BY <1>3, <2>9, <3>1
      <4>2. FinalInv(spoken, utterance, vad, r)
        BY <2>9, <2>10, <3>1 DEF FinalInv
      <4>3. IsResult(spoken, utterance, vad, r)
        BY <2>9, <4>2 DEF IsResult
      <4>. QED
        BY <1>1, <1>3, <4>1, <4>3, ComingAppend
    <3>2. CASE results' = results
      BY <1>1, <1>3, <3>2
    <3>. QED
      BY <2>8, <3>1, <3>2
  <2>12. ASSUME ~vad PROVE WholeInv' /\ FinalsOrder'
    <3>1. WholeInv /\ FinalsOrder
      BY <1>1, <2>12 DEF OpenInv
    <3>2. WholeInv'
      <4>1. \A i, j \in DOMAIN wire' : i < j => i + 1 < j + 1
        BY <1>4
      <4>. QED
        BY <1>1, <1>4, <2>2, <3>1, <4>1 DEF WholeInv
    <3>3. Past(spoken, <<>>, wire', r)
      <4>1. ASSUME NEW j \in DOMAIN wire', wire'[j].type = "audio"
            PROVE  Utter(spoken, r) < spoken[wire'[j].frame]
        <5>1. wire'[j] = wire[j + 1] /\ j + 1 \in DOMAIN wire
          BY <1>4, <4>1
        <5>2. wire'[j].frame \in DOMAIN spoken
          BY <1>2, <4>1, <5>1 DEF Chain, Follows
        <5>3. Len(f) \in DOMAIN f /\ 1 \in DOMAIN f
          BY <2>9, <2>10, <2>12
        <5>4. f[Len(f)] < wire'[j].frame
          BY <2>10, <2>12, <3>1, <4>1, <5>1, <5>3 DEF WholeInv
        <5>5. spoken[f[Len(f)]] < spoken[wire'[j].frame]
          BY <2>10, <2>12, <5>2, <5>4 DEF IsLast
        <5>6. spoken[f[Len(f)]] = spoken[f[1]]
          BY <2>9, <5>3 DEF IsRun
        <5>. QED
          BY <2>9, <5>5, <5>6 DEF Utter
      <4>. QED
        BY <4>1 DEF Past
    <3>4. \/ results' = results
          \/ \E q \in Results :
               /\ results' = Append(results, q)
               /\ q.final => /\ srv.frames # <<>> /\ q.frames = srv.frames
                             /\ Past(spoken, srv'.frames, wire', q)
      <4>1. results \o <<r>> = Append(results, r)
        BY <1>3, <2>9
      <4>. QED
        BY <2>2, <2>8, <2>9, <2>10, <2>12, <3>3, <4>1
    <3>5. FinalsOrder'
      BY <1>1, <1>3, <1>5, <2>2, <3>1, <3>4, OrderTaken
    <3>. QED
      BY <3>2, <3>5
  <2>13. OpenInv'
    BY <1>1, <2>6, <2>7, <2>11, <2>12 DEF OpenInv
  <2>. QED
    BY <1>1, <2>2, <2>13 DEF LocalInv, HeardInv
<1>. QED
  BY <1>1, <1>6, <1>7

LEMMA LocalAudio == ASSUME LocalInv, Kept \in Nat, Server!HandleAudio PROVE LocalInv'
<1>1. /\ conn = "open" /\ conn' = conn /\ wire # <<>> /\ wire' = Tail(wire) /\ OpenInv
      /\ UNCHANGED <<vad, speaking, spoken, utterance, heard>> /\ Head(wire).type = "audio"
  BY DEF Server!HandleAudio, LocalInv
<1>2. PICK x \in Items :
        /\ TookLast(spoken, vad, srv, x) /\ Chain(spoken, utterance, x, wire)
        /\ SentLast(spoken, utterance, speaking, EndOf(x, wire))
  BY <1>1 DEF OpenInv, StreamInv
<1>3. /\ wire \in Seq(Items) /\ results \in Seq(Results) /\ Coming(spoken, utterance, vad, results)
      /\ vad \in BOOLEAN
  BY <1>1 DEF OpenInv, Coming, LocalInv
<1>4. /\ Follows(spoken, utterance, x, Head(wire)) /\ Head(wire) \in Items /\ Head(wire) = wire[1]
      /\ 1 \in DOMAIN wire
      /\ \A i \in DOMAIN wire' : wire'[i] = wire[i + 1] /\ i + 1 \in DOMAIN wire
      /\ DOMAIN wire' \subseteq Nat /\ \A i \in DOMAIN wire' : 1 < i + 1
  <2>1. DOMAIN wire' \subseteq Nat /\ \A i \in DOMAIN wire' : 1 < i + 1
    BY <1>1, <1>3
  <2>. QED
    BY <1>1, <1>2, <1>3, <2>1, ChainTail
<1>5. /\ srv \in ServerState /\ IsRun(spoken, srv.frames) /\ IsRun(spoken, srv.asr)
      /\ srv.frames \in Seq(Nat) /\ srv.asr \in Seq(Nat)
      /\ srv.asr # <<>> => srv.frames # <<>> /\ srv.asr[Len(srv.asr)] = srv.frames[Len(srv.frames)]
  BY <1>1 DEF LocalInv, OpenInv, KeptInv, IsRun
<1>. DEFINE n == Head(wire).frame
            all == Append(srv.frames, n)
<1>6. /\ n \in DOMAIN spoken /\ n \in Nat /\ x.type \in {"audio", "start"} /\ srv.speaking = TRUE
      /\ x.type = "audio" => n = x.frame + 1 /\ spoken[n] = spoken[x.frame]
      /\ x.type = "start" => IsFirst(spoken, n)
  <2>1. n \in Nat
    BY <1>4 DEF Items
  <2>2. x.type \in {"audio", "start"}
    BY <1>1, <1>4 DEF Follows, Items
  <2>3. srv.speaking = TRUE
    BY <1>2, <1>5, <2>2 DEF TookLast, ServerState
  <2>. QED
    BY <1>1, <1>4, <2>1, <2>2, <2>3 DEF Follows
<1>7. PICK v \in Server!Verdicts :
        LET due == (srv.online + 1) % ChunkInterval = 0 \/ srv.ended
            asr == IF v.start THEN Server!LastOf(all, v.back)
                   ELSE IF srv.started THEN Append(srv.asr, n) ELSE srv.asr
            k == [srv EXCEPT !.frames = all, !.asr = asr, !.ended = v.end,
                             !.online = IF due THEN 0 ELSE @ + 1,
                             !.started = @ \/ v.start]
        IN  \E partial \in IF due /\ ~srv.ended
                           THEN Server!Recognise("online", ~srv.speaking, <<n>>) ELSE {<<>>} :
              IF ~v.end /\ srv.speaking
              THEN srv' = k /\ results' = results \o partial
              ELSE /\ srv' = IF v.end THEN Server!AfterEnd(k) ELSE Server!AfterStop(k)
                   /\ \E out \in Server!Recognise("offline", TRUE, Server!Whole(k)) :
                         results' = results \o partial \o out
  BY DEF Server!HandleAudio
<1>8. /\ v.start \in BOOLEAN /\ v.end \in BOOLEAN /\ v.back \in Nat
      /\ ~vad => ~v.start /\ ~v.end
  <2>1. \/ v = [start |-> FALSE, back |-> 0, end |-> FALSE]
        \/ vad /\ v \in [start : {FALSE}, back : {0}, end : {TRUE}]
        \/ vad /\ v \in [start : {TRUE}, back : 0 .. Kept, end : BOOLEAN]
    BY DEF Server!Verdicts
  <2>2. CASE v = [start |-> FALSE, back |-> 0, end |-> FALSE]
    BY <2>2
  <2>3. CASE vad /\ v \in [start : {FALSE}, back : {0}, end : {TRUE}]
    <3>1. v.start = FALSE /\ v.back = 0 /\ v.end = TRUE
      BY <2>3
    <3>2. v.start \in BOOLEAN /\ v.end \in BOOLEAN
      BY <3>1, Zenon
    <3>3. v.back \in Nat
      BY <3>1
    <3>. QED
      BY <2>3, <3>2, <3>3
  <2>4. CASE vad /\ v \in [start : {TRUE}, back : 0 .. Kept, end : BOOLEAN]
    <3>1. v.start \in {TRUE} /\ v.back \in 0 .. Kept /\ v.end \in BOOLEAN
      BY <2>4
    <3>2. v.start \in BOOLEAN
      BY <3>1, Zenon
    <3>3. v.back \in Nat
      BY <3>1
    <3>. QED
      BY <2>4, <3>1, <3>2, <3>3
  <2>. QED
    BY <2>1, <2>2, <2>3, <2>4
<1>. DEFINE asr == IF v.start THEN Server!LastOf(all, v.back)
                   ELSE IF srv.started THEN Append(srv.asr, n) ELSE srv.asr
<1>9. /\ all \in Seq(Nat) /\ all # <<>> /\ all[Len(all)] = n /\ IsRun(spoken, all)
      /\ all[1] = IF srv.frames = <<>> THEN n ELSE srv.frames[1]
  <2>1. srv.frames # <<>> => /\ n = srv.frames[Len(srv.frames)] + 1
                             /\ spoken[n] = spoken[srv.frames[Len(srv.frames)]]
    BY <1>2, <1>6 DEF TookLast
  <2>2. spoken \in Seq(Nat)
    BY DEF LocalInv, Caller
  <2>3. IsRun(spoken, all)
    BY <1>5, <1>6, <2>1, <2>2, RunAppend
  <2>4. n \in Nat /\ srv.frames \in Seq(Nat)
    BY <1>5, <1>6
  <2>. HIDE DEF n
  <2>5. /\ all \in Seq(Nat) /\ Len(all) = Len(srv.frames) + 1 /\ Len(srv.frames) \in Nat
        /\ all[Len(srv.frames) + 1] = n /\ (srv.frames # <<>> => all[1] = srv.frames[1])
        /\ srv.frames = <<>> => Len(srv.frames) = 0
    BY <2>4
  <2>6. all # <<>>
    BY <2>4
  <2>7. srv.frames = <<>> => all[1] = n
    BY <2>5
  <2>. HIDE DEF all
  <2>. QED
    BY <2>3, <2>5, <2>6, <2>7
<1>10. IsRun(spoken, asr) /\ asr \in Seq(Nat) /\ (asr # <<>> => asr[Len(asr)] = n)
       /\ (asr # <<>> => srv.started \/ v.start)
  <2>1. CASE v.start
    <3>1. IsRun(spoken, asr) /\ (asr # <<>> => asr[Len(asr)] = n)
      <4>1. asr = Server!LastOf(all, v.back)
        BY <2>1
      <4>. HIDE DEF asr, all, n
      <4>. QED
        BY <1>8, <1>9, <4>1, RunEnd
    <3>2. asr \in Seq(Nat)
      BY <3>1 DEF IsRun
    <3>. QED
      BY <2>1, <3>1, <3>2
  <2>2. CASE ~v.start /\ srv.started
    <3>1. srv.asr # <<>> => /\ n = srv.asr[Len(srv.asr)] + 1
                            /\ spoken[n] = spoken[srv.asr[Len(srv.asr)]]
      BY <1>2, <1>5, <1>6 DEF TookLast
    <3>2. spoken \in Seq(Nat)
      BY DEF LocalInv, Caller
    <3>3. IsRun(spoken, Append(srv.asr, n))
      BY <1>5, <1>6, <3>1, <3>2, RunAppend
    <3>4. n \in Nat /\ srv.asr \in Seq(Nat)
      BY <1>5, <1>6
    <3>. HIDE DEF n
    <3>5. /\ Append(srv.asr, n) \in Seq(Nat)
          /\ Append(srv.asr, n)[Len(Append(srv.asr, n))] = n
      BY <3>4
    <3>. QED
      BY <2>2, <3>3, <3>5
  <2>3. CASE ~v.start /\ ~srv.started
    <3>1. srv.asr = <<>>
      BY <1>1, <2>3 DEF OpenInv, KeptInv
    <3>. QED
      BY <1>5, <2>3, <3>1
  <2>. QED
    BY <1>8, <2>1, <2>2, <2>3
<1>. HIDE DEF asr, all
<1>. DEFINE due == (srv.online + 1) % ChunkInterval = 0 \/ srv.ended
            k == [srv EXCEPT !.frames = all, !.asr = asr, !.ended = v.end,
                             !.online = IF due THEN 0 ELSE @ + 1,
                             !.started = @ \/ v.start]
            p == [pass |-> "online", final |-> FALSE, frames |-> <<n>>]
<1>11. /\ k \in ServerState /\ k.frames = all /\ k.asr = asr /\ k.speaking = TRUE
       /\ k.started = (srv.started \/ v.start)
  <2>1. (IF due THEN 0 ELSE srv.online + 1) \in Nat
    BY <1>5 DEF ServerState
  <2>. HIDE DEF due
  <2>. QED
    BY <1>5, <1>6, <1>8, <1>9, <1>10, <2>1 DEF ServerState
<1>12. /\ p \in Results /\ ~p.final /\ IsResult(spoken, utterance, vad, p)
  <2>1. <<n>> \in Seq(Nat)
    BY <1>6
  <2>. HIDE DEF n
  <2>. QED
    BY <2>1 DEF Results, IsResult
<1>13. PICK partial :
         /\ partial \in {<<>>, <<p>>}
         /\ IF ~v.end
            THEN srv' = k /\ results' = results \o partial
            ELSE /\ srv' = Server!AfterEnd(k)
                 /\ \E out \in Server!Recognise("offline", TRUE, Server!Whole(k)) :
                         results' = results \o partial \o out
  <2>1. PICK q \in IF due /\ ~srv.ended
                   THEN Server!Recognise("online", ~srv.speaking, <<n>>) ELSE {<<>>} :
              IF ~v.end /\ srv.speaking
              THEN srv' = k /\ results' = results \o q
              ELSE /\ srv' = IF v.end THEN Server!AfterEnd(k) ELSE Server!AfterStop(k)
                   /\ \E out \in Server!Recognise("offline", TRUE, Server!Whole(k)) :
                         results' = results \o q \o out
    BY <1>7 DEF asr, all
  <2>. HIDE DEF due, k
  <2>2. q \in {<<>>, <<p>>}
    BY <1>6, <2>1 DEF Server!Recognise
  <2>. QED
    BY <1>6, <2>1, <2>2
<1>. HIDE DEF k, p, due
<1>14. /\ Coming(spoken, utterance, vad, results \o partial) /\ results \o partial \in Seq(Results)
       /\ results \o partial = results \/ results \o partial = Append(results, p)
  <2>1. results \o <<>> = results /\ results \o <<p>> = Append(results, p)
    BY <1>3, <1>12
  <2>. QED
    BY <1>3, <1>12, <1>13, <2>1, ComingAppend DEF Coming
<1>15. CASE ~v.end
  <2>1. /\ srv'.frames = all /\ srv'.asr = asr /\ srv'.speaking = TRUE /\ srv' \in ServerState
        /\ srv'.started = (srv.started \/ v.start)
        /\ results' = results \/ results' = Append(results, p)
    BY <1>11, <1>13, <1>14, <1>15
  <2>2. TookLast(spoken, vad, srv', Head(wire))
    BY <1>1, <1>6, <1>9, <2>1 DEF TookLast
  <2>3. StreamInv' /\ wire' \in Seq(Items)
    BY <1>1, <1>2, <2>2, StreamTaken
  <2>4. KeptInv'
    BY <1>1, <1>9, <1>10, <2>1 DEF KeptInv
  <2>5. ASSUME ~vad PROVE WholeInv' /\ FinalsOrder'
    <3>1. WholeInv /\ FinalsOrder
      BY <1>1, <2>5 DEF OpenInv
    <3>2. srv'.asr = <<>> /\ ~srv'.started
      <4>1. ~v.start /\ ~srv.started /\ srv.asr = <<>>
        BY <1>8, <2>5, <3>1 DEF WholeInv
      <4>. QED
        BY <2>1, <4>1 DEF asr
    <3>3. IsFirst(spoken, all[1])
      <4>1. CASE srv.frames = <<>>
        <5>1. x.type = "start"
          BY <1>2, <1>6, <2>5, <4>1 DEF TookLast
        <5>. QED
          BY <1>6, <1>9, <4>1, <5>1
      <4>2. CASE srv.frames # <<>>
        BY <1>9, <3>1, <4>2 DEF WholeInv
      <4>. QED
        BY <4>1, <4>2
    <3>4. \A i, j \in DOMAIN wire' : i < j => i + 1 < j + 1
      BY <1>4
    <3>5. \A i \in DOMAIN all, j \in DOMAIN wire' :
            wire'[j].type = "audio" => all[i] < wire'[j].frame
      <4>1. \A i \in DOMAIN all : (i \in DOMAIN srv.frames /\ all[i] = srv.frames[i]) \/ all[i] = n
        <5>1. n \in Nat
          BY <1>6
        <5>. HIDE DEF n
        <5>. QED
          BY <1>5, <5>1 DEF all
      <4>2. \A j \in DOMAIN wire' : wire'[j].type = "audio" => n < wire'[j].frame
        BY <1>1, <1>4, <3>1 DEF WholeInv
      <4>3. \A i \in DOMAIN srv.frames, j \in DOMAIN wire' : wire'[j].type = "audio" =>
              srv.frames[i] < wire'[j].frame
        BY <1>4, <3>1 DEF WholeInv
      <4>. QED
        BY <4>1, <4>2, <4>3
    <3>6. WholeInv'
      BY <1>1, <1>4, <2>1, <3>1, <3>2, <3>3, <3>4, <3>5 DEF WholeInv
    <3>7. FinalsOrder'
      <4>1. wire[1].type = "audio" /\ srv'.frames = Append(srv.frames, wire[1].frame)
        BY <1>1, <1>4, <2>1 DEF all
      <4>. QED
        BY <1>1, <1>3, <1>5, <1>12, <2>1, <3>1, <4>1, OrderTaken
    <3>. QED
      BY <3>6, <3>7
  <2>6. OpenInv'
    BY <1>1, <1>13, <1>14, <1>15, <2>3, <2>4, <2>5 DEF OpenInv
  <2>. QED
    BY <1>1, <2>1, <2>6 DEF LocalInv, HeardInv
<1>16. CASE v.end
  <2>. DEFINE f == Server!Whole(k)
              r == [pass |-> "offline", final |-> TRUE, frames |-> f]
  <2>1. vad /\ srv' = Server!AfterEnd(k)
    BY <1>8, <1>13, <1>16
  <2>. DEFINE e == Server!LastOf(all, Kept)
  <2>2. IsRun(spoken, e) /\ e \in Seq(Nat) /\ (e # <<>> => e[Len(e)] = n)
    <3>1. IsRun(spoken, e) /\ (e # <<>> => e[Len(e)] = n)
      BY <1>9, RunEnd
    <3>2. e \in Seq(Nat)
      BY <3>1 DEF IsRun
    <3>. QED
      BY <3>1, <3>2
  <2>3. /\ srv'.frames = e /\ srv'.asr = <<>> /\ srv'.speaking = TRUE /\ srv' \in ServerState
    BY <1>11, <2>1, <2>2, EndIs
  <2>. HIDE DEF e
  <2>4. TookLast(spoken, vad, srv', Head(wire))
    BY <1>1, <1>6, <2>1, <2>2, <2>3 DEF TookLast
  <2>5. StreamInv' /\ wire' \in Seq(Items)
    BY <1>1, <1>2, <2>4, StreamTaken
  <2>6. KeptInv'
    <3>1. IsRun(spoken, <<>>)
      BY DEF IsRun
    <3>. QED
      BY <1>1, <2>2, <2>3, <3>1 DEF KeptInv
  <2>7. f \in {asr, all} /\ IsRun(spoken, f) /\ f \in Seq(Nat)
    BY <1>9, <1>10, <1>11 DEF Server!Whole
  <2>. HIDE DEF f
  <2>8. r \in Results /\ r.final /\ r.pass = "offline" /\ r.frames = f
    BY <2>7 DEF Results
  <2>. HIDE DEF r
  <2>9. PICK out : /\ out \in {<<>>, <<r>>} /\ (out = <<r>> => f # <<>>)
                   /\ results' = results \o partial \o out
    <3>1. PICK out \in Server!Recognise("offline", TRUE, f) : results' = results \o partial \o out
      BY <1>13, <1>16 DEF f
    <3>2. out = <<>> \/ (f # <<>> /\ out = <<r>>)
      BY DEF Server!Recognise, r
    <3>. QED
      BY <3>1, <3>2
  <2>10. Coming(spoken, utterance, vad, results')
    <3>. DEFINE rs == results \o partial
    <3>1. rs \in Seq(Results) /\ Coming(spoken, utterance, vad, rs) /\ results' = rs \o out
      BY <1>14, <2>9
    <3>. HIDE DEF rs
    <3>2. CASE out = <<>>
      BY <3>1, <3>2
    <3>3. CASE out = <<r>> /\ f # <<>>
      <4>1. FinalInv(spoken, utterance, vad, r)
        BY <2>1, <2>7, <2>8, <3>3 DEF FinalInv
      <4>2. IsResult(spoken, utterance, vad, r)
        BY <2>8, <4>1 DEF IsResult
      <4>3. results' = Append(rs, r)
        BY <2>8, <3>1, <3>3
      <4>. QED
        BY <3>1, <4>2, <4>3, ComingAppend
    <3>. QED
      BY <2>9, <3>2, <3>3
  <2>11. OpenInv'
    BY <1>1, <2>1, <2>5, <2>6, <2>10 DEF OpenInv
  <2>. QED
    BY <1>1, <2>3, <2>11 DEF LocalInv, HeardInv
<1>. QED
  BY <1>8, <1>15, <1>16

LEMMA LocalStart == ASSUME Server!Init PROVE LocalInv
<1>1. Caller(spoken, utterance) /\ HeardInv
  BY DEF Server!Init, Caller, HeardInv
<1>2. vad \in BOOLEAN /\ conn = "none" /\ srv \in ServerState
  <2>1. <<>> \in Seq(Nat)
    OBVIOUS
  <2>. QED
    BY <2>1 DEF Server!Init, ServerState
<1>. QED
  BY <1>1, <1>2 DEF LocalInv

(* A run between the first and the last frame is the whole utterance.      *)
LEMMA RunIsWhole ==
  ASSUME NEW s, NEW u, Caller(s, u), NEW q, IsRun(s, q), q # <<>>, IsFirst(s, q[1]),
         IsLast(s, u, q[Len(q)])
  PROVE  Server!ToSet(q) = {n \in 1 .. Len(s) : s[n] = s[q[1]]}
<1>1. /\ q \in Seq(Nat) /\ Len(q) \in Nat /\ DOMAIN q = 1 .. Len(q) /\ Len(q) \in DOMAIN q
      /\ 1 \in DOMAIN q /\ q[1] \in Nat
      /\ \A j \in DOMAIN q : q[j] \in DOMAIN s /\ q[j] = q[1] + j - 1 /\ s[q[j]] = s[q[1]]
  <2>1. q \in Seq(Nat) /\ Len(q) \in Nat /\ DOMAIN q = 1 .. Len(q)
    BY DEF IsRun
  <2>2. Len(q) \in DOMAIN q /\ 1 \in DOMAIN q /\ q[1] \in Nat
    BY <2>1
  <2>. QED
    BY <2>1, <2>2 DEF IsRun
<1>2. DOMAIN s = 1 .. Len(s) /\ Len(s) \in Nat /\ \A i \in 1 .. Len(s) : s[i] \in Nat
  <2>1. s \in Seq(Nat)
    BY DEF Caller
  <2>. QED
    BY <2>1
<1>3. Server!ToSet(q) = {q[j] : j \in DOMAIN q}
  BY DEF Server!ToSet
<1>4. ASSUME NEW n \in 1 .. Len(s), s[n] = s[q[1]] PROVE n \in Server!ToSet(q)
  <2>1. ~(n < q[1])
    BY <1>1, <1>2, <1>4 DEF IsFirst
  <2>2. ~(q[Len(q)] < n)
    <3>1. s[q[Len(q)]] = s[q[1]] /\ q[Len(q)] \in 1 .. Len(s)
      BY <1>1, <1>2
    <3>2. q[Len(q)] < n => s[q[Len(q)]] < s[n]
      BY <1>2, <1>4 DEF IsLast
    <3>3. s[n] \in Nat
      BY <1>2, <1>4
    <3>. QED
      BY <1>4, <3>1, <3>2, <3>3
  <2>3. q[Len(q)] = q[1] + Len(q) - 1
    BY <1>1
  <2>4. n - q[1] + 1 \in 1 .. Len(q)
    BY <1>1, <2>1, <2>2, <2>3
  <2>5. q[n - q[1] + 1] = q[1] + (n - q[1] + 1) - 1
    BY <1>1, <2>4
  <2>6. q[n - q[1] + 1] = n
    BY <1>1, <2>5
  <2>. QED
    BY <1>1, <1>3, <2>4, <2>6
<1>5. \A n \in Server!ToSet(q) : n \in 1 .. Len(s) /\ s[n] = s[q[1]]
  BY <1>1, <1>2, <1>3
<1>. QED
  BY <1>4, <1>5

(* What the agent is given as a sentence is of the second pass and of      *)
(* frames of one utterance, one after the other, wherever the detector and *)
(* the client cut the stream (FinalsKeepToUtterances); without a detector  *)
(* it is a whole utterance, and no utterance is given twice                *)
(* (OneFinalPerUtterance).                                                 *)
THEOREM UtterancesAreWhole ==
  ASSUME Kept \in Nat
  PROVE  Server!Spec => []Server!FinalsKeepToUtterances /\ []Server!OneFinalPerUtterance
<1>1. Server!Init => LocalInv
  BY LocalStart
<1>2. LocalInv /\ [Server!Next]_(Server!vars) => LocalInv'
  <2>. SUFFICES ASSUME LocalInv, [Server!Next]_(Server!vars) PROVE LocalInv'
    OBVIOUS
  <2>1. CASE Server!Break \/ Server!Close
    BY <2>1, AwayKeeps DEF Server!Break, Server!Close
  <2>2. CASE UNCHANGED Server!vars
    BY <2>2 DEF Server!vars, Server!Init, LocalInv, HeardInv, OpenInv, StreamInv, KeptInv, WholeInv,
       FinalsOrder
  <2>. QED
    BY <2>1, <2>2, LocalConnect, LocalSend, LocalEnd, LocalReceive, LocalControl, LocalAudio
       DEF Server!Next
<1>3. ASSUME LocalInv
      PROVE  /\ heard \in Seq(Results) /\ DOMAIN heard = 1 .. Len(heard)
             /\ \A i \in DOMAIN heard : FinalInv(spoken, utterance, vad, heard[i])
             /\ \A i \in DOMAIN heard : DOMAIN heard[i].frames = 1 .. Len(heard[i].frames)
  <2>1. heard \in Seq(Results) /\ \A i \in DOMAIN heard : FinalInv(spoken, utterance, vad, heard[i])
    BY <1>3 DEF LocalInv, HeardInv
  <2>2. \A i \in DOMAIN heard : heard[i].frames \in Seq(Nat)
    BY <2>1 DEF FinalInv, IsRun
  <2>. QED
    BY <2>1, <2>2
<1>4. LocalInv => Server!FinalsKeepToUtterances
  BY <1>3 DEF Server!FinalsKeepToUtterances, FinalInv, IsRun
<1>5. ASSUME LocalInv, ~vad PROVE Server!OneFinalPerUtterance
  <2>1. \A i \in 1 .. Len(heard) : Server!ToSet(heard[i].frames) =
          {n \in 1 .. Len(spoken) : spoken[n] = spoken[heard[i].frames[1]]}
    BY <1>3, <1>5, RunIsWhole DEF FinalInv, LocalInv
  <2>2. \A i \in DOMAIN heard : Utter(spoken, heard[i]) \in Nat
    BY <1>3, <1>5, FinalGoes DEF LocalInv, Goes
  <2>3. ASSUME NEW i \in 1 .. Len(heard), NEW j \in 1 .. Len(heard),
               heard[i].frames[1] = heard[j].frames[1]
        PROVE  i = j
    <3>1. Utter(spoken, heard[i]) = Utter(spoken, heard[j])
      BY <2>3 DEF Utter
    <3>2. \A k, m \in DOMAIN heard : k < m => Utter(spoken, heard[k]) < Utter(spoken, heard[m])
      BY <1>5 DEF LocalInv, HeardInv
    <3>3. i \in DOMAIN heard /\ j \in DOMAIN heard
      BY <1>3, <1>5, <2>3
    <3>4. ~(i < j) /\ ~(j < i)
      BY <2>2, <3>1, <3>2, <3>3
    <3>5. i \in Nat /\ j \in Nat
      OBVIOUS
    <3>. QED
      BY <3>4, <3>5
  <2>. QED
    BY <2>1, <2>3 DEF Server!OneFinalPerUtterance
<1>6. LocalInv => Server!OneFinalPerUtterance
  BY <1>5 DEF Server!OneFinalPerUtterance
<1>. QED
  BY <1>1, <1>2, <1>4, <1>6, PTL DEF Server!Spec

-----------------------------------------------------------------------------
(***************************************************************************)
(* Recognition in the cloud (SpeechToText.tla: stt.py).  A frame is given  *)
(* once and its word is then in one place: in the buffer, at the server,   *)
(* or in a sentence on its way.  What the client holds of a task, the      *)
(* server will still say, so a word that is reported can come again only   *)
(* from a task of which nothing more is taken.                             *)
(***************************************************************************)
Cloud == INSTANCE SpeechToText

Pairs == Nat \X Nat
ServerTask == [state : {"none", "asked", "running", "done", "failed"}, finish : BOOLEAN,
               heard : SUBSET Pairs, said : SUBSET Pairs]
Message == [task : Cloud!Tasks, event : {"started", "finished", "failed", "result"},
            text : SUBSET Pairs, final : BOOLEAN]

(* Tasks are asked for one after the other, and one that was not has       *)
(* nothing.  Of the old tasks at most the last is still listened to.       *)
CloudTypes ==
  /\ Utterances \in Nat
  /\ utterance \in 1 .. (Utterances + 1) /\ spoken \in Nat
  /\ spoken > 0 => utterance <= Utterances
  /\ task \in 1 .. utterance /\ rescue \in Nat /\ rescue < task /\ runSent \in BOOLEAN
  /\ pending \in Seq(Pairs) /\ text \subseteq Pairs /\ local \subseteq Pairs /\ flush \subseteq Pairs
  /\ server \in [Cloud!Tasks -> ServerTask]
  /\ inbox \in Seq(Message) /\ finals \in Seq(SUBSET Pairs)

TasksInv ==
  /\ \A t \in Cloud!Tasks : t > task => server[t].state = "none"
  /\ ~runSent => server[task].state = "none"
  /\ \A t \in Cloud!Tasks : server[t].state = "none" => server[t].heard = {}
  /\ \A i \in DOMAIN inbox : inbox[i].task <= task /\ (~runSent => inbox[i].task # task)
  /\ ~Cloud!Live => inbox = <<>>

WaitInv ==
  /\ waiter \in {"none", "open", "answered"} /\ (rx = "flushing" <=> waiter # "none")
  /\ rx = "starting" => utterance <= Utterances
  /\ waiter = "none" => local = {}
  /\ waiter # "answered" => flush = {}
  /\ waiter = "open" => rescue # 0
  /\ waiter = "answered" => rescue = 0

ClientInv == CloudTypes /\ TasksInv /\ WaitInv

(* Message m is the sentence with the word; from message i on, task t may  *)
(* still say it.                                                           *)
Says(m, w) == m.event = "result" /\ m.final /\ w \in m.text
Owes(sv, ib, w, t, i) ==
  \/ w \in sv[t].heard
  \/ \E j \in DOMAIN ib : i < j /\ ib[j].task = t /\ Says(ib[j], w)

Waits(w) == \E i \in DOMAIN pending : pending[i] = w
IsReported(fs, w) == \E i \in DOMAIN fs : w \in fs[i]

(* The caller has spoken the frame of word w.                              *)
Uttered(w) == w[1] < utterance \/ (w[1] = utterance /\ w[2] <= spoken)

PlaceInv(w) ==
  /\ \A t1, t2 \in Cloud!Tasks : w \in server[t1].heard /\ w \in server[t2].heard => t1 = t2
  /\ \A i \in DOMAIN inbox : Says(inbox[i], w) =>
       /\ \A t \in Cloud!Tasks : w \notin server[t].heard
       /\ \A j \in DOMAIN inbox : Says(inbox[j], w) => i = j
  /\ Waits(w) => /\ \A t \in Cloud!Tasks : w \notin server[t].heard
                 /\ \A i \in DOMAIN inbox : ~Says(inbox[i], w)

(* Where the word has been, it was given before.                           *)
GivenInv(w) ==
  ~Uttered(w) => /\ ~Waits(w) /\ \A t \in Cloud!Tasks : w \notin server[t].heard
                 /\ \A i \in DOMAIN inbox : ~Says(inbox[i], w)
                 /\ ~IsReported(finals, w) /\ w \notin text /\ w \notin local /\ w \notin flush

(* What a partial result says, its task still owes.                        *)
HeldInv(w) ==
  /\ \A i \in DOMAIN inbox :
       inbox[i].event = "result" /\ ~inbox[i].final /\ w \in inbox[i].text =>
         Owes(server, inbox, w, inbox[i].task, i)
  /\ w \in text => Owes(server, inbox, w, task, 0)
  /\ waiter = "open" /\ w \in local => Owes(server, inbox, w, rescue, 0)

(* What is still taken was not reported.                                   *)
Taken(t) == t >= task \/ t = rescue
TakenInv(w) ==
  /\ \A t \in Cloud!Tasks : Taken(t) /\ Owes(server, inbox, w, t, 0) =>
       /\ ~IsReported(finals, w) /\ w \notin flush
       /\ waiter = "answered" => w \notin local
  /\ Waits(w) => ~IsReported(finals, w) /\ w \notin flush /\ w \notin local

ReportedInv(w) ==
  /\ \A i, j \in DOMAIN finals : w \in finals[i] /\ w \in finals[j] => i = j
  /\ IsReported(finals, w) => w \notin text /\ w \notin local /\ w \notin flush
  /\ w \in text => w \notin local /\ w \notin flush

WordInv(w) ==
  /\ ReportedInv(w)
  /\ Cloud!Live => PlaceInv(w) /\ GivenInv(w) /\ HeldInv(w) /\ TakenInv(w)

(* Words of more than one utterance, where the earlier were carried on.    *)
Mixed(c, X) == \A v, w \in X : v[1] < w[1] => v[1] \in c

MixedInv ==
  /\ \A t \in Cloud!Tasks : Mixed(carried, server[t].heard)
  /\ \A i \in DOMAIN inbox : Mixed(carried, inbox[i].text)
  /\ Mixed(carried, text) /\ Mixed(carried, local) /\ Mixed(carried, flush)
  /\ \A i \in DOMAIN finals : Mixed(carried, finals[i])
  /\ \A w \in server[task].heard : w[1] <= utterance /\ (w[1] # utterance => w[1] \in carried)
  /\ \A i \in DOMAIN pending : pending[i][1] <= utterance

-----------------------------------------------------------------------------
(* A message of the server: the sentence takes what was heard with it, a   *)
(* partial result copies it, and nothing else has words.                   *)
ServerSteps(t) ==
  /\ Cloud!Live /\ t \in Cloud!Tasks
  /\ server' \in [Cloud!Tasks -> ServerTask] /\ inbox' \in Seq(Message)
  /\ server[t].state # "none" /\ server'[t].state # "none"
  /\ \A x \in Cloud!Tasks : x # t => server'[x] = server[x]
  /\ \A i \in DOMAIN inbox : i \in DOMAIN inbox' /\ inbox'[i] = inbox[i]
  /\ Len(inbox) + 1 \in DOMAIN inbox'
  /\ \A i \in DOMAIN inbox' : i \in DOMAIN inbox \/ (Len(inbox) < i /\ inbox'[i].task = t)
  /\ \A i \in DOMAIN inbox' : \/ i \in DOMAIN inbox \/ i = Len(inbox) + 1
                              \/ inbox'[i].event # "result" /\ inbox'[i].text = {}
  /\ LET m == inbox'[Len(inbox) + 1]
     IN \/ /\ server'[t].heard = server[t].heard
           /\ \/ m.event # "result" /\ m.text = {}
              \/ m.event = "result" /\ ~m.final /\ m.text = server[t].heard
        \/ /\ server'[t].heard = {} /\ m.event = "result" /\ m.final
           /\ m.text = server[t].heard

LEMMA Sent1 ==
  ASSUME NEW q \in Seq(Message), NEW m \in Message
  PROVE  /\ q \o <<m>> \in Seq(Message)
         /\ \A i \in DOMAIN q : i \in DOMAIN (q \o <<m>>) /\ (q \o <<m>>)[i] = q[i]
         /\ Len(q) + 1 \in DOMAIN (q \o <<m>>) /\ (q \o <<m>>)[Len(q) + 1] = m
         /\ \A i \in DOMAIN (q \o <<m>>) : i \in DOMAIN q \/ i = Len(q) + 1
OBVIOUS

LEMMA Sent2 ==
  ASSUME NEW q \in Seq(Message), NEW m \in Message, NEW n \in Message
  PROVE  /\ q \o <<m, n>> \in Seq(Message)
         /\ \A i \in DOMAIN q : i \in DOMAIN (q \o <<m, n>>) /\ (q \o <<m, n>>)[i] = q[i]
         /\ Len(q) + 1 \in DOMAIN (q \o <<m, n>>) /\ (q \o <<m, n>>)[Len(q) + 1] = m
         /\ Len(q) + 2 \in DOMAIN (q \o <<m, n>>) /\ (q \o <<m, n>>)[Len(q) + 2] = n
         /\ \A i \in DOMAIN (q \o <<m, n>>) : i \in DOMAIN q \/ i = Len(q) + 1 \/ i = Len(q) + 2
OBVIOUS

LEMMA TaskIsOne ==
  ASSUME CloudTypes
  PROVE  /\ Cloud!Tasks = 1 .. (Utterances + 1) /\ task \in Cloud!Tasks /\ task \in Nat
         /\ task + 1 \in Nat /\ \A t \in Cloud!Tasks : t \in Nat
         /\ \A t \in Cloud!Tasks : /\ server[t] \in ServerTask /\ server[t].heard \in SUBSET Pairs
                                   /\ server[t].state \in {"none", "asked", "running", "done", "failed"}
         /\ \A i \in DOMAIN inbox : inbox[i] \in Message /\ i \in Nat /\ i <= Len(inbox)
         /\ DOMAIN inbox = 1 .. Len(inbox) /\ Len(inbox) \in Nat
<1>1. Cloud!Tasks = 1 .. (Utterances + 1)
  BY DEF Cloud!Tasks
<1>2. task \in Cloud!Tasks /\ task \in Nat /\ task + 1 \in Nat /\ \A t \in Cloud!Tasks : t \in Nat
  BY <1>1 DEF CloudTypes
<1>3. server \in [Cloud!Tasks -> ServerTask] /\ inbox \in Seq(Message)
  BY DEF CloudTypes
<1>4. \A t \in Cloud!Tasks : server[t] \in ServerTask
  BY <1>3
<1>5. \A t \in Cloud!Tasks : /\ server[t].heard \in SUBSET Pairs
                             /\ server[t].state \in {"none", "asked", "running", "done", "failed"}
  BY <1>4 DEF ServerTask
<1>. QED
  BY <1>1, <1>2, <1>3, <1>4, <1>5

(* What TaskStarts, Hypothesis, Sentence, TaskFinishes and TaskFails do.   *)
LEMMA ServerFits ==
  ASSUME ClientInv, NEW t \in Cloud!Tasks,
         \/ Cloud!TaskStarts(t) \/ Cloud!Hypothesis(t) \/ Cloud!Sentence(t)
         \/ Cloud!TaskFinishes(t) \/ Cloud!TaskFails(t)
  PROVE  ServerSteps(t)
<1>. DEFINE h == server[t].heard
<1>1. /\ Cloud!Live /\ server \in [Cloud!Tasks -> ServerTask] /\ inbox \in Seq(Message)
      /\ server[t] \in ServerTask /\ h \in SUBSET Pairs /\ server[t].state # "none" /\ t \in Nat
  BY TaskIsOne DEF ClientInv, CloudTypes, Cloud!TaskStarts, Cloud!Hypothesis, Cloud!Sentence,
     Cloud!TaskFinishes, Cloud!TaskFails
<1>. DEFINE Keeps(sv) == /\ sv \in [Cloud!Tasks -> ServerTask] /\ sv[t].state # "none"
                         /\ \A x \in Cloud!Tasks : x # t => sv[x] = server[x]
<1>2. ASSUME NEW m \in Message, m.task = t, inbox' = inbox \o <<m>>, Keeps(server'),
             \/ /\ server'[t].heard = h
                /\ \/ m.event # "result" /\ m.text = {}
                   \/ m.event = "result" /\ ~m.final /\ m.text = h
             \/ server'[t].heard = {} /\ m.event = "result" /\ m.final /\ m.text = h
      PROVE  ServerSteps(t)
  <2>1. /\ inbox' \in Seq(Message)
        /\ \A i \in DOMAIN inbox : i \in DOMAIN inbox' /\ inbox'[i] = inbox[i]
        /\ Len(inbox) + 1 \in DOMAIN inbox' /\ inbox'[Len(inbox) + 1] = m
        /\ \A i \in DOMAIN inbox' : i \in DOMAIN inbox \/ i = Len(inbox) + 1
    BY <1>1, <1>2, Sent1
  <2>2. Len(inbox) \in Nat
    BY <1>1
  <2>. QED
    BY <1>1, <1>2, <2>1, <2>2 DEF ServerSteps
<1>3. CASE Cloud!TaskStarts(t)
  <2>. DEFINE m == [task |-> t, event |-> "started", text |-> {}, final |-> FALSE]
  <2>1. m \in Message /\ inbox' = inbox \o <<m>>
    BY <1>1, <1>3 DEF Cloud!TaskStarts, Cloud!Sends, Cloud!Msg, Message
  <2>2. Keeps(server') /\ server'[t].heard = h
    BY <1>1, <1>3 DEF Cloud!TaskStarts, ServerTask
  <2>. QED
    BY <1>2, <2>1, <2>2
<1>4. CASE Cloud!Hypothesis(t)
  <2>. DEFINE m == [task |-> t, event |-> "result", text |-> h, final |-> FALSE]
  <2>1. m \in Message /\ inbox' = inbox \o <<m>>
    BY <1>1, <1>4 DEF Cloud!Hypothesis, Cloud!Sends, Cloud!Msg, Message
  <2>2. Keeps(server') /\ server'[t].heard = h
    BY <1>1, <1>4 DEF Cloud!Hypothesis, ServerTask
  <2>. QED
    BY <1>2, <2>1, <2>2
<1>5. CASE Cloud!Sentence(t)
  <2>. DEFINE m == [task |-> t, event |-> "result", text |-> h, final |-> TRUE]
  <2>1. m \in Message /\ inbox' = inbox \o <<m>>
    BY <1>1, <1>5 DEF Cloud!Sentence, Cloud!Sends, Cloud!Msg, Message
  <2>2. Keeps(server') /\ server'[t].heard = {}
    BY <1>1, <1>5 DEF Cloud!Sentence, ServerTask
  <2>. QED
    BY <1>2, <2>1, <2>2
<1>6. CASE Cloud!TaskFails(t)
  <2>. DEFINE m == [task |-> t, event |-> "failed", text |-> {}, final |-> FALSE]
  <2>1. m \in Message /\ inbox' = inbox \o <<m>>
    BY <1>1, <1>6 DEF Cloud!TaskFails, Cloud!Sends, Cloud!Msg, Message
  <2>2. Keeps(server') /\ server'[t].heard = h
    BY <1>1, <1>6 DEF Cloud!TaskFails, ServerTask
  <2>. QED
    BY <1>2, <2>1, <2>2
<1>7. CASE Cloud!TaskFinishes(t)
  <2>. DEFINE m == [task |-> t, event |-> "result", text |-> h, final |-> TRUE]
              n == [task |-> t, event |-> "finished", text |-> {}, final |-> FALSE]
  <2>1. m \in Message /\ n \in Message
    BY <1>1 DEF Message
  <2>2. Keeps(server') /\ server'[t].heard = {}
    BY <1>1, <1>7 DEF Cloud!TaskFinishes, ServerTask
  <2>3. CASE h = {}
    <3>1. inbox' = inbox \o <<n>>
      BY <1>7, <2>3 DEF Cloud!TaskFinishes, Cloud!Sends, Cloud!Msg
    <3>. QED
      BY <1>2, <2>1, <2>2, <2>3, <3>1
  <2>4. CASE h # {}
    <3>1. inbox' = inbox \o <<m, n>>
      BY <1>7, <2>4 DEF Cloud!TaskFinishes, Cloud!Sends, Cloud!Msg
    <3>2. /\ inbox' \in Seq(Message)
          /\ \A i \in DOMAIN inbox : i \in DOMAIN inbox' /\ inbox'[i] = inbox[i]
          /\ Len(inbox) + 1 \in DOMAIN inbox' /\ inbox'[Len(inbox) + 1] = m
          /\ Len(inbox) + 2 \in DOMAIN inbox' /\ inbox'[Len(inbox) + 2] = n
          /\ \A i \in DOMAIN inbox' : i \in DOMAIN inbox \/ i = Len(inbox) + 1 \/ i = Len(inbox) + 2
      BY <1>1, <2>1, <3>1, Sent2
    <3>3. Len(inbox) \in Nat
      BY <1>1
    <3>4. /\ m.task = t /\ n.task = t /\ n.event # "result" /\ n.text = {}
          /\ m.event = "result" /\ m.final /\ m.text = h
      OBVIOUS
    <3>. HIDE DEF m, n
    <3>. QED
      BY <1>1, <2>2, <3>2, <3>3, <3>4 DEF ServerSteps
  <2>. QED
    BY <2>3, <2>4
<1>. QED
  BY <1>3, <1>4, <1>5, <1>6, <1>7

ClientSame == UNCHANGED <<utterance, spoken, rx, task, runSent, started, pending, text, local, rescue,
                          waiter, flush, open, closed, finals, carried>>

LEMMA ServerClient ==
  ASSUME ClientInv, NEW t \in Cloud!Tasks, ServerSteps(t), ClientSame
  PROVE  ClientInv'
<1>1. CloudTypes'
  BY DEF ClientInv, CloudTypes, ServerSteps, ClientSame, Cloud!Tasks
<1>2. TasksInv'
  <2>1. t <= task /\ (~runSent => t # task)
    BY TaskIsOne DEF ClientInv, TasksInv, ServerSteps
  <2>2. /\ \A x \in Cloud!Tasks : x > task => server'[x].state = "none"
        /\ ~runSent => server'[task].state = "none"
    BY <2>1, TaskIsOne DEF ClientInv, TasksInv, ServerSteps
  <2>3. \A x \in Cloud!Tasks : server'[x].state = "none" => server'[x].heard = {}
    BY DEF ClientInv, TasksInv, ServerSteps
  <2>4. \A i \in DOMAIN inbox' : inbox'[i].task <= task /\ (~runSent => inbox'[i].task # task)
    BY <2>1 DEF ClientInv, TasksInv, ServerSteps
  <2>. QED
    BY <2>2, <2>3, <2>4 DEF TasksInv, ServerSteps, ClientSame, Cloud!Tasks, Cloud!Live
<1>3. WaitInv'
  BY DEF ClientInv, WaitInv, ClientSame
<1>. QED
  BY <1>1, <1>2, <1>3 DEF ClientInv

LEMMA FrameIsPair == ASSUME CloudTypes PROVE Cloud!Frame \in Pairs
  BY DEF CloudTypes, Cloud!Frame, Pairs

LEMMA PendingWords ==
  ASSUME NEW q \in Seq(Pairs), NEW f \in Pairs
  PROVE  /\ Append(q, f) \in Seq(Pairs) /\ Cloud!WordsOf(q) \subseteq Pairs
         /\ \A w : w \in Cloud!WordsOf(q) <=> \E i \in DOMAIN q : q[i] = w
         /\ \A w : w \in Cloud!WordsOf(Append(q, f)) <=> w \in Cloud!WordsOf(q) \/ w = f
         /\ \A w : (\E i \in DOMAIN Append(q, f) : Append(q, f)[i] = w) <=>
                   (\E i \in DOMAIN q : q[i] = w) \/ w = f
<1>1. /\ Append(q, f) \in Seq(Pairs) /\ Len(Append(q, f)) = Len(q) + 1
      /\ \A i \in 1 .. Len(q) : Append(q, f)[i] = q[i]
      /\ Append(q, f)[Len(q) + 1] = f /\ Len(q) \in Nat
      /\ DOMAIN q = 1 .. Len(q) /\ DOMAIN Append(q, f) = 1 .. (Len(q) + 1)
      /\ \A i \in DOMAIN q : q[i] \in Pairs
  OBVIOUS
<1>2. \A i : i \in DOMAIN Append(q, f) <=> i \in DOMAIN q \/ i = Len(q) + 1
  BY <1>1
<1>3. \A w : (\E i \in DOMAIN Append(q, f) : Append(q, f)[i] = w) <=>
             (\E i \in DOMAIN q : q[i] = w) \/ w = f
  BY <1>1, <1>2
<1>4. /\ Cloud!WordsOf(q) = {q[i] : i \in DOMAIN q}
      /\ Cloud!WordsOf(Append(q, f)) = {Append(q, f)[i] : i \in DOMAIN Append(q, f)}
  BY <1>1 DEF Cloud!WordsOf
<1>5. \A w : w \in Cloud!WordsOf(q) <=> \E i \in DOMAIN q : q[i] = w
  BY <1>4
<1>6. \A w : w \in Cloud!WordsOf(Append(q, f)) <=>
             \E i \in DOMAIN Append(q, f) : Append(q, f)[i] = w
  BY <1>4
<1>. QED
  BY <1>1, <1>3, <1>5, <1>6

(* The frame is given, to the buffer or with what waited to the server.    *)
Buffers == /\ pending' = Append(pending, Cloud!Frame) /\ UNCHANGED server
           /\ UNCHANGED carried
Pushes ==
  /\ open /\ pending' = <<>> /\ server' \in [Cloud!Tasks -> ServerTask]
  /\ \A x \in Cloud!Tasks : /\ server'[x].state = server[x].state
                            /\ x # task => server'[x] = server[x]
  /\ \/ server'[task].heard = server[task].heard
     \/ /\ server[task].state = "running"
        /\ server'[task].heard = server[task].heard
             \cup Cloud!WordsOf(Append(pending, Cloud!Frame))
  /\ carried' = carried \cup ({pending[i][1] : i \in 1 .. Len(pending)} \ {utterance})
FrameGiven ==
  /\ utterance <= Utterances /\ utterance' = utterance /\ spoken' = spoken + 1
  /\ rx # "flushing" /\ rx' = "ready" /\ runSent' \in {runSent, TRUE}
  /\ UNCHANGED <<task, text, local, rescue, waiter, flush, inbox, open, closed, finals>>
  /\ Buffers \/ Pushes

LEMMA PushFits ==
  ASSUME ClientInv, Cloud!Push
  PROVE  Pushes \/ (~open /\ Buffers)
<1>1. CASE ~open
  BY <1>1 DEF Cloud!Push, Cloud!Buffer, Buffers
<1>2. CASE open
  <2>1. /\ server \in [Cloud!Tasks -> ServerTask] /\ task \in Cloud!Tasks
        /\ server[task] \in ServerTask /\ server[task].heard \in SUBSET Pairs
    BY TaskIsOne DEF ClientInv, CloudTypes
  <2>. DEFINE W == Cloud!WordsOf(Append(pending, Cloud!Frame))
  <2>2. W \in SUBSET Pairs
    BY PendingWords, FrameIsPair DEF ClientInv, CloudTypes
  <2>3. /\ server' = [server EXCEPT ![task].heard =
                        IF server[task].state = "running" THEN @ \cup W ELSE @]
        /\ pending' = <<>>
        /\ carried' = carried \cup ({pending[i][1] : i \in 1 .. Len(pending)} \ {utterance})
    BY <1>2 DEF Cloud!Push, Cloud!Hears
  <2>. HIDE DEF W
  <2>4. CASE server[task].state = "running"
    <3>1. server' = [server EXCEPT ![task] = [server[task] EXCEPT !.heard = @ \cup W]]
      BY <2>1, <2>3, <2>4
    <3>2. [server[task] EXCEPT !.heard = @ \cup W] \in ServerTask
      BY <2>1, <2>2 DEF ServerTask
    <3>3. /\ server' \in [Cloud!Tasks -> ServerTask]
          /\ \A x \in Cloud!Tasks : x # task => server'[x] = server[x]
      BY <2>1, <3>1, <3>2
    <3>4. server'[task].heard = server[task].heard \cup W /\ server'[task].state = server[task].state
      BY <2>1, <3>1 DEF ServerTask
    <3>. QED
      BY <1>2, <2>3, <2>4, <3>3, <3>4 DEF Pushes, W
  <2>5. CASE server[task].state # "running"
    <3>1. server' = server
      BY <2>1, <2>3, <2>5 DEF ServerTask
    <3>. QED
      BY <1>2, <2>1, <2>3, <3>1 DEF Pushes
  <2>. QED
    BY <2>4, <2>5
<1>. QED
  BY <1>1, <1>2

(* SendFirst of a dead socket, Started, StartTimesOut and SendAudio.       *)
LEMMA FrameFits ==
  ASSUME ClientInv,
         \/ Cloud!SendFirst /\ ~open
         \/ Cloud!Started \/ Cloud!StartTimesOut \/ Cloud!SendAudio
  PROVE  FrameGiven
<1>1. utterance' = utterance /\ spoken' = spoken + 1
  BY DEF Cloud!SendFirst, Cloud!Started, Cloud!StartTimesOut, Cloud!SendAudio, Cloud!Given
<1>2. utterance <= Utterances
  BY DEF ClientInv, WaitInv, Cloud!SendFirst, Cloud!Started, Cloud!StartTimesOut, Cloud!SendAudio
<1>3. rx # "flushing" /\ rx' = "ready" /\ runSent' \in {runSent, TRUE}
  BY DEF Cloud!SendFirst, Cloud!Started, Cloud!StartTimesOut, Cloud!SendAudio
<1>4. UNCHANGED <<task, text, local, rescue, waiter, flush, inbox, open, closed, finals>>
  BY DEF Cloud!SendFirst, Cloud!Started, Cloud!StartTimesOut, Cloud!SendAudio, Cloud!recvVars,
     Cloud!socketVars
<1>5. Buffers \/ Pushes
  <2>1. CASE Cloud!Push
    BY <2>1, PushFits
  <2>2. CASE Cloud!Buffer /\ UNCHANGED carried
    BY <2>2 DEF Cloud!Buffer, Buffers
  <2>. QED
    BY <2>1, <2>2 DEF Cloud!SendFirst, Cloud!Started, Cloud!StartTimesOut, Cloud!SendAudio
<1>. QED
  BY <1>1, <1>2, <1>3, <1>4, <1>5 DEF FrameGiven

LEMMA FrameClient ==
  ASSUME ClientInv, FrameGiven
  PROVE  ClientInv'
<1>0. CloudTypes /\ TasksInv /\ WaitInv /\ task \in Cloud!Tasks
  BY TaskIsOne DEF ClientInv
<1>1. /\ \A x \in Cloud!Tasks : server'[x].state = server[x].state
      /\ \A x \in Cloud!Tasks : server[x].state # "running" => server'[x].heard = server[x].heard
      /\ server' \in [Cloud!Tasks -> ServerTask]
  <2>1. CASE Buffers
    BY <1>0, <2>1 DEF Buffers, CloudTypes
  <2>2. CASE Pushes
    <3>1. \A x \in Cloud!Tasks : x # task => server'[x].heard = server[x].heard
      BY <2>2 DEF Pushes
    <3>2. server[task].state # "running" => server'[task].heard = server[task].heard
      BY <2>2 DEF Pushes
    <3>. QED
      BY <2>2, <3>1, <3>2 DEF Pushes
  <2>. QED
    BY <2>1, <2>2 DEF FrameGiven
<1>2. CloudTypes'
  <2>1. pending' \in Seq(Pairs)
    <3>1. pending \in Seq(Pairs) /\ Cloud!Frame \in Pairs
      BY <1>0, FrameIsPair DEF CloudTypes
    <3>2. Append(pending, Cloud!Frame) \in Seq(Pairs) /\ <<>> \in Seq(Pairs)
      BY <3>1
    <3>3. pending' = Append(pending, Cloud!Frame) \/ pending' = <<>>
      BY DEF FrameGiven, Buffers, Pushes
    <3>. QED
      BY <3>2, <3>3
  <2>2. spoken' \in Nat /\ runSent' \in BOOLEAN /\ utterance <= Utterances /\ utterance' = utterance
    <3>1. spoken \in Nat /\ runSent \in BOOLEAN
      BY <1>0 DEF CloudTypes
    <3>2. runSent' \in {runSent, TRUE} /\ spoken' = spoken + 1
      BY DEF FrameGiven
    <3>3. runSent' \in BOOLEAN
      BY <3>1, <3>2
    <3>4. utterance <= Utterances /\ utterance' = utterance
      BY DEF FrameGiven
    <3>. QED
      BY <3>1, <3>2, <3>3, <3>4
  <2>3. UNCHANGED <<task, text, local, rescue, waiter, flush, inbox, open, closed, finals>>
    BY DEF FrameGiven
  <2>. QED
    BY <1>0, <1>1, <2>1, <2>2, <2>3 DEF CloudTypes, Cloud!Tasks
<1>3. TasksInv'
  <2>1. ~runSent' => ~runSent
    BY <1>0 DEF CloudTypes, FrameGiven
  <2>2. UNCHANGED <<task, inbox, open, closed>>
    BY DEF FrameGiven
  <2>3. \A x \in Cloud!Tasks : server'[x].state = "none" => server'[x].heard = {}
    BY <1>0, <1>1 DEF TasksInv
  <2>. QED
    BY <1>0, <1>1, <2>1, <2>2, <2>3 DEF TasksInv, Cloud!Live, Cloud!Tasks
<1>4. WaitInv'
  BY <1>0 DEF WaitInv, FrameGiven
<1>. QED
  BY <1>2, <1>3, <1>4 DEF ClientInv

LEMMA AskClient ==
  ASSUME ClientInv, Cloud!SendFirst, open
  PROVE  /\ ClientInv'
         /\ \A x \in Cloud!Tasks : server'[x].heard = server[x].heard
<1>1. /\ server' = [server EXCEPT ![task].state = "asked"] /\ runSent' = TRUE /\ rx' = "starting"
      /\ rx = "ready" /\ ~runSent /\ utterance <= Utterances
      /\ UNCHANGED <<utterance, spoken, task, pending, text, local, rescue, waiter, flush, inbox,
                     open, closed, finals>>
  BY DEF Cloud!SendFirst, Cloud!callerVars, Cloud!recvVars, Cloud!socketVars
<1>2. /\ server \in [Cloud!Tasks -> ServerTask] /\ task \in Cloud!Tasks
      /\ server[task] \in ServerTask
  BY TaskIsOne DEF ClientInv, CloudTypes
<1>3. /\ server' \in [Cloud!Tasks -> ServerTask] /\ server'[task].state = "asked"
      /\ \A x \in Cloud!Tasks : server'[x].heard = server[x].heard
      /\ \A x \in Cloud!Tasks : x # task => server'[x] = server[x]
  BY <1>1, <1>2 DEF ServerTask
<1>4. CloudTypes'
  BY <1>1, <1>3 DEF ClientInv, CloudTypes, Cloud!Tasks
<1>5. TasksInv'
  <2>1. \A x \in Cloud!Tasks : x > task => x # task
    BY TaskIsOne DEF ClientInv
  <2>2. \A x \in Cloud!Tasks : x > task => server'[x].state = "none"
    BY <1>3, <2>1 DEF ClientInv, TasksInv
  <2>3. \A x \in Cloud!Tasks : server'[x].state = "none" => server'[x].heard = {}
    BY <1>3 DEF ClientInv, TasksInv
  <2>. QED
    BY <1>1, <2>2, <2>3 DEF ClientInv, TasksInv, Cloud!Live, Cloud!Tasks
<1>6. WaitInv'
  BY <1>1 DEF ClientInv, WaitInv
<1>. QED
  BY <1>3, <1>4, <1>5, <1>6 DEF ClientInv

LEMMA Reports ==
  ASSUME finals \in Seq(SUBSET Pairs), NEW X \in SUBSET Pairs, Cloud!Report(X)
  PROVE  /\ finals' \in Seq(SUBSET Pairs)
         /\ \A i \in DOMAIN finals : i \in DOMAIN finals' /\ finals'[i] = finals[i]
         /\ \A i \in DOMAIN finals' : i \in DOMAIN finals \/ (i = Len(finals) + 1 /\ finals'[i] = X)
<1>1. CASE X = {}
  BY <1>1 DEF Cloud!Report
<1>2. CASE X # {}
  BY <1>2 DEF Cloud!Report
<1>. QED
  BY <1>1, <1>2

(* EndSpeech asks the server to finish and waits, or reports what it has.  *)
Ends ==
  /\ rx = "ready" /\ ~closed /\ spoken > 0 /\ text' = {}
  /\ utterance' = utterance + 1 /\ spoken' = 0
  /\ UNCHANGED <<pending, flush, inbox, open, closed, carried>>
  /\ server' \in [Cloud!Tasks -> ServerTask]
  /\ \A x \in Cloud!Tasks : /\ server'[x].heard = server[x].heard
                            /\ server'[x].state = server[x].state
  /\ \/ /\ runSent /\ rescue' = task /\ task' = task + 1 /\ runSent' = FALSE
        /\ \/ /\ open /\ waiter' = "open" /\ local' = text /\ rx' = "flushing"
              /\ finals' = finals
           \/ /\ ~open /\ Cloud!Report(text) /\ UNCHANGED <<waiter, local, rx>>
     \/ /\ ~runSent /\ Cloud!Report(text)
        /\ UNCHANGED <<rescue, task, runSent, waiter, local, rx>>

LEMMA EndFits == ASSUME ClientInv, Cloud!EndSpeech PROVE Ends
<1>1. server' = server \/ server' = [server EXCEPT ![task].finish = TRUE]
  BY DEF Cloud!EndSpeech
<1>2. /\ server \in [Cloud!Tasks -> ServerTask] /\ task \in Cloud!Tasks
      /\ server[task] \in ServerTask
  BY TaskIsOne DEF ClientInv, CloudTypes
<1>3. /\ server' \in [Cloud!Tasks -> ServerTask]
      /\ \A x \in Cloud!Tasks : /\ server'[x].heard = server[x].heard
                                /\ server'[x].state = server[x].state
  <2>1. CASE server' = server
    BY <1>2, <2>1
  <2>2. CASE server' = [server EXCEPT ![task] = [server[task] EXCEPT !.finish = TRUE]]
    <3>1. [server[task] EXCEPT !.finish = TRUE] \in ServerTask
      BY <1>2 DEF ServerTask
    <3>2. /\ server' \in [Cloud!Tasks -> ServerTask]
          /\ \A x \in Cloud!Tasks : x # task => server'[x] = server[x]
      BY <1>2, <2>2, <3>1
    <3>3. server'[task].heard = server[task].heard /\ server'[task].state = server[task].state
      BY <1>2, <2>2 DEF ServerTask
    <3>. QED
      BY <3>2, <3>3
  <2>. QED
    BY <1>1, <1>2, <2>1, <2>2
<1>. QED
  BY <1>3 DEF Cloud!EndSpeech, Cloud!NextUtterance, Cloud!socketVars, Ends

LEMMA EndClient ==
  ASSUME ClientInv, Ends
  PROVE  ClientInv'
<1>0. CloudTypes /\ TasksInv /\ WaitInv /\ task \in Cloud!Tasks
  BY TaskIsOne DEF ClientInv
<1>1. finals' \in Seq(SUBSET Pairs) /\ text \in SUBSET Pairs
  BY <1>0, Reports DEF CloudTypes, Ends
<1>2. /\ task \in 1 .. utterance /\ utterance <= Utterances /\ utterance \in Nat /\ Utterances \in Nat
      /\ task \in Nat /\ rescue \in Nat /\ rescue < task
  BY <1>0 DEF CloudTypes, Ends
<1>3. \/ rescue' = task /\ task' = task + 1 /\ runSent' = FALSE
      \/ ~runSent /\ UNCHANGED <<rescue, task, runSent>>
  BY DEF Ends
<1>4. CloudTypes'
  <2>1. /\ task' \in 1 .. utterance' /\ rescue' \in Nat /\ rescue' < task' /\ runSent' \in BOOLEAN
        /\ utterance' \in 1 .. (Utterances + 1) /\ spoken' \in Nat /\ ~(spoken' > 0)
    <3>1. utterance' = utterance + 1 /\ spoken' = 0 /\ runSent \in BOOLEAN
      BY <1>0 DEF Ends, CloudTypes
    <3>2. runSent' \in BOOLEAN
      BY <1>3, <3>1
    <3>3. utterance' \in 1 .. (Utterances + 1) /\ spoken' \in Nat /\ ~(spoken' > 0)
      BY <1>2, <3>1
    <3>4. task' \in 1 .. utterance' /\ rescue' \in Nat /\ rescue' < task'
      BY <1>2, <1>3, <3>1
    <3>. QED
      BY <3>2, <3>3, <3>4
  <2>2. local' \in SUBSET Pairs /\ text' \in SUBSET Pairs /\ server' \in [Cloud!Tasks -> ServerTask]
    BY <1>0, <1>1 DEF Ends, CloudTypes
  <2>3. UNCHANGED <<pending, flush, inbox, open, closed, carried>>
    BY DEF Ends
  <2>. QED
    BY <1>0, <1>1, <2>1, <2>2, <2>3 DEF CloudTypes, Cloud!Tasks
<1>5. TasksInv'
  <2>2. \A x \in Cloud!Tasks : x > task' => x > task
    BY <1>2, <1>3, TaskIsOne, <1>0
  <2>3. task + 1 \in Cloud!Tasks /\ task + 1 > task
    BY <1>2, TaskIsOne, <1>0
  <2>4. /\ \A x \in Cloud!Tasks : x > task' => server'[x].state = "none"
        /\ ~runSent' => server'[task'].state = "none"
        /\ \A x \in Cloud!Tasks : server'[x].state = "none" => server'[x].heard = {}
    <3>1. \A x \in Cloud!Tasks : /\ server'[x].heard = server[x].heard
                                /\ server'[x].state = server[x].state
      BY DEF Ends
    <3>. QED
      BY <1>0, <1>3, <2>2, <2>3, <3>1 DEF TasksInv
  <2>5. \A i \in DOMAIN inbox : /\ inbox[i].task <= task' /\ (~runSent' => inbox[i].task # task')
    <3>1. \A i \in DOMAIN inbox : inbox[i].task \in Nat /\ inbox[i].task <= task
      BY <1>0, TaskIsOne DEF Message, TasksInv
    <3>2. \A i \in DOMAIN inbox : ~runSent => inbox[i].task # task
      BY <1>0 DEF TasksInv
    <3>. QED
      BY <1>2, <1>3, <3>1, <3>2
  <2>6. UNCHANGED <<inbox, open, closed>>
    BY DEF Ends
  <2>. QED
    BY <1>0, <2>4, <2>5, <2>6 DEF TasksInv, Cloud!Live, Cloud!Tasks
<1>6. WaitInv'
  <2>1. \/ waiter' = "open" /\ rx' = "flushing" /\ rescue' = task
        \/ UNCHANGED <<waiter, local, rx>>
    BY DEF Ends
  <2>2. rx = "ready" /\ UNCHANGED flush
    BY DEF Ends
  <2>. QED
    BY <1>0, <1>2, <2>1, <2>2 DEF WaitInv
<1>. QED
  BY <1>4, <1>5, <1>6 DEF ClientInv

(* The wait of EndSpeech ends, with an answer or without.                  *)
Flushes ==
  /\ rx = "flushing" /\ rx' = "ready" /\ waiter' = "none" /\ local' = {} /\ flush' = {}
  /\ UNCHANGED <<utterance, spoken, task, runSent, started, pending, text, open, closed, server,
                 inbox, carried>>
  /\ \/ /\ waiter = "answered" /\ rescue' \in {0, rescue}
        /\ Cloud!Report(IF flush # {} THEN flush ELSE local)
     \/ /\ waiter = "open" /\ rescue' = IF local # {} THEN 0 ELSE rescue
        /\ Cloud!Report(local)

LEMMA FlushFits == ASSUME Cloud!FlushArrives \/ Cloud!FlushTimesOut PROVE Flushes
  BY DEF Cloud!FlushArrives, Cloud!FlushTimesOut, Cloud!Returns, Cloud!Rest, Cloud!callerVars,
     Cloud!socketVars, Flushes

LEMMA FlushClient ==
  ASSUME ClientInv, Flushes
  PROVE  ClientInv'
<1>0. CloudTypes /\ TasksInv /\ WaitInv
  BY DEF ClientInv
<1>1. finals' \in Seq(SUBSET Pairs)
  <2>1. finals \in Seq(SUBSET Pairs) /\ flush \in SUBSET Pairs /\ local \in SUBSET Pairs
    BY <1>0 DEF CloudTypes
  <2>2. PICK X \in SUBSET Pairs : Cloud!Report(X)
    BY <2>1 DEF Flushes
  <2>. QED
    BY <2>1, <2>2, Reports
<1>2. rescue' \in Nat /\ rescue' < task
  BY <1>0 DEF CloudTypes, Flushes
<1>3. CloudTypes'
  BY <1>0, <1>1, <1>2 DEF CloudTypes, Flushes, Cloud!Tasks
<1>4. TasksInv'
  BY <1>0 DEF TasksInv, Flushes, Cloud!Live, Cloud!Tasks
<1>5. WaitInv'
  BY <1>0 DEF WaitInv, Flushes
<1>. QED
  BY <1>3, <1>4, <1>5 DEF ClientInv

(* The detector is reset, the call ends or the socket dies.                *)
Cuts ==
  /\ rx = "ready" /\ spoken > 0 /\ utterance' = utterance + 1 /\ spoken' = 0
  /\ carried' = carried \cup {utterance}
  /\ UNCHANGED <<rx, task, runSent, started, pending, text, local, rescue, waiter, flush, inbox,
                 open, closed, server, finals>>
Stops ==
  /\ (closed' = TRUE /\ UNCHANGED open) \/ (open' = FALSE /\ UNCHANGED closed)
  /\ inbox' = <<>>
  /\ UNCHANGED <<utterance, spoken, rx, task, runSent, pending, text, local, rescue, waiter,
                 flush, server, finals, carried>>

LEMMA CutFits == ASSUME Cloud!CutSpeech PROVE Cuts
  BY DEF Cloud!CutSpeech, Cloud!NextUtterance, Cloud!recvVars, Cloud!socketVars, Cuts

LEMMA StopFits == ASSUME Cloud!Close \/ Cloud!SocketDies PROVE Stops
  BY DEF Cloud!Close, Cloud!SocketDies, Cloud!callerVars, Stops

LEMMA CutClient ==
  ASSUME ClientInv, Cuts \/ Stops
  PROVE  ClientInv'
<1>0. CloudTypes /\ TasksInv /\ WaitInv
  BY DEF ClientInv
<1>1. CASE Cuts
  <2>1. utterance' \in 1 .. (Utterances + 1) /\ spoken' \in Nat /\ task' \in 1 .. utterance'
    BY <1>0, <1>1 DEF CloudTypes, Cuts
  <2>2. CloudTypes'
    BY <1>0, <1>1, <2>1 DEF CloudTypes, Cuts, Cloud!Tasks
  <2>3. TasksInv'
    BY <1>0, <1>1 DEF TasksInv, Cuts, Cloud!Live, Cloud!Tasks
  <2>4. WaitInv'
    BY <1>0, <1>1 DEF WaitInv, Cuts
  <2>. QED
    BY <2>2, <2>3, <2>4 DEF ClientInv
<1>2. CASE Stops
  <2>1. CloudTypes'
    BY <1>0, <1>2 DEF CloudTypes, Stops, Cloud!Tasks
  <2>2. TasksInv'
    BY <1>0, <1>2 DEF TasksInv, Stops, Cloud!Live, Cloud!Tasks
  <2>3. WaitInv'
    BY <1>0, <1>2 DEF WaitInv, Stops
  <2>. QED
    BY <2>1, <2>2, <2>3 DEF ClientInv
<1>. QED
  BY <1>1, <1>2

(* The receive loop takes a message: the end of the task that is waited    *)
(* for, its sentence, a text of the current task, or nothing it listens to.*)
TakesText(m) ==
  \/ /\ m.task = rescue /\ m.event # "result" /\ rescue' = 0
     /\ \/ waiter = "open" /\ waiter' = "answered" /\ flush' = {}
        \/ waiter # "open" /\ UNCHANGED <<waiter, flush>>
     /\ UNCHANGED <<text, finals>>
  \/ /\ m.event = "result" => m.task # task /\ (m.task = rescue => ~m.final)
     /\ UNCHANGED <<rescue, waiter, flush, text, finals>>
  \/ /\ m.task = rescue /\ m.task # task /\ m.event = "result" /\ m.final /\ rescue' = 0
     /\ \/ waiter = "open" /\ waiter' = "answered" /\ flush' = m.text /\ UNCHANGED finals
        \/ waiter # "open" /\ Cloud!Report(m.text) /\ UNCHANGED <<waiter, flush>>
     /\ UNCHANGED text
  \/ /\ m.task = task /\ m.event = "result" /\ UNCHANGED <<rescue, waiter, flush>>
     /\ \/ m.final /\ text' = {} /\ Cloud!Report(m.text)
        \/ ~m.final /\ text' = m.text /\ UNCHANGED finals
Receives ==
  /\ Cloud!Live /\ inbox # <<>> /\ inbox' = Tail(inbox)
  /\ TakesText(Head(inbox))
  /\ UNCHANGED <<utterance, spoken, rx, task, runSent, pending, local, open, closed, server, carried>>

LEMMA ReceiveFits == ASSUME Cloud!Receive PROVE Receives
<1>. DEFINE m == Head(inbox)
<1>1. TakesText(m)
  BY DEF Cloud!Receive, Cloud!Current, Cloud!Rescued, Cloud!Answer, TakesText
<1>. QED
  BY <1>1 DEF Cloud!Receive, Cloud!callerVars, Cloud!socketVars, Receives

LEMMA Inbox ==
  ASSUME ClientInv, inbox # <<>>
  PROVE  /\ Head(inbox) = inbox[1] /\ 1 \in DOMAIN inbox /\ Head(inbox) \in Message
         /\ Tail(inbox) \in Seq(Message)
         /\ \A i \in DOMAIN Tail(inbox) : i + 1 \in DOMAIN inbox /\ Tail(inbox)[i] = inbox[i + 1]
         /\ \A i \in DOMAIN inbox : i # 1 => i - 1 \in DOMAIN Tail(inbox) /\ Tail(inbox)[i - 1] = inbox[i]
         /\ \A i \in DOMAIN inbox : i \in Nat
<1>1. inbox \in Seq(Message)
  BY DEF ClientInv, CloudTypes
<1>. QED
  BY <1>1

LEMMA ReceiveClient ==
  ASSUME ClientInv, Receives
  PROVE  ClientInv'
<1>0. CloudTypes /\ TasksInv /\ WaitInv
  BY DEF ClientInv
<1>. DEFINE m == Head(inbox)
<1>1. m \in Message /\ m.text \in SUBSET Pairs /\ m.task \in Nat /\ TakesText(m)
  <2>1. m \in Message /\ TakesText(m)
    BY Inbox DEF Receives
  <2>. QED
    BY <2>1, TaskIsOne DEF Message, ClientInv
<1>. HIDE DEF m
<1>2. finals' \in Seq(SUBSET Pairs)
  <2>1. finals' = finals \/ Cloud!Report(m.text)
    BY <1>1 DEF TakesText
  <2>2. finals \in Seq(SUBSET Pairs)
    BY <1>0 DEF CloudTypes
  <2>. QED
    BY <1>1, <2>1, <2>2, Reports
<1>3. text' \in SUBSET Pairs /\ flush' \in SUBSET Pairs
  BY <1>0, <1>1 DEF TakesText, CloudTypes
<1>4. rescue' \in {0, rescue}
  BY <1>1 DEF TakesText
<1>5. inbox' \in Seq(Message)
  BY Inbox DEF Receives
<1>6. UNCHANGED <<utterance, spoken, rx, task, runSent, pending, local, open, closed, server>>
  BY DEF Receives
<1>7. CloudTypes'
  <2>1. rescue' \in Nat /\ rescue' < task
    BY <1>0, <1>4 DEF CloudTypes
  <2>. QED
    BY <1>0, <1>2, <1>3, <1>5, <1>6, <2>1 DEF CloudTypes, Cloud!Tasks
<1>8. TasksInv'
  <2>1. \A i \in DOMAIN inbox' : inbox'[i].task <= task /\ (~runSent => inbox'[i].task # task)
    BY <1>0, Inbox DEF Receives, TasksInv
  <2>2. Cloud!Live
    BY DEF Receives
  <2>. QED
    BY <1>0, <1>6, <2>1, <2>2 DEF TasksInv, Cloud!Live, Cloud!Tasks
<1>9. WaitInv'
  <2>1. /\ waiter' \in {"none", "open", "answered"} /\ (waiter' # "none" <=> waiter # "none")
        /\ waiter' # "answered" => flush' = {}
        /\ waiter' = "open" => rescue' # 0
        /\ waiter' = "answered" => rescue' = 0
    BY <1>0, <1>1 DEF WaitInv, TakesText, CloudTypes
  <2>. QED
    BY <1>0, <1>6, <2>1 DEF WaitInv
<1>. QED
  BY <1>7, <1>8, <1>9 DEF ClientInv

-----------------------------------------------------------------------------
(* What the steps do with one word.                                        *)
LEMMA ServerWord ==
  ASSUME ClientInv, NEW w \in Pairs, WordInv(w), NEW t \in Cloud!Tasks, ServerSteps(t), ClientSame
  PROVE  WordInv(w)'
<1>0. /\ PlaceInv(w) /\ GivenInv(w) /\ HeldInv(w) /\ TakenInv(w) /\ ReportedInv(w)
      /\ task \in Cloud!Tasks /\ Len(inbox) \in Nat /\ DOMAIN inbox = 1 .. Len(inbox)
      /\ \A i \in DOMAIN inbox : inbox[i].task \in Cloud!Tasks /\ i \in Nat
  BY TaskIsOne DEF WordInv, ServerSteps, ClientInv, Message
<1>. DEFINE k == Len(inbox) + 1
            m == inbox'[k]
<1>1. /\ \A x \in Cloud!Tasks : w \in server'[x].heard => w \in server[x].heard
      /\ \A x \in Cloud!Tasks : x # t /\ w \in server[x].heard => w \in server'[x].heard
  BY DEF ServerSteps
<1>2. /\ k \in DOMAIN inbox' /\ k \notin DOMAIN inbox /\ k \in Nat
      /\ \A i \in DOMAIN inbox : i \in DOMAIN inbox' /\ inbox'[i] = inbox[i] /\ i < k
      /\ m.task = t
  BY <1>0 DEF ServerSteps
<1>3. Says(m, w) <=> w \in server[t].heard /\ w \notin server'[t].heard
  BY DEF ServerSteps, Says
<1>4. \A i \in DOMAIN inbox' : \/ i \in DOMAIN inbox \/ i = k
                               \/ inbox'[i].event # "result" /\ ~Says(inbox'[i], w)
  BY DEF ServerSteps, Says
<1>5. m.event = "result" /\ ~m.final /\ w \in m.text => w \in server'[t].heard
  BY DEF ServerSteps
<1>. HIDE DEF k, m
<1>6. ASSUME NEW x \in Cloud!Tasks, NEW i \in Nat, i < k
      PROVE  Owes(server, inbox, w, x, i) <=> Owes(server', inbox', w, x, i)
  <2>1. ASSUME Owes(server, inbox, w, x, i) PROVE Owes(server', inbox', w, x, i)
    <3>1. CASE w \in server[x].heard /\ w \notin server'[x].heard
      <4>1. x = t /\ Says(m, w)
        BY <1>1, <1>3, <3>1
      <4>. QED
        BY <1>2, <1>6, <4>1 DEF Owes, m
    <3>2. CASE \E j \in DOMAIN inbox : i < j /\ inbox[j].task = x /\ Says(inbox[j], w)
      BY <1>2, <3>2 DEF Owes
    <3>. QED
      BY <2>1, <3>1, <3>2 DEF Owes
  <2>2. ASSUME Owes(server', inbox', w, x, i) PROVE Owes(server, inbox, w, x, i)
    <3>1. CASE w \in server'[x].heard
      BY <1>1, <3>1 DEF Owes
    <3>2. ASSUME NEW j \in DOMAIN inbox', i < j, inbox'[j].task = x, Says(inbox'[j], w)
          PROVE  Owes(server, inbox, w, x, i)
      <4>1. CASE j \in DOMAIN inbox
        BY <1>2, <3>2, <4>1 DEF Owes
      <4>2. CASE j = k
        BY <1>2, <1>3, <3>2, <4>2 DEF Owes, m
      <4>. QED
        BY <1>4, <3>2, <4>1, <4>2
    <3>. QED
      BY <2>2, <3>1, <3>2 DEF Owes
  <2>. QED
    BY <2>1, <2>2
<1>7. \A i \in DOMAIN inbox' : Says(inbox'[i], w) =>
        \/ i \in DOMAIN inbox /\ Says(inbox[i], w)
        \/ i = k /\ w \in server[t].heard /\ w \notin server'[t].heard
  BY <1>2, <1>3, <1>4 DEF m
<1>8. PlaceInv(w)'
  <2>1. \A t1, t2 \in Cloud!Tasks : w \in server'[t1].heard /\ w \in server'[t2].heard => t1 = t2
    BY <1>0, <1>1 DEF PlaceInv
  <2>2. \A i \in DOMAIN inbox' : Says(inbox'[i], w) => \A x \in Cloud!Tasks : w \notin server'[x].heard
    BY <1>0, <1>1, <1>7 DEF PlaceInv
  <2>3. \A i, j \in DOMAIN inbox' : Says(inbox'[i], w) /\ Says(inbox'[j], w) => i = j
    BY <1>0, <1>7 DEF PlaceInv
  <2>4. Waits(w) => /\ \A x \in Cloud!Tasks : w \notin server'[x].heard
                    /\ \A i \in DOMAIN inbox' : ~Says(inbox'[i], w)
    BY <1>0, <1>1, <1>7 DEF PlaceInv
  <2>5. pending' = pending
    BY DEF ClientSame
  <2>. QED
    BY <2>1, <2>2, <2>3, <2>4, <2>5 DEF PlaceInv, Waits, Cloud!Tasks
<1>9. GivenInv(w)'
  <2>1. ~Uttered(w) => /\ \A x \in Cloud!Tasks : w \notin server'[x].heard
                       /\ \A i \in DOMAIN inbox' : ~Says(inbox'[i], w)
    BY <1>0, <1>1, <1>7 DEF GivenInv
  <2>2. (Uttered(w)' <=> Uttered(w)) /\ (Waits(w)' <=> Waits(w)) /\ Cloud!Tasks' = Cloud!Tasks
    BY DEF ClientSame, Uttered, Waits, Cloud!Tasks
  <2>3. UNCHANGED <<text, local, flush, finals>>
    BY DEF ClientSame
  <2>4. IsReported(finals', w) <=> IsReported(finals, w)
    BY <2>3
  <2>. QED
    BY <1>0, <2>1, <2>2, <2>3, <2>4 DEF GivenInv
<1>10. HeldInv(w)'
  <2>1. ASSUME NEW i \in DOMAIN inbox', inbox'[i].event = "result", ~inbox'[i].final,
               w \in inbox'[i].text
        PROVE  Owes(server', inbox', w, inbox'[i].task, i)
    <3>1. CASE i \in DOMAIN inbox
      <4>1. Owes(server, inbox, w, inbox[i].task, i)
        BY <1>0, <1>2, <2>1, <3>1 DEF HeldInv
      <4>2. inbox[i].task \in Cloud!Tasks /\ i \in Nat /\ i < k
        BY <1>0, <1>2, <3>1
      <4>. QED
        BY <1>2, <1>6, <3>1, <4>1, <4>2
    <3>2. CASE i = k
      BY <1>2, <1>5, <2>1, <3>2 DEF Owes, m
    <3>. QED
      BY <1>4, <2>1, <3>1, <3>2
  <2>2. 0 \in Nat /\ 0 < k
    BY <1>0 DEF k
  <2>3. w \in text => Owes(server', inbox', w, task, 0)
    BY <1>0, <1>6, <2>2 DEF HeldInv
  <2>4. waiter = "open" /\ w \in local => Owes(server', inbox', w, rescue, 0)
    <3>1. waiter = "open" => rescue \in Cloud!Tasks
      BY TaskIsOne DEF ClientInv, CloudTypes, WaitInv
    <3>. QED
      BY <1>0, <1>6, <2>2, <3>1 DEF HeldInv
  <2>. QED
    BY <2>1, <2>3, <2>4 DEF HeldInv, ClientSame
<1>11. TakenInv(w)'
  <2>1. 0 \in Nat /\ 0 < k
    BY <1>0 DEF k
  <2>2. \A x \in Cloud!Tasks : Taken(x) /\ Owes(server', inbox', w, x, 0) =>
          /\ ~IsReported(finals, w) /\ w \notin flush
          /\ waiter = "answered" => w \notin local
    BY <1>0, <1>6, <2>1 DEF TakenInv
  <2>3. UNCHANGED <<pending, finals, flush, local, waiter, task, rescue>>
    BY DEF ClientSame
  <2>4. Waits(w) => ~IsReported(finals, w) /\ w \notin flush /\ w \notin local
    BY <1>0 DEF TakenInv
  <2>. QED
    BY <2>2, <2>3, <2>4 DEF TakenInv, Taken, Waits, Cloud!Tasks
<1>12. ReportedInv(w)'
  BY <1>0 DEF ReportedInv, IsReported, ClientSame
<1>. QED
  BY <1>8, <1>9, <1>10, <1>11, <1>12 DEF WordInv

LEMMA FrameWord ==
  ASSUME ClientInv, NEW w \in Pairs, WordInv(w), FrameGiven
  PROVE  WordInv(w)'
<1>0. /\ CloudTypes /\ task \in Cloud!Tasks /\ ReportedInv(w)
      /\ UNCHANGED <<utterance, task, text, local, rescue, waiter, flush, inbox, open, closed, finals>>
      /\ spoken' = spoken + 1
  BY TaskIsOne DEF ClientInv, WordInv, FrameGiven
<1>1. ReportedInv(w)' /\ (Cloud!Live' <=> Cloud!Live)
  BY <1>0 DEF ReportedInv, IsReported, Cloud!Live
<1>. SUFFICES ASSUME Cloud!Live
              PROVE  PlaceInv(w)' /\ GivenInv(w)' /\ HeldInv(w)' /\ TakenInv(w)'
  BY <1>1 DEF WordInv
<1>2. PlaceInv(w) /\ GivenInv(w) /\ HeldInv(w) /\ TakenInv(w)
  BY DEF WordInv
<1>. DEFINE Added == Waits(w) \/ w = Cloud!Frame
<1>3. /\ w # Cloud!Frame /\ Uttered(w)' => Uttered(w)
      /\ Uttered(w) => Uttered(w)' /\ w # Cloud!Frame
      /\ w = Cloud!Frame => Uttered(w)'
  <2>1. w = <<w[1], w[2]>> /\ w[1] \in Nat /\ w[2] \in Nat /\ utterance \in Nat /\ spoken \in Nat
    BY <1>0 DEF Pairs, CloudTypes
  <2>2. w = Cloud!Frame <=> w[1] = utterance /\ w[2] = spoken + 1
    BY <2>1 DEF Cloud!Frame
  <2>. QED
    BY <1>0, <2>1, <2>2 DEF Uttered
<1>4. Added => /\ \A x \in Cloud!Tasks : w \notin server[x].heard
               /\ \A i \in DOMAIN inbox : ~Says(inbox[i], w)
               /\ ~IsReported(finals, w) /\ w \notin flush /\ w \notin local
  <2>1. CASE Waits(w)
    BY <1>2, <2>1 DEF PlaceInv, TakenInv
  <2>2. CASE w = Cloud!Frame
    BY <1>2, <1>3, <2>2 DEF GivenInv
  <2>. QED
    BY <2>1, <2>2
<1>5. /\ Waits(w)' => Added /\ server' = server
      /\ \A x \in Cloud!Tasks : w \in server[x].heard => w \in server'[x].heard
      /\ \A x \in Cloud!Tasks : w \in server'[x].heard => w \in server[x].heard \/ (x = task /\ Added)
  <2>0. pending \in Seq(Pairs) /\ Cloud!Frame \in Pairs
    BY <1>0, FrameIsPair DEF CloudTypes
  <2>1. CASE Buffers
    <3>1. Waits(w)' => Added
      BY <2>0, <2>1, PendingWords DEF Buffers, Waits
    <3>. QED
      BY <2>1, <3>1 DEF Buffers
  <2>2. CASE Pushes
    <3>1. ~Waits(w)'
      BY <2>2 DEF Pushes, Waits
    <3>2. w \in Cloud!WordsOf(Append(pending, Cloud!Frame)) => Added
      BY <2>0, PendingWords DEF Waits
    <3>3. \A x \in Cloud!Tasks : x # task => server'[x] = server[x]
      BY <2>2 DEF Pushes
    <3>4. /\ w \in server[task].heard => w \in server'[task].heard
          /\ w \in server'[task].heard => w \in server[task].heard \/ Added
      BY <2>2, <3>2 DEF Pushes
    <3>. QED
      BY <3>1, <3>3, <3>4
  <2>. QED
    BY <2>1, <2>2 DEF FrameGiven
<1>6. Waits(w) => Added
  OBVIOUS
<1>. HIDE DEF Added
<1>7. \A x, i : x \in Cloud!Tasks /\ Owes(server, inbox, w, x, i) => Owes(server', inbox', w, x, i)
  BY <1>0, <1>5 DEF Owes
<1>8. \A x, i : x \in Cloud!Tasks /\ Owes(server', inbox', w, x, i) =>
        Owes(server, inbox, w, x, i) \/ (x = task /\ Added)
  BY <1>0, <1>5 DEF Owes
<1>9. Cloud!Tasks' = Cloud!Tasks
  BY DEF Cloud!Tasks
<1>10. PlaceInv(w)'
  <2>1. \A t1, t2 \in Cloud!Tasks : w \in server'[t1].heard /\ w \in server'[t2].heard => t1 = t2
    BY <1>2, <1>4, <1>5 DEF PlaceInv
  <2>2. \A i \in DOMAIN inbox : Says(inbox[i], w) =>
          /\ \A x \in Cloud!Tasks : w \notin server'[x].heard
          /\ \A j \in DOMAIN inbox : Says(inbox[j], w) => i = j
    BY <1>2, <1>4, <1>5 DEF PlaceInv
  <2>3. Waits(w)' => /\ \A x \in Cloud!Tasks : w \notin server'[x].heard
                     /\ \A i \in DOMAIN inbox : ~Says(inbox[i], w)
    BY <1>4, <1>5
  <2>. QED
    BY <1>0, <1>9, <2>1, <2>2, <2>3 DEF PlaceInv
<1>11. GivenInv(w)'
  <2>1. ~Uttered(w)' => ~Uttered(w) /\ ~Added
    BY <1>2, <1>3 DEF GivenInv, Added
  <2>2. ~Uttered(w)' => ~Waits(w)' /\ \A x \in Cloud!Tasks : w \notin server'[x].heard
    BY <1>2, <1>5, <2>1 DEF GivenInv
  <2>. QED
    BY <1>0, <1>2, <1>9, <2>1, <2>2 DEF GivenInv, IsReported
<1>12. HeldInv(w)'
  <2>1. waiter = "open" => rescue \in Cloud!Tasks
    BY TaskIsOne DEF ClientInv, CloudTypes, WaitInv
  <2>2. \A i \in DOMAIN inbox : inbox[i].task \in Cloud!Tasks
    BY TaskIsOne DEF ClientInv, Message
  <2>. QED
    BY <1>0, <1>2, <1>7, <2>1, <2>2 DEF HeldInv
<1>13. TakenInv(w)'
  <2>1. \A x \in Cloud!Tasks : Taken(x) /\ Owes(server', inbox', w, x, 0) =>
          /\ ~IsReported(finals, w) /\ w \notin flush
          /\ waiter = "answered" => w \notin local
    BY <1>2, <1>4, <1>8 DEF TakenInv
  <2>2. Waits(w)' => ~IsReported(finals, w) /\ w \notin flush /\ w \notin local
    BY <1>4, <1>5
  <2>. QED
    BY <1>0, <1>9, <2>1, <2>2 DEF TakenInv, Taken
<1>. QED
  BY <1>10, <1>11, <1>12, <1>13

(* Steps that move no word: the first frame asks, speech is cut.           *)
LEMMA QuietWord ==
  ASSUME ClientInv, NEW w \in Pairs, WordInv(w),
         \A x \in Cloud!Tasks : server'[x].heard = server[x].heard,
         Uttered(w) => Uttered(w)',
         UNCHANGED <<task, pending, text, local, rescue, waiter, flush, inbox, open, closed, finals>>
  PROVE  WordInv(w)'
<1>1. \A x, i : x \in Cloud!Tasks => (Owes(server', inbox', w, x, i) <=> Owes(server, inbox, w, x, i))
  BY DEF Owes
<1>2. task \in Cloud!Tasks /\ Cloud!Tasks' = Cloud!Tasks
  BY TaskIsOne DEF ClientInv, Cloud!Tasks
<1>3. waiter = "open" => rescue \in Cloud!Tasks
  BY TaskIsOne DEF ClientInv, CloudTypes, WaitInv
<1>4. \A i \in DOMAIN inbox : inbox[i].task \in Cloud!Tasks
  BY TaskIsOne DEF ClientInv, Message
<1>5. (Cloud!Live' <=> Cloud!Live) /\ ReportedInv(w)'
  BY DEF Cloud!Live, WordInv, ReportedInv, IsReported
<1>6. ASSUME Cloud!Live PROVE PlaceInv(w)' /\ GivenInv(w)' /\ HeldInv(w)' /\ TakenInv(w)'
  <2>0. PlaceInv(w) /\ GivenInv(w) /\ HeldInv(w) /\ TakenInv(w)
    BY <1>6 DEF WordInv
  <2>1. PlaceInv(w)' /\ GivenInv(w)'
    BY <1>2, <2>0 DEF PlaceInv, GivenInv, Waits, IsReported
  <2>2. HeldInv(w)'
    BY <1>1, <1>2, <1>3, <1>4, <2>0 DEF HeldInv
  <2>3. TakenInv(w)'
    BY <1>1, <1>2, <2>0 DEF TakenInv, Taken, Waits, IsReported
  <2>. QED
    BY <2>1, <2>2, <2>3
<1>. QED
  BY <1>5, <1>6 DEF WordInv

LEMMA OneOwner ==
  ASSUME NEW w, PlaceInv(w), NEW x \in Cloud!Tasks, NEW y \in Cloud!Tasks,
         Owes(server, inbox, w, x, 0), Owes(server, inbox, w, y, 0)
  PROVE  x = y
BY DEF PlaceInv, Owes

LEMMA ReportOnce ==
  ASSUME finals \in Seq(SUBSET Pairs), NEW X \in SUBSET Pairs, Cloud!Report(X), NEW w,
         \A i, j \in DOMAIN finals : w \in finals[i] /\ w \in finals[j] => i = j,
         w \in X => ~IsReported(finals, w)
  PROVE  /\ IsReported(finals', w) => IsReported(finals, w) \/ w \in X
         /\ \A i, j \in DOMAIN finals' : w \in finals'[i] /\ w \in finals'[j] => i = j
<1>1. \A i \in DOMAIN finals : i \in DOMAIN finals' /\ finals'[i] = finals[i]
  BY Reports
<1>2. \A i \in DOMAIN finals' : i \in DOMAIN finals \/ (i = Len(finals) + 1 /\ finals'[i] = X)
  BY Reports
<1>. QED
  BY <1>1, <1>2 DEF IsReported

LEMMA EndWord ==
  ASSUME ClientInv, NEW w \in Pairs, WordInv(w), Ends
  PROVE  WordInv(w)'
<1>0. /\ CloudTypes /\ TasksInv /\ WaitInv /\ task \in Cloud!Tasks /\ ReportedInv(w)
      /\ UNCHANGED <<pending, flush, inbox, open, closed>> /\ text' = {} /\ Cloud!Tasks' = Cloud!Tasks
      /\ finals \in Seq(SUBSET Pairs) /\ text \in SUBSET Pairs
  BY TaskIsOne DEF ClientInv, WordInv, Ends, CloudTypes, Cloud!Tasks
<1>1. waiter = "none" /\ local = {} /\ flush = {}
  BY <1>0 DEF WaitInv, Ends
<1>2. CASE finals' = finals /\ open /\ waiter' = "open" /\ local' = text /\ rescue' = task
           /\ task' = task + 1
  <2>1. ReportedInv(w)'
    BY <1>0, <1>1, <1>2 DEF ReportedInv, IsReported
  <2>2. ASSUME Cloud!Live PROVE PlaceInv(w)' /\ GivenInv(w)' /\ HeldInv(w)' /\ TakenInv(w)'
    <3>0. PlaceInv(w) /\ GivenInv(w) /\ HeldInv(w) /\ TakenInv(w)
      BY <2>2 DEF WordInv
    <3>1. \A x \in Cloud!Tasks : server'[x].heard = server[x].heard
      BY DEF Ends
    <3>2. \A x, i : x \in Cloud!Tasks => (Owes(server', inbox', w, x, i) <=> Owes(server, inbox, w, x, i))
      BY <1>0, <3>1 DEF Owes
    <3>3. PlaceInv(w)'
      BY <1>0, <3>0, <3>1 DEF PlaceInv, Waits
    <3>4. Uttered(w) => Uttered(w)'
      BY <1>0 DEF Uttered, Ends, Pairs, CloudTypes
    <3>5. GivenInv(w)'
      BY <1>0, <1>2, <3>0, <3>1, <3>4 DEF GivenInv, Waits, IsReported
    <3>6. \A i \in DOMAIN inbox : inbox[i].task \in Cloud!Tasks
      BY TaskIsOne DEF ClientInv, Message
    <3>7. HeldInv(w)'
      BY <1>0, <1>2, <3>0, <3>2, <3>6 DEF HeldInv
    <3>8. \A x \in Cloud!Tasks : Taken(x)' => Taken(x)
      BY <1>0, <1>2, TaskIsOne DEF Taken
    <3>9. Waits(w) => w \notin text
      BY <1>0, <3>0 DEF PlaceInv, HeldInv, Owes
    <3>10. TakenInv(w)'
      BY <1>0, <1>2, <3>0, <3>2, <3>8, <3>9 DEF TakenInv, Waits, IsReported
    <3>. QED
      BY <3>3, <3>5, <3>7, <3>10
  <2>. QED
    BY <1>0, <2>1, <2>2 DEF WordInv, Cloud!Live
<1>3. CASE Cloud!Report(text) /\ UNCHANGED <<waiter, local>>
  <2>1. /\ IsReported(finals', w) => IsReported(finals, w) \/ w \in text
        /\ \A i, j \in DOMAIN finals' : w \in finals'[i] /\ w \in finals'[j] => i = j
    BY <1>0, <1>3, ReportOnce DEF ReportedInv
  <2>2. ReportedInv(w)'
    BY <1>0, <1>1, <1>3, <2>1 DEF ReportedInv
  <2>3. CASE ~open
    BY <1>0, <2>2, <2>3 DEF WordInv, Cloud!Live
  <2>4. CASE open /\ ~Cloud!Live
    BY <1>0, <2>2, <2>4 DEF WordInv, Cloud!Live
  <2>5. CASE Cloud!Live
    <3>0. PlaceInv(w) /\ GivenInv(w) /\ HeldInv(w) /\ TakenInv(w)
      BY <2>5 DEF WordInv
    <3>1. ~runSent /\ UNCHANGED <<rescue, task>>
      BY <1>1, <1>3, <2>5 DEF Ends, Cloud!Live
    <3>2. w \notin text
      <4>1. ~Owes(server, inbox, w, task, 0)
        BY <1>0, <3>1 DEF Owes, TasksInv
      <4>. QED
        BY <3>0, <4>1 DEF HeldInv
    <3>3. \A x \in Cloud!Tasks : server'[x].heard = server[x].heard
      BY DEF Ends
    <3>4. \A x, i : x \in Cloud!Tasks => (Owes(server', inbox', w, x, i) <=> Owes(server, inbox, w, x, i))
      BY <1>0, <3>3 DEF Owes
    <3>5. PlaceInv(w)'
      BY <1>0, <3>0, <3>3 DEF PlaceInv, Waits
    <3>6. Uttered(w) => Uttered(w)'
      BY <1>0 DEF Uttered, Ends, Pairs, CloudTypes
    <3>7. GivenInv(w)'
      BY <1>0, <1>3, <2>1, <3>0, <3>2, <3>3, <3>6 DEF GivenInv, Waits
    <3>8. \A i \in DOMAIN inbox : inbox[i].task \in Cloud!Tasks
      BY TaskIsOne DEF ClientInv, Message
    <3>9. HeldInv(w)'
      BY <1>0, <1>1, <1>3, <3>0, <3>4, <3>8 DEF HeldInv
    <3>10. TakenInv(w)'
      BY <1>0, <1>1, <1>3, <2>1, <3>0, <3>1, <3>2, <3>4 DEF TakenInv, Taken, Waits
    <3>. QED
      BY <2>2, <3>5, <3>7, <3>9, <3>10 DEF WordInv
  <2>. QED
    BY <2>3, <2>4, <2>5
<1>. QED
  BY <1>2, <1>3 DEF Ends

LEMMA FlushWord ==
  ASSUME ClientInv, NEW w \in Pairs, WordInv(w), Flushes
  PROVE  WordInv(w)'
<1>0. /\ CloudTypes /\ TasksInv /\ WaitInv /\ task \in Cloud!Tasks /\ ReportedInv(w)
      /\ UNCHANGED <<utterance, spoken, task, pending, text, open, closed, server, inbox>>
      /\ waiter' = "none" /\ local' = {} /\ flush' = {} /\ Cloud!Tasks' = Cloud!Tasks
      /\ finals \in Seq(SUBSET Pairs) /\ local \in SUBSET Pairs /\ flush \in SUBSET Pairs
  BY TaskIsOne DEF ClientInv, WordInv, Flushes, CloudTypes, Cloud!Tasks
<1>1. PICK X \in {local, flush} : Cloud!Report(X) /\ (waiter = "open" => X = local)
  BY <1>0 DEF Flushes
<1>2. /\ IsReported(finals', w) => IsReported(finals, w) \/ w \in X
      /\ \A i, j \in DOMAIN finals' : w \in finals'[i] /\ w \in finals'[j] => i = j
  <2>1. X \in SUBSET Pairs /\ (w \in X => ~IsReported(finals, w))
    BY <1>0, <1>1 DEF ReportedInv
  <2>. QED
    BY <1>0, <1>1, <2>1, ReportOnce DEF ReportedInv
<1>3. ReportedInv(w)'
  BY <1>0, <1>1, <1>2 DEF ReportedInv
<1>4. ASSUME Cloud!Live PROVE PlaceInv(w)' /\ GivenInv(w)' /\ HeldInv(w)' /\ TakenInv(w)'
  <2>0. PlaceInv(w) /\ GivenInv(w) /\ HeldInv(w) /\ TakenInv(w)
    BY <1>4 DEF WordInv
  <2>1. PlaceInv(w)'
    BY <1>0, <2>0 DEF PlaceInv, Waits
  <2>2. GivenInv(w)'
    BY <1>0, <1>1, <1>2, <2>0 DEF GivenInv, Uttered, Waits
  <2>3. HeldInv(w)'
    BY <1>0, <2>0 DEF HeldInv
  <2>4. ASSUME NEW x \in Cloud!Tasks, Taken(x)', Owes(server, inbox, w, x, 0)
        PROVE  ~IsReported(finals', w)
    <3>1. Taken(x) /\ x # 0
      BY <1>0, <2>4, TaskIsOne DEF Taken, Flushes
    <3>2. ~IsReported(finals, w) /\ w \notin flush /\ (waiter = "answered" => w \notin local)
      BY <2>0, <2>4, <3>1 DEF TakenInv
    <3>3. waiter = "open" => w \notin local
      <4>. SUFFICES ASSUME waiter = "open", w \in local PROVE FALSE
        OBVIOUS
      <4>1. rescue' = 0 /\ rescue < task /\ rescue \in Cloud!Tasks
        BY <1>0, TaskIsOne DEF Flushes, CloudTypes, WaitInv
      <4>2. Owes(server, inbox, w, rescue, 0)
        BY <2>0 DEF HeldInv
      <4>3. x = rescue
        BY <2>0, <2>4, <4>1, <4>2, OneOwner
      <4>. QED
        BY <1>0, <2>4, <3>1, <4>1, <4>3, TaskIsOne DEF Taken
    <3>. QED
      BY <1>0, <1>1, <1>2, <3>2, <3>3 DEF Flushes
  <2>5. TakenInv(w)'
    <3>1. Waits(w) => ~IsReported(finals', w)
      BY <1>1, <1>2, <2>0 DEF TakenInv
    <3>. QED
      BY <1>0, <2>4, <3>1 DEF TakenInv, Waits
  <2>. QED
    BY <2>1, <2>2, <2>3, <2>5
<1>. QED
  BY <1>0, <1>3, <1>4 DEF WordInv, Cloud!Live

LEMMA StopWord == ASSUME NEW w, WordInv(w), Stops PROVE WordInv(w)'
<1>1. ~Cloud!Live'
  BY DEF Stops, Cloud!Live
<1>. QED
  BY <1>1 DEF WordInv, ReportedInv, IsReported, Stops

LEMMA ReceiveWord ==
  ASSUME ClientInv, NEW w \in Pairs, WordInv(w), Receives
  PROVE  WordInv(w)'
<1>. DEFINE m == Head(inbox)
<1>0. /\ CloudTypes /\ TasksInv /\ WaitInv /\ task \in Cloud!Tasks /\ Cloud!Live
      /\ PlaceInv(w) /\ GivenInv(w) /\ HeldInv(w) /\ TakenInv(w) /\ ReportedInv(w)
      /\ UNCHANGED <<utterance, spoken, rx, task, pending, local, open, closed, server>>
      /\ TakesText(m) /\ Cloud!Tasks' = Cloud!Tasks
      /\ finals \in Seq(SUBSET Pairs)
  BY TaskIsOne DEF ClientInv, WordInv, Receives, CloudTypes, Cloud!Tasks
<1>1. /\ m = inbox[1] /\ 1 \in DOMAIN inbox /\ m \in Message /\ inbox' = Tail(inbox)
      /\ \A i \in DOMAIN inbox' : i + 1 \in DOMAIN inbox /\ inbox'[i] = inbox[i + 1] /\ i \in Nat
      /\ \A i \in DOMAIN inbox : i # 1 => i - 1 \in DOMAIN inbox' /\ inbox'[i - 1] = inbox[i]
      /\ \A i \in DOMAIN inbox : i \in Nat \ {0}
  <2>1. inbox \in Seq(Message)
    BY <1>0 DEF CloudTypes
  <2>2. \A i \in DOMAIN Tail(inbox) : i \in Nat
    BY <2>1 DEF Receives
  <2>3. \A i \in DOMAIN inbox : i \in Nat \ {0}
    BY <2>1
  <2>. QED
    BY <2>2, <2>3, Inbox DEF Receives
<1>2. m.task \in Cloud!Tasks /\ m.text \in SUBSET Pairs
  BY <1>1 DEF Message
<1>. HIDE DEF m
<1>3. \A x, i : i \in Nat => (Owes(server', inbox', w, x, i) <=> Owes(server, inbox, w, x, i + 1))
  <2>. SUFFICES ASSUME NEW x, NEW i \in Nat
                PROVE  Owes(server', inbox', w, x, i) <=> Owes(server, inbox, w, x, i + 1)
    OBVIOUS
  <2>1. ASSUME NEW j \in DOMAIN inbox', i < j, inbox'[j].task = x, Says(inbox'[j], w)
        PROVE  \E l \in DOMAIN inbox : i + 1 < l /\ inbox[l].task = x /\ Says(inbox[l], w)
    BY <1>1, <2>1
  <2>2. ASSUME NEW l \in DOMAIN inbox, i + 1 < l, inbox[l].task = x, Says(inbox[l], w)
        PROVE  \E j \in DOMAIN inbox' : i < j /\ inbox'[j].task = x /\ Says(inbox'[j], w)
    <3>1. l # 1 /\ l \in Nat /\ i < l - 1
      BY <1>1, <2>2
    <3>. QED
      BY <1>1, <2>2, <3>1
  <2>. QED
    BY <1>0, <2>1, <2>2 DEF Owes
<1>4. /\ \A x : Owes(server', inbox', w, x, 0) => Owes(server, inbox, w, x, 0)
      /\ \A x : Owes(server, inbox, w, x, 0) =>
           Owes(server', inbox', w, x, 0) \/ (m.task = x /\ Says(m, w))
  <2>1. \A x : Owes(server', inbox', w, x, 0) <=> Owes(server, inbox, w, x, 1)
    BY <1>3
  <2>2. \A x : Owes(server, inbox, w, x, 1) => Owes(server, inbox, w, x, 0)
    BY <1>1 DEF Owes
  <2>3. \A x : Owes(server, inbox, w, x, 0) =>
           Owes(server, inbox, w, x, 1) \/ (m.task = x /\ Says(m, w))
    <3>1. \A j \in DOMAIN inbox : j = 1 \/ 1 < j
      BY <1>1
    <3>. QED
      BY <1>1, <3>1 DEF Owes
  <2>. QED
    BY <2>1, <2>2, <2>3
<1>5. Says(m, w) => /\ Owes(server, inbox, w, m.task, 0) /\ ~Waits(w)
                    /\ \A x \in Cloud!Tasks : ~Owes(server', inbox', w, x, 0)
  <2>1. Says(m, w) => /\ \A x \in Cloud!Tasks : w \notin server[x].heard
                      /\ \A j \in DOMAIN inbox : Says(inbox[j], w) => j = 1
                      /\ ~Waits(w)
    BY <1>0, <1>1 DEF PlaceInv
  <2>2. Says(m, w) => \A x \in Cloud!Tasks : ~Owes(server, inbox, w, x, 1)
    BY <2>1 DEF Owes
  <2>3. Says(m, w) => Owes(server, inbox, w, m.task, 0)
    BY <1>1 DEF Owes
  <2>4. \A x : Owes(server', inbox', w, x, 0) <=> Owes(server, inbox, w, x, 1)
    BY <1>3
  <2>. QED
    BY <2>1, <2>2, <2>3, <2>4
<1>6. m.event = "result" /\ ~m.final /\ w \in m.text => Owes(server', inbox', w, m.task, 0)
  <2>1. m.event = "result" /\ ~m.final /\ w \in m.text => Owes(server, inbox, w, m.task, 1)
    BY <1>0, <1>1 DEF HeldInv
  <2>. QED
    BY <1>3, <2>1
<1>7. /\ m.event = "result" /\ w \in m.text => Uttered(w) /\ Owes(server, inbox, w, m.task, 0)
      /\ Uttered(w) <=> Uttered(w)'
  <2>1. m.event = "result" /\ w \in m.text => Owes(server, inbox, w, m.task, 0)
    BY <1>4, <1>5, <1>6 DEF Says
  <2>2. Owes(server, inbox, w, m.task, 0) => Uttered(w)
    BY <1>0, <1>2 DEF GivenInv, Owes
  <2>. QED
    BY <1>0, <2>1, <2>2 DEF Uttered
<1>8. \A x, y \in Cloud!Tasks : Owes(server, inbox, w, x, 0) /\ Owes(server, inbox, w, y, 0) => x = y
  BY <1>0, OneOwner
<1>9. /\ rescue # task /\ (waiter = "open" => rescue \in Cloud!Tasks)
      /\ waiter = "answered" => rescue = 0 /\ rescue # m.task
      /\ waiter = "none" => local = {} /\ waiter \in {"none", "open", "answered"}
      /\ waiter # "answered" => flush = {}
  BY <1>0, <1>2, TaskIsOne DEF WaitInv, CloudTypes, ClientInv
<1>10. PlaceInv(w)'
  <2>1. \A i \in DOMAIN inbox' : Says(inbox'[i], w) =>
          /\ \A x \in Cloud!Tasks : w \notin server[x].heard
          /\ \A j \in DOMAIN inbox' : Says(inbox'[j], w) => i = j
    <3>1. \A i, j \in DOMAIN inbox' : i + 1 = j + 1 => i = j
      BY <1>1
    <3>. QED
      BY <1>0, <1>1, <3>1 DEF PlaceInv
  <2>2. Waits(w) => \A i \in DOMAIN inbox' : ~Says(inbox'[i], w)
    BY <1>0, <1>1 DEF PlaceInv
  <2>. QED
    BY <1>0, <2>1, <2>2 DEF PlaceInv, Waits
<1>11. \A i \in DOMAIN inbox' : inbox'[i].event = "result" /\ ~inbox'[i].final /\ w \in inbox'[i].text =>
         Owes(server', inbox', w, inbox'[i].task, i)
  BY <1>0, <1>1, <1>3 DEF HeldInv
<1>12. /\ IsReported(finals', w) => IsReported(finals, w) \/ Says(m, w)
       /\ \A i, j \in DOMAIN finals' : w \in finals'[i] /\ w \in finals'[j] => i = j
  <2>1. CASE finals' = finals
    BY <1>0, <2>1 DEF ReportedInv
  <2>2. CASE Cloud!Report(m.text) /\ m.event = "result" /\ m.final /\ m.task \in {task, rescue}
    <3>1. w \in m.text <=> Says(m, w)
      BY <2>2 DEF Says
    <3>2. Taken(m.task)
      BY <1>0, <2>2, TaskIsOne DEF Taken, ClientInv
    <3>3. w \in m.text => ~IsReported(finals, w)
      BY <1>0, <1>2, <1>5, <3>1, <3>2 DEF TakenInv
    <3>. QED
      BY <1>0, <1>2, <2>2, <3>1, <3>3, ReportOnce DEF ReportedInv
  <2>. QED
    BY <1>0, <2>1, <2>2 DEF TakesText
<1>. DEFINE Aim ==
       /\ IsReported(finals', w) => w \notin text' /\ w \notin local /\ w \notin flush'
       /\ w \in text' => w \notin local /\ w \notin flush' /\ Owes(server', inbox', w, task, 0)
       /\ waiter' = "open" /\ w \in local => Owes(server', inbox', w, rescue', 0)
       /\ w \in text' => w \in text \/ Uttered(w)
       /\ w \in flush' => w \in flush \/ (Says(m, w) /\ m.task = rescue)
       /\ waiter' = "answered" => waiter = "answered" \/ (waiter = "open" /\ rescue # 0)
       /\ rescue' \in {0, rescue}
<1>13. Aim
  <2>1. /\ w \in text => Owes(server, inbox, w, task, 0) /\ w \notin local /\ w \notin flush
        /\ waiter = "open" /\ w \in local => Owes(server, inbox, w, rescue, 0)
        /\ IsReported(finals, w) => w \notin text /\ w \notin local /\ w \notin flush
    BY <1>0 DEF HeldInv, ReportedInv
  <2>2. Says(m, w) /\ m.task \in {task, rescue} =>
          ~IsReported(finals, w) /\ w \notin flush /\ (waiter = "answered" => w \notin local)
    BY <1>0, <1>2, <1>5, TaskIsOne DEF TakenInv, Taken, ClientInv
  <2>3. CASE m.event # "result" /\ UNCHANGED <<text, finals>> /\ rescue' = 0 /\ rescue = m.task
             /\ \/ waiter = "open" /\ waiter' = "answered" /\ flush' = {}
                \/ waiter # "open" /\ UNCHANGED <<waiter, flush>>
    <3>1. ~Says(m, w) /\ rescue # 0
      BY <1>2, <2>3, TaskIsOne DEF Says, ClientInv
    <3>. QED
      BY <1>4, <2>1, <2>3, <3>1
  <2>4. CASE /\ m.event = "result" => m.task # task /\ (m.task = rescue => ~m.final)
             /\ UNCHANGED <<rescue, waiter, flush, text, finals>>
    <3>1. Says(m, w) => m.task # task /\ m.task # rescue
      BY <2>4 DEF Says
    <3>. QED
      BY <1>4, <2>1, <2>4, <3>1
  <2>5. CASE m.task = rescue /\ m.task # task /\ m.event = "result" /\ m.final /\ rescue' = 0
             /\ \/ waiter = "open" /\ waiter' = "answered" /\ flush' = m.text /\ UNCHANGED finals
                \/ waiter # "open" /\ Cloud!Report(m.text) /\ UNCHANGED <<waiter, flush>>
             /\ UNCHANGED text
    <3>1. w \in m.text <=> Says(m, w)
      BY <2>5 DEF Says
    <3>2. w \in text => ~Says(m, w)
      BY <1>0, <1>2, <1>5, <1>8, <2>1, <2>5
    <3>3. rescue # 0
      BY <1>2, <2>5, TaskIsOne DEF ClientInv
    <3>4. CASE waiter = "open"
      BY <1>4, <1>9, <2>1, <2>2, <2>5, <3>1, <3>2, <3>3, <3>4
    <3>5. CASE waiter # "open"
      <4>1. waiter = "none" /\ local = {}
        BY <1>0, <1>9, <2>5, <3>5 DEF WaitInv
      <4>. QED
        BY <1>4, <1>12, <2>1, <2>2, <2>5, <3>1, <3>2, <4>1
    <3>. QED
      BY <3>4, <3>5
  <2>6. CASE m.task = task /\ m.event = "result" /\ UNCHANGED <<rescue, waiter, flush>>
             /\ \/ m.final /\ text' = {} /\ Cloud!Report(m.text)
                \/ ~m.final /\ text' = m.text /\ UNCHANGED finals
    <3>1. w \in m.text => Owes(server, inbox, w, task, 0)
      BY <1>7, <2>6
    <3>2. waiter = "open" /\ w \in local => w \notin m.text
      BY <1>0, <1>8, <1>9, <2>1, <3>1
    <3>3. w \in m.text => ~IsReported(finals, w) /\ w \notin flush
                          /\ (waiter = "answered" => w \notin local)
      BY <1>0, <3>1, TaskIsOne DEF TakenInv, Taken, ClientInv
    <3>4. w \in m.text => w \notin local
      BY <1>0, <1>9, <3>2, <3>3 DEF WaitInv
    <3>5. waiter = "open" /\ w \in local => Owes(server', inbox', w, rescue, 0)
      BY <1>4, <1>9, <2>1, <2>6
    <3>6. Says(m, w) => w \in m.text
      BY DEF Says
    <3>. QED
      BY <1>6, <1>7, <1>12, <2>1, <2>6, <3>3, <3>4, <3>5, <3>6
  <2>. QED
    BY <1>0, <2>3, <2>4, <2>5, <2>6 DEF TakesText
<1>14. ReportedInv(w)'
  BY <1>0, <1>12, <1>13 DEF ReportedInv
<1>15. GivenInv(w)'
  <2>1. Says(m, w) => Uttered(w)
    BY <1>7 DEF Says
  <2>2. ~Uttered(w) => /\ ~IsReported(finals', w) /\ w \notin text' /\ w \notin local /\ w \notin flush'
                       /\ \A i \in DOMAIN inbox' : ~Says(inbox'[i], w)
    BY <1>0, <1>1, <1>12, <1>13, <2>1 DEF GivenInv
  <2>. QED
    BY <1>0, <1>7, <2>2 DEF GivenInv, Waits
<1>16. HeldInv(w)'
  BY <1>0, <1>11, <1>13 DEF HeldInv
<1>17. TakenInv(w)'
  <2>1. ASSUME NEW x \in Cloud!Tasks, Taken(x)', Owes(server', inbox', w, x, 0)
        PROVE  /\ ~IsReported(finals', w) /\ w \notin flush'
               /\ waiter' = "answered" => w \notin local
    <3>1. Taken(x) /\ x # 0
      BY <1>0, <1>13, <2>1, TaskIsOne DEF Taken, ClientInv
    <3>2. Owes(server, inbox, w, x, 0) /\ ~Says(m, w)
      BY <1>4, <1>5, <2>1
    <3>3. /\ ~IsReported(finals, w) /\ w \notin flush
          /\ waiter = "answered" => w \notin local
      BY <1>0, <3>1, <3>2 DEF TakenInv
    <3>4. waiter = "open" /\ waiter' = "answered" => w \notin local
      <4>. SUFFICES ASSUME waiter = "open", waiter' = "answered", w \in local PROVE FALSE
        OBVIOUS
      <4>1. x = rescue
        BY <1>0, <1>8, <1>9, <3>2 DEF HeldInv
      <4>2. rescue' = 0
        BY <1>0, <1>9, <1>13 DEF TakesText
      <4>. QED
        BY <1>0, <1>9, <2>1, <3>1, <4>1, <4>2, TaskIsOne DEF Taken, CloudTypes
    <3>. QED
      BY <1>12, <1>13, <3>2, <3>3, <3>4
  <2>2. Waits(w) => ~IsReported(finals', w) /\ w \notin flush' /\ w \notin local
    BY <1>0, <1>5, <1>12, <1>13 DEF TakenInv
  <2>. QED
    BY <1>0, <2>1, <2>2 DEF TakenInv, Waits
<1>. QED
  BY <1>0, <1>10, <1>14, <1>15, <1>16, <1>17 DEF WordInv

-----------------------------------------------------------------------------
(* What the steps do with utterances.                                      *)
LEMMA MixedFits ==
  ASSUME NEW c, NEW d, c \subseteq d, NEW X, NEW Y, Y \subseteq X, Mixed(c, X)
  PROVE  Mixed(d, Y)
BY DEF Mixed

LEMMA NothingMixed == \A c : Mixed(c, {})
BY DEF Mixed

(* Every text of the next state is one of this, or made of such.           *)
LEMMA FinalsMixed ==
  ASSUME CloudTypes, NEW X \in SUBSET Pairs, Cloud!Report(X) \/ finals' = finals, Mixed(carried, X),
         \A i \in DOMAIN finals : Mixed(carried, finals[i])
  PROVE  \A i \in DOMAIN finals' : Mixed(carried, finals'[i])
<1>1. finals \in Seq(SUBSET Pairs)
  BY DEF CloudTypes
<1>2. CASE Cloud!Report(X)
  BY <1>1, <1>2, Reports
<1>. QED
  BY <1>2

LEMMA ServerMixed ==
  ASSUME ClientInv, MixedInv, NEW t \in Cloud!Tasks, ServerSteps(t), ClientSame
  PROVE  MixedInv'
<1>0. task \in Cloud!Tasks /\ Cloud!Tasks' = Cloud!Tasks
  BY TaskIsOne DEF ClientInv, Cloud!Tasks
<1>1. \A x \in Cloud!Tasks : server'[x].heard \subseteq server[x].heard
  BY DEF ServerSteps
<1>2. \A x \in Cloud!Tasks : Mixed(carried, server'[x].heard)
  BY <1>1, MixedFits DEF MixedInv
<1>3. \A i \in DOMAIN inbox' : \/ i \in DOMAIN inbox /\ inbox'[i] = inbox[i]
                               \/ inbox'[i].text = {} \/ inbox'[i].text = server[t].heard
  BY DEF ServerSteps
<1>4. \A i \in DOMAIN inbox' : Mixed(carried, inbox'[i].text)
  BY <1>3, NothingMixed DEF MixedInv
<1>5. \A w \in server'[task].heard : w[1] <= utterance /\ (w[1] # utterance => w[1] \in carried)
  BY <1>0, <1>1 DEF MixedInv
<1>. QED
  BY <1>0, <1>2, <1>4, <1>5 DEF MixedInv, ClientSame

LEMMA FrameMixed ==
  ASSUME ClientInv, MixedInv, FrameGiven
  PROVE  MixedInv'
<1>0. /\ CloudTypes /\ task \in Cloud!Tasks /\ Cloud!Tasks' = Cloud!Tasks
      /\ UNCHANGED <<utterance, task, text, local, flush, inbox, finals>>
      /\ pending \in Seq(Pairs) /\ Cloud!Frame \in Pairs /\ Cloud!Frame[1] = utterance
      /\ utterance \in Nat
  BY TaskIsOne, FrameIsPair DEF ClientInv, FrameGiven, Cloud!Tasks, CloudTypes, Cloud!Frame
<1>1. CASE Buffers
  <2>1. \A i \in DOMAIN pending' : pending'[i][1] <= utterance
    BY <1>0, <1>1 DEF Buffers, MixedInv
  <2>. QED
    BY <1>0, <1>1, <2>1 DEF Buffers, MixedInv
<1>2. CASE Pushes
  <2>1. carried \subseteq carried' /\ pending' = <<>>
    BY <1>2 DEF Pushes
  <2>2. /\ \A i \in DOMAIN inbox : Mixed(carried', inbox[i].text)
        /\ Mixed(carried', text) /\ Mixed(carried', local) /\ Mixed(carried', flush)
        /\ \A i \in DOMAIN finals : Mixed(carried', finals[i])
        /\ \A x \in Cloud!Tasks : Mixed(carried', server[x].heard)
    BY <2>1, MixedFits DEF MixedInv
  <2>3. ASSUME NEW w \in server'[task].heard
        PROVE  w[1] \in Nat /\ w[1] <= utterance /\ (w[1] # utterance => w[1] \in carried')
    <3>1. CASE w \in server[task].heard
      <4>1. w \in Pairs
        BY <1>0, <3>1, TaskIsOne
      <4>. QED
        BY <2>1, <3>1, <4>1 DEF MixedInv, Pairs
    <3>2. CASE w \in Cloud!WordsOf(Append(pending, Cloud!Frame))
      <4>1. (\E i \in DOMAIN pending : pending[i] = w) \/ w = Cloud!Frame
        BY <1>0, <3>2, PendingWords
      <4>2. ASSUME NEW i \in DOMAIN pending, pending[i] = w
            PROVE  w[1] <= utterance /\ (w[1] # utterance => w[1] \in carried') /\ w \in Pairs
        <5>1. i \in 1 .. Len(pending) /\ w \in Pairs
          BY <1>0, <4>2
        <5>2. w[1] # utterance => w[1] \in carried'
          BY <1>2, <4>2, <5>1 DEF Pushes
        <5>. QED
          BY <4>2, <5>1, <5>2 DEF MixedInv
      <4>. QED
        BY <1>0, <4>1, <4>2 DEF Pairs
    <3>. QED
      BY <1>2, <3>1, <3>2 DEF Pushes
  <2>4. Mixed(carried', server'[task].heard)
    BY <1>0, <2>3 DEF Mixed
  <2>5. \A x \in Cloud!Tasks : Mixed(carried', server'[x].heard)
    BY <1>2, <2>2, <2>4 DEF Pushes
  <2>. QED
    BY <1>0, <2>1, <2>2, <2>3, <2>5 DEF MixedInv
<1>. QED
  BY <1>1, <1>2 DEF FrameGiven

LEMMA AskMixed ==
  ASSUME ClientInv, MixedInv, Cloud!SendFirst, open
  PROVE  MixedInv'
<1>1. /\ \A x \in Cloud!Tasks : server'[x].heard = server[x].heard
      /\ task \in Cloud!Tasks /\ Cloud!Tasks' = Cloud!Tasks
  BY AskClient, TaskIsOne DEF ClientInv, Cloud!Tasks
<1>2. UNCHANGED <<utterance, task, pending, text, local, flush, inbox, finals, carried>>
  BY DEF Cloud!SendFirst, Cloud!callerVars, Cloud!recvVars
<1>. QED
  BY <1>1, <1>2 DEF MixedInv

LEMMA EndMixed ==
  ASSUME ClientInv, MixedInv, Ends
  PROVE  MixedInv'
<1>0. /\ CloudTypes /\ TasksInv /\ task \in Cloud!Tasks /\ Cloud!Tasks' = Cloud!Tasks
      /\ UNCHANGED <<pending, flush, inbox, carried>> /\ text' = {} /\ utterance' = utterance + 1
      /\ utterance \in Nat /\ text \in SUBSET Pairs /\ task \in Nat /\ task <= utterance
      /\ utterance <= Utterances /\ Utterances \in Nat /\ pending \in Seq(Pairs)
  BY TaskIsOne DEF ClientInv, Ends, Cloud!Tasks, CloudTypes
<1>1. \A x \in Cloud!Tasks : server'[x].heard = server[x].heard
  BY DEF Ends
<1>2. server'[task'].heard = {}
  <2>1. task + 1 \in Cloud!Tasks /\ task + 1 > task
    BY <1>0 DEF Cloud!Tasks
  <2>2. server[task + 1].heard = {} /\ (~runSent => server[task].heard = {})
    BY <1>0, <2>1 DEF TasksInv
  <2>3. task' = task + 1 \/ (task' = task /\ ~runSent)
    BY DEF Ends
  <2>. QED
    BY <1>0, <1>1, <2>1, <2>2, <2>3
<1>3. \A i \in DOMAIN finals' : Mixed(carried, finals'[i])
  <2>1. Cloud!Report(text) \/ finals' = finals
    BY DEF Ends
  <2>2. Mixed(carried, text) /\ \A i \in DOMAIN finals : Mixed(carried, finals[i])
    BY DEF MixedInv
  <2>. QED
    BY <1>0, <2>1, <2>2, FinalsMixed
<1>4. Mixed(carried, local') /\ Mixed(carried, text')
  <2>1. local' = local \/ local' = text
    BY DEF Ends
  <2>. QED
    BY <1>0, <2>1, NothingMixed DEF MixedInv
<1>5. \A i \in DOMAIN pending : pending[i][1] <= utterance'
  <2>1. \A i \in DOMAIN pending : pending[i][1] \in Nat
    BY <1>0 DEF Pairs
  <2>. QED
    BY <1>0, <2>1 DEF MixedInv
<1>. QED
  BY <1>0, <1>1, <1>2, <1>3, <1>4, <1>5 DEF MixedInv

LEMMA FlushMixed ==
  ASSUME ClientInv, MixedInv, Flushes
  PROVE  MixedInv'
<1>0. /\ CloudTypes /\ Cloud!Tasks' = Cloud!Tasks
      /\ UNCHANGED <<utterance, task, pending, text, server, inbox, carried>>
      /\ local' = {} /\ flush' = {} /\ local \in SUBSET Pairs /\ flush \in SUBSET Pairs
  BY DEF ClientInv, Flushes, Cloud!Tasks, CloudTypes
<1>1. PICK X \in {local, flush} : Cloud!Report(X)
  BY DEF Flushes
<1>2. \A i \in DOMAIN finals' : Mixed(carried, finals'[i])
  <2>1. Mixed(carried, X) /\ X \in SUBSET Pairs /\ \A i \in DOMAIN finals : Mixed(carried, finals[i])
    BY <1>0, <1>1 DEF MixedInv
  <2>. QED
    BY <1>0, <1>1, <2>1, FinalsMixed
<1>. QED
  BY <1>0, <1>2, NothingMixed DEF MixedInv

LEMMA CutMixed ==
  ASSUME ClientInv, MixedInv, Cuts \/ Stops
  PROVE  MixedInv'
<1>0. /\ utterance \in Nat /\ pending \in Seq(Pairs) /\ Cloud!Tasks' = Cloud!Tasks
      /\ server[task].heard \in SUBSET Pairs
  BY TaskIsOne DEF ClientInv, CloudTypes, Cloud!Tasks
<1>1. CASE Cuts
  <2>1. /\ utterance' = utterance + 1 /\ carried' = carried \cup {utterance}
        /\ UNCHANGED <<task, pending, text, local, flush, inbox, server, finals>>
    BY <1>1 DEF Cuts
  <2>2. /\ \A i \in DOMAIN inbox : Mixed(carried', inbox[i].text)
        /\ Mixed(carried', text) /\ Mixed(carried', local) /\ Mixed(carried', flush)
        /\ \A i \in DOMAIN finals : Mixed(carried', finals[i])
        /\ \A x \in Cloud!Tasks : Mixed(carried', server[x].heard)
    BY <2>1, MixedFits DEF MixedInv
  <2>3. \A w \in server[task].heard : w[1] <= utterance' /\ (w[1] # utterance' => w[1] \in carried')
    <3>1. \A w \in server[task].heard : w[1] \in Nat
      BY <1>0 DEF Pairs
    <3>2. \A w \in server[task].heard : w[1] <= utterance /\ (w[1] # utterance => w[1] \in carried)
      BY DEF MixedInv
    <3>. QED
      BY <1>0, <2>1, <3>1, <3>2
  <2>4. \A i \in DOMAIN pending : pending[i][1] <= utterance'
    <3>1. \A i \in DOMAIN pending : pending[i][1] \in Nat
      BY <1>0 DEF Pairs
    <3>2. \A i \in DOMAIN pending : pending[i][1] <= utterance
      BY DEF MixedInv
    <3>. QED
      BY <1>0, <2>1, <3>1, <3>2
  <2>. QED
    BY <1>0, <2>1, <2>2, <2>3, <2>4 DEF MixedInv
<1>2. CASE Stops
  BY <1>0, <1>2 DEF Stops, MixedInv
<1>. QED
  BY <1>1, <1>2

LEMMA ReceiveMixed ==
  ASSUME ClientInv, MixedInv, Receives
  PROVE  MixedInv'
<1>. DEFINE m == Head(inbox)
<1>0. /\ CloudTypes /\ Cloud!Tasks' = Cloud!Tasks /\ TakesText(m) /\ inbox' = Tail(inbox)
      /\ UNCHANGED <<utterance, task, pending, local, server, carried>>
  BY DEF ClientInv, Receives, Cloud!Tasks
<1>1. /\ Mixed(carried, m.text) /\ m \in Message
      /\ \A i \in DOMAIN inbox' : Mixed(carried, inbox'[i].text)
  BY <1>0, Inbox DEF Receives, MixedInv
<1>2. m.text \in SUBSET Pairs
  BY <1>1 DEF Message
<1>. HIDE DEF m
<1>3. \A i \in DOMAIN finals' : Mixed(carried, finals'[i])
  <2>1. Cloud!Report(m.text) \/ finals' = finals
    BY <1>0 DEF TakesText
  <2>2. \A i \in DOMAIN finals : Mixed(carried, finals[i])
    BY DEF MixedInv
  <2>. QED
    BY <1>0, <1>1, <1>2, <2>1, <2>2, FinalsMixed
<1>4. Mixed(carried, text') /\ Mixed(carried, flush')
  <2>1. text' \in {text, {}, m.text} /\ flush' \in {flush, {}, m.text}
    BY <1>0 DEF TakesText
  <2>. QED
    BY <1>1, <2>1, NothingMixed DEF MixedInv
<1>. QED
  BY <1>0, <1>1, <1>3, <1>4 DEF MixedInv

-----------------------------------------------------------------------------
(* For any number of utterances and frames: no frame of the caller is in   *)
(* two of the texts that the conversation is given, whatever the order of  *)
(* sentences, ends of speech and time-outs, and a text has frames of two   *)
(* utterances only where the audio of the earlier was carried on           *)
(* (stt.py: send_audio, end_speech, _recv_loop).                           *)
THEOREM WordsComeOnce ==
  ASSUME Utterances \in Nat, FramesEach \in Nat
  PROVE  Cloud!Spec => []Cloud!NothingTwice /\ []Cloud!OneUtterancePerFinal
<1>. DEFINE CloudInv == ClientInv /\ MixedInv /\ \A w \in Pairs : WordInv(w)
<1>1. Cloud!Init => CloudInv
  <2>. SUFFICES ASSUME Cloud!Init PROVE CloudInv
    OBVIOUS
  <2>0. /\ utterance = 1 /\ spoken = 0 /\ rx = "ready" /\ task = 1 /\ runSent = FALSE
        /\ pending = <<>> /\ text = {} /\ local = {} /\ rescue = 0 /\ waiter = "none"
        /\ flush = {} /\ inbox = <<>> /\ finals = <<>>
        /\ \A t \in Cloud!Tasks : server[t].heard = {} /\ server[t].state = "none"
    BY DEF Cloud!Init
  <2>1. ClientInv
    <3>1. server \in [Cloud!Tasks -> ServerTask]
      BY DEF Cloud!Init, ServerTask
    <3>2. utterance \in 1 .. (Utterances + 1) /\ task \in 1 .. utterance /\ task \in Cloud!Tasks
      BY <2>0 DEF Cloud!Tasks
    <3>3. <<>> \in Seq(Pairs) /\ <<>> \in Seq(Message) /\ <<>> \in Seq(SUBSET Pairs)
      OBVIOUS
    <3>4. CloudTypes
      <4>1. rescue < task /\ rescue \in Nat /\ runSent \in BOOLEAN /\ spoken \in Nat /\ ~(spoken > 0)
        <5>1. rescue = 0 /\ task = 1 /\ spoken = 0
          BY <2>0
        <5>2. rescue < task /\ rescue \in Nat /\ spoken \in Nat /\ ~(spoken > 0)
          BY <5>1
        <5>. QED
          BY <2>0, <5>2
      <4>2. pending \in Seq(Pairs) /\ inbox \in Seq(Message) /\ finals \in Seq(SUBSET Pairs)
        BY <2>0, <3>3
      <4>3. text \subseteq Pairs /\ local \subseteq Pairs /\ flush \subseteq Pairs
        BY <2>0
      <4>. QED
        BY <3>1, <3>2, <4>1, <4>2, <4>3 DEF CloudTypes
    <3>5. TasksInv
      <4>1. DOMAIN inbox = {}
        BY <2>0
      <4>2. server[task].state = "none"
        BY <2>0, <3>2
      <4>3. inbox = <<>>
        BY <2>0
      <4>. QED
        BY <4>1, <4>2, <4>3, <2>0 DEF TasksInv
    <3>6. WaitInv
      BY <2>0 DEF WaitInv
    <3>. QED
      BY <3>4, <3>5, <3>6 DEF ClientInv
  <2>2. MixedInv
    <3>1. task \in Cloud!Tasks
      BY <2>0 DEF Cloud!Tasks
    <3>2. DOMAIN inbox = {} /\ DOMAIN finals = {} /\ DOMAIN pending = {}
      BY <2>0
    <3>3. server[task].heard = {}
      BY <2>0, <3>1
    <3>4. Mixed(carried, {})
      BY NothingMixed
    <3>5. \A t \in Cloud!Tasks : Mixed(carried, server[t].heard)
      BY <2>0, <3>4
    <3>6. Mixed(carried, text) /\ Mixed(carried, local) /\ Mixed(carried, flush)
      BY <2>0, <3>4
    <3>. QED
      BY <3>2, <3>3, <3>5, <3>6 DEF MixedInv
  <2>3. ASSUME NEW w \in Pairs PROVE WordInv(w)
    BY DEF Cloud!Init, WordInv, PlaceInv, GivenInv, HeldInv, TakenInv, ReportedInv, Owes, Waits,
       IsReported
  <2>. QED
    BY <2>1, <2>2, <2>3
<1>2. CloudInv /\ [Cloud!Next]_(Cloud!vars) => CloudInv'
  <2>. SUFFICES ASSUME ClientInv, MixedInv, \A w \in Pairs : WordInv(w), [Cloud!Next]_(Cloud!vars)
                PROVE  CloudInv'
    OBVIOUS
  <2>. SUFFICES ClientInv' /\ MixedInv' /\ \A w \in Pairs : WordInv(w)'
    BY DEF Pairs
  <2>1. CASE FrameGiven
    BY <2>1, FrameClient, FrameMixed, FrameWord
  <2>2. CASE Cloud!SendFirst /\ open
    <3>1. /\ \A x \in Cloud!Tasks : server'[x].heard = server[x].heard
          /\ UNCHANGED <<utterance, spoken, task, pending, text, local, rescue, waiter, flush, inbox,
                         open, closed, finals>>
      BY <2>2, AskClient DEF Cloud!SendFirst, Cloud!callerVars, Cloud!recvVars, Cloud!socketVars
    <3>2. \A w : Uttered(w) => Uttered(w)'
      BY <3>1 DEF Uttered
    <3>. QED
      BY <2>2, <3>1, <3>2, AskClient, AskMixed, QuietWord
  <2>3. CASE Ends
    BY <2>3, EndClient, EndMixed, EndWord
  <2>4. CASE Flushes
    BY <2>4, FlushClient, FlushMixed, FlushWord
  <2>5. CASE Cuts
    <3>1. UNCHANGED <<task, pending, text, local, rescue, waiter, flush, inbox, open, closed, finals,
                      server>>
      BY <2>5 DEF Cuts
    <3>2. \A w \in Pairs : Uttered(w) => Uttered(w)'
      BY <2>5 DEF Uttered, Cuts, Pairs, ClientInv, CloudTypes
    <3>. QED
      BY <2>5, <3>1, <3>2, CutClient, CutMixed, QuietWord
  <2>6. CASE Stops
    BY <2>6, CutClient, CutMixed, StopWord
  <2>7. CASE Receives
    BY <2>7, ReceiveClient, ReceiveMixed, ReceiveWord
  <2>8. ASSUME NEW t \in Cloud!Tasks, ServerSteps(t), ClientSame
        PROVE  ClientInv' /\ MixedInv' /\ \A w \in Pairs : WordInv(w)'
    BY <2>8, ServerClient, ServerMixed, ServerWord
  <2>9. CASE UNCHANGED Cloud!vars
    <3>1. UNCHANGED <<utterance, spoken, rx, task, runSent, pending, text, local, rescue, waiter,
                      flush, open, closed, server, inbox, finals, carried>>
      BY <2>9 DEF Cloud!vars
    <3>2. ClientInv'
      BY <3>1 DEF ClientInv, CloudTypes, TasksInv, WaitInv, Cloud!Tasks, Cloud!Live
    <3>3. MixedInv'
      BY <3>1 DEF MixedInv, Cloud!Tasks
    <3>4. \A w : Uttered(w) => Uttered(w)'
      BY <3>1 DEF Uttered
    <3>. QED
      BY <3>1, <3>2, <3>3, <3>4, QuietWord
  <2>10. ASSUME NEW t \in Cloud!Tasks,
                \/ Cloud!TaskStarts(t) \/ Cloud!Hypothesis(t) \/ Cloud!Sentence(t)
                \/ Cloud!TaskFinishes(t) \/ Cloud!TaskFails(t)
         PROVE  ServerSteps(t) /\ ClientSame
    <3>1. ClientSame
      BY <2>10 DEF ClientSame, Cloud!TaskStarts, Cloud!Hypothesis, Cloud!Sentence, Cloud!TaskFinishes,
         Cloud!TaskFails, Cloud!ClientVars, Cloud!callerVars, Cloud!socketVars
    <3>. QED
      BY <2>10, <3>1, ServerFits
  <2>11. CASE Cloud!Next
    <3>1. (Cloud!SendFirst /\ ~open) \/ Cloud!Started \/ Cloud!StartTimesOut \/ Cloud!SendAudio
            => FrameGiven
      BY FrameFits
    <3>. QED
      BY <2>1, <2>2, <2>3, <2>4, <2>5, <2>6, <2>7, <2>8, <2>10, <2>11, <3>1, EndFits, FlushFits,
         CutFits, StopFits, ReceiveFits DEF Cloud!Next, Cloud!Step
  <2>. QED
    BY <2>9, <2>11
<1>3. CloudInv => Cloud!NothingTwice
  <2>. SUFFICES ASSUME CloudInv, NEW i \in 1 .. Len(finals), NEW j \in 1 .. Len(finals), i # j
                PROVE  finals[i] \cap finals[j] = {}
    BY DEF Cloud!NothingTwice
  <2>1. DOMAIN finals = 1 .. Len(finals) /\ finals[i] \subseteq Pairs
    BY DEF ClientInv, CloudTypes
  <2>2. \A w \in Pairs : ~(w \in finals[i] /\ w \in finals[j])
    BY <2>1 DEF WordInv, ReportedInv
  <2>. QED
    BY <2>1, <2>2
<1>4. CloudInv => Cloud!OneUtterancePerFinal
  <2>1. CloudInv => DOMAIN finals = 1 .. Len(finals)
    BY DEF ClientInv, CloudTypes
  <2>. QED
    BY <2>1 DEF MixedInv, Mixed, Cloud!OneUtterancePerFinal
<1>. QED
  BY <1>1, <1>2, <1>3, <1>4, PTL DEF Cloud!Spec
=============================================================================
