------------------------------ MODULE SharedEsl ------------------------------
(***************************************************************************)
(* The ESL connection that all calls of one voice agent share              *)
(* (server.py, _ESLClient and _get_shared_esl_client): playback and break  *)
(* commands take turns on it, an answer belongs to the command before it,  *)
(* and a call keeps the client it was first given.  Answers arrive whole.  *)
(***************************************************************************)
EXTENDS Naturals, Sequences

CONSTANTS
    Calls,
    MaxCommands,    \* bound: commands issued
    MaxConns        \* bound: connections made

Commands == 1 .. MaxCommands
Conns == 1 .. MaxConns

VARIABLES
    client,         \* _shared_esl_client, a connection or 0
    conn,           \* per connection: none, open, ended by the peer, or closed here
    made,           \* connections made
    asking,         \* calls in _get_shared_esl_client
    held,           \* per call: _playback_esl, a connection or 0
    command,        \* per command: whose, on which connection, how far, and the
                    \*   command whose answer it was given
    issued,         \* commands issued
    awaited,        \* per call: the command it awaits, or 0
    pipe,           \* per connection: commands on their way to FreeSWITCH
    replies,        \* per connection: answers on their way back
    ran,            \* history: commands FreeSWITCH carried out, in order
    late            \* history: connections on which a command timed out

vars == <<client, conn, made, asking, held, command, issued, awaited, pipe, replies, ran, late>>

NoCommand == [call |-> "none", conn |-> 0, step |-> "none", got |-> 0]

Init ==
    /\ client = 0
    /\ conn = [k \in Conns |-> "none"]
    /\ made = 0
    /\ asking = {}
    /\ held = [c \in Calls |-> 0]
    /\ command = [x \in Commands |-> NoCommand]
    /\ issued = 0
    /\ awaited = [c \in Calls |-> 0]
    /\ pipe = [k \in Conns |-> <<>>]
    /\ replies = [k \in Conns |-> <<>>]
    /\ ran = <<>>
    /\ late = {}

\* is_open: whether the transport was closed on this side.
IsOpen(k) == k # 0 /\ conn[k] \in {"open", "ended"}

----------------------------------------------------------------------------
\* api(): an exchange of its own is started, and awaited.
Issue(c, k) ==
    /\ issued < MaxCommands
    /\ issued' = issued + 1
    /\ command' = [command EXCEPT ![issued'] =
                     [call |-> c, conn |-> k, step |-> "queued", got |-> 0]]
    /\ awaited' = [awaited EXCEPT ![c] = issued']

\* _play_audio_chunk and on_interrupted: the client the call has, or the shared one.
Ask(c) ==
    /\ awaited[c] = 0 /\ c \notin asking
    /\ \/ /\ held[c] # 0
          /\ Issue(c, held[c])
          /\ UNCHANGED <<asking, held>>
       \/ /\ held[c] = 0 /\ IsOpen(client)
          /\ held' = [held EXCEPT ![c] = client]
          /\ Issue(c, client)
          /\ UNCHANGED asking
       \/ /\ held[c] = 0 /\ ~IsOpen(client)
          /\ issued < MaxCommands
          /\ asking' = asking \cup {c}
          /\ UNCHANGED <<held, issued, command, awaited>>
    /\ UNCHANGED <<client, conn, made, pipe, replies, ran, late>>

\* connect(), under the lock: who comes second finds the connection made.
Connect ==
    /\ asking # {} /\ ~IsOpen(client)
    /\ made < MaxConns
    /\ made' = made + 1
    /\ conn' = [conn EXCEPT ![made'] = "open"]
    /\ client' = made'
    /\ UNCHANGED <<asking, held, command, issued, awaited, pipe, replies, ran, late>>

ConnectFails(c) ==
    /\ c \in asking /\ ~IsOpen(client)
    /\ asking' = asking \ {c}
    /\ UNCHANGED <<client, conn, made, held, command, issued, awaited, pipe, replies, ran, late>>

Given(c) ==
    /\ c \in asking /\ IsOpen(client)
    /\ asking' = asking \ {c}
    /\ held' = [held EXCEPT ![c] = client]
    /\ Issue(c, client)
    /\ UNCHANGED <<client, conn, made, pipe, replies, ran, late>>

----------------------------------------------------------------------------
Earlier(x) == {y \in Commands : y < x /\ command[y].conn = command[x].conn}

\* The result reaches the call, unless it was cancelled meanwhile.
Settle(x, step, got) ==
    /\ command' = [command EXCEPT ![x].step = step, ![x].got = got]
    /\ awaited' = [c \in Calls |-> IF awaited[c] = x THEN 0 ELSE awaited[c]]

\* _exchange, the lock its own: commands of a connection in the order issued.
MayWrite(x) ==
    /\ command[x].step = "queued"
    /\ \A y \in Earlier(x) : command[y].step \notin {"queued", "written"}

Write(x) ==
    /\ MayWrite(x)
    /\ LET k == command[x].conn
       IN  IF conn[k] = "closed"
           THEN Settle(x, "failed", 0) /\ UNCHANGED <<conn, pipe>>
           ELSE /\ command' = [command EXCEPT ![x].step = "written"]
                /\ pipe' = [pipe EXCEPT ![k] = IF conn[k] = "open" THEN Append(@, x) ELSE @]
                \* the reset of a peer that has gone closes this side
                /\ conn' = [conn EXCEPT ![k] = IF @ = "ended" THEN "closed" ELSE @]
                /\ UNCHANGED awaited
    /\ UNCHANGED <<client, made, asking, held, issued, replies, ran, late>>

\* The next frame of the connection is taken for the answer.
Read(x) ==
    /\ command[x].step = "written"
    /\ LET k == command[x].conn
       IN  /\ replies[k] # <<>>
           /\ replies' = [replies EXCEPT ![k] = Tail(@)]
           /\ Settle(x, "done", Head(replies[k]))
    /\ UNCHANGED <<client, conn, made, asking, held, issued, pipe, ran, late>>

\* The end of the connection, or its reset.
ReadFails(x) ==
    /\ command[x].step = "written"
    /\ LET k == command[x].conn
       IN  conn[k] = "closed" \/ (conn[k] = "ended" /\ replies[k] = <<>>)
    /\ Settle(x, "failed", 0)
    /\ UNCHANGED <<client, conn, made, asking, held, issued, pipe, replies, ran, late>>

\* wait_for(..., timeout=5): the connection stays, and so does what is to come.
TimesOut(x) ==
    /\ command[x].step = "written"
    /\ Settle(x, "failed", 0)
    /\ late' = late \cup {command[x].conn}
    /\ UNCHANGED <<client, conn, made, asking, held, issued, pipe, replies, ran>>

\* As Cancel without the shield: the exchange is cancelled, its lock released.
CancelExchange(c) ==
    /\ awaited[c] # 0
    /\ awaited' = [awaited EXCEPT ![c] = 0]
    /\ command' = [command EXCEPT ![awaited[c]].step = "failed"]
    /\ UNCHANGED <<client, conn, made, asking, held, issued, pipe, replies, ran, late>>

\* The pump is cancelled by a barge-in: the shielded exchange runs on.
Cancel(c) ==
    /\ awaited[c] # 0
    /\ awaited' = [awaited EXCEPT ![c] = 0]
    /\ UNCHANGED <<client, conn, made, asking, held, command, issued, pipe, replies, ran, late>>

----------------------------------------------------------------------------
\* FreeSWITCH carries out the commands of a connection in turn.
Serve(k) ==
    /\ pipe[k] # <<>>
    /\ pipe' = [pipe EXCEPT ![k] = Tail(@)]
    /\ ran' = Append(ran, Head(pipe[k]))
    /\ replies' = [replies EXCEPT ![k] = IF conn[k] = "open" THEN Append(@, Head(pipe[k])) ELSE @]
    /\ UNCHANGED <<client, conn, made, asking, held, command, issued, awaited, late>>

\* ... and goes away with what it has not yet carried out.
PeerCloses(k) ==
    /\ conn[k] = "open"
    /\ conn' = [conn EXCEPT ![k] = "ended"]
    /\ pipe' = [pipe EXCEPT ![k] = <<>>]
    /\ UNCHANGED <<client, made, asking, held, command, issued, awaited, replies, ran, late>>

----------------------------------------------------------------------------
\* The exchanges go on by themselves; how long FreeSWITCH takes is its affair.
Exchange ==
    \E x \in Commands : Write(x) \/ Read(x) \/ ReadFails(x) \/ TimesOut(x)

Next ==
    \/ Exchange \/ Connect
    \/ \E c \in Calls : Ask(c) \/ ConnectFails(c) \/ Given(c) \/ Cancel(c)
    \/ \E k \in Conns : Serve(k) \/ PeerCloses(k)

Spec == Init /\ [][Next]_vars

----------------------------------------------------------------------------
TypeOK ==
    /\ client \in Conns \cup {0} /\ made \in Conns \cup {0}
    /\ conn \in [Conns -> {"none", "open", "ended", "closed"}]
    /\ asking \subseteq Calls
    /\ held \in [Calls -> Conns \cup {0}]
    /\ issued \in Commands \cup {0}
    /\ awaited \in [Calls -> Commands \cup {0}]
    /\ \A x \in Commands :
          /\ command[x].step \in {"none", "queued", "written", "done", "failed"}
          /\ command[x].got \in Commands \cup {0}
    /\ ran \in Seq(Commands)

\* However many calls use the connection, and whoever gives up waiting, a
\* command is given its own answer; only a command that timed out before it
\* leaves its answer to the next (server.py:1026-1048).
AnswersMatch ==
    \A x \in Commands :
        command[x].step = "done" /\ command[x].conn \notin late => command[x].got = x

\* The same without the exception, as the comment at server.py:1027-1029 has it:
\* the connection is always aligned, and a command never reads the answer of
\* the one before.
AlwaysAligned ==
    \A x \in Commands : command[x].step = "done" => command[x].got = x

\* What a call asks for is carried out in the order it asked, so that nothing
\* is played after a break that was to stop it (server.py:871-947).
CallsKeepTheirOrder ==
    \A i, j \in 1 .. Len(ran) :
        i < j /\ command[ran[i]].call = command[ran[j]].call => ran[i] < ran[j]

\* Every command comes to end, with an answer or an error (server.py:1039-1047).
CommandsEnded == \A x \in Commands : command[x].step \in {"none", "done", "failed"}
=============================================================================
