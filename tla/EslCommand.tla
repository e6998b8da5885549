------------------------------ MODULE EslCommand ------------------------------
(***************************************************************************)
(* One command of the API to FreeSWITCH, on a connection of its own        *)
(* (freeswitch.service.ts, sendEslCommand), and the parser both ends of    *)
(* the API read frames with (esl-frame-parser.ts).  The stream is cut      *)
(* anywhere.  A symbol of it is a header line, a line end or a byte of a   *)
(* body; "2" and the like are Content-Length lines.                        *)
(***************************************************************************)
EXTENDS Naturals, Sequences, FiniteSets, SequencesExt

CONSTANTS
    Kind,           \* the command: "bgapi" or "api"
    Bodies,         \* bodies of an answer to api
    MaxHeader,      \* maxHeaderBytes, in symbols
    MaxBody         \* maxBodyBytes

VARIABLES
    net,            \* on its way to the API
    sent,           \* history: the frames FreeSWITCH has sent
    server,         \* FreeSWITCH: waits for auth, for the command, or is done
    toServer,       \* on its way to FreeSWITCH: auth, then the command
    linked,         \* the connection stands
    buffer,         \* what the parser holds
    pending,        \* the headers of a frame whose body is not all there
    state,          \* auth-request, auth-reply or response
    outcome,        \* none, ok, or the code of the error
    read,           \* history: the frames the parser gave
    ran             \* history: how often FreeSWITCH carried the command out

vars == <<net, sent, server, toServer, linked, buffer, pending, state, outcome, read, ran>>

\* A frame: header lines and a body.
Lengths == [l \in {"1", "2", "3", "4"} |-> CASE l = "1" -> 1 [] l = "2" -> 2
                                             [] l = "3" -> 3 [] OTHER -> 4]
Headers(f) == IF f.body = <<>> THEN f.lines
              ELSE Append(f.lines, CHOOSE l \in DOMAIN Lengths : Lengths[l] = Len(f.body))
Wire(f) == FoldLeft(LAMBDA acc, line : acc \o <<line, "lf">>, <<>>, Headers(f))
             \o <<"lf">> \o f.body

Frame(lines, body) == [lines |-> lines, body |-> body]
AuthRequest == Frame(<<"auth/request">>, <<>>)
AuthOk == Frame(<<"command/reply", "+OK">>, <<>>)
AuthRefused == Frame(<<"command/reply", "-ERR">>, <<>>)
Disconnect == Frame(<<"text/disconnect-notice">>, <<"x">>)
JobQueued == Frame(<<"command/reply", "+OK", "job">>, <<>>)
JobUnnamed == Frame(<<"command/reply", "+OK">>, <<>>)
JobRefused == Frame(<<"command/reply", "-ERR">>, <<>>)

Init ==
    /\ net = Wire(AuthRequest)
    /\ sent = <<AuthRequest>>
    /\ server = "auth"
    /\ toServer = <<>>
    /\ linked = TRUE
    /\ buffer = <<>>
    /\ pending = <<>>
    /\ state = "auth-request"
    /\ outcome = "none"
    /\ read = <<>>
    /\ ran = 0

----------------------------------------------------------------------------
\* The parser.  findHeaderBoundary: the first empty line.
Boundaries(s) == {i \in 1 .. Len(s) - 1 : s[i] = "lf" /\ s[i + 1] = "lf"}
Boundary(s) == CHOOSE i \in Boundaries(s) : \A j \in Boundaries(s) : i <= j

ContentLength(lines) ==
    LET declared == {l \in DOMAIN Lengths : Contains(lines, l)}
    IN  IF declared = {} THEN 0 ELSE Lengths[CHOOSE l \in declared : TRUE]

\* parseHeaderBlock, which no line ends alone.
Lines(s) == SelectSeq(s, LAMBDA c : c # "lf")

\* One turn of the loop of push(): headers, then a body that is all there.
TakeHeaders(p) ==
    IF p.pending # <<>> \/ p.error \/ p.stuck THEN p
    ELSE IF Boundaries(p.buffer) = {}
    THEN [p EXCEPT !.stuck = TRUE, !.error = Len(p.buffer) > MaxHeader]
    ELSE LET at == Boundary(p.buffer)
             lines == Lines(SubSeq(p.buffer, 1, at - 1))
         IN  IF at - 1 > MaxHeader \/ lines = <<>> \/ ContentLength(lines) > MaxBody
             THEN [p EXCEPT !.error = TRUE]
             ELSE [p EXCEPT !.pending = lines,
                            !.buffer = SubSeq(p.buffer, at + 2, Len(p.buffer))]

TakeBody(p) ==
    IF p.pending = <<>> \/ p.error THEN p
    ELSE LET n == ContentLength(p.pending)
         IN  IF Len(p.buffer) < n THEN [p EXCEPT !.stuck = TRUE]
             ELSE [p EXCEPT !.frames = Append(@, Frame(SelectSeq(p.pending, LAMBDA l :
                                                         l \notin DOMAIN Lengths),
                                                       SubSeq(p.buffer, 1, n))),
                            !.buffer = SubSeq(p.buffer, n + 1, Len(p.buffer)),
                            !.pending = <<>>]

\* push(chunk): as many frames as there are, or an error, which loses them.
Push(chunk) ==
    LET start == [buffer |-> buffer \o chunk, pending |-> pending, frames |-> <<>>,
                  error |-> FALSE, stuck |-> FALSE]
    IN  FoldLeft(LAMBDA p, i : TakeBody(TakeHeaders(p)), start,
                 [i \in 1 .. Len(start.buffer) + 1 |-> i])

----------------------------------------------------------------------------
\* What a frame does to the command: h.state, h.write and h.outcome.
IsType(f, type) == Contains(f.lines, type)
Ok(f) == Contains(f.lines, "+OK")

Handle(h, f) ==
    IF h.outcome # "none" THEN h
    ELSE IF h.state = "auth-request"
    THEN IF IsType(f, "auth/request")
         THEN [h EXCEPT !.state = "auth-reply", !.write = Append(@, "auth")]
         ELSE [h EXCEPT !.outcome = "PROTOCOL_ERROR"]
    ELSE IF h.state = "auth-reply"
    THEN IF ~IsType(f, "command/reply") THEN [h EXCEPT !.outcome = "PROTOCOL_ERROR"]
         ELSE IF ~Ok(f) THEN [h EXCEPT !.outcome = "AUTH_FAILED"]
         ELSE [h EXCEPT !.state = "response", !.write = Append(@, "command")]
    ELSE IF Kind = "bgapi"
    THEN [h EXCEPT !.outcome =
            IF ~IsType(f, "command/reply") THEN "PROTOCOL_ERROR"
            ELSE IF ~Ok(f) THEN "COMMAND_REJECTED"
            ELSE IF Contains(f.lines, "job") THEN "ok" ELSE "MISSING_JOB_UUID"]
    ELSE [h EXCEPT !.outcome =
            IF ~IsType(f, "api/response") THEN "PROTOCOL_ERROR"
            ELSE IF f.body # <<>> /\ Head(f.body) = "-ERR" THEN "COMMAND_REJECTED"
            ELSE "ok"]

\* The data handler, for a chunk of any size.
OnData(n) ==
    /\ linked /\ outcome = "none"
    /\ n \in 1 .. Len(net)
    /\ net' = SubSeq(net, n + 1, Len(net))
    /\ LET p == Push(SubSeq(net, 1, n))
           h == FoldLeft(Handle, [state |-> state, write |-> toServer, outcome |-> "none"],
                         IF p.error THEN <<>> ELSE p.frames)
       IN  /\ buffer' = p.buffer
           /\ pending' = p.pending
           /\ read' = IF p.error THEN read ELSE read \o p.frames
           /\ outcome' = IF p.error THEN "PROTOCOL_ERROR" ELSE h.outcome
           /\ state' = h.state
           /\ toServer' = h.write
           /\ linked' = (outcome' = "none")
    /\ UNCHANGED <<sent, server, ran>>

\* Without an answer in time the socket is destroyed; what was written may
\* still arrive.
TimesOut ==
    /\ outcome = "none"
    /\ outcome' = "TIMEOUT"
    /\ linked' = FALSE
    /\ UNCHANGED <<net, sent, server, toServer, buffer, pending, state, read, ran>>

\* end, close or error, at any moment; all that was sent may have arrived or not.
ConnectionClosed ==
    /\ outcome = "none"
    /\ outcome' \in {"CONNECTION_FAILED", "CONNECTION_CLOSED"}
    /\ linked' = FALSE
    /\ \/ UNCHANGED toServer
       \/ toServer' = <<>>
    /\ UNCHANGED <<net, sent, server, buffer, pending, state, read, ran>>

----------------------------------------------------------------------------
Answer(frames) ==
    /\ sent' = sent \o frames
    /\ net' = net \o FoldLeft(LAMBDA acc, f : acc \o Wire(f), <<>>, frames)

\* FreeSWITCH, on auth.
Authenticate ==
    /\ server = "auth" /\ toServer # <<>>
    /\ toServer' = Tail(toServer)
    /\ \/ Answer(<<AuthOk>>) /\ server' = "ready"
       \/ Answer(<<AuthRefused, Disconnect>>) /\ server' = "done"
    /\ UNCHANGED <<linked, buffer, pending, state, outcome, read, ran>>

\* FreeSWITCH, on the command: it does it and says so, or refuses.
Answers == IF Kind = "bgapi" THEN {JobQueued, JobUnnamed}
           ELSE {Frame(<<"api/response">>, b) : b \in {x \in Bodies : Head(x) # "-ERR"}}
Refusals == IF Kind = "bgapi" THEN {JobRefused}
            ELSE {Frame(<<"api/response">>, b) : b \in {x \in Bodies : Head(x) = "-ERR"}}

Execute ==
    /\ server = "ready" /\ toServer # <<>>
    /\ toServer' = Tail(toServer)
    /\ server' = "done"
    /\ \/ \E f \in Answers : Answer(<<f>>) /\ ran' = ran + 1
       \/ \E f \in Refusals : Answer(<<f>>) /\ UNCHANGED ran
    /\ UNCHANGED <<linked, buffer, pending, state, outcome, read>>

----------------------------------------------------------------------------
Next ==
    \/ \E n \in 1 .. Len(net) : OnData(n)
    \/ TimesOut \/ ConnectionClosed \/ Authenticate \/ Execute

Spec == Init /\ [][Next]_vars

----------------------------------------------------------------------------
TypeOK ==
    /\ server \in {"auth", "ready", "done"}
    /\ toServer \in Seq({"auth", "command"})
    /\ state \in {"auth-request", "auth-reply", "response"}
    /\ outcome \in {"none", "ok", "AUTH_FAILED", "COMMAND_REJECTED", "CONNECTION_CLOSED",
                    "CONNECTION_FAILED", "MISSING_JOB_UUID", "PROTOCOL_ERROR", "TIMEOUT"}
    /\ linked = (outcome = "none")

\* However the stream is cut, the parser gives the frames that were sent, whole
\* and in order, empty lines in a body included (esl-frame-parser.ts:62-109).
FramesAsSent == IsPrefix(read, sent)

\* An error that says the command was refused means it was not carried out, and
\* success that it was, once; only an answer that did not come, or was not
\* understood, leaves that open (freeswitch.service.ts:231-377, and
\* outbox.worker.ts, which gives the call up on an error it may not retry).
OutcomesAreTrue ==
    /\ outcome \in {"AUTH_FAILED", "COMMAND_REJECTED"} => ran = 0
    /\ outcome = "ok" => ran = 1
    /\ ran <= 1
==============================================================================
