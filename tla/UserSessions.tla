---------------------------- MODULE UserSessions ----------------------------
(***************************************************************************)
(* Sessions of one user: rotation of refresh tokens in the API             *)
(* (auth.service.ts, auth.controller.ts, system.service.ts), and the       *)
(* dashboard's requests, which refresh once per tab on a 401               *)
(* (lib/api/client.ts).  Tabs share the cookies of one browser.            *)
(***************************************************************************)
EXTENDS Naturals

CONSTANTS
    Tabs,
    PerTab,         \* requests a tab has at once
    MaxTokens,      \* bound: refresh tokens issued
    MaxResets       \* bound: password resets

Tokens == 1 .. MaxTokens
Requests == Tabs \X (1 .. PerTab)

VARIABLES
    row,            \* user_sessions: per token, none, live or gone
    born,           \* per token: the password its login was checked against
    spent,          \* per token: how often it was exchanged
    issued,         \* tokens issued so far
    user,           \* active or inactive
    password,       \* how often it was reset
    resetting,      \* a reset has set the password and not yet ended the sessions
    jar,            \* the refresh cookie, 0 without one
    access,         \* the access cookie is valid
    req,            \* per request of a tab: idle, refused, waiting, retrying, login
    call,           \* per tab: its refresh or login in the API
    crossed,        \* history: two tabs refreshed at once, an answer was lost, or the
                    \*   session ended for a reason of its own
    raced           \* history: a reset met a login or a refresh half done

vars == <<row, born, spent, issued, user, password, resetting, jar, access, req, call,
          crossed, raced>>
account == <<user, password, resetting>>
tokens == <<row, born, spent, issued>>

NoCall == [step |-> "none", token |-> 0, password |-> 0]

Init ==
    /\ row = [k \in Tokens |-> IF k = 1 THEN "live" ELSE "none"]
    /\ born = [k \in Tokens |-> 0]
    /\ spent = [k \in Tokens |-> 0]
    /\ issued = 1
    /\ user = "active"
    /\ password = 0
    /\ resetting = FALSE
    /\ jar = 1
    /\ access = TRUE
    /\ req = [r \in Requests |-> "idle"]
    /\ call = [t \in Tabs |-> NoCall]
    /\ crossed = FALSE
    /\ raced = FALSE

Of(t) == {r \in Requests : r[1] = t}
Refreshing(t) == call[t].step # "none"

----------------------------------------------------------------------------
\* The dashboard: a request that the API answers with a 401; the others change
\* nothing here.
Ask(r) ==
    /\ req[r] = "idle" /\ ~access
    /\ req' = [req EXCEPT ![r] = "refused"]
    /\ UNCHANGED <<tokens, account, jar, access, call, crossed, raced>>

\* The access token lives for its time.
Expires ==
    /\ access
    /\ access' = FALSE
    /\ UNCHANGED <<tokens, account, jar, req, call, crossed, raced>>

\* POST /auth/refresh, with the cookie as it is when the request leaves.
Post(t) ==
    /\ call' = [call EXCEPT ![t] =
                  [step |-> IF jar = 0 THEN "failed" ELSE "sent", token |-> jar, password |-> 0]]
    /\ crossed' = (crossed \/ \E u \in Tabs \ {t} : Refreshing(u))

\* The 401 arrives: the first request of the tab refreshes, even if the cookies
\* are new by now, and the others wait for the same promise.
Refresh(r) ==
    /\ req[r] = "refused"
    /\ req' = [req EXCEPT ![r] = "waiting"]
    /\ IF Refreshing(r[1]) THEN UNCHANGED <<call, crossed>> ELSE Post(r[1])
    /\ UNCHANGED <<tokens, account, jar, access, raced>>

\* The request after a refresh: a second 401 is an error of the request only.
Retry(r) ==
    /\ req[r] = "retrying"
    /\ req' = [req EXCEPT ![r] = "idle"]
    /\ UNCHANGED <<tokens, account, jar, access, call, crossed, raced>>

\* The promise settles: requests are made again, or the page goes to /login.
Settle(t, ok) ==
    /\ call' = [call EXCEPT ![t] = NoCall]
    /\ req' = [r \in Requests |->
                 IF r[1] # t THEN req[r]
                 ELSE IF ~ok /\ req[r] = "waiting" THEN "login"
                 ELSE IF req[r] = "waiting" THEN "retrying" ELSE req[r]]

\* The answer of the API sets the cookies, or is lost on its way.
Returns(t) ==
    /\ call[t].step = "issued"
    /\ \/ /\ jar' = call[t].token
          /\ access' = TRUE
          /\ Settle(t, TRUE)
          /\ UNCHANGED crossed
       \/ /\ Settle(t, FALSE)
          /\ crossed' = TRUE
          /\ UNCHANGED <<jar, access>>
    /\ UNCHANGED <<tokens, account, raced>>

Fails(t) ==
    /\ call[t].step = "failed"
    /\ Settle(t, FALSE)
    /\ UNCHANGED <<tokens, account, jar, access, crossed, raced>>

\* Logging out: the refresh cookie is limited to the path of /auth/refresh, so
\* the handler finds no session to delete; the cookies go.
Logout(t) ==
    /\ jar # 0
    /\ \A r \in Of(t) : req[r] = "idle"
    /\ jar' = 0
    /\ access' = FALSE
    /\ crossed' = TRUE
    /\ UNCHANGED <<tokens, account, req, call, raced>>

\* login(): credentials are checked against the password of now.
LoginChecks(t) ==
    /\ \E r \in Of(t) : req[r] = "login"
    /\ ~Refreshing(t)
    /\ user = "active"
    /\ req' = [r \in Requests |-> IF r[1] = t THEN "idle" ELSE req[r]]
    /\ call' = [call EXCEPT ![t] = [step |-> "checked", token |-> 0, password |-> password]]
    /\ UNCHANGED <<tokens, account, jar, access, crossed, raced>>

----------------------------------------------------------------------------
\* refreshTokens: the session of this token, and its user.
Match(t) ==
    /\ call[t].step = "sent"
    /\ LET k == call[t].token
       IN  IF row[k] = "live" /\ user = "active"
           THEN /\ call' = [call EXCEPT ![t].step = "matched", ![t].password = born[k]]
                /\ UNCHANGED row
           ELSE /\ call' = [call EXCEPT ![t].step = "failed"]
                /\ row' = [row EXCEPT ![k] = IF row[k] = "live" THEN "gone" ELSE row[k]]
    /\ UNCHANGED <<born, spent, issued, account, jar, access, req, crossed, raced>>

\* The old session is deleted; delete throws when another has done so.
Rotate(t) ==
    /\ call[t].step = "matched"
    /\ LET k == call[t].token
       IN  IF row[k] = "live"
           THEN /\ row' = [row EXCEPT ![k] = "gone"]
                /\ spent' = [spent EXCEPT ![k] = @ + 1]
                /\ call' = [call EXCEPT ![t].step = "checked"]
           ELSE /\ call' = [call EXCEPT ![t].step = "failed"]
                /\ UNCHANGED <<row, spent>>
    /\ UNCHANGED <<born, issued, account, jar, access, req, crossed, raced>>

\* generateTokenPair: a session of its own.
Issue(t) ==
    /\ call[t].step = "checked"
    /\ issued < MaxTokens
    /\ issued' = issued + 1
    /\ row' = [row EXCEPT ![issued'] = "live"]
    /\ born' = [born EXCEPT ![issued'] = call[t].password]
    /\ call' = [call EXCEPT ![t].step = "issued", ![t].token = issued']
    /\ UNCHANGED <<spent, account, jar, access, req, crossed, raced>>

\* resetPassword, by an administrator: the password, then all sessions.
ResetPassword ==
    /\ ~resetting
    /\ password < MaxResets
    /\ password' = password + 1
    /\ resetting' = TRUE
    /\ crossed' = TRUE
    /\ UNCHANGED <<tokens, user, jar, access, req, call, raced>>

EndSessions ==
    /\ resetting
    /\ resetting' = FALSE
    /\ row' = [k \in Tokens |-> IF row[k] = "live" THEN "gone" ELSE row[k]]
    /\ raced' = (raced \/ \E t \in Tabs : call[t].step \in {"matched", "checked"})
    /\ UNCHANGED <<born, spent, issued, user, password, jar, access, req, call, crossed>>

SetStatus ==
    /\ user' = IF user = "active" THEN "inactive" ELSE "active"
    /\ crossed' = TRUE
    /\ UNCHANGED <<tokens, password, resetting, jar, access, req, call, raced>>

\* expiresAt passes: the session is no longer found.
SessionExpires(k) ==
    /\ row[k] = "live"
    /\ row' = [row EXCEPT ![k] = "gone"]
    /\ crossed' = TRUE
    /\ UNCHANGED <<born, spent, issued, account, jar, access, req, call, raced>>

----------------------------------------------------------------------------
Progress ==
    \/ \E r \in Requests : Refresh(r) \/ Retry(r)
    \/ \E t \in Tabs : Returns(t) \/ Fails(t) \/ Match(t) \/ Rotate(t) \/ Issue(t)

Next ==
    \/ Progress
    \/ \E r \in Requests : Ask(r)
    \/ \E t \in Tabs : Logout(t) \/ LoginChecks(t)
    \/ \E k \in Tokens : SessionExpires(k)
    \/ Expires \/ ResetPassword \/ EndSessions \/ SetStatus

Spec == Init /\ [][Next]_vars

----------------------------------------------------------------------------
TypeOK ==
    /\ row \in [Tokens -> {"none", "live", "gone"}]
    /\ issued \in Tokens
    /\ jar \in Tokens \cup {0}
    /\ req \in [Requests -> {"idle", "refused", "waiting", "retrying", "login"}]
    /\ call \in [Tabs -> [step : {"none", "sent", "matched", "checked", "issued", "failed"},
                          token : Tokens \cup {0}, password : 0 .. MaxResets]]

\* A refresh token is exchanged for at most one new one, however many tabs or
\* repeated requests present it (auth.service.ts:72-103).
TokenSpentOnce == \A k \in Tokens : spent[k] <= 1

\* After a password reset no session of an earlier password is left, except one
\* that a login or refresh half done at that moment creates afterwards
\* (system.service.ts:163-175, auth.service.ts:100-103).
ResetEndsSessions ==
    ~resetting /\ ~raced => \A k \in Tokens : row[k] = "live" => born[k] = password

\* Unless the session ended, an answer was lost or two tabs refreshed at once,
\* no request ends at the login page, however requests of a tab and the answers
\* to them interleave (client.ts:13-32).
OneTabStaysIn == ~crossed => \A r \in Requests : req[r] # "login"
============================================================================
