------------------------------ MODULE SettingsPage ------------------------------
(***************************************************************************)
(* The page of the global settings: variables and the calling window save  *)
(* themselves a moment after the last change, the lists of blocked and     *)
(* white numbers when a row is saved, and each answer is taken for the     *)
(* page's new data unless a flag says that it is the page's own.           *)
(*                                                                         *)
(* The autosave effect depends on a function that is new on every render,  *)
(* so it runs after each: the pending timer is cleared and set again.      *)
(***************************************************************************)
EXTENDS Integers, FiniteSets, SequencesExt

CONSTANTS MaxEdits,     \* bound on changes made on the page
          MaxSaves,     \* bound on requests sent
          InFlight,     \* bound on requests at one time
          MaxFailures,  \* bound on requests that fail
          Numbers       \* telephone numbers

VARIABLES server,     \* the settings stored: [vars, window, lists, disclosure]
          page,       \* what the page holds: [vars, window, lists]
          ready,      \* autoSaveReadyRef
          suppress,   \* suppressNextAutoSaveRef
          skip,       \* skipNextDataHydrationRef
          last,       \* lastAutoSaveSignatureRef
          timer,      \* what the pending autosave will send, or NoTimer
          flight,     \* requests: [kind, dto, answer]
          edits, saves, failures,
          crossed     \* something was changed or sent while a request was
                      \* out, or a turned window was sent

vars == <<server, page, ready, suppress, skip, last, timer, flight, edits, saves, failures,
          crossed>>

refs == <<ready, suppress, skip, last, timer>>
NoTimer == [vars |-> -1]
NoAnswer == [vars |-> -1]
Windows == {"day", "turned"}     \* a turned window ends before it begins
Blank == [vars |-> 0, window |-> "day", lists |-> {}]

Shown(settings) == [vars |-> settings.vars, window |-> settings.window,
                    lists |-> settings.lists]

(* cloneOutboundRules keeps no disclosure, so no request carries one; the  *)
(* API gives rules without one the default.                                *)
Stored(kind, dto) ==
  [vars |-> IF kind = "auto" THEN dto.vars ELSE server.vars,
   window |-> dto.window, lists |-> dto.lists, disclosure |-> "default"]

Init ==
  /\ \E n \in SUBSET Numbers, d \in {"default", "own"} :
       server = [vars |-> 1, window |-> "day", lists |-> n, disclosure |-> d]
  /\ page = Blank /\ ready = FALSE /\ suppress = FALSE /\ skip = FALSE
  /\ last = NoTimer /\ timer = NoTimer /\ flight = <<>>
  /\ edits = 0 /\ saves = 0 /\ failures = 0 /\ crossed = FALSE

-----------------------------------------------------------------------------
(* The slip of never taking the suppression off.                           *)
AfterHeld(p, hold, sig) ==
  IF p.window = "turned" THEN [suppress |-> hold, last |-> sig, timer |-> NoTimer]
  ELSE IF hold THEN [suppress |-> TRUE, last |-> p, timer |-> NoTimer]
  ELSE [suppress |-> FALSE, last |-> sig, timer |-> IF p = sig THEN NoTimer ELSE p]

(* What the autosave effect makes of a page, given whether the next save   *)
(* is suppressed and the signature it compares with.                       *)
After(p, hold, sig) ==
  IF p.window = "turned" THEN [suppress |-> hold, last |-> sig, timer |-> NoTimer]
  ELSE IF hold THEN [suppress |-> FALSE, last |-> p, timer |-> NoTimer]
  ELSE [suppress |-> FALSE, last |-> sig, timer |-> IF p = sig THEN NoTimer ELSE p]

Becomes(effect) ==
  /\ suppress' = effect.suppress /\ last' = effect.last /\ timer' = effect.timer

(* A render after a change of the page by its operator.                    *)
Rendered(p) ==
  IF ready THEN Becomes(After(p, suppress, last)) ELSE UNCHANGED <<suppress, last, timer>>

(* New data: the effect runs once for the page as it was, then for the     *)
(* page as it becomes.                                                     *)
Hydrated(p, q, sig) ==
  LET before == After(p, TRUE, sig) IN After(q, before.suppress, before.last)

Load ==
  /\ ~ready /\ ready' = TRUE /\ page' = Shown(server)
  /\ Becomes(Hydrated(page, Shown(server), last))
  /\ UNCHANGED <<server, skip, flight, edits, saves, failures, crossed>>

Out == flight # <<>>

Edit(p) ==
  /\ ready /\ edits < MaxEdits /\ edits' = edits + 1
  /\ page' = p /\ Rendered(p) /\ crossed' = (crossed \/ Out)
  /\ UNCHANGED <<server, ready, skip, flight, saves, failures>>

SaveVariable == Edit([page EXCEPT !.vars = @ + 1])
UpdateCallWindow(w) == w # page.window /\ Edit([page EXCEPT !.window = w])

Sends(kind, dto) ==
  /\ saves < MaxSaves /\ saves' = saves + 1 /\ Len(flight) < InFlight
  /\ flight' = Append(flight, [kind |-> kind, dto |-> dto, answer |-> NoAnswer])
  /\ skip' = TRUE /\ crossed' = (crossed \/ Out \/ dto.window = "turned")

TimerFires ==
  /\ timer # NoTimer /\ Sends("auto", timer) /\ timer' = NoTimer
  /\ UNCHANGED <<server, page, ready, suppress, last, edits, failures>>

(* A row of a list is saved or deleted at once, with the window of the     *)
(* page, turned or not.                                                    *)
SaveNumberList(lists) ==
  /\ ready /\ lists # page.lists
  /\ Sends("list", [page EXCEPT !.lists = lists]) /\ Rendered(page)
  /\ UNCHANGED <<server, page, ready, edits, failures>>

Applied(i) ==
  /\ i \in DOMAIN flight /\ flight[i].answer = NoAnswer
  /\ server' = Stored(flight[i].kind, flight[i].dto)
  /\ flight' = [flight EXCEPT ![i].answer = Stored(flight[i].kind, flight[i].dto)]
  /\ UNCHANGED <<page, refs, edits, saves, failures, crossed>>

Signed(request, sig) == IF request.kind = "auto" THEN request.dto ELSE sig

(* The answer becomes the page's data and renders, before or after the     *)
(* signature of an autosave is noted; a list then takes its rules from it. *)
Answered(i) ==
  /\ i \in DOMAIN flight /\ flight[i].answer # NoAnswer
  /\ LET request == flight[i]
         answer == Shown(request.answer)
         p == IF skip THEN page ELSE answer
         q == IF request.kind = "list"
              THEN [p EXCEPT !.window = answer.window, !.lists = answer.lists] ELSE p
     IN \E early \in BOOLEAN :
          LET sig == IF early THEN Signed(request, last) ELSE last
              first == IF skip THEN After(page, suppress, sig) ELSE Hydrated(page, answer, sig)
              then == IF request.kind = "list" THEN After(q, first.suppress, first.last)
                      ELSE [first EXCEPT !.last = IF early THEN @ ELSE Signed(request, @)]
          IN page' = q /\ Becomes(then)
  /\ skip' = FALSE /\ flight' = RemoveAt(flight, i)
  /\ UNCHANGED <<server, ready, edits, saves, failures, crossed>>

(* The request or its answer is lost: an autosave is not tried again until *)
(* something renders the page.                                             *)
Fails(i) ==
  /\ i \in DOMAIN flight /\ failures < MaxFailures /\ failures' = failures + 1
  /\ skip' = FALSE
  /\ IF flight[i].kind = "list" THEN Rendered(page) ELSE UNCHANGED <<suppress, last, timer>>
  /\ flight' = RemoveAt(flight, i)
  /\ UNCHANGED <<server, page, ready, edits, saves, crossed>>

Next ==
  \/ Load \/ SaveVariable \/ TimerFires
  \/ \E w \in Windows : UpdateCallWindow(w)
  \/ \E n \in Numbers : SaveNumberList(page.lists \cup {n}) \/ SaveNumberList(page.lists \ {n})
  \/ \E i \in 1..InFlight : Applied(i) \/ Answered(i) \/ Fails(i)

Spec == Init /\ [][Next]_vars

-----------------------------------------------------------------------------
TypeOK ==
  /\ ready \in BOOLEAN /\ suppress \in BOOLEAN /\ skip \in BOOLEAN
  /\ page.window \in Windows /\ page.lists \subseteq Numbers
  /\ server.lists \subseteq Numbers /\ server.disclosure \in {"default", "own"}

(* When nothing is pending, what the page shows is what is stored, if no   *)
(* request failed and none was overtaken by a change or by another one; a  *)
(* turned window waits to be put right.                                    *)
QuietIsStored ==
  ready /\ timer = NoTimer /\ ~Out /\ failures = 0 /\ ~crossed /\ page.window # "turned"
    => page = Shown(server)

(* An autosave that is alone carries the numbers that are stored: it never *)
(* brings back a number that was unblocked, nor frees one that was blocked *)
(* since it was planned.                                                   *)
AutosaveKeepsNumbers ==
  \A i \in DOMAIN flight :
    flight[i].kind = "auto" /\ failures = 0 /\ ~crossed => flight[i].dto.lists = server.lists
=============================================================================
