--------------------------- MODULE VoiceTurnProofs ---------------------------
(***************************************************************************)
(* Theorems about VoiceTurn, for every set of calls and every bound on     *)
(* turns, utterances and chunks.  A call is a record of 28 fields, so the  *)
(* proof never expands two versions of it at once: a lemma per change of   *)
(* the record (...Fits) says that what holds of a call holds of the        *)
(* changed one, a lemma per action (...Quiet) that the action makes such a *)
(* change and which fields the other calls' guarantees can see, and        *)
(* MovedKeeps and QuietKeeps put the calls together again.  The types are  *)
(* treated in the same way: a lemma per change (...Typed), one for several*)
(* actions (...Types), beside the invariant that the first part proved.    *)
(***************************************************************************)
EXTENDS VoiceTurn, TLAPS

-----------------------------------------------------------------------------
(* The invariant of one call                                               *)

(* The fields of a call: what the proofs need of its type is that it is a  *)
(* record of these, and which records may be put into them.                *)
Fields == {
  "channel", "conn", "session", "result", "cancelled", "ended", "rounds", "turn",
  "speaking", "reference", "waiter", "got", "injected", "latched", "evidence", "begun",
  "vad", "pending", "ends", "finals", "stream", "breaking", "phone", "hungUp",
  "answered", "kept", "cuts", "cutTurns"}

IsFcn(f) == f = [x \in DOMAIN f |-> f[x]]

Record(r) ==
  /\ IsFcn(r) /\ DOMAIN r = Fields
  /\ IsFcn(r.stream) /\ DOMAIN r.stream = {"queued", "at", "last"}

(* The session coroutine has not left its loop yet.                        *)
Live(r) == r.session \notin {"report", "unwind", "over"}

(* Session and connection end in order: the session is over, the pump      *)
(* stopped and a web call hung up before the connection is closed.         *)
LifeInv(r) ==
  /\ r.conn = "none" => r.session = "none"
  /\ r.conn = "closed" =>
       r.session = "over" /\ r.injected = <<>> /\ (r.channel = "web" => r.hungUp)
  /\ r.session = "over" => r.stream = NoStream
  /\ r.stream.at = "none" => r.stream = NoStream
  /\ r.stream.last => r.session = "drain"
  /\ r.waiter # "none" => r.session = "listen"
  /\ r.channel = "web" /\ r.result = "ok" => r.hungUp

(* Only turns begun are cut, and while the turn that is cut is the current *)
(* one its audio is stopped or about to be: on_interrupted is scheduled.   *)
TurnInv(r) ==
  /\ r.turn \in Nat
  /\ r.turn = 0 => /\ r.stream = NoStream /\ r.speaking = "no"
                   /\ r.session \in {"none", "loading", "announce", "unwind", "over"}
  /\ r.session \in {"none", "loading"} => r.turn = 0
  /\ r.cutTurns \subseteq 1..r.turn
  /\ r.turn \in r.cutTurns => r.speaking # "yes" /\ (r.breaking \/ r.stream = NoStream)
  /\ r.channel = "web" => r.stream.at \notin {"write", "esl"}

(* Speech that has interrupted once has set the latch, which only the end  *)
(* of the utterance or of the call takes away.                             *)
CutInv(r) ==
  /\ r.cuts \in {0, 1}
  /\ r.cuts = 1 => r.latched \/ r.conn = "closed"

Took(r) == r.waiter = "done" /\ r.got # 0

(* The utterances accepted and not answered yet are the one the waiter was *)
(* given and the ones injected, in the order they were said.               *)
KeptInv(r) ==
  /\ r.injected \in Seq(Nat)
  /\ r.finals \in Nat /\ r.answered \in 0..r.finals
  /\ \A u \in r.kept : u \in 1..r.finals
  /\ Live(r) =>
    /\ \A u \in r.kept : r.answered < u
    /\ \A u \in r.kept : (Took(r) /\ u = r.got) \/ \E i \in 1..Len(r.injected) : u = r.injected[i]
    /\ Took(r) => r.got \in r.kept
    /\ \A i \in 1..Len(r.injected) : r.injected[i] \in r.kept
    /\ Took(r) => \A i \in 1..Len(r.injected) : r.got < r.injected[i]
    /\ \A i, j \in 1..Len(r.injected) : i < j => r.injected[i] < r.injected[j]
    /\ r.waiter = "pending" => r.injected = <<>>

PhaseInv(r) == LifeInv(r) /\ TurnInv(r) /\ CutInv(r)

CallInv(r) == Record(r) /\ PhaseInv(r) /\ KeptInv(r)

-----------------------------------------------------------------------------
(* Changes of one call that keep its invariant: the operators of VoiceTurn *)

LEMMA SpeakOverFits ==
  ASSUME NEW r, CallInv(r), NEW completed
  PROVE  /\ CallInv(SpeakOver(r, completed))
         /\ \A f \in {"session", "conn", "turn", "waiter", "stream"} :
              SpeakOver(r, completed)[f] = r[f]
<1>1. Record(SpeakOver(r, completed))
  BY ZenonT(60) DEF CallInv, Record, SpeakOver, IsFcn, Fields
<1>2. PhaseInv(SpeakOver(r, completed))
  BY DEF CallInv, Record, SpeakOver, IsFcn, Fields, PhaseInv, LifeInv, TurnInv, CutInv, NoStream
<1>3. KeptInv(SpeakOver(r, completed))
  BY DEF CallInv, Record, SpeakOver, IsFcn, Fields, KeptInv, Took, Live
<1>4. \A f \in {"session", "conn", "turn", "waiter", "stream"} :
        SpeakOver(r, completed)[f] = r[f]
  BY DEF CallInv, Record, SpeakOver, IsFcn, Fields
<1>. QED
  BY <1>1, <1>2, <1>3, <1>4 DEF CallInv

LEMMA FailingFits ==
  ASSUME NEW r, CallInv(r), NEW how, how # "ok",
         r.conn \notin {"none", "closed"}, ~r.stream.last
  PROVE  CallInv(Failing(r, how))
<1>1. Record(Failing(r, how))
  BY ZenonT(60) DEF CallInv, Record, Failing, IsFcn, Fields
<1>2. PhaseInv(Failing(r, how))
  BY DEF CallInv, Record, Failing, IsFcn, Fields, PhaseInv, LifeInv, TurnInv, CutInv, NoStream
<1>3. KeptInv(Failing(r, how))
  BY DEF CallInv, Record, Failing, IsFcn, Fields, KeptInv, Took, Live
<1>. QED
  BY <1>1, <1>2, <1>3 DEF CallInv

LEMMA InterruptedFits ==
  ASSUME NEW r, CallInv(r)
  PROVE  /\ CallInv(Interrupted(r))
         /\ \A f \in Fields \ {"speaking", "breaking", "cutTurns"} : Interrupted(r)[f] = r[f]
         /\ Interrupted(r).speaking # "yes"
<1>1. Record(Interrupted(r))
  BY ZenonT(60) DEF CallInv, Record, Interrupted, IsFcn, Fields
<1>2. PhaseInv(Interrupted(r))
  BY DEF CallInv, Record, Interrupted, IsFcn, Fields, PhaseInv, LifeInv, TurnInv, CutInv, NoStream
<1>3. KeptInv(Interrupted(r))
  BY DEF CallInv, Record, Interrupted, IsFcn, Fields, KeptInv, Took, Live
<1>4. \A f \in Fields \ {"speaking", "breaking", "cutTurns"} : Interrupted(r)[f] = r[f]
  BY DEF CallInv, Record, Interrupted, IsFcn, Fields
<1>5. Interrupted(r).speaking # "yes"
  BY DEF CallInv, Record, Interrupted, IsFcn, Fields
<1>. QED
  BY <1>1, <1>2, <1>3, <1>4, <1>5 DEF CallInv

LEMMA CancelStreamFits ==
  ASSUME NEW r, CallInv(r)
  PROVE  CallInv(CancelStream(r)) /\ CancelStream(r).stream = NoStream /\ \A f \in Fields \ {"stream"} : CancelStream(r)[f] = r[f]
<1>1. Record(CancelStream(r))
  BY DEF CallInv, Record, CancelStream, IsFcn, Fields, NoStream
<1>2. PhaseInv(CancelStream(r))
  BY DEF CallInv, Record, CancelStream, IsFcn, Fields, PhaseInv, LifeInv, TurnInv, CutInv, NoStream
<1>3. KeptInv(CancelStream(r))
  BY DEF CallInv, Record, CancelStream, IsFcn, Fields, KeptInv, Took, Live
<1>4. CancelStream(r).stream = NoStream /\ \A f \in Fields \ {"stream"} : CancelStream(r)[f] = r[f]
  BY DEF CallInv, Record, CancelStream, IsFcn, Fields
<1>. QED
  BY <1>1, <1>2, <1>3, <1>4 DEF CallInv

LEMMA ListeningKeeps ==
  ASSUME NEW r, CallInv(r), ~Took(r), Live(r) PROVE KeptInv(Listening(r))
<1>. USE DEF CallInv
<1>0. <<>> \in Seq(Nat) /\ Len(<<>>) = 0
  OBVIOUS
<1>1. CASE r.ended \/ r.rounds = MaxTurns
  BY <1>1 DEF Record, Listening, IsFcn, Fields, KeptInv, Live, Took
<1>2. CASE ~(r.ended \/ r.rounds = MaxTurns) /\ r.injected # <<>>
  <2>0. Len(r.injected) \in Nat /\ Len(r.injected) >= 1
    BY <1>2 DEF KeptInv
  <2>1. Listening(r).kept = {}
    BY <1>2 DEF Record, Listening, IsFcn, Fields, KeptInv, Live, Took, Range
  <2>2. Listening(r).answered \in r.kept
    BY <1>2, <2>0 DEF Record, Listening, IsFcn, Fields, KeptInv, Last
  <2>3. /\ Listening(r).injected = <<>> /\ Listening(r).finals = r.finals
        /\ Listening(r).waiter = "none"
    BY <1>2 DEF Record, Listening, IsFcn, Fields
  <2>. QED
    BY SMTT(30), <1>0, <2>1, <2>2, <2>3 DEF KeptInv, Took
<1>3. CASE ~(r.ended \/ r.rounds = MaxTurns) /\ r.injected = <<>>
  <2>1. r.kept = {}
    BY <1>0, <1>3 DEF KeptInv, Live, Took
  <2>2. /\ Listening(r).injected = <<>> /\ Listening(r).finals = r.finals
        /\ Listening(r).waiter = "pending" /\ Listening(r).answered = r.answered
        /\ Listening(r).kept = r.kept
    BY <1>3 DEF Record, Listening, IsFcn, Fields
  <2>. QED
    BY <1>0, <2>1, <2>2 DEF KeptInv, Took
<1>. QED
  BY <1>1, <1>2, <1>3

LEMMA ListeningFits ==
  ASSUME NEW r, CallInv(r), r.session \in {"synth", "drain", "listen", "think"},
         ~Took(r), ~r.stream.last
  PROVE  CallInv(Listening(r)) /\ Listening(r).session # "synth"
<1>0. r.turn # 0 /\ Live(r) /\ r.conn \notin {"none", "closed"}
  BY DEF CallInv, PhaseInv, LifeInv, TurnInv, Live
<1>a. Record(r)
  BY DEF CallInv
<1>1. Record(Listening(r))
  <2>1. IsFcn(Listening(r)) /\ DOMAIN Listening(r) = DOMAIN r
    BY DEF IsFcn, Listening
  <2>2. Listening(r).stream = r.stream
    BY <1>a DEF Record, Listening, Fields
  <2>. QED
    BY <1>a, <2>1, <2>2 DEF Record
<1>2. LifeInv(Listening(r)) /\ CutInv(Listening(r)) /\ Listening(r).session # "synth"
  BY <1>0 DEF CallInv, PhaseInv, Record, Listening, IsFcn, Fields, LifeInv, CutInv
<1>3. TurnInv(Listening(r))
  BY <1>0 DEF CallInv, PhaseInv, Record, Listening, IsFcn, Fields, TurnInv
<1>. QED
  BY <1>0, <1>1, <1>2, <1>3, ListeningKeeps DEF CallInv, PhaseInv

LEMMA SwallowedFits ==
  ASSUME NEW r, CallInv(r), r.session \in {"synth", "drain"}, ~r.stream.last
  PROVE  CallInv(Swallowed(r))
<1>1. r.conn \notin {"none", "closed"} /\ ~Took(r)
  BY DEF CallInv, PhaseInv, LifeInv, Took
<1>2. /\ CallInv(SpeakOver(r, FALSE))
      /\ SpeakOver(r, FALSE).session = r.session /\ SpeakOver(r, FALSE).conn = r.conn
      /\ SpeakOver(r, FALSE).waiter = r.waiter /\ SpeakOver(r, FALSE).stream = r.stream
  BY SpeakOverFits
<1>3. ~Took(SpeakOver(r, FALSE))
  BY <1>1, <1>2 DEF CallInv, PhaseInv, LifeInv, Took
<1>. QED
  BY <1>1, <1>2, <1>3, ListeningFits, FailingFits DEF Swallowed

-----------------------------------------------------------------------------
(* Changes of one call that keep its invariant: the updates actions make   *)

Shape == IsFcn(call) /\ DOMAIN call = Calls

LEMMA BecomeIs ==
  ASSUME Shape, NEW c \in Calls, NEW x, Become(c, x)
  PROVE  Shape' /\ call'[c] = x /\ \A d \in Calls \ {c} : call'[d] = call[d]
  BY DEF Shape, Become, IsFcn

LEMMA ConnectFits ==
  ASSUME NEW r, CallInv(r), r.conn = "none"
  PROVE  CallInv([r EXCEPT !.conn = "open", !.session = "loading"])
<1>. DEFINE x == [r EXCEPT !.conn = "open", !.session = "loading"]
<1>a. Record(r)
  BY DEF CallInv
<1>1. Record(x)
  <2>1. IsFcn(x) /\ DOMAIN x = DOMAIN r
    BY DEF IsFcn
  <2>2. x.stream = r.stream
    BY <1>a DEF Record, Fields
  <2>. QED
    BY <1>a, <2>1, <2>2 DEF Record
<1>2. PhaseInv(x)
  BY DEF CallInv, Record, Fields, PhaseInv, LifeInv, TurnInv, CutInv
<1>3. KeptInv(x)
  BY DEF CallInv, Record, Fields, PhaseInv, LifeInv, KeptInv, Took, Live
<1>. QED
  BY <1>1, <1>2, <1>3 DEF CallInv

LEMMA AnnounceFits ==
  ASSUME NEW r, CallInv(r), r.session \in {"loading", "think"}
  PROVE  CallInv([r EXCEPT !.session = "announce"])
<1>. DEFINE x == [r EXCEPT !.session = "announce"]
<1>a. Record(r)
  BY DEF CallInv
<1>1. Record(x)
  <2>1. IsFcn(x) /\ DOMAIN x = DOMAIN r
    BY DEF IsFcn
  <2>2. x.stream = r.stream
    BY <1>a DEF Record, Fields
  <2>. QED
    BY <1>a, <2>1, <2>2 DEF Record
<1>2. PhaseInv(x)
  BY DEF CallInv, Record, Fields, PhaseInv, LifeInv, TurnInv, CutInv
<1>3. KeptInv(x)
  BY DEF CallInv, Record, Fields, PhaseInv, LifeInv, KeptInv, Took, Live
<1>. QED
  BY <1>1, <1>2, <1>3 DEF CallInv

LEMMA NextTurnFits ==
  ASSUME NEW r, CallInv(r), NEW b, r.session = "announce", ~r.breaking
  PROVE  CallInv([r EXCEPT !.turn = @ + 1, !.begun = b])
<1>. DEFINE x == [r EXCEPT !.turn = @ + 1, !.begun = b]
<1>a. Record(r)
  BY DEF CallInv
<1>1. Record(x)
  <2>1. IsFcn(x) /\ DOMAIN x = DOMAIN r
    BY DEF IsFcn
  <2>2. x.stream = r.stream
    BY <1>a DEF Record, Fields
  <2>. QED
    BY <1>a, <2>1, <2>2 DEF Record
<1>2. PhaseInv(x)
  BY DEF CallInv, Record, Fields, PhaseInv, LifeInv, TurnInv, CutInv
<1>3. KeptInv(x)
  BY DEF CallInv, Record, Fields, PhaseInv, LifeInv, KeptInv, Took, Live
<1>. QED
  BY <1>1, <1>2, <1>3 DEF CallInv

(* The fields the invariant speaks of.                                     *)
Seen == {
  "conn", "session", "result", "channel", "hungUp", "turn", "speaking", "breaking", "cutTurns",
  "stream", "waiter", "got", "injected", "latched", "cuts", "finals", "answered", "kept"}

LEMMA UnseenFits ==
  ASSUME NEW r, CallInv(r), NEW q, IsFcn(q), DOMAIN q = Fields,
         \A f \in Seen : q[f] = r[f]
  PROVE  CallInv(q)
<1>a. Record(r)
  BY DEF CallInv
<1>1. /\ q.conn = r.conn /\ q.session = r.session /\ q.result = r.result
      /\ q.channel = r.channel /\ q.hungUp = r.hungUp /\ q.turn = r.turn
      /\ q.speaking = r.speaking /\ q.breaking = r.breaking /\ q.cutTurns = r.cutTurns
      /\ q.stream = r.stream /\ q.waiter = r.waiter /\ q.got = r.got
      /\ q.injected = r.injected /\ q.latched = r.latched /\ q.cuts = r.cuts
      /\ q.finals = r.finals /\ q.answered = r.answered /\ q.kept = r.kept
  BY DEF Seen
<1>2. Record(q)
  BY <1>a, <1>1 DEF Record
<1>3. PhaseInv(q)
  BY <1>1 DEF CallInv, PhaseInv, LifeInv, TurnInv, CutInv
<1>4. KeptInv(q)
  BY <1>1 DEF CallInv, KeptInv, Took, Live
<1>. QED
  BY <1>2, <1>3, <1>4 DEF CallInv

LEMMA StreamFits ==
  ASSUME NEW r, CallInv(r), NEW s, IsFcn(s), DOMAIN s = {"queued", "at", "last"},
         r.turn # 0, r.session # "over",
         s.at = "none" => s = NoStream, s.last => r.session = "drain",
         r.turn \in r.cutTurns => r.breaking \/ s = NoStream,
         r.channel = "web" => s.at \notin {"write", "esl"}
  PROVE  CallInv([r EXCEPT !.stream = s])
<1>. DEFINE x == [r EXCEPT !.stream = s]
<1>a. Record(r)
  BY DEF CallInv
<1>1. Record(x)
  <2>1. IsFcn(x) /\ DOMAIN x = DOMAIN r
    BY DEF IsFcn
  <2>2. x.stream = s
    BY <1>a DEF Record, Fields
  <2>. QED
    BY <1>a, <2>1, <2>2 DEF Record
<1>2. PhaseInv(x)
  BY DEF CallInv, Record, Fields, PhaseInv, LifeInv, TurnInv, CutInv
<1>3. KeptInv(x)
  BY DEF CallInv, Record, Fields, PhaseInv, LifeInv, KeptInv, Took, Live
<1>. QED
  BY <1>1, <1>2, <1>3 DEF CallInv

LEMMA SpeakFits ==
  ASSUME NEW r, CallInv(r), NEW b, NEW f, r.session = "announce", ~r.breaking
  PROVE  CallInv([[r EXCEPT !.turn = @ + 1, !.begun = b]
             EXCEPT !.session = "synth", !.speaking = "yes", !.reference = f])
<1>. DEFINE x == [[r EXCEPT !.turn = @ + 1, !.begun = b]
             EXCEPT !.session = "synth", !.speaking = "yes", !.reference = f]
<1>a. Record(r)
  BY DEF CallInv
<1>1. Record(x)
  <2>1. IsFcn(x) /\ DOMAIN x = DOMAIN r
    BY DEF IsFcn
  <2>2. x.stream = r.stream
    BY <1>a DEF Record, Fields
  <2>. QED
    BY <1>a, <2>1, <2>2 DEF Record
<1>2. PhaseInv(x)
  BY DEF CallInv, Record, Fields, PhaseInv, LifeInv, TurnInv, CutInv
<1>3. KeptInv(x)
  BY DEF CallInv, Record, Fields, PhaseInv, LifeInv, KeptInv, Took, Live
<1>. QED
  BY <1>1, <1>2, <1>3 DEF CallInv

LEMMA RefusedFits ==
  ASSUME NEW r, CallInv(r), NEW b, r.session = "announce", ~r.breaking
  PROVE  CallInv(Failing(SpeakOver([r EXCEPT !.turn = @ + 1, !.begun = b], FALSE), "failed"))
<1>. DEFINE y == [r EXCEPT !.turn = @ + 1, !.begun = b]
            z == SpeakOver(y, FALSE)
            x == Failing(z, "failed")
<1>a. Record(r)
  BY DEF CallInv
<1>b. DOMAIN y = Fields /\ DOMAIN z = Fields
  BY <1>a DEF Record, SpeakOver
<1>1. Record(x)
  <2>1. IsFcn(x) /\ DOMAIN x = DOMAIN r
    BY DEF IsFcn, Failing, SpeakOver
  <2>2. x.stream = r.stream
    BY <1>a DEF Record, Fields, Failing, SpeakOver
  <2>. QED
    BY <1>a, <2>1, <2>2 DEF Record
<1>2. y.turn = r.turn + 1 /\ \A f \in Fields \ {"turn", "begun"} : y[f] = r[f]
  BY <1>a DEF Record, Fields
<1>3. z.speaking = "no" /\ \A f \in Fields \ {"speaking", "reference"} : z[f] = y[f]
  BY <1>b DEF SpeakOver, Fields
<1>4. /\ x.session = "unwind" /\ x.result = "failed" /\ x.waiter = "none"
      /\ \A f \in Fields \ {"session", "result", "waiter", "got"} : x[f] = z[f]
  BY <1>b DEF Failing, Fields
<1>5. /\ x.turn = r.turn + 1 /\ x.speaking = "no"
      /\ \A f \in Seen \ {"turn", "speaking", "session", "result", "waiter", "got"} : x[f] = r[f]
  BY ZenonT(60), <1>2, <1>3, <1>4 DEF Fields, Seen
<1>6. /\ x.conn = r.conn /\ x.channel = r.channel /\ x.hungUp = r.hungUp
      /\ x.breaking = r.breaking /\ x.cutTurns = r.cutTurns /\ x.stream = r.stream
      /\ x.injected = r.injected /\ x.latched = r.latched /\ x.cuts = r.cuts
      /\ x.finals = r.finals /\ x.answered = r.answered /\ x.kept = r.kept
  BY <1>5 DEF Seen
<1>. HIDE DEF x
<1>7. PhaseInv(x)
  BY <1>4, <1>5, <1>6 DEF CallInv, PhaseInv, LifeInv, TurnInv, CutInv
<1>8. KeptInv(x)
  BY <1>4, <1>6 DEF CallInv, KeptInv, Took, Live
<1>. QED
  BY <1>1, <1>7, <1>8 DEF CallInv, x

LEMMA HeardFits ==
  ASSUME NEW r, CallInv(r), r.session = "listen", Took(r)
  PROVE  CallInv([r EXCEPT !.session = "think", !.waiter = "none", !.got = 0,
                          !.answered = r.got, !.kept = @ \ {r.got}])
<1>. DEFINE x == [r EXCEPT !.session = "think", !.waiter = "none", !.got = 0,
                          !.answered = r.got, !.kept = @ \ {r.got}]
<1>a. Record(r)
  BY DEF CallInv
<1>1. Record(x)
  <2>1. IsFcn(x) /\ DOMAIN x = DOMAIN r
    BY DEF IsFcn
  <2>2. x.stream = r.stream
    BY <1>a DEF Record, Fields
  <2>. QED
    BY <1>a, <2>1, <2>2 DEF Record
<1>2. PhaseInv(x)
  BY DEF CallInv, Record, Fields, PhaseInv, LifeInv, TurnInv, CutInv
<1>3. KeptInv(x)
  <2>1. /\ x.injected = r.injected /\ x.finals = r.finals /\ x.answered = r.got
        /\ x.kept = r.kept \ {r.got} /\ x.waiter = "none"
    BY <1>a DEF Record, Fields
  <2>2. Live(r)
    BY DEF Live
  <2>. HIDE DEF x
  <2>3. r.got \in 1..r.finals
    BY <2>2 DEF CallInv, KeptInv
  <2>4. \A i \in 1..Len(r.injected) : r.injected[i] \in r.kept /\ r.got < r.injected[i]
    BY <2>2 DEF CallInv, KeptInv
  <2>5. \A u \in x.kept : \E i \in 1..Len(r.injected) : u = r.injected[i]
    BY <2>1, <2>2 DEF CallInv, KeptInv
  <2>6. \A i \in 1..Len(r.injected) : x.injected[i] \in x.kept
    BY <2>1, <2>3, <2>4
  <2>7. \A u \in x.kept : r.got < u /\ u \in 1..r.finals
    BY SMTT(30), <2>1, <2>4, <2>5 DEF CallInv, KeptInv
  <2>. QED
    BY <2>1, <2>2, <2>3, <2>5, <2>6, <2>7 DEF CallInv, KeptInv, Took
<1>. QED
  BY <1>1, <1>2, <1>3 DEF CallInv

LEMMA ToReportFits ==
  ASSUME NEW r, CallInv(r), r.session = "listen"
  PROVE  CallInv([r EXCEPT !.session = "report", !.waiter = "none", !.got = 0])
<1>. DEFINE x == [r EXCEPT !.session = "report", !.waiter = "none", !.got = 0]
<1>a. Record(r)
  BY DEF CallInv
<1>1. Record(x)
  <2>1. IsFcn(x) /\ DOMAIN x = DOMAIN r
    BY DEF IsFcn
  <2>2. x.stream = r.stream
    BY <1>a DEF Record, Fields
  <2>. QED
    BY <1>a, <2>1, <2>2 DEF Record
<1>2. PhaseInv(x)
  BY DEF CallInv, Record, Fields, PhaseInv, LifeInv, TurnInv, CutInv
<1>3. KeptInv(x)
  BY DEF CallInv, Record, Fields, PhaseInv, LifeInv, KeptInv, Took, Live
<1>. QED
  BY <1>1, <1>2, <1>3 DEF CallInv

LEMMA TimeoutFits ==
  ASSUME NEW r, CallInv(r), r.session = "listen", r.waiter = "pending"
  PROVE  CallInv([r EXCEPT !.session = "think", !.waiter = "none"])
<1>. DEFINE x == [r EXCEPT !.session = "think", !.waiter = "none"]
<1>a. Record(r)
  BY DEF CallInv
<1>1. Record(x)
  <2>1. IsFcn(x) /\ DOMAIN x = DOMAIN r
    BY DEF IsFcn
  <2>2. x.stream = r.stream
    BY <1>a DEF Record, Fields
  <2>. QED
    BY <1>a, <2>1, <2>2 DEF Record
<1>2. PhaseInv(x)
  BY DEF CallInv, Record, Fields, PhaseInv, LifeInv, TurnInv, CutInv
<1>3. KeptInv(x)
  BY DEF CallInv, Record, Fields, PhaseInv, LifeInv, KeptInv, Took, Live
<1>. QED
  BY <1>1, <1>2, <1>3 DEF CallInv

LEMMA ReportFits ==
  ASSUME NEW r, CallInv(r), r.session = "report"
  PROVE  CallInv([r EXCEPT !.session = "unwind", !.result = "ok",
                          !.hungUp = @ \/ r.channel = "web"])
<1>. DEFINE x == [r EXCEPT !.session = "unwind", !.result = "ok",
                          !.hungUp = @ \/ r.channel = "web"]
<1>a. Record(r)
  BY DEF CallInv
<1>1. Record(x)
  <2>1. IsFcn(x) /\ DOMAIN x = DOMAIN r
    BY DEF IsFcn
  <2>2. x.stream = r.stream
    BY <1>a DEF Record, Fields
  <2>. QED
    BY <1>a, <2>1, <2>2 DEF Record
<1>2. PhaseInv(x)
  BY DEF CallInv, Record, Fields, PhaseInv, LifeInv, TurnInv, CutInv
<1>3. KeptInv(x)
  BY DEF CallInv, Record, Fields, PhaseInv, LifeInv, KeptInv, Took, Live
<1>. QED
  BY <1>1, <1>2, <1>3 DEF CallInv

LEMMA UnwindFits ==
  ASSUME NEW r, CallInv(r), r.session = "unwind", r.stream = NoStream
  PROVE  CallInv([r EXCEPT !.session = "over"])
<1>. DEFINE x == [r EXCEPT !.session = "over"]
<1>a. Record(r)
  BY DEF CallInv
<1>1. Record(x)
  <2>1. IsFcn(x) /\ DOMAIN x = DOMAIN r
    BY DEF IsFcn
  <2>2. x.stream = r.stream
    BY <1>a DEF Record, Fields
  <2>. QED
    BY <1>a, <2>1, <2>2 DEF Record
<1>2. PhaseInv(x)
  BY DEF CallInv, Record, Fields, PhaseInv, LifeInv, TurnInv, CutInv
<1>3. KeptInv(x)
  BY DEF CallInv, Record, Fields, PhaseInv, LifeInv, KeptInv, Took, Live
<1>. QED
  BY <1>1, <1>2, <1>3 DEF CallInv

LEMMA ClosingFits ==
  ASSUME NEW r, CallInv(r), r.conn = "open"
  PROVE  CallInv([r EXCEPT !.conn = "closing", !.cancelled = TRUE])
<1>. DEFINE x == [r EXCEPT !.conn = "closing", !.cancelled = TRUE]
<1>a. Record(r)
  BY DEF CallInv
<1>1. Record(x)
  <2>1. IsFcn(x) /\ DOMAIN x = DOMAIN r
    BY DEF IsFcn
  <2>2. x.stream = r.stream
    BY <1>a DEF Record, Fields
  <2>. QED
    BY <1>a, <2>1, <2>2 DEF Record
<1>2. PhaseInv(x)
  BY DEF CallInv, Record, Fields, PhaseInv, LifeInv, TurnInv, CutInv
<1>3. KeptInv(x)
  BY DEF CallInv, Record, Fields, PhaseInv, LifeInv, KeptInv, Took, Live
<1>. QED
  BY <1>1, <1>2, <1>3 DEF CallInv

LEMMA ClosingOnlyFits ==
  ASSUME NEW r, CallInv(r), r.conn = "open"
  PROVE  CallInv([r EXCEPT !.conn = "closing"])
<1>. DEFINE x == [r EXCEPT !.conn = "closing"]
<1>a. Record(r)
  BY DEF CallInv
<1>1. Record(x)
  <2>1. IsFcn(x) /\ DOMAIN x = DOMAIN r
    BY DEF IsFcn
  <2>2. x.stream = r.stream
    BY <1>a DEF Record, Fields
  <2>. QED
    BY <1>a, <2>1, <2>2 DEF Record
<1>2. PhaseInv(x)
  BY DEF CallInv, Record, Fields, PhaseInv, LifeInv, TurnInv, CutInv
<1>3. KeptInv(x)
  BY DEF CallInv, Record, Fields, PhaseInv, LifeInv, KeptInv, Took, Live
<1>. QED
  BY <1>1, <1>2, <1>3 DEF CallInv

LEMMA SpeechStartFits ==
  ASSUME NEW r, CallInv(r), NEW p, NEW b
  PROVE  CallInv([r EXCEPT !.vad = TRUE, !.pending = p, !.begun = b,
                         !.latched = FALSE, !.evidence = FALSE, !.cuts = 0])
<1>. DEFINE x == [r EXCEPT !.vad = TRUE, !.pending = p, !.begun = b,
                         !.latched = FALSE, !.evidence = FALSE, !.cuts = 0]
<1>a. Record(r)
  BY DEF CallInv
<1>1. Record(x)
  <2>1. IsFcn(x) /\ DOMAIN x = DOMAIN r
    BY DEF IsFcn
  <2>2. x.stream = r.stream
    BY <1>a DEF Record, Fields
  <2>. QED
    BY <1>a, <2>1, <2>2 DEF Record
<1>2. PhaseInv(x)
  BY DEF CallInv, Record, Fields, PhaseInv, LifeInv, TurnInv, CutInv
<1>3. KeptInv(x)
  BY DEF CallInv, Record, Fields, PhaseInv, LifeInv, KeptInv, Took, Live
<1>. QED
  BY <1>1, <1>2, <1>3 DEF CallInv

LEMMA NoFinalFits ==
  ASSUME NEW r, CallInv(r), r.conn # "closed"
  PROVE  CallInv([r EXCEPT !.finals = @ + 1, !.cuts = 0])
<1>. DEFINE x == [r EXCEPT !.finals = @ + 1, !.cuts = 0]
<1>a. Record(r)
  BY DEF CallInv
<1>1. Record(x)
  <2>1. IsFcn(x) /\ DOMAIN x = DOMAIN r
    BY DEF IsFcn
  <2>2. x.stream = r.stream
    BY <1>a DEF Record, Fields
  <2>. QED
    BY <1>a, <2>1, <2>2 DEF Record
<1>2. PhaseInv(x)
  BY DEF CallInv, Record, Fields, PhaseInv, LifeInv, TurnInv, CutInv
<1>3. KeptInv(x)
  BY DEF CallInv, Record, Fields, PhaseInv, LifeInv, KeptInv, Took, Live
<1>. QED
  BY <1>1, <1>2, <1>3 DEF CallInv

LEMMA BrokenFits ==
  ASSUME NEW r, CallInv(r), r.stream = NoStream, NEW p
  PROVE  CallInv([r EXCEPT !.breaking = FALSE, !.phone = p])
<1>. DEFINE x == [r EXCEPT !.breaking = FALSE, !.phone = p]
<1>a. Record(r)
  BY DEF CallInv
<1>1. Record(x)
  <2>1. IsFcn(x) /\ DOMAIN x = DOMAIN r
    BY DEF IsFcn
  <2>2. x.stream = r.stream
    BY <1>a DEF Record, Fields
  <2>. QED
    BY <1>a, <2>1, <2>2 DEF Record
<1>2. PhaseInv(x)
  BY DEF CallInv, Record, Fields, PhaseInv, LifeInv, TurnInv, CutInv
<1>3. KeptInv(x)
  BY DEF CallInv, Record, Fields, PhaseInv, LifeInv, KeptInv, Took, Live
<1>. QED
  BY <1>1, <1>2, <1>3 DEF CallInv

LEMMA CutFits ==
  ASSUME NEW r, CallInv(r), ~r.latched, r.conn # "closed", NEW b \in BOOLEAN
  PROVE  CallInv([[r EXCEPT !.cuts = IF b /\ @ < 2 THEN @ + 1 ELSE @] EXCEPT !.latched = b])
<1>. DEFINE x == [[r EXCEPT !.cuts = IF b /\ @ < 2 THEN @ + 1 ELSE @] EXCEPT !.latched = b]
<1>a. Record(r)
  BY DEF CallInv
<1>1. Record(x)
  <2>1. IsFcn(x) /\ DOMAIN x = DOMAIN r
    BY DEF IsFcn
  <2>2. x.stream = r.stream
    BY <1>a DEF Record, Fields
  <2>. QED
    BY <1>a, <2>1, <2>2 DEF Record
<1>2. PhaseInv(x)
  BY DEF CallInv, Record, Fields, PhaseInv, LifeInv, TurnInv, CutInv
<1>3. KeptInv(x)
  BY DEF CallInv, Record, Fields, PhaseInv, LifeInv, KeptInv, Took, Live
<1>. QED
  BY <1>1, <1>2, <1>3 DEF CallInv

LEMMA FinalFits ==
  ASSUME NEW r, CallInv(r)
  PROVE  CallInv([r EXCEPT !.finals = r.finals + 1, !.latched = FALSE, !.evidence = FALSE,
                     !.begun = "none", !.cuts = IF @ = 2 THEN 2 ELSE 0])
<1>. DEFINE x == [r EXCEPT !.finals = r.finals + 1, !.latched = FALSE, !.evidence = FALSE,
                     !.begun = "none", !.cuts = IF @ = 2 THEN 2 ELSE 0]
<1>a. Record(r)
  BY DEF CallInv
<1>1. Record(x)
  <2>1. IsFcn(x) /\ DOMAIN x = DOMAIN r
    BY DEF IsFcn
  <2>2. x.stream = r.stream
    BY <1>a DEF Record, Fields
  <2>. QED
    BY <1>a, <2>1, <2>2 DEF Record
<1>2. PhaseInv(x)
  BY DEF CallInv, Record, Fields, PhaseInv, LifeInv, TurnInv, CutInv
<1>3. KeptInv(x)
  BY DEF CallInv, Record, Fields, PhaseInv, LifeInv, KeptInv, Took, Live
<1>. QED
  BY <1>1, <1>2, <1>3 DEF CallInv

LEMMA EmptyFits ==
  ASSUME NEW r, CallInv(r), r.waiter = "pending"
  PROVE  CallInv([r EXCEPT !.waiter = "done", !.got = 0])
<1>. DEFINE x == [r EXCEPT !.waiter = "done", !.got = 0]
<1>a. Record(r)
  BY DEF CallInv
<1>1. Record(x)
  <2>1. IsFcn(x) /\ DOMAIN x = DOMAIN r
    BY DEF IsFcn
  <2>2. x.stream = r.stream
    BY <1>a DEF Record, Fields
  <2>. QED
    BY <1>a, <2>1, <2>2 DEF Record
<1>2. PhaseInv(x)
  BY DEF CallInv, Record, Fields, PhaseInv, LifeInv, TurnInv, CutInv
<1>3. KeptInv(x)
  BY DEF CallInv, Record, Fields, PhaseInv, LifeInv, KeptInv, Took, Live
<1>. QED
  BY <1>1, <1>2, <1>3 DEF CallInv

LEMMA EndFits ==
  ASSUME NEW r, CallInv(r), r.conn = "closing", r.session = "over",
         NEW h, h = (r.channel = "web" /\ r.result # "ok")
  PROVE  CallInv([r EXCEPT !.conn = "closed", !.ended = TRUE,
       !.injected = <<>>, !.speaking = "no", !.reference = "none", !.latched = FALSE,
       !.evidence = FALSE, !.begun = "none", !.vad = FALSE, !.pending = FALSE,
       !.phone = {}, !.hungUp = @ \/ h])
<1>. DEFINE x == [r EXCEPT !.conn = "closed", !.ended = TRUE,
       !.injected = <<>>, !.speaking = "no", !.reference = "none", !.latched = FALSE,
       !.evidence = FALSE, !.begun = "none", !.vad = FALSE, !.pending = FALSE,
       !.phone = {}, !.hungUp = @ \/ h]
<1>a. Record(r)
  BY DEF CallInv
<1>1. Record(x)
  <2>1. IsFcn(x) /\ DOMAIN x = DOMAIN r
    BY DEF IsFcn
  <2>2. x.stream = r.stream
    BY <1>a DEF Record, Fields
  <2>. QED
    BY <1>a, <2>1, <2>2 DEF Record
<1>2. PhaseInv(x)
  BY ZenonT(60) DEF CallInv, Record, Fields, PhaseInv, LifeInv, TurnInv, CutInv
<1>3. KeptInv(x)
  BY DEF CallInv, Record, Fields, PhaseInv, LifeInv, KeptInv, Took, Live
<1>. QED
  BY <1>1, <1>2, <1>3 DEF CallInv

LEMMA AnswerFits ==
  ASSUME NEW r, CallInv(r), r.waiter = "pending"
  PROVE  LET u == r.finals + 1
             s == [r EXCEPT !.finals = u, !.latched = FALSE, !.evidence = FALSE,
                     !.begun = "none", !.cuts = IF @ = 2 THEN 2 ELSE 0]
             k == [s EXCEPT !.kept = @ \cup {u}]
         IN  CallInv([k EXCEPT !.waiter = "done", !.got = u])
<1>. DEFINE u == r.finals + 1
            s == [r EXCEPT !.finals = u, !.latched = FALSE, !.evidence = FALSE,
                     !.begun = "none", !.cuts = IF @ = 2 THEN 2 ELSE 0]
            k == [s EXCEPT !.kept = @ \cup {u}]
            x == [k EXCEPT !.waiter = "done", !.got = u]
<1>a. Record(r)
  BY DEF CallInv
<1>1. Record(x)
  <2>1. IsFcn(x) /\ DOMAIN x = DOMAIN r
    BY DEF IsFcn
  <2>2. x.stream = r.stream
    BY <1>a DEF Record, Fields
  <2>. QED
    BY <1>a, <2>1, <2>2 DEF Record
<1>2. /\ x.injected = r.injected /\ x.finals = u /\ x.answered = r.answered
      /\ x.kept = r.kept \cup {u} /\ x.waiter = "done" /\ x.got = u
      /\ x.session = r.session
  BY <1>a DEF Record, Fields
<1>3. PhaseInv(x)
  <2>1. /\ x.conn = r.conn /\ x.session = r.session /\ x.result = r.result
        /\ x.channel = r.channel /\ x.hungUp = r.hungUp /\ x.turn = r.turn
        /\ x.speaking = r.speaking /\ x.breaking = r.breaking
        /\ x.cutTurns = r.cutTurns /\ x.stream = r.stream
    BY <1>a DEF Record, Fields
  <2>2. x.cuts = 0
    BY <1>a DEF Record, Fields, CallInv, PhaseInv, CutInv
  <2>. HIDE DEF x
  <2>. QED
    BY <1>2, <2>1, <2>2 DEF CallInv, PhaseInv, LifeInv, TurnInv, CutInv
<1>4. KeptInv(x)
  <2>1. Live(r) /\ ~Took(r)
    BY DEF CallInv, PhaseInv, LifeInv, Live, Took
  <2>2. r.injected = <<>> /\ r.kept = {} /\ Len(r.injected) = 0
    BY <2>1 DEF CallInv, KeptInv
  <2>. HIDE DEF x
  <2>. QED
    BY <1>2, <2>1, <2>2 DEF CallInv, KeptInv, Took
<1>. QED
  BY <1>1, <1>3, <1>4 DEF CallInv

LEMMA BufferFits ==
  ASSUME NEW r, CallInv(r), r.waiter # "pending", r.conn # "closed"
  PROVE  LET u == r.finals + 1
             s == [r EXCEPT !.finals = u, !.latched = FALSE, !.evidence = FALSE,
                     !.begun = "none", !.cuts = IF @ = 2 THEN 2 ELSE 0]
             k == [s EXCEPT !.kept = @ \cup {u}]
         IN  CallInv([k EXCEPT !.injected = Append(@, u)])
<1>. DEFINE u == r.finals + 1
            s == [r EXCEPT !.finals = u, !.latched = FALSE, !.evidence = FALSE,
                     !.begun = "none", !.cuts = IF @ = 2 THEN 2 ELSE 0]
            k == [s EXCEPT !.kept = @ \cup {u}]
            x == [k EXCEPT !.injected = Append(@, u)]
<1>a. Record(r)
  BY DEF CallInv
<1>1. Record(x)
  <2>1. IsFcn(x) /\ DOMAIN x = DOMAIN r
    BY DEF IsFcn
  <2>2. x.stream = r.stream
    BY <1>a DEF Record, Fields
  <2>. QED
    BY <1>a, <2>1, <2>2 DEF Record
<1>2. /\ x.injected = Append(r.injected, u) /\ x.finals = u /\ x.answered = r.answered
      /\ x.kept = r.kept \cup {u} /\ x.waiter = r.waiter /\ x.got = r.got
      /\ x.session = r.session
  BY <1>a DEF Record, Fields
<1>3. PhaseInv(x)
  <2>1. /\ x.conn = r.conn /\ x.session = r.session /\ x.result = r.result
        /\ x.channel = r.channel /\ x.hungUp = r.hungUp /\ x.turn = r.turn
        /\ x.speaking = r.speaking /\ x.breaking = r.breaking
        /\ x.cutTurns = r.cutTurns /\ x.stream = r.stream
    BY <1>a DEF Record, Fields
  <2>2. x.cuts = 0
    BY <1>a DEF Record, Fields, CallInv, PhaseInv, CutInv
  <2>. HIDE DEF x
  <2>. QED
    BY <1>2, <2>1, <2>2 DEF CallInv, PhaseInv, LifeInv, TurnInv, CutInv
<1>4. KeptInv(x)
  <2>1. r.injected \in Seq(Nat) /\ u \in Nat
    BY DEF CallInv, KeptInv
  <2>2. /\ x.injected \in Seq(Nat) /\ Len(x.injected) = Len(r.injected) + 1
        /\ x.injected[Len(r.injected) + 1] = u
        /\ \A i \in 1..Len(r.injected) : x.injected[i] = r.injected[i]
    BY <1>2, <2>1
  <2>. HIDE DEF x
  <2>3. CASE Live(r)
    <3>1. \A v \in r.kept : v < u /\ v \in 1..u
      BY DEF CallInv, KeptInv
    <3>2. \A i \in 1..Len(x.injected) :
            i = Len(r.injected) + 1 \/ (i \in 1..Len(r.injected) /\ x.injected[i] \in r.kept)
      BY <2>1, <2>2, <2>3 DEF CallInv, KeptInv
    <3>3. \A v \in x.kept :
            (Took(x) /\ v = x.got) \/ \E i \in 1..Len(x.injected) : v = x.injected[i]
      <4>1. Len(r.injected) + 1 \in 1..Len(x.injected) /\ 1..Len(r.injected) \subseteq 1..Len(x.injected)
        BY <2>1, <2>2
      <4>2. \A v \in r.kept :
              (Took(x) /\ v = x.got) \/ \E i \in 1..Len(r.injected) : v = r.injected[i]
        BY <1>2, <2>3 DEF CallInv, KeptInv, Took
      <4>. QED
        BY <1>2, <2>2, <4>1, <4>2
    <3>4. \A i, j \in 1..Len(x.injected) : i < j => x.injected[i] < x.injected[j]
      <4>1. \A i, j \in 1..Len(r.injected) : i < j => x.injected[i] < x.injected[j]
        BY <2>2, <2>3 DEF CallInv, KeptInv
      <4>2. \A i \in 1..Len(r.injected) : x.injected[i] < u
        BY <2>2, <2>3, <3>1 DEF CallInv, KeptInv
      <4>3. Len(r.injected) \in Nat
        BY <2>1
      <4>. SUFFICES ASSUME NEW i \in 1..Len(x.injected), NEW j \in 1..Len(x.injected), i < j
                    PROVE  x.injected[i] < x.injected[j]
        OBVIOUS
      <4>4. i \in 1..Len(r.injected)
        BY <2>2, <4>3
      <4>5. j = Len(r.injected) + 1 \/ j \in 1..Len(r.injected)
        BY <2>2, <4>3
      <4>. QED
        BY <2>2, <4>1, <4>2, <4>4, <4>5
    <3>5. Took(x) => x.got \in r.kept
      BY <1>2, <2>3 DEF CallInv, KeptInv, Took
    <3>6. Took(x) => \A i \in 1..Len(x.injected) : x.got < x.injected[i]
      BY <1>2, <2>1, <2>2, <2>3, <3>1, <3>2, <3>5 DEF CallInv, KeptInv, Took
    <3>7. \A i \in 1..Len(x.injected) : x.injected[i] \in x.kept
      BY <1>2, <2>1, <2>2, <3>2
    <3>8. \A v \in x.kept : x.answered < v /\ v \in 1..x.finals
      BY <1>2, <2>1, <2>3, <3>1 DEF CallInv, KeptInv
    <3>9. x.finals \in Nat /\ x.answered \in 0..x.finals
      BY <1>2 DEF CallInv, KeptInv
    <3>. QED
      BY <1>2, <2>2, <3>3, <3>4, <3>5, <3>6, <3>7, <3>8, <3>9 DEF KeptInv
  <2>4. CASE ~Live(r)
    BY <1>2, <2>1, <2>2, <2>4 DEF CallInv, KeptInv, Live
  <2>. QED
    BY <2>3, <2>4
<1>. QED
  BY <1>1, <1>3, <1>4 DEF CallInv

-----------------------------------------------------------------------------
(* All the calls, the shared synthesis and the shared ESL connection       *)

(* What is left alone of the fields that other actors look at.             *)
Apart(x, r) ==
  /\ x.channel = r.channel /\ x.conn = r.conn /\ x.phone = r.phone
  /\ x.breaking = r.breaking /\ x.cutTurns = r.cutTurns

LEMMA OperatorsApart ==
  ASSUME NEW r, Record(r), NEW b, NEW how
  PROVE  /\ Apart(Listening(r), r) /\ Apart(SpeakOver(r, b), r) /\ Apart(Failing(r, how), r)
         /\ Apart(CancelStream(r), r)
<1>1. Apart(Listening(r), r)
  BY DEF Apart, Record, Fields, Listening
<1>2. Apart(SpeakOver(r, b), r)
  BY DEF Apart, Record, Fields, SpeakOver
<1>3. Apart(Failing(r, how), r)
  BY DEF Apart, Record, Fields, Failing
<1>4. Apart(CancelStream(r), r)
  BY DEF Apart, Record, Fields, CancelStream
<1>. QED
  BY <1>1, <1>2, <1>3, <1>4

LEMMA UnseenUpdate ==
  ASSUME NEW r, CallInv(r), NEW f \in Fields \ Seen, f # "phone", NEW v
  PROVE  LET q == [r EXCEPT ![f] = v]
         IN  CallInv(q) /\ Apart(q, r) /\ q.session = r.session
<1>. DEFINE q == [r EXCEPT ![f] = v]
<1>0. IsFcn(r) /\ DOMAIN r = Fields
  BY DEF CallInv, Record
<1>1. IsFcn(q) /\ DOMAIN q = Fields
  BY <1>0 DEF IsFcn
<1>2. \A g \in Fields : g # f => q[g] = r[g]
  BY <1>0
<1>. HIDE DEF q
<1>3. f # "phone" => q.phone = r.phone
  BY <1>2 DEF Fields
<1>4. \A g \in Seen : q[g] = r[g]
  BY <1>2 DEF Fields, Seen
<1>5. CallInv(q)
  BY <1>1, <1>4, UnseenFits
<1>6. f # "phone" => Apart(q, r)
  BY <1>3, <1>4 DEF Apart, Seen
<1>. QED
  BY <1>4, <1>5, <1>6 DEF Seen, q

(* The synthesis under way belongs to the session that waits for it.       *)
SynthInv ==
  /\ synth = Idle \/ synth \in [by : Calls, state : {"run", "cut"}]
  /\ synth.by # NoCall => call[synth.by].session = "synth"

Commands == [cmd : {"broadcast", "break"}, call : Calls, turn : Nat]

(* Audio is broadcast to calls of the telephone only.                      *)
EslInv ==
  /\ esl \in Seq(Commands)
  /\ \A i \in 1..Len(esl) : esl[i].cmd = "broadcast" => call[esl[i].call].channel # "web"

CallsInv == Shape /\ \A c \in Calls : CallInv(call[c])

(* The inductive invariant.  NothingAfterBreak is inductive beside it.     *)
IInv == CallsInv /\ SynthInv /\ EslInv /\ NothingAfterBreak

(* What a step of call c, after which it is x, may do to the synthesis.    *)
SynthStep(c, x) ==
  \/ /\ synth' = synth \/ synth' = InterruptSynthesis(synth)
     /\ call[c].session = "synth" => x.session = "synth"
  \/ synth' = Idle
  \/ synth' = [by |-> c, state |-> "run"] /\ x.session = "synth"

(* A step of call c after which it is x and its own invariant holds.       *)
Moved(c, x) ==
  /\ Become(c, x) /\ CallInv(x) /\ SynthStep(c, x)
  /\ x.channel = call[c].channel
  /\ call[c].conn = "closed" => x.conn = "closed"

(* A step that sends nothing: no command to FreeSWITCH, no audio to the    *)
(* phone, and no turn is cut without a break to follow.                    *)
QuietStep(c) ==
  /\ UNCHANGED esl
  /\ \E x : /\ Moved(c, x)
            /\ x.phone \subseteq call[c].phone
            /\ x.breaking \/ (x.breaking = call[c].breaking /\ x.cutTurns = call[c].cutTurns)

LEMMA MovedKeeps ==
  ASSUME VoiceTurnAssumption, IInv, NEW c \in Calls, NEW x, Moved(c, x)
  PROVE  /\ CallsInv' /\ SynthInv' /\ (UNCHANGED esl => EslInv')
         /\ call'[c] = x /\ \A d \in Calls \ {c} : call'[d] = call[d]
<1>1. Shape' /\ call'[c] = x /\ \A d \in Calls \ {c} : call'[d] = call[d]
  BY BecomeIs DEF IInv, CallsInv, Moved
<1>2. CallsInv'
  BY <1>1 DEF IInv, CallsInv, Moved
<1>3. SynthInv'
  <2>1. CASE /\ synth' = synth \/ synth' = InterruptSynthesis(synth)
             /\ call[c].session = "synth" => x.session = "synth"
    <3>1. synth'.by = synth.by /\ (synth' = Idle \/ synth' \in [by : Calls, state : {"run", "cut"}])
      BY <2>1 DEF IInv, SynthInv, InterruptSynthesis, Idle
    <3>2. synth.by # NoCall => synth.by \in Calls /\ call[synth.by].session = "synth"
      BY DEF IInv, SynthInv, Idle
    <3>. QED
      BY <1>1, <2>1, <3>1, <3>2 DEF SynthInv
  <2>2. CASE synth' = Idle
    BY <2>2 DEF SynthInv, Idle
  <2>3. CASE synth' = [by |-> c, state |-> "run"] /\ x.session = "synth"
    BY <1>1, <2>3 DEF SynthInv
  <2>. QED
    BY <2>1, <2>2, <2>3 DEF Moved, SynthStep
<1>4. UNCHANGED esl => EslInv'
  <2>1. \A d \in Calls : call'[d].channel = call[d].channel
    BY <1>1 DEF Moved
  <2>2. \A i \in 1..Len(esl) : esl[i].call \in Calls
    <3>1. \A i \in 1..Len(esl) : esl[i] \in Commands
      BY DEF IInv, EslInv
    <3>. QED
      BY <3>1 DEF Commands
  <2>. QED
    BY <2>1, <2>2 DEF IInv, EslInv
<1>. QED
  BY <1>1, <1>2, <1>3, <1>4

LEMMA QuietKeeps ==
  ASSUME VoiceTurnAssumption, IInv, NEW c \in Calls, QuietStep(c)
  PROVE  IInv'
<1>. PICK x : /\ Moved(c, x)
              /\ x.phone \subseteq call[c].phone
              /\ x.breaking \/ (x.breaking = call[c].breaking /\ x.cutTurns = call[c].cutTurns)
  BY DEF QuietStep
<1>1. UNCHANGED esl
  BY DEF QuietStep
<1>2. /\ CallsInv' /\ SynthInv' /\ EslInv'
      /\ call'[c] = x /\ \A d \in Calls \ {c} : call'[d] = call[d]
  BY <1>1, MovedKeeps
<1>3. NothingAfterBreak'
  <2>. SUFFICES ASSUME NEW d \in Calls, NEW t \in call'[d].cutTurns
       PROVE  LET behind(i) == \E j \in i + 1..Len(esl) : esl[j].cmd = "break" /\ esl[j].call = d IN
              /\ t \in call'[d].phone => call'[d].breaking \/ behind(0)
              /\ \A i \in 1..Len(esl) :
                   esl[i] = [cmd |-> "broadcast", call |-> d, turn |-> t] =>
                     call'[d].breaking \/ behind(i) \/ call'[d].conn = "closed"
    BY <1>1 DEF NothingAfterBreak
  <2>1. CASE d # c \/ ~x.breaking
    <3>1. /\ t \in call[d].cutTurns /\ call'[d].breaking = call[d].breaking
          /\ t \in call'[d].phone => t \in call[d].phone
          /\ call[d].conn = "closed" => call'[d].conn = "closed"
      BY <1>2, <2>1 DEF Moved
    <3>. QED
      BY <3>1 DEF IInv, NothingAfterBreak
  <2>2. CASE d = c /\ x.breaking
    BY <1>2, <2>2
  <2>. QED
    BY <2>1, <2>2
<1>. QED
  BY <1>2, <1>3 DEF IInv

LEMMA InitKeeps == ASSUME VoiceTurnAssumption PROVE Init => IInv
<1>. SUFFICES ASSUME Init PROVE IInv
  OBVIOUS
<1>1. ASSUME NEW ch PROVE CallInv(NewCall(ch))
  <2>. DEFINE x == NewCall(ch)
  <2>1. Record(x)
    BY DEF Record, NewCall, NoStream, IsFcn, Fields
  <2>2. PhaseInv(x)
    BY DEF NewCall, NoStream, PhaseInv, LifeInv, TurnInv, CutInv
  <2>3. x.injected = <<>> /\ x.kept = {} /\ x.finals = 0 /\ x.answered = 0 /\ x.waiter = "none"
    BY DEF NewCall
  <2>4. <<>> \in Seq(Nat) /\ Len(<<>>) = 0
    OBVIOUS
  <2>5. KeptInv(x)
    BY <2>3, <2>4 DEF KeptInv, Took
  <2>. QED
    BY <2>1, <2>2, <2>5 DEF CallInv
<1>2. CallsInv
  <2>1. \A c \in Calls : \E ch \in Channels : call[c] = NewCall(ch)
    BY DEF Init
  <2>2. Shape
    BY DEF Init, Shape, IsFcn
  <2>. QED
    BY <1>1, <2>1, <2>2 DEF CallsInv
<1>3. SynthInv
  BY DEF Init, SynthInv, Idle
<1>4. EslInv
  BY DEF Init, EslInv
<1>5. NothingAfterBreak
  <2>1. \A c \in Calls : call[c].cutTurns = {}
    BY DEF Init, NewCall
  <2>. QED
    BY <2>1 DEF NothingAfterBreak
<1>. QED
  BY <1>2, <1>3, <1>4, <1>5 DEF IInv

(* The facts about a call and the session that every step below starts from. *)
LEMMA CallFacts ==
  ASSUME VoiceTurnAssumption, IInv, NEW c \in Calls
  PROVE  /\ CallInv(call[c]) /\ Record(call[c])
         /\ synth.by = c => call[c].session = "synth"
         /\ call[c].session \notin {"none", "over"} => call[c].conn \notin {"none", "closed"}
         /\ call[c].session # "drain" => ~call[c].stream.last
         /\ call[c].session # "listen" => ~Took(call[c])
BY DEF IInv, CallsInv, CallInv, SynthInv, PhaseInv, LifeInv, Took, VoiceTurnAssumption

LEMMA QuietIf ==
  ASSUME IInv, NEW c \in Calls, NEW x, Become(c, x), CallInv(x), SynthStep(c, x),
         Apart(x, call[c]), UNCHANGED esl
  PROVE  QuietStep(c)
BY DEF QuietStep, Moved, Apart

-----------------------------------------------------------------------------
(* The actions that send nothing                                           *)

LEMMA ConnectQuiet ==
  ASSUME VoiceTurnAssumption, IInv, NEW c \in Calls, Connect(c) PROVE QuietStep(c)
<1>. DEFINE x == [call[c] EXCEPT !.conn = "open", !.session = "loading"]
<1>1. Become(c, x) /\ CallInv(x)
  BY CallFacts, ConnectFits DEF Connect
<1>2. /\ x.channel = call[c].channel /\ x.phone = call[c].phone /\ x.conn = "open"
      /\ x.breaking = call[c].breaking /\ x.cutTurns = call[c].cutTurns
  BY CallFacts DEF Record, Fields
<1>3. call[c].session # "synth" /\ call[c].conn # "closed"
  BY CallFacts DEF Connect
<1>4. UNCHANGED <<synth, esl>>
  BY DEF Connect
<1>. HIDE DEF x
<1>. QED
  BY <1>1, <1>2, <1>3, <1>4 DEF QuietStep, Moved, SynthStep

LEMMA LoadTaskQuiet ==
  ASSUME VoiceTurnAssumption, IInv, NEW c \in Calls, LoadTask(c) PROVE QuietStep(c)
<1>. DEFINE x == [call[c] EXCEPT !.session = "announce"]
<1>1. Become(c, x) /\ CallInv(x)
  BY CallFacts, AnnounceFits DEF LoadTask
<1>2. Apart(x, call[c])
  BY CallFacts DEF Apart, Record, Fields
<1>3. SynthStep(c, x) /\ UNCHANGED esl
  BY DEF LoadTask, SynthStep
<1>. QED
  BY <1>1, <1>2, <1>3, QuietIf

LEMMA BeginSpeakQuiet ==
  ASSUME VoiceTurnAssumption, IInv, NEW c \in Calls, BeginSpeak(c) PROVE QuietStep(c)
<1>. DEFINE b == IF call[c].begun = "none" THEN call[c].begun ELSE "old"
            r == [call[c] EXCEPT !.turn = @ + 1, !.begun = b]
<1>0. call[c].session = "announce" /\ ~call[c].breaking /\ UNCHANGED esl
  BY DEF BeginSpeak
<1>1. CASE synth = Idle /\ synth' = [by |-> c, state |-> "run"]
  <2>. DEFINE f == IF r.channel = "web" THEN "playing" ELSE "none"
              x == [r EXCEPT !.session = "synth", !.speaking = "yes", !.reference = f]
  <2>1. Become(c, x)
    BY <1>1 DEF BeginSpeak, Idle
  <2>2. CallInv(x)
    BY <1>0, CallFacts, SpeakFits
  <2>3. Apart(x, call[c]) /\ x.session = "synth"
    BY CallFacts DEF Apart, Record, Fields
  <2>4. SynthStep(c, x)
    BY <1>1, <2>3 DEF SynthStep
  <2>. QED
    BY <1>0, <2>1, <2>2, <2>3, <2>4, QuietIf
<1>2. CASE synth # Idle /\ synth' = synth
  <2>. DEFINE x == Failing(SpeakOver(r, FALSE), "failed")
  <2>1. Become(c, x)
    BY <1>2 DEF BeginSpeak
  <2>2. CallInv(x)
    BY <1>0, CallFacts, RefusedFits
  <2>3. Apart(x, call[c])
    BY CallFacts DEF Apart, Record, Fields, Failing, SpeakOver
  <2>4. SynthStep(c, x)
    BY <1>0, <1>2 DEF SynthStep
  <2>. QED
    BY <1>0, <2>1, <2>2, <2>3, <2>4, QuietIf
<1>. QED
  BY <1>1, <1>2 DEF BeginSpeak

LEMMA ChunkQuiet ==
  ASSUME VoiceTurnAssumption, IInv, NEW c \in Calls, Chunk(c) PROVE QuietStep(c)
<1>. DEFINE r == call[c]
            s == IF r.stream.at \in {"none", "dead"}
                 THEN [NoStream EXCEPT !.queued = 1, !.at = "get"]
                 ELSE [r.stream EXCEPT !.queued = @ + 1]
            x == [r EXCEPT !.stream = s]
<1>1. r.session = "synth" /\ r.speaking = "yes" /\ UNCHANGED <<synth, esl>>
  BY CallFacts DEF Chunk
<1>2. r.turn # 0 /\ r.turn \notin r.cutTurns /\ ~r.stream.last
  BY <1>1, CallFacts DEF CallInv, PhaseInv, TurnInv
<1>3. Become(c, x)
  BY DEF Chunk
<1>4. /\ IsFcn(s) /\ DOMAIN s = {"queued", "at", "last"} /\ s.at # "none" /\ ~s.last
      /\ r.channel = "web" => s.at \notin {"write", "esl"}
  <2>1. CASE r.stream.at \in {"none", "dead"}
    BY <2>1 DEF NoStream, IsFcn
  <2>2. CASE r.stream.at \notin {"none", "dead"}
    <3>1. Record(r) /\ (r.channel = "web" => r.stream.at \notin {"write", "esl"})
      BY CallFacts DEF CallInv, PhaseInv, TurnInv
    <3>. QED
      BY <1>2, <2>2, <3>1 DEF Record, IsFcn
  <2>. QED
    BY <2>1, <2>2
<1>. HIDE DEF s
<1>5. CallInv(x)
  BY <1>1, <1>2, <1>4, CallFacts, StreamFits
<1>6. Apart(x, r) /\ x.session = "synth"
  BY <1>1, CallFacts DEF Apart, Record, Fields
<1>7. SynthStep(c, x)
  BY <1>1, <1>6 DEF SynthStep
<1>. QED
  BY <1>1, <1>3, <1>5, <1>6, <1>7, QuietIf

LEMMA SwallowedApart == ASSUME NEW r, Record(r) PROVE Apart(Swallowed(r), r)
<1>1. Record(SpeakOver(r, FALSE)) 
  <2>1. IsFcn(SpeakOver(r, FALSE)) /\ DOMAIN SpeakOver(r, FALSE) = DOMAIN r
    BY DEF IsFcn, SpeakOver
  <2>2. SpeakOver(r, FALSE).stream = r.stream
    BY DEF Record, SpeakOver, Fields
  <2>. QED
    BY <2>1, <2>2 DEF Record
<1>2. Apart(SpeakOver(r, FALSE), r)
  BY OperatorsApart
<1>3. /\ Apart(Failing(SpeakOver(r, FALSE), "cancelled"), SpeakOver(r, FALSE))
      /\ Apart(Listening(SpeakOver(r, FALSE)), SpeakOver(r, FALSE))
  BY <1>1, OperatorsApart
<1>. QED
  BY <1>1, <1>2, <1>3 DEF Swallowed, Apart

LEMMA SpokenFits ==
  ASSUME NEW r, CallInv(r), r.session \in {"synth", "drain"}, ~r.stream.last, NEW b
  PROVE  /\ CallInv(Listening(SpeakOver(r, b))) /\ CallInv(Failing(SpeakOver(r, b), "failed"))
         /\ Apart(Listening(SpeakOver(r, b)), r) /\ Apart(Failing(SpeakOver(r, b), "failed"), r)
<1>. DEFINE s == SpeakOver(r, b)
<1>1. r.conn \notin {"none", "closed"} /\ ~Took(r) /\ Record(r)
  BY DEF CallInv, PhaseInv, LifeInv, Took
<1>2. /\ CallInv(s) /\ s.session = r.session /\ s.conn = r.conn
      /\ s.waiter = r.waiter /\ s.stream = r.stream
  BY SpeakOverFits
<1>3. ~Took(s) /\ Record(s)
  BY <1>1, <1>2 DEF CallInv, PhaseInv, LifeInv, Took
<1>. HIDE DEF s
<1>4. CallInv(Listening(s)) /\ CallInv(Failing(s, "failed"))
  BY <1>1, <1>2, <1>3, ListeningFits, FailingFits
<1>5. Apart(Listening(s), s) /\ Apart(Failing(s, "failed"), s)
  BY <1>3, OperatorsApart
<1>6. Apart(s, r)
  BY <1>1, OperatorsApart DEF s
<1>. QED
  BY <1>4, <1>5, <1>6 DEF Apart, s

LEMMA SynthesisDoneQuiet ==
  ASSUME VoiceTurnAssumption, IInv, NEW c \in Calls, SynthesisDone(c) PROVE QuietStep(c)
<1>. DEFINE r == call[c]
<1>1. synth' = Idle /\ r.session = "synth" /\ UNCHANGED esl
  BY CallFacts DEF SynthesisDone
<1>2. ~r.stream.last /\ CallInv(r) /\ Record(r)
  BY <1>1, CallFacts
<1>3. CASE r.stream.at = "none"
  <2>. DEFINE x == Listening(SpeakOver(r, TRUE))
  <2>1. Become(c, x)
    BY <1>3 DEF SynthesisDone
  <2>2. CallInv(x) /\ Apart(x, r)
    BY <1>1, <1>2, SpokenFits
  <2>. QED
    BY <1>1, <2>1, <2>2, QuietIf DEF SynthStep
<1>4. CASE r.stream.at = "dead"
  <2>. DEFINE y == [r EXCEPT !.stream = NoStream]
              x == Failing(SpeakOver(y, FALSE), "failed")
  <2>1. Become(c, x)
    BY <1>4 DEF SynthesisDone
  <2>2. CallInv(y) /\ Apart(y, r) /\ y.stream = NoStream /\ y.session = r.session
    BY <1>2, CancelStreamFits, OperatorsApart DEF CancelStream, Fields
  <2>a. y.session \in {"synth", "drain"} /\ ~y.stream.last
    BY <1>1, <2>2 DEF NoStream
  <2>. HIDE DEF y
  <2>3. CallInv(x) /\ Apart(x, y)
    BY <2>2, <2>a, SpokenFits
  <2>4. Apart(x, r)
    BY <2>2, <2>3 DEF Apart
  <2>. QED
    BY <1>1, <2>1, <2>3, <2>4, QuietIf DEF SynthStep
<1>5. CASE r.stream.at \notin {"none", "dead"}
  <2>. DEFINE y == [r EXCEPT !.session = "drain"]
              s == [r.stream EXCEPT !.last = TRUE]
              x == [r EXCEPT !.session = "drain", !.stream.last = TRUE]
  <2>1. Become(c, x)
    BY <1>5 DEF SynthesisDone
  <2>2. r.turn # 0
    BY <1>1, <1>2 DEF CallInv, PhaseInv, TurnInv
  <2>3. CallInv(y) /\ Apart(y, r)
    <3>1. IsFcn(y) /\ DOMAIN y = Fields /\ y.session = "drain" /\ \A f \in Fields \ {"session"} : y[f] = r[f]
      BY <1>2 DEF IsFcn, Record, Fields
    <3>2. /\ y.conn = r.conn /\ y.result = r.result /\ y.channel = r.channel /\ y.hungUp = r.hungUp
          /\ y.turn = r.turn /\ y.speaking = r.speaking /\ y.breaking = r.breaking
          /\ y.cutTurns = r.cutTurns /\ y.stream = r.stream /\ y.waiter = r.waiter /\ y.got = r.got
          /\ y.injected = r.injected /\ y.latched = r.latched /\ y.cuts = r.cuts
          /\ y.finals = r.finals /\ y.answered = r.answered /\ y.kept = r.kept
          /\ y.phone = r.phone
      BY <1>2 DEF Record, Fields
    <3>. HIDE DEF y
    <3>3. Record(y) /\ PhaseInv(y)
      BY <1>1, <1>2, <2>2, <3>1, <3>2 DEF Record, CallInv, PhaseInv, LifeInv, TurnInv, CutInv
    <3>4. KeptInv(y)
      BY <1>1, <1>2, <3>1, <3>2 DEF CallInv, KeptInv, Took, Live
    <3>. QED
      BY <3>2, <3>3, <3>4 DEF CallInv, Apart
  <2>4. /\ y.session = "drain" /\ y.stream = r.stream /\ y.turn = r.turn
        /\ y.cutTurns = r.cutTurns /\ y.breaking = r.breaking /\ y.channel = r.channel
    BY <1>2 DEF Record, Fields
  <2>5. /\ IsFcn(s) /\ DOMAIN s = {"queued", "at", "last"} /\ s.at = r.stream.at
    BY <1>2 DEF Record, IsFcn
  <2>6. r.turn \in r.cutTurns => r.breaking \/ r.stream = NoStream
    BY <1>2 DEF CallInv, PhaseInv, TurnInv
  <2>7. r.channel = "web" => r.stream.at \notin {"write", "esl"}
    BY <1>2 DEF CallInv, PhaseInv, TurnInv
  <2>8. r.stream # NoStream
    BY <1>5 DEF NoStream
  <2>9. x = [y EXCEPT !.stream = s]
    BY <1>2 DEF Record, Fields
  <2>. HIDE DEF y, s
  <2>10. CallInv([y EXCEPT !.stream = s])
    BY <1>5, <2>2, <2>3, <2>4, <2>5, <2>6, <2>7, <2>8, StreamFits
  <2>11. Apart([y EXCEPT !.stream = s], y)
    BY <2>3 DEF CallInv, Apart, Record, Fields
  <2>12. Apart(x, r) /\ CallInv(x)
    BY <2>3, <2>9, <2>10, <2>11 DEF Apart
  <2>. QED
    BY <1>1, <2>1, <2>12, QuietIf DEF SynthStep
<1>. QED
  BY <1>3, <1>4, <1>5

LEMMA SynthesisFailsQuiet ==
  ASSUME VoiceTurnAssumption, IInv, NEW c \in Calls, SynthesisFails(c) PROVE QuietStep(c)
<1>. DEFINE x == Failing(SpeakOver(call[c], FALSE), "failed")
<1>1. synth' = Idle /\ call[c].session = "synth" /\ UNCHANGED esl /\ Become(c, x)
  BY CallFacts DEF SynthesisFails
<1>2. CallInv(x) /\ Apart(x, call[c])
  BY <1>1, CallFacts, SpokenFits
<1>. QED
  BY <1>1, <1>2, QuietIf DEF SynthStep

LEMMA SynthesisCutQuiet ==
  ASSUME VoiceTurnAssumption, IInv, NEW c \in Calls, SynthesisCut(c) PROVE QuietStep(c)
<1>. DEFINE x == Swallowed(call[c])
<1>1. synth' = Idle /\ call[c].session = "synth" /\ UNCHANGED esl /\ Become(c, x)
  BY CallFacts DEF SynthesisCut
<1>2. CallInv(x) /\ Apart(x, call[c])
  BY <1>1, CallFacts, SwallowedFits, SwallowedApart
<1>. QED
  BY <1>1, <1>2, QuietIf DEF SynthStep

LEMMA DrainCutQuiet ==
  ASSUME VoiceTurnAssumption, IInv, NEW c \in Calls, DrainCut(c) PROVE QuietStep(c)
<1>. DEFINE x == Swallowed(call[c])
<1>1. /\ call[c].session = "drain" /\ call[c].stream.at = "none"
      /\ UNCHANGED <<synth, esl>> /\ Become(c, x)
  BY DEF DrainCut
<1>2. ~call[c].stream.last
  BY <1>1, CallFacts DEF CallInv, PhaseInv, LifeInv, NoStream
<1>3. CallInv(x) /\ Apart(x, call[c])
  BY <1>1, <1>2, CallFacts, SwallowedFits, SwallowedApart
<1>. QED
  BY <1>1, <1>3, QuietIf DEF SynthStep

LEMMA HeardQuiet ==
  ASSUME VoiceTurnAssumption, IInv, NEW c \in Calls, Heard(c) PROVE QuietStep(c)
<1>. DEFINE r == call[c]
<1>1. /\ r.session = "listen" /\ r.waiter = "done" /\ UNCHANGED <<synth, esl>>
      /\ CallInv(r) /\ Record(r) /\ ~r.stream.last
  BY CallFacts DEF Heard
<1>2. CASE r.ended
  <2>. DEFINE x == Listening(r)
  <2>0. Become(c, x)
    BY <1>2 DEF Heard
  <2>1. x = [r EXCEPT !.session = "report", !.waiter = "none", !.got = 0]
    BY <1>2 DEF Listening
  <2>2. CallInv([r EXCEPT !.session = "report", !.waiter = "none", !.got = 0])
    BY <1>1, ToReportFits
  <2>3. Apart(x, r)
    BY <1>1, OperatorsApart
  <2>. QED
    BY <1>1, <2>0, <2>1, <2>2, <2>3, QuietIf DEF SynthStep
<1>3. CASE ~r.ended /\ r.got = 0
  <2>1. Become(c, Listening(r)) /\ ~Took(r)
    BY <1>3 DEF Heard, Took
  <2>2. CallInv(Listening(r)) /\ Apart(Listening(r), r)
    BY <1>1, <2>1, ListeningFits, OperatorsApart
  <2>. QED
    BY <1>1, <2>1, <2>2, QuietIf DEF SynthStep
<1>4. CASE ~r.ended /\ r.got # 0
  <2>. DEFINE x == [r EXCEPT !.session = "think", !.waiter = "none", !.got = 0,
                          !.answered = r.got, !.kept = @ \ {r.got}]
  <2>1. Become(c, x) /\ Took(r)
    BY <1>1, <1>4 DEF Heard, Took
  <2>2. CallInv(x)
    BY <1>1, <2>1, HeardFits
  <2>3. Apart(x, r)
    BY <1>1 DEF Apart, Record, Fields
  <2>. QED
    BY <1>1, <2>1, <2>2, <2>3, QuietIf DEF SynthStep
<1>. QED
  BY <1>2, <1>3, <1>4

LEMMA TimeoutQuiet ==
  ASSUME VoiceTurnAssumption, IInv, NEW c \in Calls, Timeout(c) PROVE QuietStep(c)
<1>. DEFINE r == call[c]
            x == [r EXCEPT !.session = "think", !.waiter = "none"]
<1>1. /\ r.session = "listen" /\ r.waiter = "pending" /\ UNCHANGED <<synth, esl>>
      /\ CallInv(r) /\ Record(r) /\ ~r.stream.last /\ ~Took(r)
  BY CallFacts DEF Timeout, Took
<1>2. Become(c, Listening(r)) \/ Become(c, x)
  BY DEF Timeout
<1>3. CallInv(Listening(r)) /\ Apart(Listening(r), r)
  BY <1>1, ListeningFits, OperatorsApart
<1>4. CallInv(x) /\ Apart(x, r)
  BY <1>1, TimeoutFits DEF Apart, Record, Fields
<1>. HIDE DEF x
<1>. QED
  BY <1>1, <1>2, <1>3, <1>4, QuietIf DEF SynthStep

LEMMA ThinkQuiet ==
  ASSUME VoiceTurnAssumption, IInv, NEW c \in Calls, Think(c) PROVE QuietStep(c)
<1>. DEFINE r == call[c]
            e == [r EXCEPT !.ended = TRUE]
            a == [r EXCEPT !.session = "announce"]
            b == [e EXCEPT !.session = "announce"]
<1>1. /\ r.session = "think" /\ UNCHANGED <<synth, esl>>
      /\ CallInv(r) /\ Record(r) /\ ~r.stream.last /\ r.conn \notin {"none", "closed"} /\ ~Took(r)
  BY CallFacts DEF Think
<1>2. \/ Become(c, a) \/ Become(c, Listening(r)) \/ Become(c, b) \/ Become(c, Listening(e))
      \/ Become(c, Failing(r, "failed"))
  BY DEF Think
<1>a. IsFcn(e) /\ DOMAIN e = Fields
  BY ZenonT(60), <1>1 DEF Record, IsFcn
<1>b. \A f \in Seen : e[f] = r[f]
  BY <1>1 DEF Record, Fields, Seen
<1>3. /\ Apart(e, r) /\ e.session = "think" /\ e.stream = r.stream
      /\ e.waiter = r.waiter /\ e.got = r.got
  BY <1>1, <1>b DEF Apart, Seen
<1>4. CallInv(e) /\ Record(e) /\ ~Took(e)
  BY <1>1, <1>3, <1>a, <1>b, UnseenFits DEF CallInv, Took
<1>5. CallInv(a) /\ Apart(a, r)
  BY <1>1, AnnounceFits DEF Apart, Record, Fields
<1>6. CallInv(Listening(r)) /\ Apart(Listening(r), r)
  BY <1>1, ListeningFits, OperatorsApart
<1>7. CallInv(Failing(r, "failed")) /\ Apart(Failing(r, "failed"), r)
  BY <1>1, FailingFits, OperatorsApart
<1>. HIDE DEF e
<1>8. CallInv(b) /\ Apart(b, e)
  BY <1>3, <1>4, AnnounceFits DEF Apart, Record, Fields
<1>9. CallInv(Listening(e)) /\ Apart(Listening(e), e)
  BY <1>1, <1>3, <1>4, ListeningFits, OperatorsApart
<1>10. Apart(b, r) /\ Apart(Listening(e), r)
  BY <1>3, <1>8, <1>9 DEF Apart
<1>. HIDE DEF a, b
<1>. QED
  BY <1>1, <1>2, <1>5, <1>6, <1>7, <1>8, <1>9, <1>10, QuietIf DEF SynthStep

LEMMA ReportQuiet ==
  ASSUME VoiceTurnAssumption, IInv, NEW c \in Calls, Report(c) PROVE QuietStep(c)
<1>. DEFINE r == call[c]
            x == [r EXCEPT !.session = "unwind", !.result = "ok",
                           !.hungUp = @ \/ r.channel = "web"]
<1>1. /\ r.session = "report" /\ UNCHANGED <<synth, esl>>
      /\ CallInv(r) /\ Record(r) /\ ~r.stream.last /\ r.conn \notin {"none", "closed"}
  BY CallFacts DEF Report
<1>2. Become(c, x) \/ Become(c, Failing(r, "failed"))
  BY DEF Report
<1>3. CallInv(x) /\ Apart(x, r)
  BY <1>1, ReportFits DEF Apart, Record, Fields
<1>4. CallInv(Failing(r, "failed")) /\ Apart(Failing(r, "failed"), r)
  BY <1>1, FailingFits, OperatorsApart
<1>. HIDE DEF x
<1>. QED
  BY <1>1, <1>2, <1>3, <1>4, QuietIf DEF SynthStep

LEMMA UnwindQuiet ==
  ASSUME VoiceTurnAssumption, IInv, NEW c \in Calls, Unwind(c) PROVE QuietStep(c)
<1>. DEFINE r == call[c]
            s == CancelStream(r)
            x == [s EXCEPT !.session = "over"]
<1>1. /\ r.session = "unwind" /\ UNCHANGED <<synth, esl>> /\ Become(c, x)
      /\ CallInv(r) /\ Record(r)
  BY CallFacts DEF Unwind
<1>2. CallInv(s) /\ s.stream = NoStream /\ Apart(s, r) /\ s.session = "unwind"
  BY <1>1, CancelStreamFits, OperatorsApart DEF Fields
<1>. HIDE DEF s
<1>3. CallInv(x) /\ Apart(x, s)
  BY <1>2, UnwindFits DEF CallInv, Apart, Record, Fields
<1>4. Apart(x, r)
  BY <1>2, <1>3 DEF Apart
<1>. QED
  BY <1>1, <1>3, <1>4, QuietIf DEF SynthStep

LEMMA PumpDoneQuiet ==
  ASSUME VoiceTurnAssumption, IInv, NEW c \in Calls, PumpDone(c) PROVE QuietStep(c)
<1>. DEFINE r == call[c]
            y == [r EXCEPT !.stream = NoStream]
            x == Listening(SpeakOver(y, TRUE))
<1>1. r.stream.last /\ UNCHANGED <<synth, esl>> /\ Become(c, x) /\ CallInv(r) /\ Record(r)
  BY CallFacts DEF PumpDone
<1>2. r.session = "drain"
  BY <1>1, CallFacts
<1>3. CallInv(y) /\ Apart(y, r) /\ y.stream = NoStream /\ y.session = r.session
  BY <1>1, CancelStreamFits, OperatorsApart DEF CancelStream, Fields
<1>4. y.session \in {"synth", "drain"} /\ ~y.stream.last
  BY <1>2, <1>3 DEF NoStream
<1>. HIDE DEF y
<1>5. CallInv(x) /\ Apart(x, y)
  BY <1>3, <1>4, SpokenFits
<1>6. Apart(x, r)
  BY <1>3, <1>5 DEF Apart
<1>. QED
  BY <1>1, <1>2, <1>5, <1>6, QuietIf DEF SynthStep

LEMMA SpeechStartQuiet ==
  ASSUME VoiceTurnAssumption, IInv, NEW c \in Calls, SpeechStart(c) PROVE QuietStep(c)
<1>. DEFINE x == [call[c] EXCEPT !.vad = TRUE, !.pending = TRUE, !.begun = "none",
                         !.latched = FALSE, !.evidence = FALSE, !.cuts = 0]
<1>1. Become(c, x) /\ UNCHANGED <<synth, esl>>
  BY DEF SpeechStart
<1>2. CallInv(x) /\ Apart(x, call[c]) /\ x.session = call[c].session
  BY CallFacts, SpeechStartFits DEF Apart, Record, Fields
<1>. QED
  BY <1>1, <1>2, QuietIf DEF SynthStep

LEMMA SpeechEndQuiet ==
  ASSUME VoiceTurnAssumption, IInv, NEW c \in Calls, SpeechEnd(c) PROVE QuietStep(c)
<1>. DEFINE x == [call[c] EXCEPT !.vad = FALSE, !.pending = FALSE, !.begun = "none",
                         !.ends = @ + 1]
<1>1. Become(c, x) /\ UNCHANGED <<synth, esl>>
  BY DEF SpeechEnd
<1>2. IsFcn(x) /\ DOMAIN x = Fields
  BY CallFacts DEF Record, IsFcn
<1>3. \A f \in Seen : x[f] = call[c][f]
  BY ZenonT(60), CallFacts DEF Record, Fields, Seen
<1>4. Apart(x, call[c]) /\ x.session = call[c].session
  BY <1>3 DEF Apart, Seen
<1>5. CallInv(x)
  BY <1>2, <1>3, CallFacts, UnseenFits
<1>. QED
  BY <1>1, <1>4, <1>5, QuietIf DEF SynthStep

LEMMA TailExpiresQuiet ==
  ASSUME VoiceTurnAssumption, IInv, NEW c \in Calls, TailExpires(c) PROVE QuietStep(c)
<1>. DEFINE x == [call[c] EXCEPT !.reference = "none"]
<1>1. Become(c, x) /\ UNCHANGED <<synth, esl>>
  BY DEF TailExpires
<1>2. IsFcn(x) /\ DOMAIN x = Fields
  BY CallFacts DEF Record, IsFcn
<1>3. \A f \in Seen : x[f] = call[c][f]
  BY CallFacts DEF Record, Fields, Seen
<1>4. Apart(x, call[c]) /\ x.session = call[c].session
  BY <1>3 DEF Apart, Seen
<1>5. CallInv(x)
  BY <1>2, <1>3, CallFacts, UnseenFits
<1>. QED
  BY <1>1, <1>4, <1>5, QuietIf DEF SynthStep

LEMMA NoFinalQuiet ==
  ASSUME VoiceTurnAssumption, IInv, NEW c \in Calls, NoFinal(c) PROVE QuietStep(c)
<1>. DEFINE x == [call[c] EXCEPT !.finals = @ + 1, !.cuts = 0]
<1>1. Become(c, x) /\ UNCHANGED <<synth, esl>> /\ call[c].conn # "closed"
  BY DEF NoFinal, Emits, Listens
<1>2. CallInv(x) /\ Apart(x, call[c]) /\ x.session = call[c].session
  BY <1>1, CallFacts, NoFinalFits DEF Apart, Record, Fields
<1>. QED
  BY <1>1, <1>2, QuietIf DEF SynthStep

LEMMA InterruptedQuiet ==
  ASSUME NEW c \in Calls, IInv, NEW r, CallInv(r), Apart(r, call[c]), NEW x,
         \A f \in {"channel", "conn", "phone", "breaking", "cutTurns"} : x[f] = Interrupted(r)[f],
         Become(c, x), CallInv(x), SynthStep(c, x), UNCHANGED esl
  PROVE  QuietStep(c)
<1>1. /\ x.channel = Interrupted(r).channel /\ x.conn = Interrupted(r).conn
      /\ x.phone = Interrupted(r).phone
      /\ x.breaking = Interrupted(r).breaking /\ x.cutTurns = Interrupted(r).cutTurns
  OBVIOUS
<1>2. /\ Interrupted(r).channel = r.channel /\ Interrupted(r).conn = r.conn
      /\ Interrupted(r).phone = r.phone
  BY InterruptedFits DEF Fields
<1>3. \/ Interrupted(r).breaking
      \/ Interrupted(r).breaking = r.breaking /\ Interrupted(r).cutTurns = r.cutTurns
  BY DEF Interrupted, CallInv, Record, Fields
<1>4. /\ x.channel = call[c].channel /\ x.conn = call[c].conn /\ x.phone = call[c].phone
      /\ x.breaking \/ (x.breaking = call[c].breaking /\ x.cutTurns = call[c].cutTurns)
  BY <1>1, <1>2, <1>3 DEF Apart
<1>. QED
  BY <1>4 DEF QuietStep, Moved

LEMMA SuppressedAudioQuiet ==
  ASSUME VoiceTurnAssumption, IInv, NEW c \in Calls, SuppressedAudio(c) PROVE QuietStep(c)
<1>. DEFINE r == [call[c] EXCEPT !.vad = FALSE]
<1>1. /\ UNCHANGED esl
      /\ \/ Become(c, r) /\ UNCHANGED synth
         \/ Become(c, Interrupted(r)) /\ synth' = SynthesisAfter(r)
  BY DEF SuppressedAudio
<1>2. IsFcn(r) /\ DOMAIN r = Fields
  BY CallFacts DEF Record, IsFcn
<1>3. \A f \in Seen : r[f] = call[c][f]
  BY CallFacts DEF Record, Fields, Seen
<1>4. Apart(r, call[c]) /\ r.session = call[c].session
  BY <1>2, CallFacts DEF Apart, Record, Fields
<1>5. CallInv(r)
  BY <1>2, <1>3, CallFacts, UnseenFits
<1>. HIDE DEF r
<1>6. CASE Become(c, r) /\ UNCHANGED synth
  BY <1>1, <1>4, <1>5, <1>6, QuietIf DEF SynthStep
<1>7. CASE Become(c, Interrupted(r)) /\ synth' = SynthesisAfter(r)
  <2>1. CallInv(Interrupted(r)) /\ Interrupted(r).session = r.session
    BY <1>5, InterruptedFits DEF Fields
  <2>2. SynthStep(c, Interrupted(r))
    BY <1>4, <1>7, <2>1 DEF SynthStep, SynthesisAfter
  <2>. QED
    BY <1>1, <1>4, <1>5, <1>7, <2>1, <2>2, InterruptedQuiet
<1>. QED
  BY <1>1, <1>6, <1>7

LEMMA PartialQuiet ==
  ASSUME VoiceTurnAssumption, IInv, NEW c \in Calls, NEW verdict, NEW near, Partial(c, verdict, near)
  PROVE  QuietStep(c)
<1>. DEFINE r == call[c]
            b == IF r.begun # "none" THEN r.begun
                 ELSE IF near /\ r.speaking = "yes" THEN "old" ELSE "new"
            s == [r EXCEPT !.begun = b]
            t == [s EXCEPT !.evidence = FALSE]
            v == [s EXCEPT !.evidence = @ \/ verdict = "sure"]
            x == [CutBySpeech(t) EXCEPT !.latched = r.speaking = "yes"]
<1>1. UNCHANGED esl /\ r.conn # "closed" /\ CallInv(r) /\ Record(r)
  BY CallFacts DEF Partial, Emits, Listens
<1>2. \/ Become(c, s) /\ UNCHANGED synth
      \/ Become(c, v) /\ UNCHANGED synth
      \/ Become(c, t) /\ UNCHANGED synth
      \/ ~r.latched /\ Become(c, x) /\ synth' = SynthesisAfter(r)
  BY DEF Partial
<1>. HIDE DEF b
<1>3. ASSUME NEW q \in {s, t, v}
      PROVE  CallInv(q) /\ Apart(q, r) /\ q.session = r.session
  <2>1. CallInv(s) /\ Apart(s, r) /\ s.session = r.session
    BY <1>1, UnseenUpdate DEF Fields, Seen
  <2>. HIDE DEF s
  <2>2. /\ CallInv(t) /\ Apart(t, s) /\ t.session = s.session
        /\ CallInv(v) /\ Apart(v, s) /\ v.session = s.session
    BY <2>1, UnseenUpdate DEF Fields, Seen
  <2>. HIDE DEF t, v
  <2>. QED
    BY <2>1, <2>2 DEF Apart
<1>4. CASE (Become(c, s) \/ Become(c, v) \/ Become(c, t)) /\ UNCHANGED synth
  <2>. PICK q \in {s, t, v} : Become(c, q)
    BY <1>4
  <2>. QED
    BY <1>1, <1>3, <1>4, QuietIf DEF SynthStep
<1>5. CASE ~r.latched /\ Become(c, x) /\ synth' = SynthesisAfter(r)
  <2>. DEFINE i == Interrupted(t)
              y == r.speaking = "yes"
  <2>1. CallInv(t) /\ Apart(t, r) /\ t.session = r.session
    BY <1>3
  <2>2. t.latched = r.latched /\ t.speaking = r.speaking
    BY <1>1 DEF Record, Fields
  <2>. HIDE DEF t
  <2>3. /\ CallInv(i) /\ i.session = t.session /\ i.conn = t.conn /\ i.latched = t.latched
    BY <2>1, InterruptedFits DEF Fields
  <2>4. ~i.latched /\ i.conn # "closed"
    BY <1>1, <1>5, <2>1, <2>2, <2>3 DEF Apart
  <2>5. x = [[i EXCEPT !.cuts = IF y /\ @ < 2 THEN @ + 1 ELSE @] EXCEPT !.latched = y]
    BY <2>2 DEF CutBySpeech
  <2>6. y \in BOOLEAN
    OBVIOUS
  <2>. HIDE DEF i, y
  <2>. DEFINE z == [[i EXCEPT !.cuts = IF y /\ @ < 2 THEN @ + 1 ELSE @] EXCEPT !.latched = y]
  <2>7. CallInv(z)
    BY <2>3, <2>4, <2>6, CutFits
  <2>8. /\ z.session = i.session
        /\ \A f \in {"channel", "conn", "phone", "breaking", "cutTurns"} : z[f] = i[f]
    BY <2>3 DEF CallInv, Record, Fields
  <2>. HIDE DEF z
  <2>9. Become(c, z)
    BY <1>5, <2>5 DEF z
  <2>10. SynthStep(c, z)
    BY <1>5, <2>1, <2>3, <2>8 DEF SynthStep, SynthesisAfter
  <2>. QED
    BY <1>1, <2>1, <2>7, <2>8, <2>9, <2>10, InterruptedQuiet DEF i
<1>. QED
  BY <1>2, <1>4, <1>5

LEMMA FinalQuiet ==
  ASSUME VoiceTurnAssumption, IInv, NEW c \in Calls, NEW kind, NEW verdict, NEW early,
         Final(c, kind, verdict, early)
  PROVE  QuietStep(c)
<1>. DEFINE r == call[c]
            u == r.finals + 1
            s == [r EXCEPT !.finals = u, !.latched = FALSE, !.evidence = FALSE,
                     !.begun = "none", !.cuts = IF @ = 2 THEN 2 ELSE 0]
            k == [s EXCEPT !.kept = @ \cup {u}]
            b == [k EXCEPT !.injected = Append(@, u)]
            e == [s EXCEPT !.waiter = "done", !.got = 0]
            a == [k EXCEPT !.waiter = "done", !.got = u]
            i == [Interrupted(b) EXCEPT !.cuts = IF r.speaking = "yes" /\ r.cuts = 1 THEN 2 ELSE @]
<1>1. UNCHANGED esl /\ r.conn # "closed" /\ CallInv(r) /\ Record(r)
  BY CallFacts DEF Final, Emits, Listens
<1>2. \/ Become(c, s) /\ UNCHANGED synth
      \/ r.waiter = "pending" /\ Become(c, e) /\ UNCHANGED synth
      \/ r.waiter = "pending" /\ Become(c, a) /\ UNCHANGED synth
      \/ r.waiter # "pending" /\ Become(c, b) /\ UNCHANGED synth
      \/ r.waiter # "pending" /\ ~r.latched /\ Become(c, i) /\ synth' = SynthesisAfter(r)
  BY DEF Final, Duplicate
<1>3. CallInv(s)
  BY <1>1, FinalFits
<1>4. ASSUME NEW q \in {s, e, a, b} PROVE Apart(q, r) /\ q.session = r.session
  <2>1. Apart(s, r) /\ s.session = r.session
    BY <1>1 DEF Apart, Record, Fields
  <2>2. Apart(e, r) /\ e.session = r.session
    BY <1>1 DEF Apart, Record, Fields
  <2>3. Apart(a, r) /\ a.session = r.session
    BY <1>1 DEF Apart, Record, Fields
  <2>4. Apart(b, r) /\ b.session = r.session
    BY <1>1 DEF Apart, Record, Fields
  <2>. HIDE DEF s, e, a, b
  <2>. QED
    BY <2>1, <2>2, <2>3, <2>4
<1>5. CASE Become(c, s) /\ UNCHANGED synth
  BY <1>1, <1>3, <1>4, <1>5, QuietIf DEF SynthStep
<1>6. CASE r.waiter = "pending" /\ Become(c, e) /\ UNCHANGED synth
  <2>1. s.waiter = "pending"
    BY <1>1, <1>6 DEF Record, Fields
  <2>2. CallInv(e)
    BY <1>3, <2>1, EmptyFits
  <2>. QED
    BY <1>1, <1>4, <1>6, <2>2, QuietIf DEF SynthStep
<1>7. CASE r.waiter = "pending" /\ Become(c, a) /\ UNCHANGED synth
  <2>1. CallInv(a)
    BY <1>1, <1>7, AnswerFits
  <2>. QED
    BY <1>1, <1>4, <1>7, <2>1, QuietIf DEF SynthStep
<1>8. r.waiter # "pending" => CallInv(b)
  BY <1>1, BufferFits
<1>9. CASE r.waiter # "pending" /\ Become(c, b) /\ UNCHANGED synth
  BY <1>1, <1>4, <1>8, <1>9, QuietIf DEF SynthStep
<1>10. CASE r.waiter # "pending" /\ ~r.latched /\ Become(c, i) /\ synth' = SynthesisAfter(r)
  <2>1. CallInv(b) /\ Apart(b, r) /\ b.session = r.session
    BY <1>4, <1>8, <1>10
  <2>2. r.cuts = 0
    BY <1>1, <1>10 DEF CallInv, PhaseInv, CutInv
  <2>. HIDE DEF b
  <2>. DEFINE m == Interrupted(b)
  <2>3. CallInv(m) /\ m.session = b.session
    BY <2>1, InterruptedFits DEF Fields
  <2>4. i = [m EXCEPT !.cuts = @]
    BY <2>2
  <2>. HIDE DEF m
  <2>5. i = m
    BY <2>3, <2>4 DEF CallInv, Record, IsFcn, Fields
  <2>. HIDE DEF i
  <2>6. SynthStep(c, i)
    BY <1>10, <2>1, <2>3, <2>5 DEF SynthStep, SynthesisAfter
  <2>. QED
    BY <1>1, <1>10, <2>1, <2>3, <2>5, <2>6, InterruptedQuiet DEF m
<1>. QED
  BY <1>2, <1>5, <1>6, <1>7, <1>9, <1>10

LEMMA DisconnectQuiet ==
  ASSUME VoiceTurnAssumption, IInv, NEW c \in Calls, Disconnect(c) PROVE QuietStep(c)
<1>. DEFINE r == call[c]
            o == [r EXCEPT !.conn = "closing"]
            q == [r EXCEPT !.conn = "closing", !.cancelled = TRUE]
<1>1. r.conn = "open" /\ UNCHANGED esl /\ CallInv(r) /\ Record(r)
  BY CallFacts DEF Disconnect
<1>2. CallInv(o) /\ CallInv(q)
  BY <1>1, ClosingFits, ClosingOnlyFits
<1>3. ASSUME NEW x, CallInv(x), Become(c, x), SynthStep(c, x), x.conn = "closing",
             x.channel = r.channel, x.phone = r.phone, x.breaking = r.breaking,
             x.cutTurns = r.cutTurns
      PROVE  QuietStep(c)
  BY <1>1, <1>3 DEF QuietStep, Moved
<1>4. /\ o.conn = "closing" /\ o.channel = r.channel /\ o.phone = r.phone
      /\ o.breaking = r.breaking /\ o.cutTurns = r.cutTurns /\ o.session = r.session
  BY <1>1 DEF Record, Fields
<1>5. /\ q.conn = "closing" /\ q.channel = r.channel /\ q.phone = r.phone
      /\ q.breaking = r.breaking /\ q.cutTurns = r.cutTurns /\ q.session = r.session
      /\ q.stream = r.stream
  BY <1>1 DEF Record, Fields
<1>6. \/ r.session = "over" /\ Become(c, o) /\ UNCHANGED synth
      \/ r.session = "synth" /\ Become(c, q) /\ synth' = InterruptSynthesis(synth)
      \/ r.session = "drain" /\ Become(c, CancelStream(q)) /\ UNCHANGED synth
      \/ r.session # "synth" /\ Become(c, q) /\ UNCHANGED synth
      \/ r.session \notin {"synth", "drain", "over"} /\ Become(c, Failing(q, "cancelled")) /\ UNCHANGED synth
  BY DEF Disconnect, CancelSession
<1>. HIDE DEF o, q
<1>7. CASE r.session = "over" /\ Become(c, o) /\ UNCHANGED synth
  BY <1>2, <1>3, <1>4, <1>7 DEF SynthStep
<1>8. CASE Become(c, q) /\ (synth' = InterruptSynthesis(synth) \/ UNCHANGED synth)
  BY <1>2, <1>3, <1>5, <1>8 DEF SynthStep
<1>9. CASE r.session = "drain" /\ Become(c, CancelStream(q)) /\ UNCHANGED synth
  <2>1. CallInv(CancelStream(q)) /\ Apart(CancelStream(q), q)
    BY <1>2, CancelStreamFits, OperatorsApart DEF CallInv
  <2>. QED
    BY <1>3, <1>5, <1>9, <2>1 DEF Apart, SynthStep
<1>10. CASE /\ r.session \notin {"synth", "drain", "over"}
            /\ Become(c, Failing(q, "cancelled")) /\ UNCHANGED synth
  <2>1. ~q.stream.last
    BY <1>5, <1>10, CallFacts
  <2>2. CallInv(Failing(q, "cancelled")) /\ Apart(Failing(q, "cancelled"), q)
    BY <1>2, <1>5, <2>1, FailingFits, OperatorsApart DEF CallInv
  <2>. QED
    BY <1>3, <1>5, <1>10, <2>2 DEF Apart, SynthStep
<1>. QED
  BY <1>6, <1>7, <1>8, <1>9, <1>10

LEMMA EndSessionQuiet ==
  ASSUME VoiceTurnAssumption, IInv, NEW c \in Calls, EndSession(c) PROVE QuietStep(c)
<1>. DEFINE r == call[c]
            i == Interrupted(r)
            h == HangupFallback(r)
            x == [i EXCEPT !.conn = "closed", !.ended = TRUE,
                   !.injected = <<>>, !.speaking = "no", !.reference = "none", !.latched = FALSE,
                   !.evidence = FALSE, !.begun = "none", !.vad = FALSE, !.pending = FALSE,
                   !.phone = {}, !.hungUp = @ \/ h]
<1>1. /\ r.conn = "closing" /\ r.session = "over" /\ UNCHANGED esl /\ Become(c, x)
      /\ synth' = SynthesisAfter(r) /\ CallInv(r) /\ Record(r)
  BY CallFacts DEF EndSession
<1>2. /\ CallInv(i) /\ i.conn = "closing" /\ i.session = "over" /\ i.channel = r.channel
      /\ i.result = r.result
  BY <1>1, InterruptedFits DEF Fields
<1>3. i.breaking \/ (i.breaking = r.breaking /\ i.cutTurns = r.cutTurns)
  BY <1>1 DEF Interrupted, Record, Fields
<1>4. h = (i.channel = "web" /\ i.result # "ok")
  BY <1>2 DEF HangupFallback
<1>. HIDE DEF i, h
<1>5. CallInv(x)
  BY <1>2, <1>4, EndFits
<1>6. /\ x.conn = "closed" /\ x.phone = {} /\ x.channel = i.channel /\ x.breaking = i.breaking
      /\ x.cutTurns = i.cutTurns
  BY <1>2 DEF CallInv, Record, Fields
<1>7. SynthStep(c, x)
  BY <1>1 DEF SynthStep, SynthesisAfter
<1>. HIDE DEF x
<1>. QED
  BY <1>1, <1>2, <1>3, <1>5, <1>6, <1>7 DEF QuietStep, Moved

-----------------------------------------------------------------------------
(* The actions that send audio to the phone, or break it off               *)

LEMMA PumpTakesKeeps ==
  ASSUME VoiceTurnAssumption, IInv, NEW c \in Calls, PumpTakes(c) PROVE IInv'
<1>. DEFINE r == call[c]
            s == [r.stream EXCEPT !.queued = @ - 1]
            w == [r EXCEPT !.stream.queued = @ - 1, !.phone = @ \cup {r.turn}]
            f == [r EXCEPT !.stream.queued = @ - 1, !.stream.at = "write"]
            p == [r EXCEPT !.phone = @ \cup {r.turn}]
            g == [s EXCEPT !.at = "write"]
<1>1. /\ r.stream.at = "get" /\ UNCHANGED <<synth, esl>> /\ CallInv(r) /\ Record(r)
      /\ \/ r.channel = "web" /\ Become(c, w)
         \/ r.channel # "web" /\ Become(c, f)
  BY CallFacts DEF PumpTakes
<1>2. /\ r.stream # NoStream /\ r.turn # 0 /\ r.session # "over"
      /\ r.turn \in r.cutTurns => r.breaking
      /\ r.stream.last => r.session = "drain"
  BY <1>1 DEF CallInv, PhaseInv, LifeInv, TurnInv, NoStream
<1>3. /\ IsFcn(s) /\ DOMAIN s = {"queued", "at", "last"} /\ s.at = "get" /\ s.last = r.stream.last
      /\ IsFcn(g) /\ DOMAIN g = {"queued", "at", "last"} /\ g.at = "write" /\ g.last = r.stream.last
  BY <1>1 DEF Record, IsFcn
<1>4. CASE r.channel = "web" /\ Become(c, w)
  <2>1. w = [p EXCEPT !.stream = s]
    BY <1>1 DEF Record, Fields
  <2>2. IsFcn(p) /\ DOMAIN p = Fields
    BY <1>1 DEF Record, IsFcn
  <2>3. \A h \in Seen : p[h] = r[h]
    BY <1>1 DEF Record, Fields, Seen
  <2>4. p.phone = r.phone \cup {r.turn}
    BY <1>1 DEF Record, Fields
  <2>. HIDE DEF p, s, w
  <2>5. CallInv(p)
    BY <1>1, <2>2, <2>3, UnseenFits
  <2>6. /\ p.turn = r.turn /\ p.session = r.session /\ p.cutTurns = r.cutTurns
        /\ p.breaking = r.breaking /\ p.channel = r.channel /\ p.conn = r.conn
    BY <2>3 DEF Seen
  <2>7. CallInv(w)
    BY <1>2, <1>3, <2>1, <2>5, <2>6, StreamFits
  <2>8. /\ w.session = r.session /\ w.channel = r.channel /\ w.conn = r.conn
        /\ w.breaking = r.breaking /\ w.cutTurns = r.cutTurns /\ w.phone = r.phone \cup {r.turn}
    BY <2>1, <2>2, <2>4, <2>6 DEF Fields
  <2>9. Moved(c, w)
    BY <1>1, <1>4, <2>7, <2>8 DEF Moved, SynthStep
  <2>10. /\ CallsInv' /\ SynthInv' /\ EslInv'
         /\ call'[c] = w /\ \A d \in Calls \ {c} : call'[d] = call[d]
    BY <1>1, <2>9, MovedKeeps
  <2>11. \A d \in Calls :
           /\ call'[d].cutTurns = call[d].cutTurns /\ call'[d].breaking = call[d].breaking
           /\ call'[d].conn = call[d].conn
           /\ \A t \in call'[d].phone : t \in call[d].phone \/ (d = c /\ t = r.turn)
    BY <2>8, <2>10
  <2>12. NothingAfterBreak'
    BY <1>1, <1>2, <2>11 DEF IInv, NothingAfterBreak
  <2>. QED
    BY <2>10, <2>12 DEF IInv
<1>5. CASE r.channel # "web" /\ Become(c, f)
  <2>1. f = [r EXCEPT !.stream = g]
    BY <1>1 DEF Record, Fields
  <2>2. CallInv([r EXCEPT !.stream = g])
    <3>. HIDE DEF g
    <3>. QED
      BY <1>1, <1>2, <1>3, <1>5, StreamFits
  <2>3. CallInv(f) /\ Apart(f, r) /\ f.session = r.session
    BY <1>1, <2>1, <2>2 DEF Apart, Record, Fields
  <2>. HIDE DEF f
  <2>4. QuietStep(c)
    BY <1>1, <1>5, <2>3, QuietIf DEF SynthStep
  <2>. QED
    BY <2>4, QuietKeeps
<1>. QED
  BY <1>1, <1>4, <1>5

(* A command put behind the ones on the ESL connection.                    *)
LEMMA EslAppend ==
  ASSUME IInv, NEW x \in Commands, esl' = Append(esl, x)
  PROVE  /\ esl' \in Seq(Commands) /\ Len(esl) \in Nat /\ Len(esl') = Len(esl) + 1
         /\ esl'[Len(esl) + 1] = x
         /\ \A i \in 1..Len(esl) : esl'[i] = esl[i] /\ esl[i] \in Commands
BY DEF IInv, EslInv

LEMMA PumpBroadcastsKeeps ==
  ASSUME VoiceTurnAssumption, IInv, NEW c \in Calls, PumpBroadcasts(c) PROVE IInv'
<1>. DEFINE r == call[c]
            s == [r.stream EXCEPT !.at = "esl"]
            y == [r EXCEPT !.stream.at = "esl"]
            x == [cmd |-> "broadcast", call |-> c, turn |-> r.turn]
            n == Len(esl)
<1>1. /\ r.stream.at = "write" /\ UNCHANGED synth /\ esl' = Append(esl, x) /\ CallInv(r)
      /\ Record(r) /\ Become(c, y)
  BY CallFacts DEF PumpBroadcasts
<1>2. /\ r.stream # NoStream /\ r.turn # 0 /\ r.session # "over" /\ r.turn \in Nat
      /\ r.turn \in r.cutTurns => r.breaking
      /\ r.stream.last => r.session = "drain"
      /\ r.channel # "web"
  BY <1>1 DEF CallInv, PhaseInv, LifeInv, TurnInv, NoStream
<1>3. IsFcn(s) /\ DOMAIN s = {"queued", "at", "last"} /\ s.at = "esl" /\ s.last = r.stream.last
  BY <1>1 DEF Record, IsFcn
<1>4. y = [r EXCEPT !.stream = s]
  BY <1>1 DEF Record, Fields
<1>5. CallInv([r EXCEPT !.stream = s])
  <2>. HIDE DEF s
  <2>. QED
    BY <1>1, <1>2, <1>3, StreamFits
<1>6. CallInv(y) /\ Apart(y, r) /\ y.session = r.session
  BY <1>1, <1>4, <1>5 DEF Apart, Record, Fields
<1>. HIDE DEF y
<1>7. Moved(c, y)
  BY <1>1, <1>6 DEF Moved, SynthStep, Apart
<1>8. CallsInv' /\ SynthInv' /\ call'[c] = y /\ \A d \in Calls \ {c} : call'[d] = call[d]
  BY <1>7, MovedKeeps
<1>9. x \in Commands
  BY <1>2 DEF Commands
<1>10. \A d \in Calls : Apart(call'[d], call[d])
  BY <1>6, <1>8 DEF Apart
<1>11. x.call = c /\ x.cmd = "broadcast" /\ x.turn = r.turn
  OBVIOUS
<1>. HIDE DEF x
<1>12. /\ esl' \in Seq(Commands) /\ n \in Nat /\ Len(esl') = n + 1 /\ esl'[n + 1] = x
       /\ \A i \in 1..n : esl'[i] = esl[i] /\ esl[i] \in Commands
  BY <1>1, <1>9, EslAppend
<1>. HIDE DEF n
<1>13. EslInv'
  <2>1. ASSUME NEW i \in 1..Len(esl'), esl'[i].cmd = "broadcast"
        PROVE  call'[esl'[i].call].channel # "web"
    <3>1. CASE i = n + 1
      BY <1>2, <1>10, <1>11, <1>12, <3>1 DEF Apart
    <3>2. CASE i \in 1..n
      <4>1. esl[i].call \in Calls /\ call[esl[i].call].channel # "web"
        BY <1>12, <2>1, <3>2 DEF IInv, EslInv, Commands, n
      <4>. QED
        BY <1>10, <1>12, <3>2, <4>1 DEF Apart
    <3>. QED
      BY <1>12, <3>1, <3>2
  <2>. QED
    BY <1>12, <2>1 DEF EslInv
<1>14. NothingAfterBreak'
  <2>. SUFFICES ASSUME NEW d \in Calls, NEW t \in call'[d].cutTurns
       PROVE  LET behind(i) == \E j \in i + 1..Len(esl') : esl'[j].cmd = "break" /\ esl'[j].call = d IN
              /\ t \in call'[d].phone => call'[d].breaking \/ behind(0)
              /\ \A i \in 1..Len(esl') :
                   esl'[i] = [cmd |-> "broadcast", call |-> d, turn |-> t] =>
                     call'[d].breaking \/ behind(i) \/ call'[d].conn = "closed"
    BY DEF NothingAfterBreak
  <2>0. t \in call[d].cutTurns
    BY <1>10 DEF Apart
  <2>1. ASSUME NEW i \in 0..n, \E j \in i + 1..n : esl[j].cmd = "break" /\ esl[j].call = d
        PROVE  \E j \in i + 1..Len(esl') : esl'[j].cmd = "break" /\ esl'[j].call = d
    BY <1>12, <2>1
  <2>2. t \in call'[d].phone =>
          call'[d].breaking \/ \E j \in 0 + 1..Len(esl') : esl'[j].cmd = "break" /\ esl'[j].call = d
    <3>1. t \in call[d].phone =>
            call[d].breaking \/ \E j \in 0 + 1..n : esl[j].cmd = "break" /\ esl[j].call = d
      BY <2>0 DEF IInv, NothingAfterBreak, n
    <3>2. 0 \in 0..n
      BY <1>12
    <3>. QED
      BY <1>10, <2>1, <3>1, <3>2 DEF Apart
  <2>3. ASSUME NEW i \in 1..Len(esl'), esl'[i] = [cmd |-> "broadcast", call |-> d, turn |-> t]
        PROVE  \/ call'[d].breaking \/ call'[d].conn = "closed"
               \/ \E j \in i + 1..Len(esl') : esl'[j].cmd = "break" /\ esl'[j].call = d
    <3>1. CASE i = n + 1
      <4>1. d = c /\ t = r.turn
        BY <1>11, <1>12, <2>3, <3>1
      <4>. QED
        BY <1>2, <1>10, <2>0, <4>1 DEF Apart
    <3>2. CASE i \in 1..n
      <4>1. \/ call[d].breaking \/ call[d].conn = "closed"
            \/ \E j \in i + 1..n : esl[j].cmd = "break" /\ esl[j].call = d
        BY <1>12, <2>0, <2>3, <3>2 DEF IInv, NothingAfterBreak, n
      <4>. QED
        BY <1>10, <1>12, <2>1, <3>2, <4>1 DEF Apart
    <3>. QED
      BY <1>12, <3>1, <3>2
  <2>. QED
    BY <2>2, <2>3
<1>. QED
  BY <1>8, <1>13, <1>14 DEF IInv

LEMMA OnInterruptedKeeps ==
  ASSUME VoiceTurnAssumption, IInv, NEW c \in Calls, OnInterrupted(c) PROVE IInv'
<1>. DEFINE r == call[c]
            s == CancelStream(r)
            p == IF r.channel = "web" THEN {} ELSE s.phone
            y == [s EXCEPT !.breaking = FALSE, !.phone = p]
            x == [cmd |-> "break", call |-> c, turn |-> r.turn]
            n == Len(esl)
<1>1. /\ r.breaking /\ UNCHANGED synth /\ CallInv(r) /\ Record(r)
      /\ esl' = IF r.channel = "web" THEN esl ELSE Append(esl, x)
      /\ Become(c, y)
  BY CallFacts DEF OnInterrupted
<1>2. /\ CallInv(s) /\ s.stream = NoStream /\ s.channel = r.channel /\ s.conn = r.conn
      /\ s.session = r.session /\ s.phone = r.phone /\ s.cutTurns = r.cutTurns
  BY <1>1, CancelStreamFits DEF Fields
<1>. HIDE DEF s
<1>3. /\ CallInv(y) /\ y.channel = r.channel /\ y.conn = r.conn /\ y.session = r.session
      /\ y.phone = (IF r.channel = "web" THEN {} ELSE r.phone) /\ y.cutTurns = r.cutTurns
  BY <1>2, BrokenFits DEF CallInv, Record, Fields
<1>. HIDE DEF y
<1>4. Moved(c, y)
  BY <1>1, <1>3 DEF Moved, SynthStep
<1>5. /\ CallsInv' /\ SynthInv' /\ (UNCHANGED esl => EslInv')
      /\ call'[c] = y /\ \A d \in Calls \ {c} : call'[d] = call[d]
  BY <1>4, MovedKeeps
<1>6. CASE r.channel = "web"
  <2>1. UNCHANGED esl
    BY <1>1, <1>6
  <2>2. ASSUME NEW i \in 1..Len(esl), NEW t PROVE esl[i] # [cmd |-> "broadcast", call |-> c, turn |-> t]
    BY <1>6 DEF IInv, EslInv
  <2>3. NothingAfterBreak'
    <3>. SUFFICES ASSUME NEW d \in Calls, NEW t \in call'[d].cutTurns
         PROVE  LET behind(i) == \E j \in i + 1..Len(esl) : esl[j].cmd = "break" /\ esl[j].call = d IN
                /\ t \in call'[d].phone => call'[d].breaking \/ behind(0)
                /\ \A i \in 1..Len(esl) :
                     esl[i] = [cmd |-> "broadcast", call |-> d, turn |-> t] =>
                       call'[d].breaking \/ behind(i) \/ call'[d].conn = "closed"
      BY <2>1 DEF NothingAfterBreak
    <3>1. CASE d = c
      BY <1>3, <1>5, <1>6, <2>2, <3>1
    <3>2. CASE d # c
      BY <1>5, <3>2 DEF IInv, NothingAfterBreak
    <3>. QED
      BY <3>1, <3>2
  <2>. QED
    BY <1>5, <2>1, <2>3 DEF IInv
<1>7. CASE r.channel # "web"
  <2>1. x \in Commands /\ x.cmd = "break" /\ x.call = c
    BY <1>1 DEF Commands, CallInv, PhaseInv, TurnInv
  <2>. HIDE DEF x
  <2>2. /\ esl' \in Seq(Commands) /\ n \in Nat /\ Len(esl') = n + 1 /\ esl'[n + 1] = x
        /\ \A i \in 1..n : esl'[i] = esl[i] /\ esl[i] \in Commands
    BY <1>1, <1>7, <2>1, EslAppend
  <2>. HIDE DEF n
  <2>3. \A d \in Calls : call'[d].channel = call[d].channel /\ call'[d].cutTurns = call[d].cutTurns
                         /\ call'[d].phone = call[d].phone /\ call'[d].conn = call[d].conn
    BY <1>3, <1>5, <1>7
  <2>4. EslInv'
    <3>1. ASSUME NEW i \in 1..Len(esl'), esl'[i].cmd = "broadcast"
          PROVE  call'[esl'[i].call].channel # "web"
      <4>1. i \in 1..n
        BY <2>1, <2>2, <3>1
      <4>2. esl[i].call \in Calls /\ call[esl[i].call].channel # "web"
        BY <2>2, <3>1, <4>1 DEF IInv, EslInv, Commands, n
      <4>. QED
        BY <2>2, <2>3, <4>1, <4>2
    <3>. QED
      BY <2>2, <3>1 DEF EslInv
  <2>5. NothingAfterBreak'
    <3>. SUFFICES ASSUME NEW d \in Calls, NEW t \in call'[d].cutTurns
         PROVE  LET behind(i) == \E j \in i + 1..Len(esl') : esl'[j].cmd = "break" /\ esl'[j].call = d IN
                /\ t \in call'[d].phone => call'[d].breaking \/ behind(0)
                /\ \A i \in 1..Len(esl') :
                     esl'[i] = [cmd |-> "broadcast", call |-> d, turn |-> t] =>
                       call'[d].breaking \/ behind(i) \/ call'[d].conn = "closed"
      BY DEF NothingAfterBreak
    <3>1. ASSUME d = c
          PROVE  \A i \in 0..n : \E j \in i + 1..Len(esl') : esl'[j].cmd = "break" /\ esl'[j].call = d
      BY <2>1, <2>2, <3>1
    <3>2. CASE d = c
      <4>1. \A i \in 1..Len(esl') : esl'[i] = [cmd |-> "broadcast", call |-> d, turn |-> t] => i \in 0..n
        BY <2>1, <2>2
      <4>. QED
        BY <2>2, <3>1, <3>2, <4>1
    <3>3. CASE d # c
      <4>0. call'[d] = call[d] /\ t \in call[d].cutTurns
        BY <1>5, <3>3
      <4>1. ASSUME NEW i \in 0..n, \E j \in i + 1..n : esl[j].cmd = "break" /\ esl[j].call = d
            PROVE  \E j \in i + 1..Len(esl') : esl'[j].cmd = "break" /\ esl'[j].call = d
        BY <2>2, <4>1
      <4>2. t \in call'[d].phone =>
              call'[d].breaking \/ \E j \in 0 + 1..Len(esl') : esl'[j].cmd = "break" /\ esl'[j].call = d
        <5>1. t \in call[d].phone =>
                call[d].breaking \/ \E j \in 0 + 1..n : esl[j].cmd = "break" /\ esl[j].call = d
          BY <4>0 DEF IInv, NothingAfterBreak, n
        <5>2. 0 \in 0..n
          BY <2>2
        <5>. QED
          BY <4>0, <4>1, <5>1, <5>2
      <4>3. ASSUME NEW i \in 1..Len(esl'), esl'[i] = [cmd |-> "broadcast", call |-> d, turn |-> t]
            PROVE  \/ call'[d].breaking \/ call'[d].conn = "closed"
                   \/ \E j \in i + 1..Len(esl') : esl'[j].cmd = "break" /\ esl'[j].call = d
        <5>1. i \in 1..n
          BY <2>1, <2>2, <4>3
        <5>2. \/ call[d].breaking \/ call[d].conn = "closed"
              \/ \E j \in i + 1..n : esl[j].cmd = "break" /\ esl[j].call = d
          BY <2>2, <4>0, <4>3, <5>1 DEF IInv, NothingAfterBreak, n
        <5>. QED
          BY <2>2, <4>0, <4>1, <5>1, <5>2
      <4>. QED
        BY <4>2, <4>3
    <3>. QED
      BY <3>2, <3>3
  <2>. QED
    BY <1>5, <2>4, <2>5 DEF IInv
<1>. QED
  BY <1>6, <1>7

(* The oldest command is exchanged, the others move up.                    *)
LEMMA EslTail ==
  ASSUME IInv, esl # <<>>, esl' = Tail(esl)
  PROVE  /\ Len(esl) \in Nat \ {0} /\ Head(esl) = esl[1] /\ esl[1] \in Commands
         /\ esl' \in Seq(Commands) /\ Len(esl') = Len(esl) - 1
         /\ \A i \in 1..Len(esl') : esl'[i] = esl[i + 1] /\ i + 1 \in 1..Len(esl)
         /\ \A i \in 1..Len(esl) : esl[i] \in Commands
BY DEF IInv, EslInv

(* What an exchange on the ESL connection does to the call it is for: the  *)
(* broadcast of an open call arrives, a break empties the phone.           *)
LEMMA ExchangeMoves ==
  ASSUME VoiceTurnAssumption, IInv, EslExchange
  PROVE  LET x == esl[1] IN
         /\ esl # <<>> /\ esl' = Tail(esl) /\ x \in Commands
         /\ \E y : /\ Moved(x.call, y)
                   /\ y.conn = call[x.call].conn /\ y.breaking = call[x.call].breaking
                   /\ y.cutTurns = call[x.call].cutTurns
                   /\ x.cmd = "break" => y.phone = {}
                   /\ \A t \in y.phone : \/ t \in call[x.call].phone
                                         \/ t = x.turn /\ call[x.call].conn # "closed"
<1>. DEFINE x == esl[1]
            c == x.call
            r == call[c]
            w == r.stream.at = "esl" /\ x.turn = r.turn /\ ~\E i \in 2..Len(esl) : esl[i] = x
<1>1. esl # <<>> /\ esl' = Tail(esl) /\ UNCHANGED synth
  BY DEF EslExchange
<1>2. Head(esl) = x /\ x \in Commands /\ c \in Calls
  BY <1>1, EslTail DEF Commands
<1>3. CallInv(r) /\ Record(r)
  BY <1>2, CallFacts
<1>4. ASSUME NEW y, CallInv(y), Become(c, y), y.session = r.session, y.channel = r.channel,
             y.conn = r.conn, y.breaking = r.breaking, y.cutTurns = r.cutTurns,
             x.cmd = "break" => y.phone = {},
             \A t \in y.phone : t \in r.phone \/ (t = x.turn /\ r.conn # "closed")
      PROVE  \E z : /\ Moved(c, z)
                    /\ z.conn = r.conn /\ z.breaking = r.breaking /\ z.cutTurns = r.cutTurns
                    /\ x.cmd = "break" => z.phone = {}
                    /\ \A t \in z.phone : t \in r.phone \/ (t = x.turn /\ r.conn # "closed")
  BY <1>1, <1>4 DEF Moved, SynthStep
<1>5. CASE x.cmd = "break"
  <2>. DEFINE y == [r EXCEPT !.phone = {}]
  <2>1. Become(c, y)
    BY <1>2, <1>5 DEF EslExchange
  <2>2. IsFcn(y) /\ DOMAIN y = Fields
    BY <1>3 DEF Record, IsFcn
  <2>3. \A f \in Seen : y[f] = r[f]
    BY <1>3 DEF Record, Fields, Seen
  <2>4. y.phone = {}
    BY <1>3 DEF Record, Fields
  <2>. HIDE DEF y
  <2>5. CallInv(y)
    BY <1>3, <2>2, <2>3, UnseenFits
  <2>6. /\ y.session = r.session /\ y.channel = r.channel /\ y.conn = r.conn
        /\ y.breaking = r.breaking /\ y.cutTurns = r.cutTurns
    BY <2>3 DEF Seen
  <2>. QED
    BY <1>1, <1>2, <1>4, <2>1, <2>4, <2>5, <2>6
<1>6. CASE x.cmd # "break"
  <2>0. w => /\ r.stream # NoStream /\ r.turn # 0 /\ r.session # "over" /\ r.channel # "web"
             /\ r.turn \in r.cutTurns => r.breaking
             /\ r.stream.last => r.session = "drain"
    <3>1. LifeInv(r) /\ TurnInv(r)
      BY <1>3 DEF CallInv, PhaseInv
    <3>2. w => r.stream.at = "esl"
      OBVIOUS
    <3>. HIDE DEF w
    <3>3. w => r.stream # NoStream
      BY <3>2 DEF NoStream
    <3>. HIDE DEF r
    <3>. QED
      BY <3>1, <3>2, <3>3 DEF LifeInv, TurnInv
  <2>. DEFINE p == IF r.conn = "closed" THEN r.phone ELSE r.phone \cup {x.turn}
              q == [r EXCEPT !.phone = p]
              s == [r.stream EXCEPT !.at = IF w THEN "get" ELSE @]
              g == [r EXCEPT !.phone = p, !.stream.at = IF w THEN "get" ELSE @]
              z == [r EXCEPT !.stream = NoStream]
              k == Failing(SpeakOver(z, FALSE), "failed")
              d == [r EXCEPT !.stream.at = "dead"]
              e == [r.stream EXCEPT !.at = "dead"]
  <2>1. \/ Become(c, g)
        \/ w /\ r.session = "drain" /\ Become(c, k)
        \/ w /\ r.session # "drain" /\ Become(c, d)
        \/ ~w /\ Become(c, r)
    BY <1>2, <1>6 DEF EslExchange
  <2>. HIDE DEF w
  <2>2. CASE Become(c, g)
    <3>1. IsFcn(q) /\ DOMAIN q = Fields
      BY <1>3 DEF Record, IsFcn
    <3>2. \A f \in Seen : q[f] = r[f]
      BY <1>3 DEF Record, Fields, Seen
    <3>3. q.phone = p
      BY <1>3 DEF Record, Fields
    <3>4. g = [q EXCEPT !.stream = s]
      BY <1>3 DEF Record, Fields
    <3>5. /\ IsFcn(s) /\ DOMAIN s = {"queued", "at", "last"} /\ s.last = r.stream.last
          /\ w => s.at = "get"
          /\ ~w => s = r.stream
      BY <1>3 DEF Record, IsFcn
    <3>. HIDE DEF q, s, g
    <3>6. CallInv(q)
      BY <1>3, <3>1, <3>2, UnseenFits
    <3>7. /\ q.turn = r.turn /\ q.session = r.session /\ q.cutTurns = r.cutTurns
          /\ q.breaking = r.breaking /\ q.channel = r.channel /\ q.conn = r.conn
          /\ q.stream = r.stream
      BY <3>2 DEF Seen
    <3>8. CallInv(g)
      <4>1. CASE w
        BY <2>0, <3>4, <3>5, <3>6, <3>7, <4>1, StreamFits
      <4>2. CASE ~w
        <5>1. g = q
          BY <3>1, <3>4, <3>5, <3>7, <4>2 DEF IsFcn, Fields
        <5>. QED
          BY <3>6, <5>1
      <4>. QED
        BY <4>1, <4>2
    <3>9. /\ g.session = r.session /\ g.channel = r.channel /\ g.conn = r.conn
          /\ g.breaking = r.breaking /\ g.cutTurns = r.cutTurns /\ g.phone = p
      BY <3>1, <3>3, <3>4, <3>7 DEF Fields
    <3>. QED
      BY <1>1, <1>2, <1>4, <1>6, <2>2, <3>8, <3>9
  <2>3. CASE w /\ r.session = "drain" /\ Become(c, k)
    <3>1. CallInv(z) /\ Apart(z, r) /\ z.stream = NoStream /\ z.session = r.session
      BY <1>3, CancelStreamFits, OperatorsApart DEF CancelStream, Fields
    <3>2. z.session \in {"synth", "drain"} /\ ~z.stream.last
      BY <2>3, <3>1 DEF NoStream
    <3>. HIDE DEF z
    <3>3. CallInv(k) /\ Apart(k, z)
      BY <3>1, <3>2, SpokenFits
    <3>4. Apart(k, r)
      BY <3>1, <3>3 DEF Apart
    <3>. HIDE DEF k
    <3>5. Moved(c, k)
      BY <1>1, <2>3, <3>3, <3>4 DEF Moved, SynthStep, Apart
    <3>. QED
      BY <1>1, <1>2, <1>6, <3>4, <3>5 DEF Apart
  <2>4. CASE w /\ r.session # "drain" /\ Become(c, d)
    <3>1. IsFcn(e) /\ DOMAIN e = {"queued", "at", "last"} /\ e.at = "dead" /\ e.last = r.stream.last
      BY <1>3 DEF Record, IsFcn
    <3>2. d = [r EXCEPT !.stream = e]
      BY <1>3 DEF Record, Fields
    <3>3. CallInv([r EXCEPT !.stream = e])
      <4>. HIDE DEF e
      <4>. QED
        BY <1>3, <2>0, <2>4, <3>1, StreamFits
    <3>4. CallInv(d) /\ Apart(d, r) /\ d.session = r.session
      BY <1>3, <3>2, <3>3 DEF Apart, Record, Fields
    <3>. HIDE DEF d
    <3>. QED
      BY <1>1, <1>2, <1>4, <1>6, <2>4, <3>4 DEF Apart
  <2>5. CASE ~w /\ Become(c, r)
    BY <1>1, <1>2, <1>3, <1>4, <1>6, <2>5
  <2>. QED
    BY <2>1, <2>2, <2>3, <2>4, <2>5
<1>. QED
  BY <1>5, <1>6

LEMMA EslExchangeKeeps ==
  ASSUME VoiceTurnAssumption, IInv, EslExchange PROVE IInv'
<1>. DEFINE x == esl[1]
            c == x.call
            n == Len(esl)
<1>1. esl # <<>> /\ esl' = Tail(esl) /\ x \in Commands
  BY ExchangeMoves
<1>2. PICK y : /\ Moved(c, y)
               /\ y.conn = call[c].conn /\ y.breaking = call[c].breaking
               /\ y.cutTurns = call[c].cutTurns
               /\ x.cmd = "break" => y.phone = {}
               /\ \A t \in y.phone : t \in call[c].phone \/ (t = x.turn /\ call[c].conn # "closed")
  BY ExchangeMoves
<1>3. c \in Calls /\ x.cmd \in {"break", "broadcast"}
  BY <1>1 DEF Commands
<1>4. CallsInv' /\ SynthInv' /\ call'[c] = y /\ \A d \in Calls \ {c} : call'[d] = call[d]
  BY <1>2, <1>3, MovedKeeps
<1>5. /\ n \in Nat \ {0} /\ esl' \in Seq(Commands) /\ Len(esl') = n - 1
      /\ \A i \in 1..Len(esl') : esl'[i] = esl[i + 1] /\ i + 1 \in 1..n
      /\ \A i \in 1..n : esl[i] \in Commands
  BY <1>1, EslTail
<1>6. \A d \in Calls : /\ call'[d].channel = call[d].channel /\ call'[d].conn = call[d].conn
                       /\ call'[d].breaking = call[d].breaking
                       /\ call'[d].cutTurns = call[d].cutTurns
  BY <1>2, <1>4 DEF Moved
<1>7. EslInv'
  <2>1. ASSUME NEW i \in 1..Len(esl'), esl'[i].cmd = "broadcast"
        PROVE  call'[esl'[i].call].channel # "web"
    <3>1. esl[i + 1].call \in Calls /\ call[esl[i + 1].call].channel # "web"
      BY <1>5, <2>1 DEF IInv, EslInv, Commands
    <3>. QED
      BY <1>5, <1>6, <3>1
  <2>. QED
    BY <1>5, <2>1 DEF EslInv
<1>8. NothingAfterBreak'
  <2>. SUFFICES ASSUME NEW d \in Calls, NEW t \in call'[d].cutTurns
       PROVE  LET behind(i) == \E j \in i + 1..Len(esl') : esl'[j].cmd = "break" /\ esl'[j].call = d IN
              /\ t \in call'[d].phone => call'[d].breaking \/ behind(0)
              /\ \A i \in 1..Len(esl') :
                   esl'[i] = [cmd |-> "broadcast", call |-> d, turn |-> t] =>
                     call'[d].breaking \/ behind(i) \/ call'[d].conn = "closed"
    BY DEF NothingAfterBreak
  <2>0. t \in call[d].cutTurns
    BY <1>6
  <2>1. ASSUME NEW i \in 0..n - 1, \E j \in (i + 1) + 1..n : esl[j].cmd = "break" /\ esl[j].call = d
        PROVE  \E j \in i + 1..Len(esl') : esl'[j].cmd = "break" /\ esl'[j].call = d
    <3>1. PICK j \in (i + 1) + 1..n : esl[j].cmd = "break" /\ esl[j].call = d
      BY <2>1
    <3>2. j - 1 \in i + 1..Len(esl') /\ esl'[j - 1] = esl[j]
      BY <1>5, <3>1
    <3>. QED
      BY <3>1, <3>2
  <2>2. ASSUME t \in call'[d].phone, ~call'[d].breaking
        PROVE  \E j \in 0 + 1..Len(esl') : esl'[j].cmd = "break" /\ esl'[j].call = d
    <3>0. 0 \in 0..n - 1 /\ 1 \in 1..n
      BY <1>5
    <3>1. ~(x.cmd = "break" /\ d = c)
      BY <1>2, <1>4, <2>2
    <3>2. CASE t \in call[d].phone
      <4>1. PICK j \in 0 + 1..n : esl[j].cmd = "break" /\ esl[j].call = d
        BY <1>6, <2>0, <2>2, <3>2 DEF IInv, NothingAfterBreak
      <4>2. j # 1
        BY <3>1, <4>1
      <4>3. j \in (0 + 1) + 1..n
        BY <1>5, <4>1, <4>2
      <4>. QED
        BY <2>1, <3>0, <4>1, <4>3
    <3>3. CASE t \notin call[d].phone
      <4>1. d = c /\ t = x.turn /\ call[d].conn # "closed" /\ x.cmd = "broadcast"
        BY <1>2, <1>3, <1>4, <2>2, <3>1, <3>3
      <4>2. esl[1] = [cmd |-> "broadcast", call |-> d, turn |-> t]
        BY <1>1, <4>1 DEF Commands
      <4>3. \E j \in 1 + 1..n : esl[j].cmd = "break" /\ esl[j].call = d
        <5>1. \A i \in 1..n : esl[i] = [cmd |-> "broadcast", call |-> d, turn |-> t] =>
                 \/ call[d].breaking \/ call[d].conn = "closed"
                 \/ \E j \in i + 1..n : esl[j].cmd = "break" /\ esl[j].call = d
          BY <2>0 DEF IInv, NothingAfterBreak
        <5>. HIDE DEF n
        <5>. QED
          BY <1>6, <2>2, <3>0, <4>1, <4>2, <5>1
      <4>4. \E j \in (0 + 1) + 1..n : esl[j].cmd = "break" /\ esl[j].call = d
        BY <4>3
      <4>. QED
        BY <2>1, <3>0, <4>4
    <3>. QED
      BY <3>2, <3>3
  <2>3. ASSUME NEW i \in 1..Len(esl'), esl'[i] = [cmd |-> "broadcast", call |-> d, turn |-> t],
               ~call'[d].breaking, call'[d].conn # "closed"
        PROVE  \E j \in i + 1..Len(esl') : esl'[j].cmd = "break" /\ esl'[j].call = d
    <3>1. i + 1 \in 1..n /\ i \in 0..n - 1 /\ esl[i + 1] = esl'[i]
      BY <1>5
    <3>2. \E j \in (i + 1) + 1..n : esl[j].cmd = "break" /\ esl[j].call = d
      BY <1>6, <2>0, <2>3, <3>1 DEF IInv, NothingAfterBreak
    <3>. QED
      BY <2>1, <3>1, <3>2
  <2>. QED
    BY <2>2, <2>3
<1>. QED
  BY <1>4, <1>7, <1>8 DEF IInv

-----------------------------------------------------------------------------
(* Invariance, and the theorems                                            *)

LEMMA StepKeeps ==
  ASSUME VoiceTurnAssumption, IInv, [Next]_vars PROVE IInv'
<1>1. ASSUME NEW c \in Calls,
             \/ Connect(c) \/ Disconnect(c) \/ SessionStep(c) \/ PumpDone(c) \/ SpeechStep(c)
             \/ Chunk(c) \/ TailExpires(c)
      PROVE  IInv'
  <2>1. QuietStep(c)
    BY <1>1, ConnectQuiet, DisconnectQuiet, LoadTaskQuiet, BeginSpeakQuiet, ChunkQuiet,
       SynthesisDoneQuiet, SynthesisFailsQuiet, SynthesisCutQuiet, DrainCutQuiet, HeardQuiet,
       TimeoutQuiet, ThinkQuiet, ReportQuiet, UnwindQuiet, PumpDoneQuiet, SpeechStartQuiet,
       SpeechEndQuiet, SuppressedAudioQuiet, TailExpiresQuiet, PartialQuiet, FinalQuiet,
       NoFinalQuiet, EndSessionQuiet
       DEF SessionStep, SpeechStep
  <2>. QED
    BY <2>1, QuietKeeps
<1>2. ASSUME NEW c \in Calls, PumpTakes(c) \/ PumpBroadcasts(c) \/ OnInterrupted(c)
      PROVE  IInv'
  BY <1>2, PumpTakesKeeps, PumpBroadcastsKeeps, OnInterruptedKeeps
<1>3. CASE EslExchange
  BY <1>3, EslExchangeKeeps
<1>4. CASE UNCHANGED vars
  BY <1>4 DEF vars, IInv, CallsInv, Shape, SynthInv, EslInv, NothingAfterBreak
<1>. QED
  BY <1>1, <1>2, <1>3, <1>4 DEF Next, PumpStep

LEMMA Invariance == ASSUME VoiceTurnAssumption PROVE Spec => []IInv
<1>1. Init => IInv
  BY InitKeeps
<1>2. IInv /\ [Next]_vars => IInv'
  BY StepKeeps
<1>. QED
  BY <1>1, <1>2, PTL DEF Spec

(* One utterance of the caller, partials and final together, interrupts    *)
(* one turn of the agent at most (_on_stt_event and its latch), unless the *)
(* caller starts to speak again: for any number of calls and utterances.   *)
THEOREM OneCut == Spec => []OneCutPerUtterance
<1>1. IInv => OneCutPerUtterance
  BY DEF IInv, CallsInv, CallInv, PhaseInv, CutInv, OneCutPerUtterance
<1>. QED
  BY <1>1, VoiceTurnAssumption, Invariance, PTL

(* Audio of a turn the caller has cut is at the phone, or on its way on    *)
(* the shared ESL connection, only while a break is to come behind it      *)
(* (on_interrupted): whatever the other calls put on that connection.      *)
THEOREM BreakComes == Spec => []NothingAfterBreak
<1>1. IInv => NothingAfterBreak
  BY DEF IInv
<1>. QED
  BY <1>1, VoiceTurnAssumption, Invariance, PTL

(* When an audio connection is closed its pump is stopped, no synthesis is *)
(* left running for it, nothing the caller said waits, and a web call has  *)
(* been hung up (end_session, cancel_playback).                            *)
THEOREM EndsClean == Spec => []CleanEnd
<1>1. IInv => CleanEnd
  <2>. SUFFICES ASSUME IInv, NEW c \in Calls, call[c].conn = "closed"
       PROVE  /\ call[c].stream = NoStream /\ synth.by # c /\ call[c].injected = <<>>
              /\ call[c].channel = "web" => call[c].hungUp
    BY DEF CleanEnd
  <2>1. call[c].session = "over" /\ LifeInv(call[c])
    BY DEF IInv, CallsInv, CallInv, PhaseInv, LifeInv
  <2>2. synth.by # c
    BY <2>1, VoiceTurnAssumption DEF IInv, SynthInv, VoiceTurnAssumption
  <2>. QED
    BY <2>1, <2>2 DEF LifeInv
<1>. QED
  BY <1>1, VoiceTurnAssumption, Invariance, PTL

LEMMA RangeIs ==
  ASSUME NEW w, NEW S, DOMAIN w = 1..Len(w),
         \A i \in 1..Len(w) : w[i] \in S,
         \A u \in S : \E i \in 1..Len(w) : w[i] = u
  PROVE  S = Range(w)
<1>1. Range(w) = {w[i] : i \in 1..Len(w)}
  BY DEF Range
<1>. QED
  BY <1>1

(* What is kept is exactly what waits, and it waits in the order it was    *)
(* said.                                                                   *)
LEMMA WaitingIs ==
  ASSUME NEW r, CallInv(r), Live(r)
  PROVE  /\ r.kept = Range(Waiting(r))
         /\ \A i, j \in 1..Len(Waiting(r)) : i < j => Waiting(r)[i] < Waiting(r)[j]
         /\ \A u \in r.kept : r.answered < u
<1>. DEFINE w == Waiting(r)
<1>1. /\ r.injected \in Seq(Nat) /\ r.finals \in Nat
      /\ \A u \in r.kept : r.answered < u /\ u \in 1..r.finals
      /\ \A u \in r.kept : (Took(r) /\ u = r.got) \/ \E i \in 1..Len(r.injected) : u = r.injected[i]
      /\ Took(r) => r.got \in r.kept
      /\ \A i \in 1..Len(r.injected) : r.injected[i] \in r.kept
      /\ Took(r) => \A i \in 1..Len(r.injected) : r.got < r.injected[i]
      /\ \A i, j \in 1..Len(r.injected) : i < j => r.injected[i] < r.injected[j]
  BY DEF CallInv, KeptInv
<1>2. CASE ~Took(r)
  <2>1. w = <<>> \o r.injected
    BY <1>2 DEF Waiting, Took
  <2>2. /\ Len(w) = Len(r.injected) /\ DOMAIN w = 1..Len(w)
        /\ \A i \in 1..Len(r.injected) : w[i] = r.injected[i]
    BY <1>1, <2>1
  <2>. HIDE DEF w
  <2>3. \A i \in 1..Len(w) : w[i] \in r.kept
    BY <1>1, <2>2
  <2>4. \A u \in r.kept : \E i \in 1..Len(w) : w[i] = u
    BY <1>1, <1>2, <2>2
  <2>5. r.kept = Range(w)
    BY ZenonT(60), <2>2, <2>3, <2>4, RangeIs
  <2>. QED
    BY <1>1, <2>2, <2>5 DEF w
<1>3. CASE Took(r)
  <2>1. w = <<r.got>> \o r.injected /\ r.got \in Nat
    BY <1>1, <1>3 DEF Waiting, Took
  <2>2. /\ w \in Seq(Nat) /\ Len(r.injected) \in Nat /\ Len(w) = Len(r.injected) + 1 /\ w[1] = r.got
        /\ \A i \in 1..Len(r.injected) : w[i + 1] = r.injected[i]
        /\ DOMAIN w = 1..Len(w)
    BY <1>1, <2>1
  <2>. HIDE DEF w
  <2>3. \A i \in 1..Len(w) : i = 1 \/ (i - 1 \in 1..Len(r.injected) /\ w[i] = r.injected[i - 1])
    <3>. SUFFICES ASSUME NEW i \in 1..Len(w), i # 1
                  PROVE  i - 1 \in 1..Len(r.injected) /\ w[i] = r.injected[i - 1]
      OBVIOUS
    <3>1. i - 1 \in 1..Len(r.injected) /\ (i - 1) + 1 = i
      BY <2>2
    <3>2. w[(i - 1) + 1] = r.injected[i - 1]
      BY <2>2, <3>1
    <3>. QED
      BY <3>1, <3>2
  <2>4. \A i \in 1..Len(w) : w[i] \in r.kept
    BY <1>1, <1>3, <2>2, <2>3
  <2>5. \A u \in r.kept : \E i \in 1..Len(w) : w[i] = u
    <3>. SUFFICES ASSUME NEW u \in r.kept PROVE \E i \in 1..Len(w) : w[i] = u
      OBVIOUS
    <3>1. CASE u = r.got
      BY <2>2, <3>1
    <3>2. CASE \E i \in 1..Len(r.injected) : u = r.injected[i]
      <4>1. PICK i \in 1..Len(r.injected) : u = r.injected[i]
        BY <3>2
      <4>2. i + 1 \in 1..Len(w) /\ w[i + 1] = u
        BY <2>2, <4>1
      <4>. QED
        BY <4>2
    <3>. QED
      BY <1>1, <3>1, <3>2
  <2>6. DOMAIN w = 1..Len(w)
    BY <2>2
  <2>7. r.kept = Range(w)
    BY <2>4, <2>5, <2>6, RangeIs
  <2>8. ASSUME NEW i \in 1..Len(w), NEW j \in 1..Len(w), i < j PROVE w[i] < w[j]
    <3>1. j - 1 \in 1..Len(r.injected) /\ w[j] = r.injected[j - 1]
      BY <2>3, <2>8
    <3>2. CASE i = 1
      BY <1>1, <1>3, <2>2, <3>1, <3>2
    <3>3. CASE i # 1
      <4>1. i - 1 \in 1..Len(r.injected) /\ w[i] = r.injected[i - 1] /\ i - 1 < j - 1
        BY <2>3, <2>8, <3>3
      <4>. QED
        BY <1>1, <3>1, <4>1
    <3>. QED
      BY <3>2, <3>3
  <2>. QED
    BY <1>1, <2>7, <2>8 DEF w
<1>. QED
  BY <1>2, <1>3

(* What the caller said and the agent accepted stays until it is answered, *)
(* and is answered in the order it was said (_on_stt_event,                *)
(* _wait_for_user_speech): for any number of utterances.                   *)
THEOREM SpeechStays == Spec => []SpeechIsKept
<1>1. IInv => SpeechIsKept
  <2>. SUFFICES ASSUME IInv, NEW c \in Calls,
                       call[c].session \in {"announce", "synth", "drain", "listen", "think"}
       PROVE  /\ call[c].kept = Range(Waiting(call[c]))
              /\ \A i, j \in 1..Len(Waiting(call[c])) :
                   i < j => Waiting(call[c])[i] < Waiting(call[c])[j]
              /\ \A u \in call[c].kept : call[c].answered < u
    BY DEF SpeechIsKept
  <2>1. CallInv(call[c]) /\ Live(call[c])
    BY DEF IInv, CallsInv, Live
  <2>. QED
    BY <2>1, WaitingIs
<1>. QED
  BY <1>1, VoiceTurnAssumption, Invariance, PTL

-----------------------------------------------------------------------------
(* The types                                                               *)

(* The type of each field of a call.                                       *)
Streams == [queued : 0..MaxChunks, last : BOOLEAN,
            at : {"none", "get", "write", "esl", "dead"}]

FieldType(f) ==
  CASE f = "channel" -> Channels
    [] f = "conn" -> {"none", "open", "closing", "closed"}
    [] f = "session" -> {"none", "loading", "announce", "synth", "drain", "listen", "think",
                         "report", "unwind", "over"}
    [] f = "result" -> {"none", "ok", "failed", "cancelled"}
    [] f = "cancelled" -> BOOLEAN
    [] f = "ended" -> BOOLEAN
    [] f = "rounds" -> 0..MaxTurns
    [] f = "turn" -> 0..MaxTurns + 1
    [] f = "speaking" -> {"no", "yes", "cut"}
    [] f = "reference" -> {"none", "playing", "tail"}
    [] f = "waiter" -> {"none", "pending", "done"}
    [] f = "got" -> 0..MaxUtterances
    [] f = "injected" -> Seq(Utterances)
    [] f = "latched" -> BOOLEAN
    [] f = "evidence" -> BOOLEAN
    [] f = "begun" -> {"none", "old", "new"}
    [] f = "vad" -> BOOLEAN
    [] f = "pending" -> BOOLEAN
    [] f = "ends" -> 0..MaxUtterances
    [] f = "finals" -> 0..MaxUtterances
    [] f = "stream" -> Streams
    [] f = "breaking" -> BOOLEAN
    [] f = "phone" -> SUBSET Turns
    [] f = "hungUp" -> BOOLEAN
    [] f = "answered" -> 0..MaxUtterances
    [] f = "kept" -> SUBSET Utterances
    [] f = "cuts" -> 0..2
    [] f = "cutTurns" -> SUBSET Turns

Typed(r) == IsFcn(r) /\ DOMAIN r = Fields /\ \A f \in Fields : r[f] \in FieldType(f)

LEMMA FieldTypes ==
  /\ FieldType("channel") = Channels
  /\ FieldType("conn") = {"none", "open", "closing", "closed"}
  /\ FieldType("session") = {"none", "loading", "announce", "synth", "drain", "listen", "think",
                             "report", "unwind", "over"}
  /\ FieldType("result") = {"none", "ok", "failed", "cancelled"}
  /\ FieldType("cancelled") = BOOLEAN
  /\ FieldType("ended") = BOOLEAN
  /\ FieldType("rounds") = 0..MaxTurns
  /\ FieldType("turn") = 0..MaxTurns + 1
  /\ FieldType("speaking") = {"no", "yes", "cut"}
  /\ FieldType("reference") = {"none", "playing", "tail"}
  /\ FieldType("waiter") = {"none", "pending", "done"}
  /\ FieldType("got") = 0..MaxUtterances
  /\ FieldType("injected") = Seq(Utterances)
  /\ FieldType("latched") = BOOLEAN
  /\ FieldType("evidence") = BOOLEAN
  /\ FieldType("begun") = {"none", "old", "new"}
  /\ FieldType("vad") = BOOLEAN
  /\ FieldType("pending") = BOOLEAN
  /\ FieldType("ends") = 0..MaxUtterances
  /\ FieldType("finals") = 0..MaxUtterances
  /\ FieldType("stream") = Streams
  /\ FieldType("breaking") = BOOLEAN
  /\ FieldType("phone") = SUBSET Turns
  /\ FieldType("hungUp") = BOOLEAN
  /\ FieldType("answered") = 0..MaxUtterances
  /\ FieldType("kept") = SUBSET Utterances
  /\ FieldType("cuts") = 0..2
  /\ FieldType("cutTurns") = SUBSET Turns
BY DEF FieldType

LEMMA TypedIsCall == ASSUME NEW r, Typed(r) PROVE r \in Call
BY ZenonT(60), FieldTypes DEF Typed, IsFcn, Call, Fields, Streams

(* There is room for the turn that is announced, and for the end of the     *)
(* utterance under way: the counters stop at their bounds.                 *)
Ahead(r) ==
  /\ r.session = "announce" => r.turn <= MaxTurns
  /\ r.vad => r.ends < MaxUtterances

TypedCall(r) == Typed(r) /\ Ahead(r)

(* Call x differs from r in the fields of C at most.                       *)
Update(r, x, C) ==
  /\ IsFcn(x) /\ DOMAIN x = Fields /\ C \subseteq Fields
  /\ \A f \in Fields \ C : x[f] = r[f]

LEMMA UpdateTyped ==
  ASSUME NEW r, TypedCall(r), NEW x, NEW C, Update(r, x, C),
         \A f \in C : x[f] \in FieldType(f),
         "session" \in C \/ "turn" \in C => x.session # "announce" \/ x.turn <= MaxTurns,
         "vad" \in C \/ "ends" \in C => ~x.vad \/ x.ends < MaxUtterances
  PROVE  TypedCall(x)
<1>1. Typed(x)
  BY DEF TypedCall, Typed, Update
<1>2. Ahead(x)
  BY DEF TypedCall, Ahead, Update, Fields
<1>. QED
  BY <1>1, <1>2 DEF TypedCall

LEMMA TypesOfCall ==
  ASSUME NEW r, TypedCall(r)
  PROVE  /\ r.rounds \in 0..MaxTurns /\ r.turn \in 0..MaxTurns + 1
         /\ r.ends \in 0..MaxUtterances /\ r.finals \in 0..MaxUtterances
         /\ r.got \in 0..MaxUtterances /\ r.injected \in Seq(Utterances)
         /\ r.kept \in SUBSET Utterances /\ r.cuts \in 0..2
         /\ r.phone \in SUBSET Turns /\ r.cutTurns \in SUBSET Turns
         /\ r.stream \in FieldType("stream") /\ r.begun \in FieldType("begun")
BY FieldTypes DEF TypedCall, Typed, Fields

(* The operators of VoiceTurn keep the types of a call.                     *)
LEMMA SpeakOverTyped ==
  ASSUME NEW r, TypedCall(r),
         NEW b
  PROVE  /\ TypedCall(SpeakOver(r, b))
         /\ Update(r, SpeakOver(r, b), {"speaking", "reference"})
<1>. DEFINE x == SpeakOver(r, b)
<1>. SUFFICES TypedCall(x) /\ Update(r, x, {"speaking", "reference"})
  OBVIOUS
<1>1. Update(r, x, {"speaking", "reference"})
  BY DEF Update, TypedCall, Typed, IsFcn, Fields, SpeakOver
<1>2. /\ x.speaking = "no"
      /\ x.reference \in {"tail", "none"}
  BY DEF TypedCall, Typed, Fields, SpeakOver
<1>. HIDE DEF x
<1>3. /\ x.speaking \in FieldType("speaking")
      /\ x.reference \in FieldType("reference")
  BY <1>2, FieldTypes
<1>4. \A f \in {"speaking", "reference"} : x[f] \in FieldType(f)
  BY <1>3
<1>. QED
  BY <1>1, <1>4, UpdateTyped

LEMMA FailingTyped ==
  ASSUME NEW r, TypedCall(r),
         NEW how \in {"failed", "cancelled"}
  PROVE  TypedCall(Failing(r, how))
<1>. DEFINE x == Failing(r, how)
<1>. SUFFICES TypedCall(x)
  OBVIOUS
<1>1. Update(r, x, {"session", "result", "waiter", "got"})
  BY DEF Update, TypedCall, Typed, IsFcn, Fields, Failing
<1>2. /\ x.session = "unwind"
      /\ x.result = how
      /\ x.waiter = "none"
      /\ x.got = 0
  BY DEF TypedCall, Typed, Fields, Failing
<1>. HIDE DEF x
<1>3. 0 \in 0..MaxUtterances
  BY TypesOfCall, VoiceTurnAssumption DEF VoiceTurnAssumption
<1>4. /\ x.session \in FieldType("session")
      /\ x.result \in FieldType("result")
      /\ x.waiter \in FieldType("waiter")
      /\ x.got \in FieldType("got")
  BY <1>2, <1>3, FieldTypes
<1>5. \A f \in {"session", "result", "waiter", "got"} : x[f] \in FieldType(f)
  BY <1>4
<1>. QED
  BY <1>1, <1>2, <1>5, UpdateTyped

LEMMA StreamTyped ==
  ASSUME NEW r, TypedCall(r),
         NEW s \in FieldType("stream")
  PROVE  /\ TypedCall([r EXCEPT !.stream = s])
         /\ Update(r, [r EXCEPT !.stream = s], {"stream"})
<1>. DEFINE x == [r EXCEPT !.stream = s]
<1>. SUFFICES TypedCall(x) /\ Update(r, x, {"stream"})
  OBVIOUS
<1>1. Update(r, x, {"stream"})
  BY DEF Update, TypedCall, Typed, IsFcn, Fields
<1>2. x.stream = s
  BY DEF TypedCall, Typed, Fields
<1>. HIDE DEF x
<1>3. x.stream \in FieldType("stream")
  BY <1>2, FieldTypes
<1>4. \A f \in {"stream"} : x[f] \in FieldType(f)
  BY <1>3
<1>. QED
  BY <1>1, <1>4, UpdateTyped

LEMMA CutTyped ==
  ASSUME NEW r, TypedCall(r),
         r.turn # 0
  PROVE  TypedCall([r EXCEPT !.speaking = "cut", !.breaking = TRUE, !.cutTurns = @ \cup {r.turn}])
<1>. DEFINE x == [r EXCEPT !.speaking = "cut", !.breaking = TRUE, !.cutTurns = @ \cup {r.turn}]
<1>. SUFFICES TypedCall(x)
  OBVIOUS
<1>1. Update(r, x, {"speaking", "breaking", "cutTurns"})
  BY DEF Update, TypedCall, Typed, IsFcn, Fields
<1>2. /\ x.speaking = "cut"
      /\ x.breaking = TRUE
      /\ x.cutTurns = r.cutTurns \cup {r.turn}
  BY DEF TypedCall, Typed, Fields
<1>. HIDE DEF x
<1>3. r.cutTurns \cup {r.turn} \in SUBSET Turns
  BY TypesOfCall, VoiceTurnAssumption DEF VoiceTurnAssumption, Turns
<1>4. /\ x.speaking \in FieldType("speaking")
      /\ x.breaking \in FieldType("breaking")
      /\ x.cutTurns \in FieldType("cutTurns")
  BY <1>2, <1>3, FieldTypes
<1>5. \A f \in {"speaking", "breaking", "cutTurns"} : x[f] \in FieldType(f)
  BY <1>4
<1>. QED
  BY <1>1, <1>5, UpdateTyped

LEMMA InterruptedTyped ==
  ASSUME NEW r, TypedCall(r), r.speaking = "yes" => r.turn # 0
  PROVE  /\ TypedCall(Interrupted(r))
         /\ Update(r, Interrupted(r), {"speaking", "breaking", "cutTurns"})
<1>1. TypedCall(Interrupted(r))
  BY CutTyped DEF Interrupted
<1>2. Update(r, Interrupted(r), {"speaking", "breaking", "cutTurns"})
  BY DEF Update, TypedCall, Typed, IsFcn, Fields, Interrupted
<1>. QED
  BY <1>1, <1>2

LEMMA ReportingTyped ==
  ASSUME NEW r, TypedCall(r)
  PROVE  TypedCall([r EXCEPT !.session = "report", !.waiter = "none", !.got = 0])
<1>. DEFINE x == [r EXCEPT !.session = "report", !.waiter = "none", !.got = 0]
<1>. SUFFICES TypedCall(x)
  OBVIOUS
<1>1. Update(r, x, {"session", "waiter", "got"})
  BY DEF Update, TypedCall, Typed, IsFcn, Fields
<1>2. /\ x.session = "report"
      /\ x.waiter = "none"
      /\ x.got = 0
  BY DEF TypedCall, Typed, Fields
<1>. HIDE DEF x
<1>3. 0 \in 0..MaxUtterances
  BY TypesOfCall, VoiceTurnAssumption DEF VoiceTurnAssumption
<1>4. /\ x.session \in FieldType("session")
      /\ x.waiter \in FieldType("waiter")
      /\ x.got \in FieldType("got")
  BY <1>2, <1>3, FieldTypes
<1>5. \A f \in {"session", "waiter", "got"} : x[f] \in FieldType(f)
  BY <1>4
<1>. QED
  BY <1>1, <1>2, <1>5, UpdateTyped

LEMMA WaitingTyped ==
  ASSUME NEW r, TypedCall(r),
         r.rounds # MaxTurns
  PROVE  TypedCall([r EXCEPT !.session = "listen", !.rounds = @ + 1, !.waiter = "pending",
                            !.got = 0])
<1>. DEFINE x == [r EXCEPT !.session = "listen", !.rounds = @ + 1, !.waiter = "pending",
                            !.got = 0]
<1>. SUFFICES TypedCall(x)
  OBVIOUS
<1>1. Update(r, x, {"session", "rounds", "waiter", "got"})
  BY DEF Update, TypedCall, Typed, IsFcn, Fields
<1>2. /\ x.session = "listen"
      /\ x.rounds = r.rounds + 1
      /\ x.waiter = "pending"
      /\ x.got = 0
  BY DEF TypedCall, Typed, Fields
<1>. HIDE DEF x
<1>3. 0 \in 0..MaxUtterances
  BY TypesOfCall, VoiceTurnAssumption DEF VoiceTurnAssumption
<1>4. r.rounds + 1 \in 0..MaxTurns
  BY TypesOfCall, VoiceTurnAssumption DEF VoiceTurnAssumption
<1>5. /\ x.session \in FieldType("session")
      /\ x.rounds \in FieldType("rounds")
      /\ x.waiter \in FieldType("waiter")
      /\ x.got \in FieldType("got")
  BY <1>2, <1>3, <1>4, FieldTypes
<1>6. \A f \in {"session", "rounds", "waiter", "got"} : x[f] \in FieldType(f)
  BY <1>5
<1>. QED
  BY <1>1, <1>2, <1>6, UpdateTyped

LEMMA TakingTyped ==
  ASSUME NEW r, TypedCall(r),
         r.rounds # MaxTurns,
         NEW a \in Utterances,
         NEW k \in SUBSET Utterances
  PROVE  TypedCall([r EXCEPT !.session = "think", !.rounds = @ + 1, !.waiter = "none", !.got = 0,
                            !.answered = a, !.kept = k, !.injected = <<>>])
<1>. DEFINE x == [r EXCEPT !.session = "think", !.rounds = @ + 1, !.waiter = "none", !.got = 0,
                            !.answered = a, !.kept = k, !.injected = <<>>]
<1>. SUFFICES TypedCall(x)
  OBVIOUS
<1>1. Update(r, x, {"session", "rounds", "waiter", "got", "answered", "kept", "injected"})
  BY ZenonT(60) DEF Update, TypedCall, Typed, IsFcn, Fields
<1>2. /\ x.session = "think"
      /\ x.rounds = r.rounds + 1
      /\ x.waiter = "none"
      /\ x.got = 0
      /\ x.answered = a
      /\ x.kept = k
      /\ x.injected = <<>>
  BY DEF TypedCall, Typed, Fields
<1>. HIDE DEF x
<1>3. 0 \in 0..MaxUtterances
  BY TypesOfCall, VoiceTurnAssumption DEF VoiceTurnAssumption, Utterances
<1>4. r.rounds + 1 \in 0..MaxTurns
  BY TypesOfCall, VoiceTurnAssumption DEF VoiceTurnAssumption, Utterances
<1>5. a \in 0..MaxUtterances
  BY TypesOfCall, VoiceTurnAssumption DEF VoiceTurnAssumption, Utterances
<1>6. <<>> \in Seq(Utterances)
  BY TypesOfCall, VoiceTurnAssumption DEF VoiceTurnAssumption, Utterances
<1>7. /\ x.session \in FieldType("session")
      /\ x.rounds \in FieldType("rounds")
      /\ x.waiter \in FieldType("waiter")
      /\ x.got \in FieldType("got")
      /\ x.answered \in FieldType("answered")
      /\ x.kept \in FieldType("kept")
      /\ x.injected \in FieldType("injected")
  BY <1>2, <1>3, <1>4, <1>5, <1>6, FieldTypes
<1>8. \A f \in {"session", "rounds", "waiter", "got", "answered", "kept", "injected"} : x[f] \in FieldType(f)
  BY <1>7
<1>9. x.session # "announce"
  BY <1>2
<1>. QED
  BY <1>1, <1>8, <1>9, UpdateTyped

LEMMA ListeningTyped == ASSUME NEW r, TypedCall(r) PROVE TypedCall(Listening(r))
<1>1. CASE r.ended \/ r.rounds = MaxTurns
  BY <1>1, ReportingTyped DEF Listening
<1>2. CASE ~(r.ended \/ r.rounds = MaxTurns) /\ r.injected # <<>>
  <2>1. Last(r.injected) \in Utterances /\ r.kept \ Range(r.injected) \in SUBSET Utterances
    BY <1>2, TypesOfCall DEF Last
  <2>. QED
    BY <1>2, <2>1, TakingTyped DEF Listening
<1>3. CASE ~(r.ended \/ r.rounds = MaxTurns) /\ r.injected = <<>>
  BY <1>3, WaitingTyped DEF Listening
<1>. QED
  BY <1>1, <1>2, <1>3

LEMMA SwallowedTyped == ASSUME NEW r, TypedCall(r) PROVE TypedCall(Swallowed(r))
BY SpeakOverTyped, FailingTyped, ListeningTyped DEF Swallowed

(* So do the changes of a call that the actions make.                      *)
LEMMA ConnectTyped ==
  ASSUME NEW r, TypedCall(r)
  PROVE  TypedCall([r EXCEPT !.conn = "open", !.session = "loading"])
<1>. DEFINE x == [r EXCEPT !.conn = "open", !.session = "loading"]
<1>. SUFFICES TypedCall(x)
  OBVIOUS
<1>1. Update(r, x, {"conn", "session"})
  BY DEF Update, TypedCall, Typed, IsFcn, Fields
<1>2. /\ x.conn = "open"
      /\ x.session = "loading"
  BY DEF TypedCall, Typed, Fields
<1>. HIDE DEF x
<1>3. /\ x.conn \in FieldType("conn")
      /\ x.session \in FieldType("session")
  BY <1>2, FieldTypes
<1>4. \A f \in {"conn", "session"} : x[f] \in FieldType(f)
  BY <1>3
<1>. QED
  BY <1>1, <1>2, <1>4, UpdateTyped

LEMMA AnnounceTyped ==
  ASSUME NEW r, TypedCall(r), r.turn <= MaxTurns
  PROVE  TypedCall([r EXCEPT !.session = "announce"])
<1>. DEFINE x == [r EXCEPT !.session = "announce"]
<1>. SUFFICES TypedCall(x)
  OBVIOUS
<1>1. Update(r, x, {"session"})
  BY DEF Update, TypedCall, Typed, IsFcn, Fields
<1>2. x.session = "announce" /\ x.turn = r.turn
  BY DEF TypedCall, Typed, Fields
<1>. HIDE DEF x
<1>3. \A f \in {"session"} : x[f] \in FieldType(f)
  BY <1>2, FieldTypes
<1>. QED
  BY <1>1, <1>2, <1>3, UpdateTyped

LEMMA SpeakTyped ==
  ASSUME NEW r, TypedCall(r),
         r.session = "announce",
         NEW b \in FieldType("begun"),
         NEW e \in FieldType("reference")
  PROVE  TypedCall([[r EXCEPT !.turn = @ + 1, !.begun = b] EXCEPT
                            !.session = "synth", !.speaking = "yes", !.reference = e])
<1>. DEFINE x == [[r EXCEPT !.turn = @ + 1, !.begun = b] EXCEPT
                            !.session = "synth", !.speaking = "yes", !.reference = e]
<1>. SUFFICES TypedCall(x)
  OBVIOUS
<1>1. Update(r, x, {"turn", "begun", "session", "speaking", "reference"})
  BY ZenonT(60) DEF Update, TypedCall, Typed, IsFcn, Fields
<1>2. /\ x.turn = r.turn + 1
      /\ x.begun = b
      /\ x.session = "synth"
      /\ x.speaking = "yes"
      /\ x.reference = e
  BY DEF TypedCall, Typed, Fields
<1>. HIDE DEF x
<1>3. r.turn + 1 \in 0..MaxTurns + 1
  BY TypesOfCall, VoiceTurnAssumption DEF VoiceTurnAssumption, TypedCall, Ahead
<1>4. /\ x.turn \in FieldType("turn")
      /\ x.begun \in FieldType("begun")
      /\ x.session \in FieldType("session")
      /\ x.speaking \in FieldType("speaking")
      /\ x.reference \in FieldType("reference")
  BY <1>2, <1>3, FieldTypes
<1>5. \A f \in {"turn", "begun", "session", "speaking", "reference"} : x[f] \in FieldType(f)
  BY <1>4
<1>. QED
  BY <1>1, <1>2, <1>5, UpdateTyped

LEMMA RefusedTyped ==
  ASSUME NEW r, TypedCall(r),
         r.session = "announce",
         NEW b \in FieldType("begun")
  PROVE  TypedCall(Failing(SpeakOver([r EXCEPT !.turn = @ + 1, !.begun = b], FALSE), "failed"))
<1>. DEFINE x == Failing(SpeakOver([r EXCEPT !.turn = @ + 1, !.begun = b], FALSE), "failed")
<1>. SUFFICES TypedCall(x)
  OBVIOUS
<1>1. Update(r, x, {"turn", "begun", "speaking", "reference", "session", "result", "waiter", "got"})
  <2>1. IsFcn(x) /\ DOMAIN x = DOMAIN r /\ DOMAIN r = Fields
    BY DEF TypedCall, Typed, IsFcn, Failing, SpeakOver
  <2>2. \A f \in DOMAIN r \ {"turn", "begun", "speaking", "reference", "session", "result", "waiter", "got"} : x[f] = r[f]
    BY <2>1 DEF Failing, SpeakOver
  <2>3. {"turn", "begun", "speaking", "reference", "session", "result", "waiter", "got"} \subseteq Fields
    BY DEF Fields
  <2>. QED
    BY <2>1, <2>2, <2>3 DEF Update
<1>2. /\ x.turn = r.turn + 1
      /\ x.begun = b
      /\ x.speaking = "no"
      /\ x.reference = "none"
      /\ x.session = "unwind"
      /\ x.result = "failed"
      /\ x.waiter = "none"
      /\ x.got = 0
  BY DEF TypedCall, Typed, Fields, Failing, SpeakOver
<1>. HIDE DEF x
<1>3. r.turn + 1 \in 0..MaxTurns + 1
  BY TypesOfCall, VoiceTurnAssumption DEF VoiceTurnAssumption, TypedCall, Ahead
<1>4. 0 \in 0..MaxUtterances
  BY TypesOfCall, VoiceTurnAssumption DEF VoiceTurnAssumption, TypedCall, Ahead
<1>5. /\ x.turn \in FieldType("turn")
      /\ x.begun \in FieldType("begun")
      /\ x.speaking \in FieldType("speaking")
      /\ x.reference \in FieldType("reference")
      /\ x.session \in FieldType("session")
      /\ x.result \in FieldType("result")
      /\ x.waiter \in FieldType("waiter")
      /\ x.got \in FieldType("got")
  BY <1>2, <1>3, <1>4, FieldTypes
<1>6. \A f \in {"turn", "begun", "speaking", "reference", "session", "result", "waiter", "got"} : x[f] \in FieldType(f)
  BY <1>5
<1>7. x.session # "announce"
  BY <1>2
<1>. QED
  BY <1>1, <1>6, <1>7, UpdateTyped

LEMMA DrainTyped ==
  ASSUME NEW r, TypedCall(r),
         NEW s \in FieldType("stream")
  PROVE  TypedCall([r EXCEPT !.session = "drain", !.stream = s])
<1>. DEFINE x == [r EXCEPT !.session = "drain", !.stream = s]
<1>. SUFFICES TypedCall(x)
  OBVIOUS
<1>1. Update(r, x, {"session", "stream"})
  BY DEF Update, TypedCall, Typed, IsFcn, Fields
<1>2. /\ x.session = "drain"
      /\ x.stream = s
  BY DEF TypedCall, Typed, Fields
<1>. HIDE DEF x
<1>3. /\ x.session \in FieldType("session")
      /\ x.stream \in FieldType("stream")
  BY <1>2, FieldTypes
<1>4. \A f \in {"session", "stream"} : x[f] \in FieldType(f)
  BY <1>3
<1>. QED
  BY <1>1, <1>2, <1>4, UpdateTyped

LEMMA ThinkTyped ==
  ASSUME NEW r, TypedCall(r),
         NEW g \in 0..MaxUtterances,
         NEW k \in SUBSET Utterances
  PROVE  TypedCall([r EXCEPT !.session = "think", !.waiter = "none", !.got = 0,
                            !.answered = g, !.kept = k])
<1>. DEFINE x == [r EXCEPT !.session = "think", !.waiter = "none", !.got = 0,
                            !.answered = g, !.kept = k]
<1>. SUFFICES TypedCall(x)
  OBVIOUS
<1>1. Update(r, x, {"session", "waiter", "got", "answered", "kept"})
  BY DEF Update, TypedCall, Typed, IsFcn, Fields
<1>2. /\ x.session = "think"
      /\ x.waiter = "none"
      /\ x.got = 0
      /\ x.answered = g
      /\ x.kept = k
  BY DEF TypedCall, Typed, Fields
<1>. HIDE DEF x
<1>3. 0 \in 0..MaxUtterances
  BY TypesOfCall, VoiceTurnAssumption DEF VoiceTurnAssumption
<1>4. /\ x.session \in FieldType("session")
      /\ x.waiter \in FieldType("waiter")
      /\ x.got \in FieldType("got")
      /\ x.answered \in FieldType("answered")
      /\ x.kept \in FieldType("kept")
  BY <1>2, <1>3, FieldTypes
<1>5. \A f \in {"session", "waiter", "got", "answered", "kept"} : x[f] \in FieldType(f)
  BY <1>4
<1>. QED
  BY <1>1, <1>2, <1>5, UpdateTyped

LEMMA TimeoutTyped ==
  ASSUME NEW r, TypedCall(r)
  PROVE  TypedCall([r EXCEPT !.session = "think", !.waiter = "none"])
<1>. DEFINE x == [r EXCEPT !.session = "think", !.waiter = "none"]
<1>. SUFFICES TypedCall(x)
  OBVIOUS
<1>1. Update(r, x, {"session", "waiter"})
  BY DEF Update, TypedCall, Typed, IsFcn, Fields
<1>2. /\ x.session = "think"
      /\ x.waiter = "none"
  BY DEF TypedCall, Typed, Fields
<1>. HIDE DEF x
<1>3. /\ x.session \in FieldType("session")
      /\ x.waiter \in FieldType("waiter")
  BY <1>2, FieldTypes
<1>4. \A f \in {"session", "waiter"} : x[f] \in FieldType(f)
  BY <1>3
<1>. QED
  BY <1>1, <1>2, <1>4, UpdateTyped

LEMMA EndedTyped ==
  ASSUME NEW r, TypedCall(r)
  PROVE  TypedCall([r EXCEPT !.ended = TRUE])
<1>. DEFINE x == [r EXCEPT !.ended = TRUE]
<1>. SUFFICES TypedCall(x)
  OBVIOUS
<1>1. Update(r, x, {"ended"})
  BY DEF Update, TypedCall, Typed, IsFcn, Fields
<1>2. x.ended = TRUE
  BY DEF TypedCall, Typed, Fields
<1>. HIDE DEF x
<1>3. x.ended \in FieldType("ended")
  BY <1>2, FieldTypes
<1>4. \A f \in {"ended"} : x[f] \in FieldType(f)
  BY <1>3
<1>. QED
  BY <1>1, <1>4, UpdateTyped

LEMMA ReportTyped ==
  ASSUME NEW r, TypedCall(r),
         NEW h \in BOOLEAN
  PROVE  TypedCall([r EXCEPT !.session = "unwind", !.result = "ok", !.hungUp = h])
<1>. DEFINE x == [r EXCEPT !.session = "unwind", !.result = "ok", !.hungUp = h]
<1>. SUFFICES TypedCall(x)
  OBVIOUS
<1>1. Update(r, x, {"session", "result", "hungUp"})
  BY DEF Update, TypedCall, Typed, IsFcn, Fields
<1>2. /\ x.session = "unwind"
      /\ x.result = "ok"
      /\ x.hungUp = h
  BY DEF TypedCall, Typed, Fields
<1>. HIDE DEF x
<1>3. /\ x.session \in FieldType("session")
      /\ x.result \in FieldType("result")
      /\ x.hungUp \in FieldType("hungUp")
  BY <1>2, FieldTypes
<1>4. \A f \in {"session", "result", "hungUp"} : x[f] \in FieldType(f)
  BY <1>3
<1>. QED
  BY <1>1, <1>2, <1>4, UpdateTyped

LEMMA OverTyped ==
  ASSUME NEW r, TypedCall(r)
  PROVE  TypedCall([r EXCEPT !.session = "over"])
<1>. DEFINE x == [r EXCEPT !.session = "over"]
<1>. SUFFICES TypedCall(x)
  OBVIOUS
<1>1. Update(r, x, {"session"})
  BY DEF Update, TypedCall, Typed, IsFcn, Fields
<1>2. x.session = "over"
  BY DEF TypedCall, Typed, Fields
<1>. HIDE DEF x
<1>3. x.session \in FieldType("session")
  BY <1>2, FieldTypes
<1>4. \A f \in {"session"} : x[f] \in FieldType(f)
  BY <1>3
<1>. QED
  BY <1>1, <1>2, <1>4, UpdateTyped

LEMMA PhoneTyped ==
  ASSUME NEW r, TypedCall(r),
         NEW s \in FieldType("stream"),
         NEW p \in SUBSET Turns
  PROVE  TypedCall([r EXCEPT !.stream = s, !.phone = p])
<1>. DEFINE x == [r EXCEPT !.stream = s, !.phone = p]
<1>. SUFFICES TypedCall(x)
  OBVIOUS
<1>1. Update(r, x, {"stream", "phone"})
  BY DEF Update, TypedCall, Typed, IsFcn, Fields
<1>2. /\ x.stream = s
      /\ x.phone = p
  BY DEF TypedCall, Typed, Fields
<1>. HIDE DEF x
<1>3. /\ x.stream \in FieldType("stream")
      /\ x.phone \in FieldType("phone")
  BY <1>2, FieldTypes
<1>4. \A f \in {"stream", "phone"} : x[f] \in FieldType(f)
  BY <1>3
<1>. QED
  BY <1>1, <1>4, UpdateTyped

LEMMA ArrivedTyped ==
  ASSUME NEW r, TypedCall(r),
         NEW p \in SUBSET Turns
  PROVE  TypedCall([r EXCEPT !.phone = p])
<1>. DEFINE x == [r EXCEPT !.phone = p]
<1>. SUFFICES TypedCall(x)
  OBVIOUS
<1>1. Update(r, x, {"phone"})
  BY DEF Update, TypedCall, Typed, IsFcn, Fields
<1>2. x.phone = p
  BY DEF TypedCall, Typed, Fields
<1>. HIDE DEF x
<1>3. x.phone \in FieldType("phone")
  BY <1>2, FieldTypes
<1>4. \A f \in {"phone"} : x[f] \in FieldType(f)
  BY <1>3
<1>. QED
  BY <1>1, <1>4, UpdateTyped

LEMMA BrokenTyped ==
  ASSUME NEW r, TypedCall(r),
         NEW p \in SUBSET Turns
  PROVE  TypedCall([r EXCEPT !.breaking = FALSE, !.phone = p])
<1>. DEFINE x == [r EXCEPT !.breaking = FALSE, !.phone = p]
<1>. SUFFICES TypedCall(x)
  OBVIOUS
<1>1. Update(r, x, {"breaking", "phone"})
  BY DEF Update, TypedCall, Typed, IsFcn, Fields
<1>2. /\ x.breaking = FALSE
      /\ x.phone = p
  BY DEF TypedCall, Typed, Fields
<1>. HIDE DEF x
<1>3. /\ x.breaking \in FieldType("breaking")
      /\ x.phone \in FieldType("phone")
  BY <1>2, FieldTypes
<1>4. \A f \in {"breaking", "phone"} : x[f] \in FieldType(f)
  BY <1>3
<1>. QED
  BY <1>1, <1>4, UpdateTyped

LEMMA StartTyped ==
  ASSUME NEW r, TypedCall(r),
         r.ends < MaxUtterances
  PROVE  TypedCall([r EXCEPT !.vad = TRUE, !.pending = TRUE, !.begun = "none",
                            !.latched = FALSE, !.evidence = FALSE, !.cuts = 0])
<1>. DEFINE x == [r EXCEPT !.vad = TRUE, !.pending = TRUE, !.begun = "none",
                            !.latched = FALSE, !.evidence = FALSE, !.cuts = 0]
<1>. SUFFICES TypedCall(x)
  OBVIOUS
<1>1. Update(r, x, {"vad", "pending", "begun", "latched", "evidence", "cuts"})
  BY DEF Update, TypedCall, Typed, IsFcn, Fields
<1>2. /\ x.vad = TRUE
      /\ x.pending = TRUE
      /\ x.begun = "none"
      /\ x.latched = FALSE
      /\ x.evidence = FALSE
      /\ x.cuts = 0
      /\ x.ends = r.ends
  BY DEF TypedCall, Typed, Fields
<1>. HIDE DEF x
<1>3. 0 \in 0..2
  BY TypesOfCall, VoiceTurnAssumption DEF VoiceTurnAssumption
<1>4. /\ x.vad \in FieldType("vad")
      /\ x.pending \in FieldType("pending")
      /\ x.begun \in FieldType("begun")
      /\ x.latched \in FieldType("latched")
      /\ x.evidence \in FieldType("evidence")
      /\ x.cuts \in FieldType("cuts")
  BY <1>2, <1>3, FieldTypes
<1>5. \A f \in {"vad", "pending", "begun", "latched", "evidence", "cuts"} : x[f] \in FieldType(f)
  BY <1>4
<1>. QED
  BY <1>1, <1>2, <1>5, UpdateTyped

LEMMA StopTyped ==
  ASSUME NEW r, TypedCall(r),
         r.vad
  PROVE  TypedCall([r EXCEPT !.vad = FALSE, !.pending = FALSE, !.begun = "none", !.ends = @ + 1])
<1>. DEFINE x == [r EXCEPT !.vad = FALSE, !.pending = FALSE, !.begun = "none", !.ends = @ + 1]
<1>. SUFFICES TypedCall(x)
  OBVIOUS
<1>1. Update(r, x, {"vad", "pending", "begun", "ends"})
  BY DEF Update, TypedCall, Typed, IsFcn, Fields
<1>2. /\ x.vad = FALSE
      /\ x.pending = FALSE
      /\ x.begun = "none"
      /\ x.ends = r.ends + 1
  BY DEF TypedCall, Typed, Fields
<1>. HIDE DEF x
<1>3. r.ends + 1 \in 0..MaxUtterances
  BY TypesOfCall, VoiceTurnAssumption DEF VoiceTurnAssumption, TypedCall, Ahead
<1>4. /\ x.vad \in FieldType("vad")
      /\ x.pending \in FieldType("pending")
      /\ x.begun \in FieldType("begun")
      /\ x.ends \in FieldType("ends")
  BY <1>2, <1>3, FieldTypes
<1>5. \A f \in {"vad", "pending", "begun", "ends"} : x[f] \in FieldType(f)
  BY <1>4
<1>. QED
  BY <1>1, <1>2, <1>5, UpdateTyped

LEMMA ResetTyped ==
  ASSUME NEW r, TypedCall(r)
  PROVE  /\ TypedCall([r EXCEPT !.vad = FALSE])
         /\ Update(r, [r EXCEPT !.vad = FALSE], {"vad"})
<1>. DEFINE x == [r EXCEPT !.vad = FALSE]
<1>. SUFFICES TypedCall(x) /\ Update(r, x, {"vad"})
  OBVIOUS
<1>1. Update(r, x, {"vad"})
  BY DEF Update, TypedCall, Typed, IsFcn, Fields
<1>2. x.vad = FALSE
  BY DEF TypedCall, Typed, Fields
<1>. HIDE DEF x
<1>3. x.vad \in FieldType("vad")
  BY <1>2, FieldTypes
<1>4. \A f \in {"vad"} : x[f] \in FieldType(f)
  BY <1>3
<1>. QED
  BY <1>1, <1>2, <1>4, UpdateTyped

LEMMA TailTyped ==
  ASSUME NEW r, TypedCall(r)
  PROVE  TypedCall([r EXCEPT !.reference = "none"])
<1>. DEFINE x == [r EXCEPT !.reference = "none"]
<1>. SUFFICES TypedCall(x)
  OBVIOUS
<1>1. Update(r, x, {"reference"})
  BY DEF Update, TypedCall, Typed, IsFcn, Fields
<1>2. x.reference = "none"
  BY DEF TypedCall, Typed, Fields
<1>. HIDE DEF x
<1>3. x.reference \in FieldType("reference")
  BY <1>2, FieldTypes
<1>4. \A f \in {"reference"} : x[f] \in FieldType(f)
  BY <1>3
<1>. QED
  BY <1>1, <1>4, UpdateTyped

LEMMA BegunTyped ==
  ASSUME NEW r, TypedCall(r),
         NEW b \in FieldType("begun")
  PROVE  /\ TypedCall([r EXCEPT !.begun = b])
         /\ Update(r, [r EXCEPT !.begun = b], {"begun"})
<1>. DEFINE x == [r EXCEPT !.begun = b]
<1>. SUFFICES TypedCall(x) /\ Update(r, x, {"begun"})
  OBVIOUS
<1>1. Update(r, x, {"begun"})
  BY DEF Update, TypedCall, Typed, IsFcn, Fields
<1>2. x.begun = b
  BY DEF TypedCall, Typed, Fields
<1>. HIDE DEF x
<1>3. x.begun \in FieldType("begun")
  BY <1>2, FieldTypes
<1>4. \A f \in {"begun"} : x[f] \in FieldType(f)
  BY <1>3
<1>. QED
  BY <1>1, <1>4, UpdateTyped

LEMMA EvidenceTyped ==
  ASSUME NEW r, TypedCall(r),
         NEW b \in BOOLEAN
  PROVE  /\ TypedCall([r EXCEPT !.evidence = b])
         /\ Update(r, [r EXCEPT !.evidence = b], {"evidence"})
<1>. DEFINE x == [r EXCEPT !.evidence = b]
<1>. SUFFICES TypedCall(x) /\ Update(r, x, {"evidence"})
  OBVIOUS
<1>1. Update(r, x, {"evidence"})
  BY DEF Update, TypedCall, Typed, IsFcn, Fields
<1>2. x.evidence = b
  BY DEF TypedCall, Typed, Fields
<1>. HIDE DEF x
<1>3. x.evidence \in FieldType("evidence")
  BY <1>2, FieldTypes
<1>4. \A f \in {"evidence"} : x[f] \in FieldType(f)
  BY <1>3
<1>. QED
  BY <1>1, <1>4, UpdateTyped

LEMMA CutsTyped ==
  ASSUME NEW r, TypedCall(r),
         NEW k \in 0..2
  PROVE  TypedCall([r EXCEPT !.cuts = k])
<1>. DEFINE x == [r EXCEPT !.cuts = k]
<1>. SUFFICES TypedCall(x)
  OBVIOUS
<1>1. Update(r, x, {"cuts"})
  BY DEF Update, TypedCall, Typed, IsFcn, Fields
<1>2. x.cuts = k
  BY DEF TypedCall, Typed, Fields
<1>. HIDE DEF x
<1>3. x.cuts \in FieldType("cuts")
  BY <1>2, FieldTypes
<1>4. \A f \in {"cuts"} : x[f] \in FieldType(f)
  BY <1>3
<1>. QED
  BY <1>1, <1>4, UpdateTyped

LEMMA LatchTyped ==
  ASSUME NEW r, TypedCall(r),
         NEW b \in BOOLEAN
  PROVE  TypedCall([r EXCEPT !.latched = b])
<1>. DEFINE x == [r EXCEPT !.latched = b]
<1>. SUFFICES TypedCall(x)
  OBVIOUS
<1>1. Update(r, x, {"latched"})
  BY DEF Update, TypedCall, Typed, IsFcn, Fields
<1>2. x.latched = b
  BY DEF TypedCall, Typed, Fields
<1>. HIDE DEF x
<1>3. x.latched \in FieldType("latched")
  BY <1>2, FieldTypes
<1>4. \A f \in {"latched"} : x[f] \in FieldType(f)
  BY <1>3
<1>. QED
  BY <1>1, <1>4, UpdateTyped

LEMMA FinalTyped ==
  ASSUME NEW r, TypedCall(r),
         NEW u \in 0..MaxUtterances,
         NEW k \in 0..2
  PROVE  /\ TypedCall([r EXCEPT !.finals = u, !.latched = FALSE, !.evidence = FALSE,
                            !.begun = "none", !.cuts = k])
         /\ Update(r, [r EXCEPT !.finals = u, !.latched = FALSE, !.evidence = FALSE,
                            !.begun = "none", !.cuts = k], {"finals", "latched", "evidence", "begun", "cuts"})
<1>. DEFINE x == [r EXCEPT !.finals = u, !.latched = FALSE, !.evidence = FALSE,
                            !.begun = "none", !.cuts = k]
<1>. SUFFICES TypedCall(x) /\ Update(r, x, {"finals", "latched", "evidence", "begun", "cuts"})
  OBVIOUS
<1>1. Update(r, x, {"finals", "latched", "evidence", "begun", "cuts"})
  BY DEF Update, TypedCall, Typed, IsFcn, Fields
<1>2. /\ x.finals = u
      /\ x.latched = FALSE
      /\ x.evidence = FALSE
      /\ x.begun = "none"
      /\ x.cuts = k
  BY DEF TypedCall, Typed, Fields
<1>. HIDE DEF x
<1>3. /\ x.finals \in FieldType("finals")
      /\ x.latched \in FieldType("latched")
      /\ x.evidence \in FieldType("evidence")
      /\ x.begun \in FieldType("begun")
      /\ x.cuts \in FieldType("cuts")
  BY <1>2, FieldTypes
<1>4. \A f \in {"finals", "latched", "evidence", "begun", "cuts"} : x[f] \in FieldType(f)
  BY <1>3
<1>. QED
  BY <1>1, <1>4, UpdateTyped

LEMMA AnswerTyped ==
  ASSUME NEW r, TypedCall(r),
         NEW g \in 0..MaxUtterances
  PROVE  TypedCall([r EXCEPT !.waiter = "done", !.got = g])
<1>. DEFINE x == [r EXCEPT !.waiter = "done", !.got = g]
<1>. SUFFICES TypedCall(x)
  OBVIOUS
<1>1. Update(r, x, {"waiter", "got"})
  BY DEF Update, TypedCall, Typed, IsFcn, Fields
<1>2. /\ x.waiter = "done"
      /\ x.got = g
  BY DEF TypedCall, Typed, Fields
<1>. HIDE DEF x
<1>3. /\ x.waiter \in FieldType("waiter")
      /\ x.got \in FieldType("got")
  BY <1>2, FieldTypes
<1>4. \A f \in {"waiter", "got"} : x[f] \in FieldType(f)
  BY <1>3
<1>. QED
  BY <1>1, <1>4, UpdateTyped

LEMMA KeptTyped ==
  ASSUME NEW r, TypedCall(r),
         NEW k \in SUBSET Utterances
  PROVE  /\ TypedCall([r EXCEPT !.kept = k])
         /\ Update(r, [r EXCEPT !.kept = k], {"kept"})
<1>. DEFINE x == [r EXCEPT !.kept = k]
<1>. SUFFICES TypedCall(x) /\ Update(r, x, {"kept"})
  OBVIOUS
<1>1. Update(r, x, {"kept"})
  BY DEF Update, TypedCall, Typed, IsFcn, Fields
<1>2. x.kept = k
  BY DEF TypedCall, Typed, Fields
<1>. HIDE DEF x
<1>3. x.kept \in FieldType("kept")
  BY <1>2, FieldTypes
<1>4. \A f \in {"kept"} : x[f] \in FieldType(f)
  BY <1>3
<1>. QED
  BY <1>1, <1>4, UpdateTyped

LEMMA BufferTyped ==
  ASSUME NEW r, TypedCall(r),
         NEW q \in Seq(Utterances)
  PROVE  /\ TypedCall([r EXCEPT !.injected = q])
         /\ Update(r, [r EXCEPT !.injected = q], {"injected"})
<1>. DEFINE x == [r EXCEPT !.injected = q]
<1>. SUFFICES TypedCall(x) /\ Update(r, x, {"injected"})
  OBVIOUS
<1>1. Update(r, x, {"injected"})
  BY DEF Update, TypedCall, Typed, IsFcn, Fields
<1>2. x.injected = q
  BY DEF TypedCall, Typed, Fields
<1>. HIDE DEF x
<1>3. x.injected \in FieldType("injected")
  BY <1>2, FieldTypes
<1>4. \A f \in {"injected"} : x[f] \in FieldType(f)
  BY <1>3
<1>. QED
  BY <1>1, <1>4, UpdateTyped

LEMMA OmitTyped ==
  ASSUME NEW r, TypedCall(r),
         NEW u \in 0..MaxUtterances
  PROVE  TypedCall([r EXCEPT !.finals = u, !.cuts = 0])
<1>. DEFINE x == [r EXCEPT !.finals = u, !.cuts = 0]
<1>. SUFFICES TypedCall(x)
  OBVIOUS
<1>1. Update(r, x, {"finals", "cuts"})
  BY DEF Update, TypedCall, Typed, IsFcn, Fields
<1>2. /\ x.finals = u
      /\ x.cuts = 0
  BY DEF TypedCall, Typed, Fields
<1>. HIDE DEF x
<1>3. 0 \in 0..2
  BY TypesOfCall, VoiceTurnAssumption DEF VoiceTurnAssumption
<1>4. /\ x.finals \in FieldType("finals")
      /\ x.cuts \in FieldType("cuts")
  BY <1>2, <1>3, FieldTypes
<1>5. \A f \in {"finals", "cuts"} : x[f] \in FieldType(f)
  BY <1>4
<1>. QED
  BY <1>1, <1>5, UpdateTyped

LEMMA CancelTyped ==
  ASSUME NEW r, TypedCall(r)
  PROVE  TypedCall([r EXCEPT !.conn = "closing", !.cancelled = TRUE])
<1>. DEFINE x == [r EXCEPT !.conn = "closing", !.cancelled = TRUE]
<1>. SUFFICES TypedCall(x)
  OBVIOUS
<1>1. Update(r, x, {"conn", "cancelled"})
  BY DEF Update, TypedCall, Typed, IsFcn, Fields
<1>2. /\ x.conn = "closing"
      /\ x.cancelled = TRUE
  BY DEF TypedCall, Typed, Fields
<1>. HIDE DEF x
<1>3. /\ x.conn \in FieldType("conn")
      /\ x.cancelled \in FieldType("cancelled")
  BY <1>2, FieldTypes
<1>4. \A f \in {"conn", "cancelled"} : x[f] \in FieldType(f)
  BY <1>3
<1>. QED
  BY <1>1, <1>4, UpdateTyped

LEMMA ClosingTyped ==
  ASSUME NEW r, TypedCall(r)
  PROVE  TypedCall([r EXCEPT !.conn = "closing"])
<1>. DEFINE x == [r EXCEPT !.conn = "closing"]
<1>. SUFFICES TypedCall(x)
  OBVIOUS
<1>1. Update(r, x, {"conn"})
  BY DEF Update, TypedCall, Typed, IsFcn, Fields
<1>2. x.conn = "closing"
  BY DEF TypedCall, Typed, Fields
<1>. HIDE DEF x
<1>3. x.conn \in FieldType("conn")
  BY <1>2, FieldTypes
<1>4. \A f \in {"conn"} : x[f] \in FieldType(f)
  BY <1>3
<1>. QED
  BY <1>1, <1>4, UpdateTyped

LEMMA EndTyped ==
  ASSUME NEW r, TypedCall(r),
         NEW h \in BOOLEAN
  PROVE  TypedCall([r EXCEPT !.conn = "closed", !.ended = TRUE, !.injected = <<>>,
                            !.speaking = "no", !.reference = "none", !.latched = FALSE,
                            !.evidence = FALSE, !.begun = "none", !.vad = FALSE,
                            !.pending = FALSE, !.phone = {}, !.hungUp = h])
<1>. DEFINE x == [r EXCEPT !.conn = "closed", !.ended = TRUE, !.injected = <<>>,
                            !.speaking = "no", !.reference = "none", !.latched = FALSE,
                            !.evidence = FALSE, !.begun = "none", !.vad = FALSE,
                            !.pending = FALSE, !.phone = {}, !.hungUp = h]
<1>. SUFFICES TypedCall(x)
  OBVIOUS
<1>1. Update(r, x, {"conn", "ended", "injected", "speaking", "reference", "latched", "evidence", "begun", "vad", "pending", "phone", "hungUp"})
  <2>1. IsFcn(x) /\ DOMAIN x = DOMAIN r /\ DOMAIN r = Fields
    BY DEF TypedCall, Typed, IsFcn
  <2>2. \A f \in DOMAIN r \ {"conn", "ended", "injected", "speaking", "reference", "latched", "evidence", "begun", "vad", "pending", "phone", "hungUp"} : x[f] = r[f]
    BY <2>1
  <2>3. {"conn", "ended", "injected", "speaking", "reference", "latched", "evidence", "begun", "vad", "pending", "phone", "hungUp"} \subseteq Fields
    BY DEF Fields
  <2>. QED
    BY <2>1, <2>2, <2>3 DEF Update
<1>2. /\ x.conn = "closed"
      /\ x.ended = TRUE
      /\ x.injected = <<>>
      /\ x.speaking = "no"
      /\ x.reference = "none"
      /\ x.latched = FALSE
      /\ x.evidence = FALSE
      /\ x.begun = "none"
      /\ x.vad = FALSE
      /\ x.pending = FALSE
      /\ x.phone = {}
      /\ x.hungUp = h
  BY DEF TypedCall, Typed, Fields
<1>. HIDE DEF x
<1>3. <<>> \in Seq(Utterances)
  BY TypesOfCall, VoiceTurnAssumption DEF VoiceTurnAssumption
<1>4. /\ x.conn \in FieldType("conn")
      /\ x.ended \in FieldType("ended")
      /\ x.injected \in FieldType("injected")
      /\ x.speaking \in FieldType("speaking")
      /\ x.reference \in FieldType("reference")
      /\ x.latched \in FieldType("latched")
      /\ x.evidence \in FieldType("evidence")
      /\ x.begun \in FieldType("begun")
      /\ x.vad \in FieldType("vad")
      /\ x.pending \in FieldType("pending")
      /\ x.phone \in FieldType("phone")
      /\ x.hungUp \in FieldType("hungUp")
  BY <1>2, <1>3, FieldTypes
<1>5. \A f \in {"conn", "ended", "injected", "speaking", "reference", "latched", "evidence", "begun", "vad", "pending", "phone", "hungUp"} : x[f] \in FieldType(f)
  BY <1>4
<1>. QED
  BY <1>1, <1>2, <1>5, UpdateTyped

-----------------------------------------------------------------------------
(* What the actions do to the types                                        *)

EslCommand == [cmd : {"broadcast", "break"}, call : Calls, turn : 0..MaxTurns + 1]

CallsTyped == Shape /\ \A c \in Calls : TypedCall(call[c])

(* What is broadcast is of a turn.                                         *)
EslTyped ==
  /\ esl \in Seq(EslCommand)
  /\ \A i \in 1..Len(esl) : esl[i].cmd = "broadcast" => esl[i].turn # 0

LEMMA BecomeTyped ==
  ASSUME CallsTyped, NEW c \in Calls, NEW x, TypedCall(x), Become(c, x)
  PROVE  CallsTyped'
BY BecomeIs DEF CallsTyped

LEMMA TypeFacts ==
  ASSUME VoiceTurnAssumption, IInv, CallsTyped, NEW c \in Calls
  PROVE  /\ TypedCall(call[c])
         /\ call[c].speaking = "yes" => call[c].turn # 0
         /\ call[c].stream.at # "none" => call[c].turn # 0
<1>1. CallInv(call[c])
  BY DEF IInv, CallsInv
<1>. QED
  BY <1>1 DEF CallsTyped, CallInv, PhaseInv, TurnInv, NoStream

LEMMA StreamTypes == \A s : s \in FieldType("stream") <=> s \in Streams
BY FieldTypes

LEMMA NoStreamTyped == ASSUME VoiceTurnAssumption PROVE NoStream \in FieldType("stream")
<1>1. 0 \in 0..MaxChunks
  BY VoiceTurnAssumption DEF VoiceTurnAssumption
<1>2. NoStream \in Streams
  BY <1>1 DEF NoStream, Streams
<1>. QED
  BY <1>2, StreamTypes

LEMMA StreamUpdates ==
  ASSUME NEW s \in FieldType("stream")
  PROVE  /\ s.queued \in 0..MaxChunks
         /\ \A q \in 0..MaxChunks : [s EXCEPT !.queued = q] \in FieldType("stream")
         /\ \A a \in {"get", "write", "esl", "dead"} : [s EXCEPT !.at = a] \in FieldType("stream")
         /\ [s EXCEPT !.last = TRUE] \in FieldType("stream")
<1>1. s \in Streams
  BY StreamTypes
<1>2. s.queued \in 0..MaxChunks
  BY <1>1 DEF Streams
<1>3. ASSUME NEW q \in 0..MaxChunks PROVE [s EXCEPT !.queued = q] \in Streams
  BY <1>1 DEF Streams
<1>4. ASSUME NEW a \in {"get", "write", "esl", "dead"} PROVE [s EXCEPT !.at = a] \in Streams
  BY <1>1 DEF Streams
<1>5. [s EXCEPT !.last = TRUE] \in Streams
  BY <1>1 DEF Streams
<1>. QED
  BY <1>2, <1>3, <1>4, <1>5, StreamTypes

LEMMA SessionTypes ==
  ASSUME VoiceTurnAssumption, IInv, CallsTyped, NEW c \in Calls,
         \/ Connect(c) \/ LoadTask(c) \/ Heard(c) \/ Timeout(c) \/ Think(c) \/ Report(c)
         \/ Unwind(c) \/ DrainCut(c) \/ SynthesisCut(c) \/ SynthesisFails(c)
  PROVE  CallsTyped'
<1>. DEFINE r == call[c]
<1>0. TypedCall(r)
  BY TypeFacts
<1>1. CASE Connect(c)
  BY <1>0, <1>1, ConnectTyped, BecomeTyped DEF Connect
<1>2. CASE LoadTask(c)
  <2>1. r.turn = 0 /\ 0 <= MaxTurns
    BY <1>2, VoiceTurnAssumption DEF LoadTask, IInv, CallsInv, CallInv, PhaseInv, TurnInv,
       VoiceTurnAssumption
  <2>2. TypedCall([r EXCEPT !.session = "announce"])
    BY <1>0, <2>1, AnnounceTyped
  <2>. QED
    BY <1>2, <2>2, BecomeTyped DEF LoadTask
<1>3. CASE Heard(c)
  <2>. DEFINE x == [r EXCEPT !.session = "think", !.waiter = "none", !.got = 0,
                             !.answered = r.got, !.kept = @ \ {r.got}]
  <2>1. Become(c, Listening(r)) \/ Become(c, x)
    BY <1>3 DEF Heard
  <2>2. r.got \in 0..MaxUtterances /\ r.kept \ {r.got} \in SUBSET Utterances
    BY <1>0, TypesOfCall
  <2>3. TypedCall(Listening(r)) /\ TypedCall(x)
    BY <1>0, <2>2, ListeningTyped, ThinkTyped
  <2>. QED
    BY <2>1, <2>3, BecomeTyped
<1>4. CASE Timeout(c)
  <2>. DEFINE x == [r EXCEPT !.session = "think", !.waiter = "none"]
  <2>1. Become(c, Listening(r)) \/ Become(c, x)
    BY <1>4 DEF Timeout
  <2>2. TypedCall(Listening(r)) /\ TypedCall(x)
    BY <1>0, ListeningTyped, TimeoutTyped
  <2>. QED
    BY <2>1, <2>2, BecomeTyped
<1>5. CASE Think(c)
  <2>. DEFINE e == [r EXCEPT !.ended = TRUE]
  <2>1. \/ r.turn <= MaxTurns /\ Become(c, [r EXCEPT !.session = "announce"])
        \/ Become(c, Listening(r))
        \/ r.turn <= MaxTurns /\ Become(c, [e EXCEPT !.session = "announce"])
        \/ Become(c, Listening(e))
        \/ Become(c, Failing(r, "failed"))
    BY <1>5 DEF Think
  <2>2. TypedCall(e)
    BY <1>0, EndedTyped
  <2>3. e.turn = r.turn
    BY <1>0 DEF TypedCall, Typed, Fields
  <2>. HIDE DEF e
  <2>4. TypedCall(Listening(r)) /\ TypedCall(Listening(e)) /\ TypedCall(Failing(r, "failed"))
    BY <1>0, <2>2, ListeningTyped, FailingTyped
  <2>5. r.turn <= MaxTurns =>
          TypedCall([r EXCEPT !.session = "announce"]) /\ TypedCall([e EXCEPT !.session = "announce"])
    BY <1>0, <2>2, <2>3, AnnounceTyped
  <2>. QED
    BY <2>1, <2>4, <2>5, BecomeTyped
<1>6. CASE Report(c)
  <2>. DEFINE h == (r.hungUp \/ r.channel = "web")
              x == [r EXCEPT !.session = "unwind", !.result = "ok", !.hungUp = h]
  <2>1. Become(c, x) \/ Become(c, Failing(r, "failed"))
    BY <1>6 DEF Report
  <2>2. h \in BOOLEAN
    OBVIOUS
  <2>. HIDE DEF h
  <2>3. TypedCall(x) /\ TypedCall(Failing(r, "failed"))
    BY <1>0, <2>2, ReportTyped, FailingTyped
  <2>. QED
    BY <2>1, <2>3, BecomeTyped
<1>7. CASE Unwind(c)
  <2>1. TypedCall(CancelStream(r))
    BY <1>0, NoStreamTyped, StreamTyped DEF CancelStream
  <2>2. TypedCall([CancelStream(r) EXCEPT !.session = "over"])
    BY <2>1, OverTyped
  <2>. QED
    BY <1>7, <2>2, BecomeTyped DEF Unwind
<1>8. CASE DrainCut(c) \/ SynthesisCut(c)
  BY <1>0, <1>8, SwallowedTyped, BecomeTyped DEF DrainCut, SynthesisCut
<1>9. CASE SynthesisFails(c)
  BY <1>0, <1>9, SpeakOverTyped, FailingTyped, BecomeTyped DEF SynthesisFails
<1>. QED
  BY <1>1, <1>2, <1>3, <1>4, <1>5, <1>6, <1>7, <1>8, <1>9

LEMMA SynthesisTypes ==
  ASSUME VoiceTurnAssumption, IInv, CallsTyped, NEW c \in Calls,
         BeginSpeak(c) \/ Chunk(c) \/ SynthesisDone(c) \/ PumpDone(c)
  PROVE  CallsTyped'
<1>. DEFINE r == call[c]
<1>0. TypedCall(r) /\ r.stream \in FieldType("stream")
  BY TypeFacts, TypesOfCall
<1>1. CASE BeginSpeak(c)
  <2>. DEFINE b == IF r.begun = "none" THEN r.begun ELSE "old"
              q == [r EXCEPT !.turn = @ + 1, !.begun = b]
              e == IF q.channel = "web" THEN "playing" ELSE "none"
              x == [q EXCEPT !.session = "synth", !.speaking = "yes", !.reference = e]
              y == Failing(SpeakOver(q, FALSE), "failed")
  <2>1. r.session = "announce" /\ (Become(c, x) \/ Become(c, y))
    BY <1>1 DEF BeginSpeak
  <2>2. b \in FieldType("begun")
    BY FieldTypes
  <2>3. e \in FieldType("reference")
    BY FieldTypes
  <2>. HIDE DEF b, e
  <2>4. TypedCall(x) /\ TypedCall(y)
    BY <1>0, <2>1, <2>2, <2>3, SpeakTyped, RefusedTyped
  <2>. QED
    BY <2>1, <2>4, BecomeTyped
<1>2. CASE Chunk(c)
  <2>. DEFINE s == IF r.stream.at \in {"none", "dead"}
                   THEN [NoStream EXCEPT !.queued = 1, !.at = "get"]
                   ELSE [r.stream EXCEPT !.queued = @ + 1]
  <2>1. Become(c, [r EXCEPT !.stream = s]) /\ r.stream.queued < MaxChunks
    BY <1>2 DEF Chunk
  <2>2. [NoStream EXCEPT !.queued = 1, !.at = "get"] \in FieldType("stream")
    <3>1. 1 \in 0..MaxChunks /\ "get" \in {"get", "write", "esl", "dead"}
      BY VoiceTurnAssumption DEF VoiceTurnAssumption
    <3>2. [NoStream EXCEPT !.queued = 1] \in FieldType("stream")
      BY <3>1, NoStreamTyped, StreamUpdates
    <3>3. [NoStream EXCEPT !.queued = 1, !.at = "get"]
            = [[NoStream EXCEPT !.queued = 1] EXCEPT !.at = "get"]
      OBVIOUS
    <3>. QED
      BY <3>1, <3>2, <3>3, StreamUpdates
  <2>3. r.stream.queued + 1 \in 0..MaxChunks
    <3>1. r.stream.queued \in 0..MaxChunks
      BY <1>0, StreamUpdates
    <3>. QED
      BY <2>1, <3>1, VoiceTurnAssumption DEF VoiceTurnAssumption
  <2>4. s \in FieldType("stream")
    BY <1>0, <2>2, <2>3, StreamUpdates
  <2>. HIDE DEF s
  <2>. QED
    BY <1>0, <2>1, <2>4, StreamTyped, BecomeTyped
<1>3. CASE SynthesisDone(c)
  <2>. DEFINE s == [r.stream EXCEPT !.last = TRUE]
              z == [r EXCEPT !.stream = NoStream]
              d == [r EXCEPT !.session = "drain", !.stream = s]
  <2>1. \/ Become(c, Listening(SpeakOver(r, TRUE)))
        \/ Become(c, Failing(SpeakOver(z, FALSE), "failed"))
        \/ Become(c, [r EXCEPT !.session = "drain", !.stream.last = TRUE])
    BY <1>3 DEF SynthesisDone
  <2>2. [r EXCEPT !.session = "drain", !.stream.last = TRUE] = d
    BY <1>0 DEF TypedCall, Typed, Fields
  <2>3. s \in FieldType("stream")
    BY <1>0, StreamUpdates
  <2>. HIDE DEF s
  <2>4. TypedCall(z) /\ TypedCall(d)
    BY <1>0, <2>3, NoStreamTyped, StreamTyped, DrainTyped
  <2>. HIDE DEF z, d
  <2>. QED
    BY <1>0, <2>1, <2>2, <2>4, SpeakOverTyped, FailingTyped, ListeningTyped, BecomeTyped
<1>4. CASE PumpDone(c)
  <2>. DEFINE z == [r EXCEPT !.stream = NoStream]
  <2>1. Become(c, Listening(SpeakOver(z, TRUE)))
    BY <1>4 DEF PumpDone
  <2>2. TypedCall(z)
    BY <1>0, NoStreamTyped, StreamTyped
  <2>. HIDE DEF z
  <2>. QED
    BY <2>1, <2>2, SpeakOverTyped, ListeningTyped, BecomeTyped
<1>. QED
  BY <1>1, <1>2, <1>3, <1>4

LEMMA SpeechTypes ==
  ASSUME VoiceTurnAssumption, IInv, CallsTyped, NEW c \in Calls,
         SpeechStart(c) \/ SpeechEnd(c) \/ TailExpires(c) \/ NoFinal(c) \/ SuppressedAudio(c)
  PROVE  CallsTyped'
<1>. DEFINE r == call[c]
<1>0. TypedCall(r) /\ (r.speaking = "yes" => r.turn # 0)
  BY TypeFacts
<1>1. CASE SpeechStart(c)
  <2>. DEFINE x == [r EXCEPT !.vad = TRUE, !.pending = TRUE, !.begun = "none",
                             !.latched = FALSE, !.evidence = FALSE, !.cuts = 0]
  <2>1. Become(c, x) /\ r.ends < MaxUtterances
    BY <1>1 DEF SpeechStart
  <2>2. TypedCall(x)
    BY <1>0, <2>1, StartTyped
  <2>. HIDE DEF x
  <2>. QED
    BY <2>1, <2>2, BecomeTyped
<1>2. CASE SpeechEnd(c)
  <2>. DEFINE x == [r EXCEPT !.vad = FALSE, !.pending = FALSE, !.begun = "none", !.ends = @ + 1]
  <2>1. Become(c, x) /\ r.vad
    BY <1>2 DEF SpeechEnd
  <2>2. TypedCall(x)
    BY <1>0, <2>1, StopTyped
  <2>. HIDE DEF x
  <2>. QED
    BY <2>1, <2>2, BecomeTyped
<1>3. CASE TailExpires(c)
  BY <1>0, <1>3, TailTyped, BecomeTyped DEF TailExpires
<1>4. CASE NoFinal(c)
  <2>. DEFINE u == r.finals + 1
              x == [r EXCEPT !.finals = u, !.cuts = 0]
  <2>1. Become(c, x) /\ r.finals < r.ends
    BY <1>4 DEF NoFinal
  <2>2. r.finals \in 0..MaxUtterances /\ r.ends \in 0..MaxUtterances
    BY <1>0, TypesOfCall
  <2>3. u \in 0..MaxUtterances
    BY <2>1, <2>2, VoiceTurnAssumption DEF VoiceTurnAssumption
  <2>. HIDE DEF u
  <2>4. TypedCall(x)
    BY <1>0, <2>3, OmitTyped
  <2>. HIDE DEF x
  <2>. QED
    BY <2>1, <2>4, BecomeTyped
<1>5. CASE SuppressedAudio(c)
  <2>. DEFINE x == [r EXCEPT !.vad = FALSE]
  <2>1. Become(c, x) \/ Become(c, Interrupted(x))
    BY <1>5 DEF SuppressedAudio
  <2>2. TypedCall(x) /\ Update(r, x, {"vad"})
    BY <1>0, ResetTyped
  <2>. HIDE DEF x
  <2>3. x.speaking = r.speaking /\ x.turn = r.turn
    BY <2>2 DEF Update, Fields
  <2>4. TypedCall(Interrupted(x))
    BY <1>0, <2>2, <2>3, InterruptedTyped
  <2>. QED
    BY <2>1, <2>2, <2>4, BecomeTyped
<1>. QED
  BY <1>1, <1>2, <1>3, <1>4, <1>5

LEMMA PartialTypes ==
  ASSUME VoiceTurnAssumption, IInv, CallsTyped, NEW c \in Calls, NEW verdict, NEW near,
         Partial(c, verdict, near)
  PROVE  CallsTyped'
<1>. DEFINE r == call[c]
            b == IF r.begun # "none" THEN r.begun
                 ELSE IF near /\ r.speaking = "yes" THEN "old" ELSE "new"
            s == [r EXCEPT !.begun = b]
            t == [s EXCEPT !.evidence = FALSE]
            e == (s.evidence \/ verdict = "sure")
            v == [s EXCEPT !.evidence = e]
            y == (r.speaking = "yes")
            x == [CutBySpeech(t) EXCEPT !.latched = y]
<1>0. TypedCall(r) /\ (r.speaking = "yes" => r.turn # 0)
  BY TypeFacts
<1>1. Become(c, s) \/ Become(c, v) \/ Become(c, t) \/ Become(c, x)
  BY DEF Partial
<1>2. b \in FieldType("begun")
  BY <1>0, TypesOfCall, FieldTypes
<1>. HIDE DEF b
<1>3. TypedCall(s) /\ Update(r, s, {"begun"})
  BY <1>0, <1>2, BegunTyped
<1>. HIDE DEF s
<1>4. e \in BOOLEAN /\ y \in BOOLEAN
  OBVIOUS
<1>. HIDE DEF e
<1>5. TypedCall(v) /\ TypedCall(t) /\ Update(s, t, {"evidence"})
  BY <1>3, <1>4, EvidenceTyped
<1>. HIDE DEF v, t
<1>6. t.speaking = r.speaking /\ t.turn = r.turn
  BY <1>3, <1>5 DEF Update, Fields
<1>7. TypedCall(CutBySpeech(t))
  <2>. DEFINE i == Interrupted(t)
              k == IF t.speaking = "yes" /\ i.cuts < 2 THEN i.cuts + 1 ELSE i.cuts
  <2>1. CutBySpeech(t) = [i EXCEPT !.cuts = k]
    BY DEF CutBySpeech
  <2>2. TypedCall(i)
    BY <1>0, <1>5, <1>6, InterruptedTyped
  <2>. HIDE DEF i
  <2>3. i.cuts \in 0..2
    BY <2>2, TypesOfCall
  <2>4. k \in 0..2
    BY <2>3
  <2>. HIDE DEF k
  <2>5. TypedCall([i EXCEPT !.cuts = k])
    BY <2>2, <2>4, CutsTyped
  <2>. QED
    BY <2>1, <2>5
<1>8. TypedCall(x)
  BY <1>4, <1>7, LatchTyped
<1>. HIDE DEF x
<1>. QED
  BY <1>1, <1>3, <1>5, <1>8, BecomeTyped

LEMMA FinalTypes ==
  ASSUME VoiceTurnAssumption, IInv, CallsTyped, NEW c \in Calls,
         NEW kind, NEW verdict, NEW early, Final(c, kind, verdict, early)
  PROVE  CallsTyped'
<1>. DEFINE r == call[c]
            u == r.finals + 1
            n == IF r.cuts = 2 THEN 2 ELSE 0
            s == [r EXCEPT !.finals = u, !.latched = FALSE, !.evidence = FALSE,
                           !.begun = "none", !.cuts = n]
            p == s.kept \cup {u}
            k == [s EXCEPT !.kept = p]
            q == Append(k.injected, u)
            b == [k EXCEPT !.injected = q]
            e == [s EXCEPT !.waiter = "done", !.got = 0]
            a == [k EXCEPT !.waiter = "done", !.got = u]
            i == Interrupted(b)
            m == IF r.speaking = "yes" /\ r.cuts = 1 THEN 2 ELSE i.cuts
            x == [i EXCEPT !.cuts = m]
<1>0. TypedCall(r) /\ (r.speaking = "yes" => r.turn # 0)
  BY TypeFacts
<1>1. Become(c, s) \/ Become(c, e) \/ Become(c, a) \/ Become(c, b) \/ Become(c, x)
  BY DEF Final
<1>2. r.finals \in 0..MaxUtterances /\ r.ends \in 0..MaxUtterances /\ r.finals < r.ends
  BY <1>0, TypesOfCall DEF Final
<1>3. u \in 0..MaxUtterances /\ u \in Utterances /\ 0 \in 0..MaxUtterances
  BY <1>2, VoiceTurnAssumption DEF VoiceTurnAssumption, Utterances
<1>. HIDE DEF u
<1>4. n \in 0..2
  OBVIOUS
<1>. HIDE DEF n
<1>5. /\ TypedCall(s)
      /\ Update(r, s, {"finals", "latched", "evidence", "begun", "cuts"})
  BY <1>0, <1>3, <1>4, FinalTyped
<1>. HIDE DEF s
<1>6. p \in SUBSET Utterances
  BY <1>3, <1>5, TypesOfCall
<1>. HIDE DEF p
<1>7. TypedCall(k) /\ Update(s, k, {"kept"})
  BY <1>5, <1>6, KeptTyped
<1>. HIDE DEF k
<1>8. q \in Seq(Utterances)
  <2>1. k.injected \in Seq(Utterances)
    BY <1>7, TypesOfCall
  <2>. QED
    BY <1>3, <2>1
<1>. HIDE DEF q
<1>9. TypedCall(b) /\ Update(k, b, {"injected"})
  BY <1>7, <1>8, BufferTyped
<1>10. TypedCall(e) /\ TypedCall(a)
  BY <1>3, <1>5, <1>7, AnswerTyped
<1>. HIDE DEF b, e, a
<1>11. b.speaking = r.speaking /\ b.turn = r.turn
  <2>1. s.speaking = r.speaking /\ s.turn = r.turn
    BY <1>5 DEF Update, Fields
  <2>2. k.speaking = s.speaking /\ k.turn = s.turn
    BY <1>7 DEF Update, Fields
  <2>3. b.speaking = k.speaking /\ b.turn = k.turn
    BY <1>9 DEF Update, Fields
  <2>. QED
    BY <2>1, <2>2, <2>3
<1>12. TypedCall(i)
  BY <1>0, <1>9, <1>11, InterruptedTyped
<1>. HIDE DEF i
<1>13. m \in 0..2
  <2>1. i.cuts \in 0..2
    BY <1>12, TypesOfCall
  <2>. QED
    BY <2>1
<1>. HIDE DEF m
<1>14. TypedCall(x)
  BY <1>12, <1>13, CutsTyped
<1>. HIDE DEF x
<1>. QED
  BY <1>1, <1>5, <1>9, <1>10, <1>14, BecomeTyped

LEMMA EndTypes ==
  ASSUME VoiceTurnAssumption, IInv, CallsTyped, NEW c \in Calls, Disconnect(c) \/ EndSession(c)
  PROVE  CallsTyped'
<1>. DEFINE r == call[c]
<1>0. TypedCall(r) /\ (r.speaking = "yes" => r.turn # 0)
  BY TypeFacts
<1>1. CASE Disconnect(c)
  <2>. DEFINE o == [r EXCEPT !.conn = "closing"]
              q == [r EXCEPT !.conn = "closing", !.cancelled = TRUE]
  <2>1. \/ Become(c, o) \/ Become(c, q) \/ Become(c, CancelStream(q))
        \/ Become(c, Failing(q, "cancelled"))
    BY <1>1 DEF Disconnect, CancelSession
  <2>2. TypedCall(o) /\ TypedCall(q)
    BY <1>0, ClosingTyped, CancelTyped
  <2>. HIDE DEF o, q
  <2>3. TypedCall(CancelStream(q)) /\ TypedCall(Failing(q, "cancelled"))
    BY <2>2, NoStreamTyped, StreamTyped, FailingTyped DEF CancelStream
  <2>. QED
    BY <2>1, <2>2, <2>3, BecomeTyped
<1>2. CASE EndSession(c)
  <2>. DEFINE i == Interrupted(r)
              h == (i.hungUp \/ HangupFallback(r))
              x == [i EXCEPT !.conn = "closed", !.ended = TRUE, !.injected = <<>>,
                             !.speaking = "no", !.reference = "none", !.latched = FALSE,
                             !.evidence = FALSE, !.begun = "none", !.vad = FALSE,
                             !.pending = FALSE, !.phone = {}, !.hungUp = h]
  <2>1. Become(c, x)
    BY <1>2 DEF EndSession
  <2>2. TypedCall(i) /\ h \in BOOLEAN
    BY <1>0, InterruptedTyped
  <2>. HIDE DEF i, h
  <2>3. TypedCall(x)
    BY <2>2, EndTyped
  <2>. HIDE DEF x
  <2>. QED
    BY <2>1, <2>3, BecomeTyped
<1>. QED
  BY <1>1, <1>2

LEMMA PumpTypes ==
  ASSUME VoiceTurnAssumption, IInv, CallsTyped, NEW c \in Calls,
         PumpTakes(c) \/ PumpBroadcasts(c) \/ OnInterrupted(c)
  PROVE  CallsTyped'
<1>. DEFINE r == call[c]
<1>0. /\ TypedCall(r) /\ r.stream \in FieldType("stream")
      /\ r.stream.at # "none" => r.turn # 0
      /\ r.phone \in SUBSET Turns /\ r.turn \in 0..MaxTurns + 1
  BY TypeFacts, TypesOfCall
<1>1. CASE PumpTakes(c)
  <2>. DEFINE n == r.stream.queued - 1
              s == [r.stream EXCEPT !.queued = n]
              g == [s EXCEPT !.at = "write"]
              p == r.phone \cup {r.turn}
              w == [r EXCEPT !.stream = s, !.phone = p]
              f == [r EXCEPT !.stream = g]
  <2>1. /\ r.stream.at = "get" /\ r.stream.queued > 0
        /\ \/ Become(c, [r EXCEPT !.stream.queued = @ - 1, !.phone = @ \cup {r.turn}])
           \/ Become(c, [r EXCEPT !.stream.queued = @ - 1, !.stream.at = "write"])
    BY <1>1 DEF PumpTakes
  <2>2. /\ [r EXCEPT !.stream.queued = @ - 1, !.phone = @ \cup {r.turn}] = w
        /\ [r EXCEPT !.stream.queued = @ - 1, !.stream.at = "write"] = f
    BY <1>0 DEF TypedCall, Typed, Fields
  <2>3. n \in 0..MaxChunks
    <3>1. r.stream.queued \in 0..MaxChunks
      BY <1>0, StreamUpdates
    <3>. QED
      BY <2>1, <3>1
  <2>4. p \in SUBSET Turns
    BY <1>0, <2>1 DEF Turns
  <2>. HIDE DEF n, p
  <2>5. s \in FieldType("stream")
    BY <1>0, <2>3, StreamUpdates
  <2>. HIDE DEF s
  <2>6. g \in FieldType("stream")
    BY <2>5, StreamUpdates
  <2>. HIDE DEF g
  <2>7. TypedCall(w) /\ TypedCall(f)
    BY <1>0, <2>4, <2>5, <2>6, PhoneTyped, StreamTyped
  <2>. HIDE DEF w, f
  <2>. QED
    BY <2>1, <2>2, <2>7, BecomeTyped
<1>2. CASE PumpBroadcasts(c)
  <2>. DEFINE s == [r.stream EXCEPT !.at = "esl"]
              y == [r EXCEPT !.stream = s]
  <2>1. Become(c, [r EXCEPT !.stream.at = "esl"])
    BY <1>2 DEF PumpBroadcasts
  <2>2. [r EXCEPT !.stream.at = "esl"] = y
    BY <1>0 DEF TypedCall, Typed, Fields
  <2>3. s \in FieldType("stream")
    BY <1>0, StreamUpdates
  <2>. HIDE DEF s
  <2>4. TypedCall(y)
    BY <1>0, <2>3, StreamTyped
  <2>. HIDE DEF y
  <2>. QED
    BY <2>1, <2>2, <2>4, BecomeTyped
<1>3. CASE OnInterrupted(c)
  <2>. DEFINE s == CancelStream(r)
              p == IF r.channel = "web" THEN {} ELSE s.phone
              y == [s EXCEPT !.breaking = FALSE, !.phone = p]
  <2>1. Become(c, y)
    BY <1>3 DEF OnInterrupted
  <2>2. TypedCall(s)
    BY <1>0, NoStreamTyped, StreamTyped DEF CancelStream
  <2>. HIDE DEF s
  <2>3. p \in SUBSET Turns
    BY <2>2, TypesOfCall
  <2>. HIDE DEF p
  <2>4. TypedCall(y)
    BY <2>2, <2>3, BrokenTyped
  <2>. HIDE DEF y
  <2>. QED
    BY <2>1, <2>4, BecomeTyped
<1>. QED
  BY <1>1, <1>2, <1>3

LEMMA EslSent ==
  ASSUME CallsTyped, EslTyped, NEW c \in Calls, NEW k \in {"broadcast", "break"},
         esl' = Append(esl, [cmd |-> k, call |-> c, turn |-> call[c].turn]),
         k = "broadcast" => call[c].turn # 0
  PROVE  EslTyped'
<1>. DEFINE x == [cmd |-> k, call |-> c, turn |-> call[c].turn]
<1>1. call[c].turn \in 0..MaxTurns + 1
  BY TypesOfCall DEF CallsTyped
<1>2. x \in EslCommand /\ (x.cmd = "broadcast" => x.turn # 0)
  BY <1>1 DEF EslCommand
<1>3. /\ esl \in Seq(EslCommand) /\ esl' = Append(esl, x)
      /\ \A i \in 1..Len(esl) : esl[i].cmd = "broadcast" => esl[i].turn # 0
  BY DEF EslTyped
<1>. HIDE DEF x
<1>4. /\ esl' \in Seq(EslCommand) /\ Len(esl) \in Nat /\ Len(esl') = Len(esl) + 1
      /\ esl'[Len(esl) + 1] = x /\ \A i \in 1..Len(esl) : esl'[i] = esl[i]
  BY <1>2, <1>3
<1>5. ASSUME NEW i \in 1..Len(esl'), esl'[i].cmd = "broadcast" PROVE esl'[i].turn # 0
  <2>1. CASE i = Len(esl) + 1
    BY <1>2, <1>4, <1>5, <2>1
  <2>2. CASE i # Len(esl) + 1
    <3>1. i \in 1..Len(esl)
      BY <1>4, <2>2
    <3>. QED
      BY <1>3, <1>4, <1>5, <3>1
  <2>. QED
    BY <2>1, <2>2
<1>. QED
  BY <1>4, <1>5 DEF EslTyped

LEMMA EslExchanged == ASSUME IInv, EslTyped, EslExchange PROVE EslTyped'
<1>1. esl # <<>> /\ esl' = Tail(esl) /\ esl \in Seq(EslCommand)
  BY DEF EslExchange, EslTyped
<1>2. esl' \in Seq(EslCommand)
  BY <1>1
<1>3. \A i \in 1..Len(esl') : esl'[i] = esl[i + 1] /\ i + 1 \in 1..Len(esl)
  BY <1>1, EslTail
<1>. QED
  BY <1>2, <1>3 DEF EslTyped

LEMMA ExchangeTypes ==
  ASSUME VoiceTurnAssumption, IInv, CallsTyped, EslTyped, EslExchange
  PROVE  CallsTyped'
<1>. DEFINE x == esl[1]
            c == x.call
            r == call[c]
            w == r.stream.at = "esl" /\ x.turn = r.turn /\ ~\E i \in 2..Len(esl) : esl[i] = x
<1>1. esl # <<>> /\ esl \in Seq(EslCommand)
  BY DEF EslExchange, EslTyped
<1>2. /\ Head(esl) = x /\ x \in EslCommand /\ Len(esl) \in Nat /\ 1 \in 1..Len(esl)
  BY <1>1
<1>3. c \in Calls /\ (x.cmd # "break" => x.turn \in Turns)
  BY <1>2 DEF EslTyped, EslCommand, Turns
<1>4. TypedCall(r) /\ r.stream \in FieldType("stream") /\ r.phone \in SUBSET Turns
  BY <1>3, TypeFacts, TypesOfCall
<1>5. CASE x.cmd = "break"
  <2>1. Become(c, [r EXCEPT !.phone = {}])
    BY <1>2, <1>5 DEF EslExchange
  <2>2. TypedCall([r EXCEPT !.phone = {}])
    BY <1>4, ArrivedTyped
  <2>. QED
    BY <1>3, <2>1, <2>2, BecomeTyped
<1>6. CASE x.cmd # "break"
  <2>. DEFINE p == IF r.conn = "closed" THEN r.phone ELSE r.phone \cup {x.turn}
              a == IF w THEN "get" ELSE r.stream.at
              s == [r.stream EXCEPT !.at = a]
              g == [r EXCEPT !.stream = s, !.phone = p]
              z == [r EXCEPT !.stream = NoStream]
              k == Failing(SpeakOver(z, FALSE), "failed")
              e == [r.stream EXCEPT !.at = "dead"]
              d == [r EXCEPT !.stream = e]
  <2>1. \/ Become(c, [r EXCEPT !.phone = p, !.stream.at = IF w THEN "get" ELSE @])
        \/ Become(c, k)
        \/ Become(c, [r EXCEPT !.stream.at = "dead"])
        \/ Become(c, r)
    BY <1>2, <1>6 DEF EslExchange
  <2>. HIDE DEF w
  <2>2. /\ [r EXCEPT !.phone = p, !.stream.at = IF w THEN "get" ELSE @] = g
        /\ [r EXCEPT !.stream.at = "dead"] = d
    BY ZenonT(60), <1>4 DEF TypedCall, Typed, Fields
  <2>3. p \in SUBSET Turns
    BY <1>3, <1>4, <1>6
  <2>4. e \in FieldType("stream")
    BY <1>4, StreamUpdates
  <2>5. s \in FieldType("stream")
    <3>1. CASE w
      BY <1>4, <3>1, StreamUpdates
    <3>2. CASE ~w
      <4>1. r.stream \in Streams
        BY <1>4, StreamTypes
      <4>2. s = r.stream
        BY <3>2, <4>1 DEF Streams
      <4>. QED
        BY <1>4, <4>2
    <3>. QED
      BY <3>1, <3>2
  <2>. HIDE DEF p, s, e
  <2>6. TypedCall(g) /\ TypedCall(d) /\ TypedCall(z)
    BY <1>4, <2>3, <2>4, <2>5, PhoneTyped, StreamTyped, NoStreamTyped
  <2>. HIDE DEF g, d, z
  <2>7. TypedCall(k)
    BY <2>6, SpeakOverTyped, FailingTyped
  <2>. HIDE DEF k
  <2>. QED
    BY <1>3, <1>4, <2>1, <2>2, <2>6, <2>7, BecomeTyped
<1>. QED
  BY <1>5, <1>6

(* The types are inductive beside the invariant of the other theorems.     *)
TypeInv == IInv /\ CallsTyped /\ EslTyped

LEMMA InitTyped == ASSUME VoiceTurnAssumption PROVE Init => CallsTyped /\ EslTyped
<1>. SUFFICES ASSUME Init PROVE CallsTyped /\ EslTyped
  OBVIOUS
<1>1. ASSUME NEW ch \in Channels PROVE TypedCall(NewCall(ch))
  <2>. DEFINE x == NewCall(ch)
  <2>0. /\ 0 \in 0..MaxTurns /\ 0 \in 0..MaxTurns + 1 /\ 0 \in 0..MaxUtterances /\ 0 \in 0..2
        /\ <<>> \in Seq(Utterances) /\ {} \in SUBSET Turns /\ {} \in SUBSET Utterances
        /\ NoStream \in FieldType("stream")
    BY VoiceTurnAssumption, NoStreamTyped DEF VoiceTurnAssumption
  <2>1. IsFcn(x) /\ DOMAIN x = Fields
    BY DEF NewCall, IsFcn, Fields
  <2>2. \A f \in Fields : x[f] \in FieldType(f)
    <3>. HIDE DEF x
    <3>1. /\ x.channel = ch /\ x.conn = "none" /\ x.session = "none" /\ x.result = "none"
          /\ x.cancelled = FALSE /\ x.ended = FALSE /\ x.rounds = 0 /\ x.turn = 0
          /\ x.speaking = "no" /\ x.reference = "none" /\ x.waiter = "none" /\ x.got = 0
          /\ x.injected = <<>> /\ x.latched = FALSE /\ x.evidence = FALSE /\ x.begun = "none"
          /\ x.vad = FALSE /\ x.pending = FALSE /\ x.ends = 0 /\ x.finals = 0
          /\ x.stream = NoStream /\ x.breaking = FALSE /\ x.phone = {} /\ x.hungUp = FALSE
          /\ x.answered = 0 /\ x.kept = {} /\ x.cuts = 0 /\ x.cutTurns = {}
      BY DEF x, NewCall
    <3>2. \A f \in {"channel", "conn", "session", "result", "speaking", "reference", "waiter",
                    "begun"} : x[f] \in FieldType(f)
      BY <3>1, FieldTypes
    <3>3. \A f \in {"cancelled", "ended", "latched", "evidence", "vad", "pending", "breaking",
                    "hungUp"} : x[f] \in FieldType(f)
      <4>1. /\ x.cancelled \in BOOLEAN /\ x.ended \in BOOLEAN /\ x.latched \in BOOLEAN
            /\ x.evidence \in BOOLEAN /\ x.vad \in BOOLEAN /\ x.pending \in BOOLEAN
            /\ x.breaking \in BOOLEAN /\ x.hungUp \in BOOLEAN
        BY <3>1
      <4>. QED
        BY <4>1, FieldTypes
    <3>4. \A f \in {"rounds", "turn", "got", "ends", "finals", "answered", "cuts"} :
            x[f] \in FieldType(f)
      BY <2>0, <3>1, FieldTypes
    <3>5. \A f \in {"injected", "stream", "phone", "kept", "cutTurns"} : x[f] \in FieldType(f)
      <4>1. /\ x.injected \in Seq(Utterances) /\ x.stream \in FieldType("stream")
            /\ x.phone \in SUBSET Turns /\ x.kept \in SUBSET Utterances
            /\ x.cutTurns \in SUBSET Turns
        BY <2>0, <3>1
      <4>. QED
        BY <4>1, FieldTypes
    <3>. QED
      BY <3>2, <3>3, <3>4, <3>5 DEF Fields
  <2>3. Ahead(x)
    BY DEF NewCall, Ahead
  <2>. QED
    BY <2>1, <2>2, <2>3 DEF TypedCall, Typed
<1>2. CallsTyped
  <2>1. \A c \in Calls : \E ch \in Channels : call[c] = NewCall(ch)
    BY DEF Init
  <2>2. Shape
    BY DEF Init, Shape, IsFcn
  <2>. QED
    BY <1>1, <2>1, <2>2 DEF CallsTyped
<1>3. EslTyped
  BY DEF Init, EslTyped
<1>. QED
  BY <1>2, <1>3

LEMMA StepTypes ==
  ASSUME VoiceTurnAssumption, TypeInv, [Next]_vars PROVE TypeInv'
<1>. SUFFICES CallsTyped' /\ EslTyped'
  BY StepKeeps DEF TypeInv
<1>1. ASSUME NEW c \in Calls,
             \/ Connect(c) \/ Disconnect(c) \/ SessionStep(c) \/ PumpDone(c) \/ SpeechStep(c)
             \/ Chunk(c) \/ TailExpires(c)
      PROVE  CallsTyped' /\ EslTyped'
  <2>1. CallsTyped'
    BY ZenonT(60), <1>1, SessionTypes, SynthesisTypes, SpeechTypes, PartialTypes, FinalTypes,
       EndTypes DEF TypeInv, SessionStep, SpeechStep
  <2>2. UNCHANGED esl
    BY ZenonT(60), <1>1 DEF SessionStep, SpeechStep, Connect, Disconnect, PumpDone, Chunk, TailExpires,
       LoadTask, BeginSpeak, SynthesisDone, SynthesisFails, SynthesisCut, DrainCut, Heard,
       Timeout, Think, Report, Unwind, EndSession, SpeechStart, SpeechEnd, SuppressedAudio,
       NoFinal, Partial, Final
  <2>. QED
    BY <2>1, <2>2 DEF TypeInv, EslTyped
<1>2. ASSUME NEW c \in Calls, PumpTakes(c) \/ PumpBroadcasts(c) \/ OnInterrupted(c)
      PROVE  CallsTyped' /\ EslTyped'
  <2>1. CallsTyped'
    BY <1>2, PumpTypes DEF TypeInv
  <2>2. call[c].stream.at = "write" => call[c].turn # 0
    BY TypeFacts DEF TypeInv
  <2>3. \/ UNCHANGED esl
        \/ esl' = Append(esl, [cmd |-> "break", call |-> c, turn |-> call[c].turn])
        \/ /\ call[c].turn # 0
           /\ esl' = Append(esl, [cmd |-> "broadcast", call |-> c, turn |-> call[c].turn])
    BY <1>2, <2>2 DEF PumpTakes, PumpBroadcasts, OnInterrupted
  <2>4. EslTyped'
    <3>1. UNCHANGED esl => EslTyped'
      BY DEF TypeInv, EslTyped
    <3>2. CallsTyped /\ EslTyped /\ "break" \in {"broadcast", "break"} /\ "broadcast" \in {"broadcast", "break"}
      BY DEF TypeInv
    <3>. QED
      BY <2>3, <3>1, <3>2, EslSent
  <2>. QED
    BY <2>1, <2>4 DEF TypeInv
<1>3. CASE EslExchange
  BY <1>3, ExchangeTypes, EslExchanged DEF TypeInv
<1>4. CASE UNCHANGED vars
  BY <1>4 DEF vars, TypeInv, CallsTyped, Shape, EslTyped
<1>. QED
  BY <1>1, <1>2, <1>3, <1>4 DEF Next, PumpStep

(* The state has the types it is declared with: counters stay in the range *)
(* of the model's bounds, a waiter's result, the buffered text and what is *)
(* kept are utterances, and what is broadcast belongs to a turn begun.     *)
THEOREM TypesHold == Spec => []TypeOK
<1>1. Init => TypeInv
  BY VoiceTurnAssumption, InitKeeps, InitTyped DEF TypeInv
<1>2. TypeInv /\ [Next]_vars => TypeInv'
  BY VoiceTurnAssumption, StepTypes
<1>3. TypeInv => TypeOK
  <2>. SUFFICES ASSUME TypeInv PROVE TypeOK
    OBVIOUS
  <2>1. \A c \in Calls : call[c] \in Call
    BY TypedIsCall DEF TypeInv, CallsTyped, TypedCall
  <2>2. call \in [Calls -> Call]
    BY <2>1 DEF TypeInv, CallsTyped, Shape, IsFcn
  <2>3. synth \in [by : Calls \cup {NoCall}, state : {"none", "run", "cut"}]
    BY DEF TypeInv, IInv, SynthInv, Idle
  <2>4. esl \in Seq([cmd : {"broadcast", "break"}, call : Calls, turn : 0..MaxTurns + 1])
    BY DEF TypeInv, EslTyped, EslCommand
  <2>. QED
    BY <2>2, <2>3, <2>4 DEF TypeOK
<1>. QED
  BY <1>1, <1>2, <1>3, PTL DEF Spec
=============================================================================
