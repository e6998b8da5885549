------------------------------ MODULE KnowledgeBase ------------------------------
(***************************************************************************)
(* The built-in knowledge bases: uploads that read the latest version and  *)
(* then insert the next, and retrievals over several bases whose reads     *)
(* fall between them.  A text is reduced to how many of the query's        *)
(* keywords it contains and, for a text with none of them, how many of a   *)
(* hundred of their characters.                                            *)
(***************************************************************************)
EXTENDS Integers, FiniteSets, SequencesExt

CONSTANTS Bases,      \* knowledge base ids
          Shipped,    \* the bases the program ships with, each with one document
          Texts,      \* contents: [words |-> 0..Keywords, chars |-> 0..100]
          Uploads,    \* upload requests
          Keywords,   \* keywords of the query asked
          TopK        \* topK

VARIABLES stored,     \* rows of knowledgeDocument: [base, version, text, by]
          upload,     \* an upload request: [at, base, text, version, after]
          asked,      \* the bases of the retrieval in progress
          hits,       \* what each of them returned so far
          answer      \* "idle" | "reading" | "missing" | the results

vars == <<stored, upload, asked, hits, answer>>

Document(base, version, text, by) ==
  [base |-> base, version |-> version, text |-> text, by |-> by]
Kept(base) ==
  {d \in stored : d.base = base}
    \cup IF base \in Shipped
         THEN {Document(base, 0, CHOOSE t \in Texts : t.words > 0, "shipped")} ELSE {}

(* scoreContent: the share of keywords found; with none, the share of      *)
(* their characters, when there are enough of them.                        *)
Threshold == 45
Score(text) ==
  IF text.words > 0 THEN (100 * text.words) \div Keywords
  ELSE IF text.chars >= Threshold THEN text.chars ELSE 0

Better(d, e) == Score(d.text) >= Score(e.text)
FirstOf(docs) ==
  LET order == SetToSortSeq({d \in docs : Score(d.text) > 0},
                 LAMBDA d, e : \/ Score(d.text) > Score(e.text)
                               \/ Score(d.text) = Score(e.text) /\ d.version > e.version)
  IN SubSeq(order, 1, IF Len(order) < TopK THEN Len(order) ELSE TopK)

(* retrieve of one base: its best hits, nothing that scores nothing.       *)
Retrieved(base) == FirstOf(Kept(base))

(* retrieveMany: the hits of all bases, best first, cut at topK.           *)
Merged(found) ==
  LET together == UNION {ToSet(found[b]) : b \in DOMAIN found}
      ranked == SetToSortSeq(together,
                  LAMBDA d, e : \/ Score(d.text) > Score(e.text)
                                \/ Score(d.text) = Score(e.text) /\ d.version > e.version)
  IN SubSeq(ranked, 1, IF Len(ranked) < TopK THEN Len(ranked) ELSE TopK)

NoUpload == [at |-> "idle", base |-> CHOOSE b \in Bases : TRUE,
             text |-> CHOOSE t \in Texts : TRUE, version |-> 0, after |-> {}]

Init ==
  /\ stored = {} /\ upload = [u \in Uploads |-> NoUpload]
  /\ asked = {} /\ hits = [b \in Bases |-> <<>>] /\ answer = "idle"

(* The version an upload will write: one above the latest of its base as   *)
(* it stands when the upload looks.                                        *)
NextVersion(base) ==
  LET versions == {d.version : d \in {e \in stored : e.base = base}}
  IN IF versions = {} THEN 1 ELSE 1 + CHOOSE v \in versions : \A w \in versions : v >= w

UploadReads(u, base, text) ==
  /\ upload[u].at = "idle"
  /\ upload' = [upload EXCEPT ![u] = [at |-> "read", base |-> base, text |-> text,
                  version |-> NextVersion(base),
                  after |-> {d.by : d \in {e \in stored : e.base = base}}]]
  /\ UNCHANGED <<stored, asked, hits, answer>>

UploadWrites(u) ==
  /\ upload[u].at = "read"
  /\ stored' = stored \cup
       {Document(upload[u].base, upload[u].version, upload[u].text, u)}
  /\ upload' = [upload EXCEPT ![u].at = "done"]
  /\ UNCHANGED <<asked, hits, answer>>

Retrieve(bases) ==
  /\ answer \notin {"reading"} /\ bases # {}
  /\ asked' = bases /\ hits' = [b \in Bases |-> <<>>]
  /\ answer' = "reading"
  /\ UNCHANGED <<stored, upload>>

(* The bases are read side by side, each at its own moment.  One that has  *)
(* neither documents nor a shipped base is not found, and fails the whole  *)
(* retrieval.                                                              *)
Read(base) ==
  /\ answer = "reading" /\ base \in asked
  /\ IF Kept(base) = {}
     THEN /\ answer' = "missing" /\ asked' = {} /\ UNCHANGED hits
     ELSE /\ hits' = [hits EXCEPT ![base] = Retrieved(base)]
          /\ asked' = asked \ {base}
          /\ UNCHANGED answer
  /\ UNCHANGED <<stored, upload>>

Answer ==
  /\ answer = "reading" /\ asked = {}
  /\ answer' = "answered"
  /\ UNCHANGED <<stored, upload, asked, hits>>

Next ==
  \/ \E u \in Uploads : UploadWrites(u)
       \/ \E base \in Bases, text \in Texts : UploadReads(u, base, text)
  \/ \E bases \in SUBSET Bases : Retrieve(bases)
  \/ \E base \in Bases : Read(base)
  \/ Answer

Spec == Init /\ [][Next]_vars

-----------------------------------------------------------------------------
TypeOK ==
  /\ \A d \in stored : d.base \in Bases /\ d.text \in Texts /\ d.by \in Uploads
  /\ \A u \in Uploads : upload[u].at \in {"idle", "read", "done"}
  /\ asked \subseteq Bases /\ answer \in {"idle", "reading", "missing", "answered"}

(* A document uploaded after another of its base was there has a higher    *)
(* version than it, whatever other uploads ran beside either (two that ran *)
(* beside each other may share one).                                       *)
LaterUploadIsNewer ==
  \A d, e \in stored :
    d.by \in upload[e.by].after /\ d.base = e.base => d.version < e.version

(* Asking several bases at once gives what asking one base of all their    *)
(* documents would: cutting each base's hits at topK first loses nothing   *)
(* that belongs in the answer.  Judged when nothing was uploaded since the *)
(* bases were read.                                                        *)
MergeIsGlobal ==
  answer = "answered" =>
    LET read == {b \in Bases : hits[b] # <<>>}
        all == UNION {Kept(b) : b \in read}
        got == Merged(hits)
    IN (\A b \in read : hits[b] = Retrieved(b))
         => /\ \A i \in DOMAIN got : Score(got[i].text) > 0
            /\ \A d \in all \ ToSet(got) :
                 Score(d.text) > 0 =>
                   /\ Len(got) = TopK
                   /\ \A i \in DOMAIN got : Better(got[i], d)
=============================================================================
