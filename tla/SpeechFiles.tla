------------------------------ MODULE SpeechFiles ------------------------------
(***************************************************************************)
(* The recognition server's requests about whole files: an upload answered *)
(* once, a stream answered sentence by sentence, and texts embedded by a   *)
(* model that the first of them loads.  The models block, so they run on   *)
(* threads, a few at a time per model; a client that leaves its stream     *)
(* cancels the request but not the thread.                                 *)
(***************************************************************************)
EXTENDS Integers, FiniteSets, SequencesExt

CONSTANTS Uploads, Streams, Embeddings,  \* requests
          Segments,   \* bound on the segments voice activity detection finds
          Permits,    \* concurrent calls of one model
          HasVad, HasPunctuation

VARIABLES stage,      \* where a request is
          call,       \* its model call: "none", "queued" or "running"
          files,      \* requests whose temporary file exists
          left,       \* segments a stream still has to recognise, after this one
          told,       \* events a stream has sent
          threads,    \* [model, of] at work
          free,       \* permits of each model
          embedding,  \* model_embed: "none", "ready" or "failed"
          lock,       \* the request that loads it, or Nobody
          loads,      \* loads begun
          gone        \* requests whose client left

vars == <<stage, call, files, left, told, threads, free, embedding, lock, loads, gone>>

Models == {"vad", "asr", "punc"}
Requests == Uploads \cup Streams
Nobody == "nobody"

Init ==
  /\ stage = [r \in Requests \cup Embeddings |-> "new"]
  /\ call = [r \in Requests |-> "none"]
  /\ files = {} /\ left = [r \in Streams |-> 0] /\ told = [r \in Streams |-> <<>>]
  /\ threads = {} /\ free = [m \in Models |-> Permits]
  /\ embedding = "none" /\ lock = Nobody /\ loads = 0 /\ gone = {}

fileVars == <<files, left, told>>
modelVars == <<embedding, lock, loads>>

To(r, where) == stage' = [stage EXCEPT ![r] = where]
Tell(r, event) == told' = [told EXCEPT ![r] = Append(@, event)]

(* The name, the size and the writing of the file may each be refused; an  *)
(* upload's file goes as soon as it was transcoded, a stream's stays.      *)
Save(r) ==
  /\ stage[r] = "new"
  /\ \/ To(r, "saved") /\ files' = files \cup {r} /\ UNCHANGED told
     \/ /\ To(r, "ended") /\ UNCHANGED files
        /\ IF r \in Streams THEN Tell(r, "error") ELSE UNCHANGED told
  /\ UNCHANGED <<call, left, threads, free, modelVars, gone>>

(* ffmpeg runs in the event loop: no other request moves meanwhile.        *)
TranscodeUpload(r) ==
  /\ r \in Uploads /\ stage[r] = "saved"
  /\ files' = files \ {r}
  /\ stage' \in {[stage EXCEPT ![r] = s] : s \in {"asr", "ended"}}
  /\ call' = [call EXCEPT ![r] = IF stage'[r] = "asr" THEN "queued" ELSE "none"]
  /\ UNCHANGED <<left, told, threads, free, modelVars, gone>>

EndStream(r, event) == To(r, "ended") /\ files' = files \ {r} /\ Tell(r, event)

TranscodeStream(r) ==
  /\ r \in Streams /\ stage[r] = "saved"
  /\ \/ /\ HasVad /\ To(r, "vad") /\ call' = [call EXCEPT ![r] = "queued"]
        /\ UNCHANGED <<files, told>>
     \/ EndStream(r, "error") /\ UNCHANGED call
  /\ UNCHANGED <<left, threads, free, modelVars, gone>>

(* run_blocking: a permit, then a thread.                                  *)
StartCall(r) ==
  /\ call[r] = "queued" /\ free[stage[r]] > 0
  /\ free' = [free EXCEPT ![stage[r]] = @ - 1]
  /\ call' = [call EXCEPT ![r] = "running"]
  /\ threads' = threads \cup {[model |-> stage[r], of |-> r]}
  /\ UNCHANGED <<stage, fileVars, modelVars, gone>>

Return(r, well) ==
  /\ call[r] = "running"
  /\ threads' = threads \ {[model |-> stage[r], of |-> r]}
  /\ free' = [free EXCEPT ![stage[r]] = @ + 1]

(* The next segment of a stream, or its end.                               *)
NextSegment(r, event) ==
  LET so == IF event = "none" THEN told[r] ELSE Append(told[r], event)
  IN IF left[r] > 0
     THEN /\ left' = [left EXCEPT ![r] = @ - 1] /\ To(r, "asr")
          /\ call' = [call EXCEPT ![r] = "queued"]
          /\ told' = [told EXCEPT ![r] = so] /\ UNCHANGED files
     ELSE /\ To(r, "ended") /\ files' = files \ {r}
          /\ told' = [told EXCEPT ![r] = Append(so, "done")]
          /\ call' = [call EXCEPT ![r] = "none"] /\ UNCHANGED left

(* Voice activity detection finds the segments of a stream, or fails.      *)
SegmentsFound(r) ==
  /\ r \in Streams /\ stage[r] = "vad"
  /\ \/ \E n \in 0..Segments :
          /\ Return(r, TRUE)
          /\ IF n = 0
             THEN /\ To(r, "ended") /\ files' = files \ {r}
                  /\ told' = [told EXCEPT ![r] = @ \o <<"vad", "done">>]
                  /\ call' = [call EXCEPT ![r] = "none"] /\ UNCHANGED left
             ELSE /\ left' = [left EXCEPT ![r] = n - 1] /\ To(r, "asr") /\ Tell(r, "vad")
                  /\ call' = [call EXCEPT ![r] = "queued"] /\ UNCHANGED files
     \/ /\ Return(r, FALSE) /\ EndStream(r, "error")
        /\ call' = [call EXCEPT ![r] = "none"] /\ UNCHANGED left
  /\ UNCHANGED <<modelVars, gone>>

(* A segment was recognised, as nothing, or not at all.  A text gets its   *)
(* punctuation when there is a model for it.                               *)
StreamRecognised(r) ==
  /\ r \in Streams /\ stage[r] = "asr"
  /\ \/ /\ Return(r, TRUE)
        /\ IF HasPunctuation
           THEN /\ To(r, "punc") /\ call' = [call EXCEPT ![r] = "queued"]
                /\ UNCHANGED fileVars
           ELSE NextSegment(r, "sentence")
     \/ Return(r, TRUE) /\ NextSegment(r, "none")
     \/ Return(r, FALSE) /\ NextSegment(r, "error")
  /\ UNCHANGED <<modelVars, gone>>

StreamPunctuated(r) ==
  /\ r \in Streams /\ stage[r] = "punc"
  /\ \E well \in BOOLEAN : Return(r, well)
  /\ NextSegment(r, "sentence")
  /\ UNCHANGED <<modelVars, gone>>

UploadRecognised(r) ==
  /\ r \in Uploads /\ stage[r] \in {"asr", "punc"}
  /\ \E well \in BOOLEAN :
       /\ Return(r, well)
       /\ \/ /\ stage[r] = "asr" /\ well /\ HasPunctuation
             /\ To(r, "punc") /\ call' = [call EXCEPT ![r] = "queued"]
          \/ To(r, "ended") /\ call' = [call EXCEPT ![r] = "none"]
  /\ UNCHANGED <<fileVars, modelVars, gone>>

(* The slip of giving back a permit that was only waited for.              *)
LeavesWithPermit(r) ==
  /\ r \in Streams /\ stage[r] \notin {"new", "ended"} /\ To(r, "ended")
  /\ call' = [call EXCEPT ![r] = "none"] /\ gone' = gone \cup {r}
  /\ free' = IF call[r] # "none" THEN [free EXCEPT ![stage[r]] = @ + 1] ELSE free
  /\ files' = files \ {r}
  /\ UNCHANGED <<left, told, threads, modelVars>>

(* The client leaves a stream: its request is cancelled where it awaits,   *)
(* gives its permit back and removes its file; the thread goes on.         *)
Leaves(r) ==
  /\ r \in Streams /\ stage[r] \notin {"new", "ended"} /\ To(r, "ended")
  /\ call' = [call EXCEPT ![r] = "none"] /\ gone' = gone \cup {r}
  /\ free' = IF call[r] = "running" THEN [free EXCEPT ![stage[r]] = @ + 1] ELSE free
  /\ files' = files \ {r}
  /\ UNCHANGED <<left, told, threads, modelVars>>

OrphanEnds(t) ==
  /\ t \in threads /\ t.of \in gone /\ threads' = threads \ {t}
  /\ UNCHANGED <<stage, call, fileVars, free, modelVars, gone>>

-----------------------------------------------------------------------------
embedVars == <<call, fileVars, threads, free, gone>>

(* ensure_embed_model: who finds no model waits for the lock.              *)
EmbedAsks(r) ==
  /\ r \in Embeddings /\ stage[r] = "new"
  /\ To(r, IF embedding = "none" THEN "locking"
           ELSE IF embedding = "ready" THEN "ended" ELSE "refused")
  /\ UNCHANGED <<embedVars, modelVars>>

EmbedLocks(r) ==
  /\ r \in Embeddings /\ stage[r] = "locking" /\ lock = Nobody
  /\ IF embedding = "none"
     THEN lock' = r /\ loads' = loads + 1 /\ To(r, "loading")
     ELSE /\ To(r, IF embedding = "ready" THEN "ended" ELSE "refused")
          /\ UNCHANGED <<lock, loads>>
  /\ UNCHANGED <<embedVars, embedding>>

(* A load that failed is not tried again.                                  *)
EmbedLoaded(r) ==
  /\ r \in Embeddings /\ stage[r] = "loading"
  /\ embedding' \in {"ready", "failed"} /\ lock' = Nobody
  /\ To(r, IF embedding' = "ready" THEN "ended" ELSE "refused")
  /\ UNCHANGED <<embedVars, loads>>

Progress ==
  \/ \E r \in Requests :
       \/ Save(r) \/ TranscodeUpload(r) \/ TranscodeStream(r) \/ StartCall(r)
       \/ SegmentsFound(r) \/ StreamRecognised(r) \/ StreamPunctuated(r)
       \/ UploadRecognised(r)
  \/ \E t \in threads : OrphanEnds(t)
  \/ \E r \in Embeddings : EmbedAsks(r) \/ EmbedLocks(r) \/ EmbedLoaded(r)

Next == Progress \/ \E r \in Streams : Leaves(r)

Spec == Init /\ [][Next]_vars


-----------------------------------------------------------------------------
TypeOK ==
  /\ files \subseteq Requests /\ loads \in 0..Cardinality(Embeddings)
  /\ \A m \in Models : free[m] \in 0..Permits
  /\ \A r \in Requests : call[r] \in {"none", "queued", "running"}
  /\ embedding \in {"none", "ready", "failed"} /\ lock \in Embeddings \cup {Nobody}

(* Nothing outlives its request but the thread of a client that left: each *)
(* permit that is out is held by a running call, each temporary file and   *)
(* each other thread belongs to a request that has not ended.              *)
NothingLeaks ==
  /\ \A m \in Models :
       Permits - free[m] = Cardinality({r \in Requests : call[r] = "running" /\ stage[r] = m})
  /\ \A r \in files : stage[r] # "ended"
  /\ \A t \in threads : t.of \in gone \/ (call[t.of] = "running" /\ stage[t.of] = t.model)

(* What a stream is told: its segments once, then at most one event for    *)
(* each, and the end last; one that was not left has been told the end.    *)
StreamsAreWhole ==
  \A r \in Streams :
    LET Times(event) == Cardinality({i \in DOMAIN told[r] : told[r][i] = event})
    IN /\ Times("vad") <= 1 /\ Times("done") <= 1
       /\ Times("sentence") <= Segments * Times("vad")
       /\ Times("done") = 1 => Last(told[r]) = "done"
       /\ stage[r] = "ended" /\ r \notin gone => Last(told[r]) \in {"done", "error"}

(* The embedding model is loaded once, however many ask at the start.      *)
EmbedModelLoadedOnce == loads <= 1

(* Every request is answered or left: no permit and no lock is kept from   *)
(* those that wait.  To come to hold.                                      *)
RequestsEnded == \A r \in Requests \cup Embeddings : stage[r] \in {"ended", "refused"}
=============================================================================
