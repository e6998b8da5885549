---------------------------- MODULE VoiceClones ----------------------------
(***************************************************************************)
(* Voice cloning (voice-clones.service.ts): one clone from its upload to   *)
(* the library.  A row, a directory with the uploaded and the synthesised  *)
(* audio, and the voices enrolled in the provider's cloud are written one  *)
(* after the other, with the provider and the voice agent in between, by   *)
(* the requests of Operators side by side.  A cloud voice is [model, no].  *)
(***************************************************************************)
EXTENDS Naturals, FiniteSets

CONSTANTS
    Operators,      \* requests in progress at one time
    Models,         \* the providers a clone can be made for
    Fallback,       \* VOICE_CLONE_PREVIEW_FALLBACK
    MaxVoices,      \* bound: voices enrolled in the cloud
    MaxTries        \* bound: synthesis requests

VARIABLES
    row,            \* the voice_clones row
    source,         \* the uploaded audio is on disk
    preview,        \* the voice of the synthesised audio on disk
    cloud,          \* the voices the provider holds
    at,             \* per operator: the next statement of its request
    seen,           \* per operator: the row its request works from
    voice,          \* per operator: the voice its synthesis speaks with
    heard,          \* per operator: audio has come from the voice agent
    maker,          \* per operator: the request is the one of createPreview
    tries,          \* synthesis requests begun
    raced           \* history: what requests that overlapped, or failed, left behind

vars == <<row, source, preview, cloud, at, seen, voice, heard, maker, tries, raced>>

Absent == [status |-> "absent"]
None == [model |-> "none", no |-> 0]
Local == [model |-> "local", no |-> 0]      \* the id generated here: voice_<16 hex>
Uploaded == [model |-> "source", no |-> 0]  \* the uploaded audio itself
CloudVoices == {[model |-> m, no |-> n] : m \in Models, n \in 1 .. MaxVoices}

Stages == {"idle", "insert", "draft", "enroll", "speak", "store", "record", "failed",
           "confirm", "delete", "erase"}
Synthesizing == {"draft", "enroll", "speak", "store", "record", "failed"}

Init ==
    /\ row = Absent
    /\ source = FALSE
    /\ preview = None
    /\ cloud = {}
    /\ at = [o \in Operators |-> "idle"]
    /\ seen = [o \in Operators |-> Absent]
    /\ voice = [o \in Operators |-> None]
    /\ heard = [o \in Operators |-> FALSE]
    /\ maker = [o \in Operators |-> FALSE]
    /\ tries = 0
    /\ raced = {}

----------------------------------------------------------------------------
Go(o, stage) == at' = [at EXCEPT ![o] = stage]

Done(o) ==
    /\ Go(o, "idle")
    /\ seen' = [seen EXCEPT ![o] = Absent]
    /\ voice' = [voice EXCEPT ![o] = None]
    /\ heard' = [heard EXCEPT ![o] = FALSE]
    /\ maker' = [maker EXCEPT ![o] = FALSE]

Keep == UNCHANGED <<seen, voice, heard, maker>>
Overlaps(o) == \E p \in Operators \ {o} : at[p] \in Synthesizing
Enrolled(o) == voice[o] \in cloud /\ seen[o].voice = Local

\* createRecord: the file first, then the row; one clone is followed, so a
\* second upload is another clone.
Upload(o, asked, m) ==
    /\ at[o] = "idle"
    /\ row = Absent /\ ~source /\ tries = 0
    /\ \A p \in Operators : at[p] = "idle"
    /\ source' = TRUE
    /\ seen' = [seen EXCEPT ![o] =
                  [status |-> asked, model |-> m, voice |-> Local, preview |-> None]]
    /\ Go(o, "insert")
    /\ UNCHANGED <<row, preview, cloud, voice, heard, maker, tries, raced>>

\* create() ends here; createPreview() goes on to synthesize().
Insert(o) ==
    /\ at[o] = "insert"
    /\ row' = seen[o]
    /\ IF seen[o].status = "ready"
       THEN Done(o) /\ UNCHANGED tries
       ELSE /\ Go(o, "enroll")
            /\ voice' = [voice EXCEPT ![o] = Local]
            /\ maker' = [maker EXCEPT ![o] = TRUE]
            /\ tries' = tries + 1
            /\ UNCHANGED <<seen, heard>>
    /\ UNCHANGED <<source, preview, cloud, raced>>

\* synthesize(): findRecord; fields of the draft may come with the request.
Synthesize(o) ==
    /\ at[o] = "idle"
    /\ row # Absent
    /\ tries < MaxTries
    /\ tries' = tries + 1
    /\ seen' = [seen EXCEPT ![o] = row]
    /\ voice' = [voice EXCEPT ![o] = row.voice]
    /\ Go(o, "draft")
    /\ raced' = IF Overlaps(o) THEN raced \cup {"overlap"} ELSE raced
    /\ UNCHANGED <<row, source, preview, cloud, heard, maker>>

\* updatePreviewDraft: nothing to change, refused outside a preview, or the
\* model is changed; the voice id stays whatever it was.
UpdateDraft(o, m) ==
    /\ at[o] = "draft"
    /\ IF m = seen[o].model
       THEN Go(o, "enroll") /\ Keep /\ UNCHANGED <<row, raced>>
       ELSE IF seen[o].status # "preview" \/ row = Absent
       THEN Done(o) /\ UNCHANGED <<row, raced>>
       ELSE /\ row' = [row EXCEPT !.model = m]
            /\ seen' = [seen EXCEPT ![o] = row']
            /\ voice' = [voice EXCEPT ![o] = row.voice]
            /\ raced' = IF row.voice # Local THEN raced \cup {"switched"} ELSE raced
            /\ Go(o, "enroll")
            /\ UNCHANGED <<heard, maker>>
    /\ UNCHANGED <<source, preview, cloud, tries>>

\* requestQwenVoiceClonePreview, requestCosyVoicePreview: an id made here is
\* enrolled with the uploaded audio, any other is taken for a cloud voice.
Enroll(o, answers) ==
    /\ at[o] = "enroll"
    /\ IF seen[o].voice # Local
       THEN Go(o, "speak") /\ UNCHANGED <<cloud, voice>>
       ELSE IF answers /\ source
       THEN \E n \in 1 .. MaxVoices :
              LET v == [model |-> seen[o].model, no |-> n]
              IN  /\ v.no = Cardinality(cloud) + 1
                  /\ cloud' = cloud \cup {v}
                  /\ voice' = [voice EXCEPT ![o] = v]
                  /\ Go(o, "speak")
       ELSE Go(o, "failed") /\ UNCHANGED <<cloud, voice>>
    /\ UNCHANGED <<row, source, preview, seen, heard, maker, tries, raced>>

\* synthesizeViaVoiceAgent: audio frames, then `final`; whichever of final,
\* close, error and the timer comes first settles the promise.
OnAudio(o) ==
    /\ at[o] = "speak" /\ ~heard[o]
    /\ heard' = [heard EXCEPT ![o] = TRUE]
    /\ UNCHANGED <<row, source, preview, cloud, at, seen, voice, maker, tries, raced>>

OnFinal(o) ==
    /\ at[o] = "speak"
    /\ Go(o, IF heard[o] THEN "store" ELSE "failed")
    /\ UNCHANGED <<row, source, preview, cloud, seen, voice, heard, maker, tries, raced>>

Breaks(o) ==
    /\ at[o] = "speak"
    /\ Go(o, "failed")
    /\ UNCHANGED <<row, source, preview, cloud, seen, voice, heard, maker, tries, raced>>

\* writeStorageFile makes the directory again if a removal has taken it.
Store(o) ==
    /\ at[o] = "store"
    /\ preview' = voice[o]
    /\ Go(o, "record")
    /\ raced' = IF row = Absent THEN raced \cup {"removed"} ELSE raced
    /\ UNCHANGED <<row, source, cloud, seen, voice, heard, maker, tries>>

\* The row is updated with the audio, and with the voice when it is new.
Record(o) ==
    /\ at[o] = "record"
    /\ IF row = Absent
       THEN Go(o, "failed") /\ Keep /\ UNCHANGED <<row, raced>>
       ELSE /\ row' = [row EXCEPT !.preview = voice[o],
                           !.voice = IF voice[o] # seen[o].voice THEN voice[o] ELSE @]
            /\ raced' = IF voice[o] # seen[o].voice /\ row.voice # seen[o].voice
                        THEN raced \cup {"replaced"} ELSE raced
            /\ Done(o)
    /\ UNCHANGED <<source, preview, cloud, tries>>

\* The catch of synthesize: the fallback plays the uploaded audio, otherwise
\* 502, and createPreview marks the row failed.  A voice enrolled by this
\* request is in nobody's books.
Fail(o) ==
    /\ at[o] = "failed"
    /\ raced' = IF Enrolled(o) THEN raced \cup {"unrecorded"} ELSE raced
    /\ Done(o)
    /\ row' = IF row = Absent THEN row
              ELSE IF Fallback THEN [row EXCEPT !.preview = Uploaded]
              ELSE IF maker[o] THEN [row EXCEPT !.status = "failed"]
              ELSE row
    /\ UNCHANGED <<source, preview, cloud, tries>>

----------------------------------------------------------------------------
\* confirm(): findRecord, and the write for a row that was a preview.
AskConfirm(o) ==
    /\ at[o] = "idle"
    /\ row # Absent
    /\ row.status = "preview"
    /\ Go(o, "confirm")
    /\ raced' = IF Overlaps(o) THEN raced \cup {"confirmed early"} ELSE raced
    /\ UNCHANGED <<row, source, preview, cloud, seen, voice, heard, maker, tries>>

Confirm(o) ==
    /\ at[o] = "confirm"
    /\ Done(o)
    /\ row' = IF row = Absent THEN row ELSE [row EXCEPT !.status = "ready"]
    /\ raced' = IF row # Absent /\ row.status # "preview"
                THEN raced \cup {"confirmed early"} ELSE raced
    /\ UNCHANGED <<source, preview, cloud, tries>>

\* remove(): findRecord, DELETE, then the directory.  The voice stays enrolled.
Remove(o) ==
    /\ at[o] = "idle"
    /\ row # Absent
    /\ Go(o, "delete")
    /\ UNCHANGED <<row, source, preview, cloud, seen, voice, heard, maker, tries, raced>>

Delete(o) ==
    /\ at[o] = "delete"
    /\ Go(o, IF row = Absent THEN "idle" ELSE "erase")
    /\ row' = Absent
    /\ UNCHANGED <<source, preview, cloud, seen, voice, heard, maker, tries, raced>>

Erase(o) ==
    /\ at[o] = "erase"
    /\ Done(o)
    /\ source' = FALSE
    /\ preview' = None
    /\ UNCHANGED <<row, cloud, tries, raced>>

Next ==
    \E o \in Operators :
        \/ \E asked \in {"ready", "preview"}, m \in Models : Upload(o, asked, m)
        \/ Insert(o) \/ Synthesize(o)
        \/ \E m \in Models : UpdateDraft(o, m)
        \/ \E answers \in BOOLEAN : Enroll(o, answers)
        \/ OnAudio(o) \/ OnFinal(o) \/ Breaks(o)
        \/ Store(o) \/ Record(o) \/ Fail(o)
        \/ AskConfirm(o) \/ Confirm(o)
        \/ Remove(o) \/ Delete(o) \/ Erase(o)

Spec == Init /\ [][Next]_vars

----------------------------------------------------------------------------
Voices == {None, Local, Uploaded} \cup CloudVoices

TypeOK ==
    /\ row = Absent \/ row \in [status : {"preview", "ready", "failed"}, model : Models,
                                voice : {Local} \cup CloudVoices, preview : Voices]
    /\ preview \in {None, Local} \cup CloudVoices
    /\ cloud \subseteq CloudVoices
    /\ at \in [Operators -> Stages]
    /\ tries \in 0 .. MaxTries
    /\ source \in BOOLEAN

Quiet == \A o \in Operators : at[o] \in {"idle", "confirm", "delete"}

\* With no request in progress, the audio a reviewer plays was spoken with the
\* voice the row says, and what the row says is on disk
\* (voice-clones.service.ts:139-153).
PreviewIsOfItsVoice ==
    Quiet /\ row # Absent /\ row.preview \in cloud =>
        \/ preview = row.preview /\ row.voice = row.preview
        \/ raced \cap {"overlap", "removed"} # {}

\* Every voice enrolled in the cloud, which is paid for and counted there, is
\* the row's or a request's, unless the row was removed or a request lost it
\* (voice-clones.service.ts:135-160).
VoicesAccountedFor ==
    \A v \in cloud :
        \/ row # Absent /\ row.voice = v
        \/ \E o \in Operators : voice[o] = v /\ at[o] \in Synthesizing
        \/ row = Absent
        \/ raced \cap {"unrecorded", "replaced"} # {}

\* A voice confirmed after its preview was heard is one the cloud knows, made
\* for the model the row names, unless the model was switched after it was
\* enrolled or requests overlapped (voice-clones.service.ts:164-175, 248-275).
ConfirmedVoiceIsEnrolled ==
    row # Absent /\ row.status = "ready" /\ row.preview \in cloud =>
        \/ row.voice \in cloud /\ row.voice.model = row.model
        \/ raced \cap {"switched", "overlap"} # {}

\* A removed clone leaves no file behind, unless a synthesis was writing one
\* (voice-clones.service.ts:196-200).
RemovedLeavesNothing ==
    Quiet /\ row = Absent => (~source /\ preview = None) \/ "removed" \in raced
============================================================================
