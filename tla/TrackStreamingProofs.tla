-------------------------- MODULE TrackStreamingProofs --------------------------
(***************************************************************************)
(* Proofs about TrackStreaming, for every value of its constants.          *)
(*                                                                         *)
(* They rest on the inductive invariant of the pipeline, to which a        *)
(* request for a file adds nothing, since it only reads.  What has to be   *)
(* added is about the worker: once a track has its presets, no goroutine   *)
(* holds a row of it any more and none will, so that the files a request   *)
(* has been pointed to are not written again under it.                     *)
(***************************************************************************)
EXTENDS TrackStreaming, TranscodingPipelineProofs

\* No row of r's track in the table is older than r.
Current(r) == \A q \in queue : q.track = r.track => r.id <= q.id

\* The producer's cursor stands between the row of the job and those of the page.
CursorInv ==
    \A w \in Workers :
        /\ producer[w] # "sending" => page[w] = {}
        /\ producer[w] = "none" => job[w] = "idle"
        /\ \A r \in page[w] : lastElementID[w] < r.id /\ Current(r)
        /\ \A r, s \in page[w] : r.id = s.id => r = s
        /\ jobRow[w] # NoRow =>
               jobRow[w].id <= lastElementID[w] /\ Current(jobRow[w])

\* Nothing is left that could transcode t, and nothing will put it in the queue.
Settled(t) ==
    /\ upload[t] \notin {"idle", "put", "enqueue"}
    /\ ~Queued(t)
    /\ \A w \in Workers :
           /\ \A r \in page[w] : r.track # t
           /\ jobRow[w] # NoRow => jobRow[w].track # t

SettledInv == \A t \in Tracks : presets[t] # {} => Settled(t)

OriginalInv ==
    \A t \in Tracks :
        /\ objects[t][Original] # "partial"
        /\ upload[t] \in {"signal", "done"} /\ deletion[t] = "idle" =>
               objects[t][Original] = "whole"

\* The files of one track.
FilesOf(t) == {t} \X Kinds

Info == [file : Tracks \X Kinds, content : Content]

StreamOK ==
    \/ stream = NoStream
    \/ stream \in [stage : {"access", "info"}, track : Tracks, file : Tracks \X Kinds,
                   includeReader : BOOLEAN]
    \/ stream \in [stage : {"checksum"}, track : Tracks, file : Tracks \X Kinds,
                   includeReader : BOOLEAN, headers : SUBSET Info]
    \/ stream \in [stage : {"content"}, track : Tracks, file : Tracks \X Kinds,
                   headers : SUBSET Info]

\* What is in the bucket under the file that a request for t has chosen.
Offered(t, file) ==
    /\ file \in FilesOf(t)
    /\ deletion[t] = "idle" =>
           \/ upload[t] = "put" /\ file[2] = Original
           \/ upload[t] = "failed"
           \/ objects[t][file[2]] # "none"
    /\ file[2] \in Presets => Settled(t)

\* What a request has been told of a file is what is still there, if it is there.
Described(t, file, headers) ==
    /\ \A i \in headers :
           /\ i.file = file
           /\ i.content # "none"
           /\ file[2] = Original => i.content = "whole"
           /\ objects[t][file[2]] \in {"none", i.content}
    /\ \A i, j \in headers : i = j

StreamInv ==
    /\ StreamOK
    /\ stream.stage # "idle" => Offered(stream.track, stream.file)
    /\ stream.stage \in {"checksum", "content"} =>
           Described(stream.track, stream.file, stream.headers)

-------------------------------------------------------------------------------
(* The worker's cursor.                                                     *)

\* A row that was not younger than its track's row in the table stays so: rows
\* that are put in later get higher ids.
LEMMA CurrentStays ==
    ASSUME TypeOK, QueueStep, NEW r \in PageRow, Agrees(r), Current(r)
    PROVE  Current(r)'
<1>1. nextID \in Nat /\ r.id \in Nat /\ queue \in SUBSET QueueRow
  BY DEF TypeOK, PageRow
<1>2. ASSUME NEW q \in queue', q.track = r.track PROVE r.id <= q.id
  <2>1. CASE q \in queue
    BY <1>2, <2>1 DEF Current
  <2>2. CASE q \notin queue
    BY <1>1, <2>2 DEF QueueStep, Agrees
  <2>3. QED
    BY <2>1, <2>2
<1>3. QED
  BY <1>2 DEF Current

\* CursorInv for the rows that are held, which goes with the table; the rest
\* goes with the worker's own variables.
HeldCurrent ==
    \A w \in Workers :
        /\ \A r \in page[w] : Current(r)
        /\ jobRow[w] # NoRow => Current(jobRow[w])

CursorPlace ==
    \A w \in Workers :
        /\ producer[w] # "sending" => page[w] = {}
        /\ producer[w] = "none" => job[w] = "idle"
        /\ \A r \in page[w] : lastElementID[w] < r.id
        /\ \A r, s \in page[w] : r.id = s.id => r = s
        /\ jobRow[w] # NoRow => jobRow[w].id <= lastElementID[w]

\* CursorInv is these two together.
LEMMA CursorParts == CursorInv <=> HeldCurrent /\ CursorPlace
BY DEF CursorInv, HeldCurrent, CursorPlace

\* The rows held stay current: they come from the table or were held before.
LEMMA HeldCurrentInductive ==
    ASSUME TypeOK, RowInv, DBInv, HeldCurrent, [Next]_vars
    PROVE  HeldCurrent'
<1>0. /\ queue \in SUBSET QueueRow
      /\ page \in [Workers -> SUBSET PageRow]
      /\ jobRow \in [Workers -> PageRow \union {NoRow}]
      /\ QueueStep
  BY QueueStepping DEF TypeOK
<1>1. ASSUME NEW w \in Workers, NEW r \in page'[w] PROVE Current(r)'
  <2>1. HeldStep(w)
    BY HeldStepping
  <2>2. CASE r \in page[w]
    <3>1. r \in PageRow /\ Agrees(r) /\ Current(r)
      BY <1>0, <2>2 DEF RowInv, HeldCurrent
    <3>2. QED
      BY <1>0, <3>1, CurrentStays
  <2>3. CASE \E q \in queue : r = [id |-> q.id, track |-> q.track]
    <3>1. PICK q \in queue : r = [id |-> q.id, track |-> q.track]
      BY <2>3
    <3>2. r \in PageRow /\ r.id = q.id /\ r.track = q.track /\ q.id \in Nat
      BY <1>0, <3>1 DEF QueueRow, PageRow
    <3>3. Agrees(r) /\ Current(r)
      BY <3>2 DEF RowInv, Agrees, Current, DBInv, OneLiveRowPerTrack
    <3>4. QED
      BY <1>0, <3>2, <3>3, CurrentStays
  <2>4. QED
    BY <2>1, <2>2, <2>3 DEF HeldStep
<1>2. ASSUME NEW w \in Workers, jobRow'[w] # NoRow PROVE Current(jobRow[w])'
  <2>1. PICK r : r = jobRow'[w]
    OBVIOUS
  <2>2. HeldStep(w)
    BY HeldStepping
  <2>3. r \in PageRow /\ Agrees(r) /\ Current(r)
    BY <1>0, <1>2, <2>1, <2>2 DEF HeldStep, RowInv, HeldCurrent
  <2>4. Current(r)'
    BY <1>0, <2>3, CurrentStays
  <2>5. QED
    BY <2>1, <2>4 DEF Current
<1>3. QED
  BY <1>1, <1>2 DEF HeldCurrent

\* A producer's steps and the ends of jobs keep the cursor in its place.
LEMMA CursorPlaceInductive ==
    ASSUME TypeOK, RowInv, CursorPlace, [Next]_vars
    PROVE  CursorPlace'
<1>0. /\ queue \in SUBSET QueueRow
      /\ job \in [Workers -> JobStages]
      /\ producer \in [Workers -> ProducerStages]
      /\ page \in [Workers -> SUBSET PageRow]
      /\ lastElementID \in [Workers -> Nat]
      /\ jobRow \in [Workers -> PageRow \union {NoRow}]
      /\ \A w \in Workers : job[w] = "idle" <=> jobRow[w] = NoRow
  BY DEF TypeOK, RowInv
<1>1. ASSUME UNCHANGED <<producerVars, jobVars>> PROVE CursorPlace'
  BY <1>1 DEF CursorPlace, producerVars, jobVars
<1>2. ASSUME NEW w \in Workers, job[w] # "idle", NEW stage, NEW left,
             UNCHANGED producerVars, GoOn(w, stage, left)
      PROVE  CursorPlace'
  BY <1>0, <1>2 DEF CursorPlace, producerVars, GoOn
<1>3. ASSUME NEW w \in Workers, UNCHANGED producerVars, Return(w) PROVE CursorPlace'
  BY <1>0, <1>3 DEF CursorPlace, producerVars, Return
<1>4. ASSUME checkAndLaunchWorker, UNCHANGED jobVars PROVE CursorPlace'
  <2>1. CASE UNCHANGED producerVars
    BY <1>1, <1>4, <2>1
  <2>2. CASE startWorker
    BY <1>0, <1>4, <2>2 DEF startWorker, CursorPlace, jobVars
  <2>3. QED
    BY <1>4, <2>1, <2>2 DEF checkAndLaunchWorker
<1>5. ASSUME NEW t \in Tracks,
             \/ CreateTrack(t) \/ UploadStep(t) \/ ReceiveSignal(t)
             \/ DeleteTrack(t) \/ DeletionStep(t) \/ removeTmpFiles(t)
      PROVE  CursorPlace'
  <2>1. CASE CreateTrack(t) \/ UploadStep(t) \/ removeTmpFiles(t)
    BY <1>1, <2>1 DEF CreateTrack, UploadStep, PutOriginal, PutOriginalFails,
       AddToTranscodingQueue, AddToTranscodingQueueFails, removeTmpFiles, workerVars
  <2>2. CASE DeleteTrack(t) \/ DeletionStep(t)
    BY <1>1, <2>2 DEF DeleteTrack, DeletionStep, RemovePresetObject,
       RemoveOriginalObject, RemoveObjectFails, DeleteTrackRow, DeletionFrame, workerVars
  <2>3. CASE ReceiveSignal(t)
    BY <1>4, <2>3 DEF ReceiveSignal
  <2>4. QED
    BY <1>5, <2>1, <2>2, <2>3
<1>6. ASSUME NEW w \in Workers, ReadPage(w) PROVE CursorPlace'
  <2>1. PICK rows : rows = FirstRows(RowsAfter(lastElementID[w]), PageSize)
    OBVIOUS
  <2>2. /\ page' = [page EXCEPT ![w] = rows]
        /\ producer' = [producer EXCEPT ![w] = IF rows = {} THEN "closed" ELSE "sending"]
        /\ producer[w] = "reading"
        /\ UNCHANGED <<lastElementID, job, jobRow>>
    BY <1>6, <2>1 DEF ReadPage, jobVars
  <2>3. \A r \in rows : \E q \in queue :
            r = [id |-> q.id, track |-> q.track] /\ q.id > lastElementID[w]
    BY <2>1 DEF FirstRows, RowsAfter
  <2>4. \A r \in rows : lastElementID[w] < r.id
    <3>1. \A q \in queue : q.id \in Nat
      BY <1>0 DEF QueueRow
    <3>2. QED
      BY <1>0, <2>3, <3>1
  <2>5. \A r, s \in rows : r.id = s.id => r = s
    BY <2>3 DEF RowInv
  <2>6. QED
    BY <1>0, <2>2, <2>4, <2>5 DEF CursorPlace
<1>7. ASSUME NEW w \in Workers, TakeRow(w) PROVE CursorPlace'
  <2>1. PICK r \in page[w] :
            /\ \A s \in page[w] : r.id <= s.id
            /\ page' = [page EXCEPT ![w] = @ \ {r}]
            /\ lastElementID' = [lastElementID EXCEPT ![w] = r.id]
            /\ jobRow' = [jobRow EXCEPT ![w] = r]
            /\ producer' = [producer EXCEPT ![w] =
                                IF page[w] # {r} THEN "sending"
                                ELSE IF pageFull[w] THEN "reading" ELSE "closed"]
    BY <1>7 DEF TakeRow
  <2>2. job' = [job EXCEPT ![w] = "fetch"] /\ producer[w] = "sending"
    BY <1>7 DEF TakeRow
  <2>3. \A s \in page[w] : s.id \in Nat
    BY <1>0 DEF PageRow
  <2>4. \A s \in page'[w] : r.id < s.id /\ s \in page[w]
    BY <1>0, <2>1, <2>3 DEF CursorPlace
  <2>5. producer'[w] # "sending" => page'[w] = {}
    BY <1>0, <2>1
  <2>6. producer'[w] # "none"
    BY <1>0, <2>1
  <2>7. ASSUME NEW v \in Workers
        PROVE  /\ producer'[v] # "sending" => page'[v] = {}
               /\ producer'[v] = "none" => job'[v] = "idle"
               /\ \A s \in page'[v] : lastElementID'[v] < s.id
               /\ \A q, s \in page'[v] : q.id = s.id => q = s
               /\ jobRow'[v] # NoRow => jobRow'[v].id <= lastElementID'[v]
    <3>1. CASE v = w
      BY <1>0, <2>1, <2>3, <2>4, <2>5, <2>6, <3>1 DEF CursorPlace
    <3>2. CASE v # w
      BY <1>0, <2>1, <2>2, <3>2 DEF CursorPlace
    <3>3. QED
      BY <3>1, <3>2
  <2>8. QED
    BY <2>7 DEF CursorPlace
<1>8. ASSUME NEW w \in Workers, ReadPageFails(w) \/ WorkerEnds(w) PROVE CursorPlace'
  <2>1. CASE ReadPageFails(w)
    BY <1>0, <2>1 DEF ReadPageFails, CursorPlace, jobVars
  <2>2. CASE WorkerEnds(w)
    BY <1>0, <2>2 DEF WorkerEnds, CursorPlace, jobVars
  <2>3. QED
    BY <1>8, <2>1, <2>2
<1>9. ASSUME NEW w \in Workers, JobStep(w) PROVE CursorPlace'
  <2>1. CASE FetchOriginal(w) \/ TranscodeTimesOut(w)
    BY <1>2, <2>1 DEF FetchOriginal, TranscodeTimesOut, At, JobFrame
  <2>2. CASE \/ FetchOriginalFails(w) \/ OnFailedTranscoding(w)
             \/ RemoveFromQueueAndUpdateTrack(w)
    BY <1>3, <2>2 DEF FetchOriginalFails, OnFailedTranscoding,
       RemoveFromQueueAndUpdateTrack, JobFrame
  <2>3. ASSUME NEW p \in Presets, TranscodePreset(w, p) \/ UploadPreset(w, p)
        PROVE  CursorPlace'
    BY <1>2, <1>3, <2>3 DEF TranscodePreset, UploadPreset, At, JobFrame
  <2>4. CASE ProbeDuration(w)
    BY <1>2, <1>3, <2>4 DEF ProbeDuration, At, JobFrame
  <2>5. QED
    BY <1>9, <2>1, <2>2, <2>3, <2>4 DEF JobStep
<1>10. CASE Exit
  BY <1>0, <1>10 DEF Exit, CursorPlace
<1>11. CASE ReceiveTick
  BY <1>4, <1>11 DEF ReceiveTick
<1>12. CASE ListenerExits \/ Stop \/ Restart \/ UNCHANGED vars
  BY <1>1, <1>12 DEF ListenerExits, Stop, Restart, vars, workerVars
<1>13. QED
  BY <1>5, <1>6, <1>7, <1>8, <1>9, <1>10, <1>11, <1>12 DEF Next, ProducerStep

-------------------------------------------------------------------------------
(* How one step changes an upload, an original, and a preset's object.       *)
UploadMove(t) ==
    \/ upload'[t] = upload[t]
    \/ upload[t] = "idle" /\ upload'[t] \in {"put", "failed"}
    \/ upload[t] = "put" /\ upload'[t] = "enqueue" /\ objects'[t][Original] = "whole"
    \/ upload[t] = "put" /\ upload'[t] = "failed"
    \/ upload[t] = "enqueue" /\ upload'[t] \in {"signal", "failed"}
    \/ upload[t] = "signal" /\ upload'[t] \in {"done", "failed"}

OriginalMove(t) == objects'[t][Original] \in {objects[t][Original], "none", "whole"}

PresetMove(t) ==
    \/ \E w \in Workers : jobRow[w] # NoRow /\ jobRow[w].track = t
    \/ \A p \in Presets : objects'[t][p] \in {objects[t][p], "none"}

\* Every step does one of these to each track.
LEMMA FilesStepping ==
    ASSUME TypeOK, RowInv, [Next]_vars, NEW u \in Tracks
    PROVE  UploadMove(u) /\ OriginalMove(u) /\ PresetMove(u)
<1> DEFINE Moves == UploadMove(u) /\ OriginalMove(u) /\ PresetMove(u)
<1>0. /\ objects \in Files
      /\ upload \in [Tracks -> UploadStages]
      /\ jobRow \in [Workers -> PageRow \union {NoRow}]
      /\ \A w \in Workers : job[w] = "idle" <=> jobRow[w] = NoRow
  BY DEF TypeOK, RowInv
<1>1. ASSUME UNCHANGED <<upload, objects>> PROVE Moves
  BY <1>1 DEF UploadMove, OriginalMove, PresetMove
<1>2. ASSUME NEW t \in Tracks, NEW from, NEW to, UploadTo(t, from, to),
             UNCHANGED objects,
             \/ from = "idle" /\ to \in {"put", "failed"}
             \/ from = "enqueue" /\ to \in {"signal", "failed"}
             \/ from = "signal" /\ to = "done"
      PROVE  Moves
  BY <1>0, <1>2 DEF UploadTo, UploadMove, OriginalMove, PresetMove
<1>3. ASSUME NEW t \in Tracks, PutOriginal(t) PROVE Moves
  BY <1>0, <1>3, ConstantsAssumption DEF PutOriginal, UploadTo, Files, Kinds,
     UploadMove, OriginalMove, PresetMove
<1>4. ASSUME NEW t \in Tracks, PutOriginalFails(t) PROVE Moves
  <2>1. PICK c \in {objects[t][Original], "whole"} :
            objects' = [objects EXCEPT ![t][Original] = c]
    BY <1>4 DEF PutOriginalFails
  <2>2. upload[t] = "put" /\ upload' = [upload EXCEPT ![t] = "failed"]
    BY <1>4 DEF PutOriginalFails, UploadTo
  <2>3. QED
    BY <1>0, <2>1, <2>2, ConstantsAssumption DEF Files, Kinds,
       UploadMove, OriginalMove, PresetMove
<1>5. ASSUME NEW t \in Tracks,
             \/ CreateTrack(t) \/ UploadStep(t) \/ ReceiveSignal(t) \/ removeTmpFiles(t)
      PROVE  Moves
  <2>1. CASE CreateTrack(t)
    BY <1>2, <2>1 DEF CreateTrack, fileVars
  <2>2. CASE AddToTranscodingQueue(t) \/ AddToTranscodingQueueFails(t)
    BY <1>2, <2>2 DEF AddToTranscodingQueue, AddToTranscodingQueueFails, fileVars
  <2>3. CASE ReceiveSignal(t)
    BY <1>2, <2>3 DEF ReceiveSignal, fileVars
  <2>4. CASE removeTmpFiles(t)
    BY <1>1, <2>4 DEF removeTmpFiles, requestVars
  <2>5. QED
    BY <1>3, <1>4, <1>5, <2>1, <2>2, <2>3, <2>4 DEF UploadStep
<1>6. ASSUME NEW t \in Tracks, DeleteTrack(t) \/ DeletionStep(t) PROVE Moves
  <2>0. UNCHANGED upload
    BY <1>6 DEF DeleteTrack, DeletionStep, RemovePresetObject, RemoveOriginalObject,
       RemoveObjectFails, DeleteTrackRow, DeletionFrame
  <2>1. CASE UNCHANGED objects
    BY <1>1, <2>0, <2>1
  <2>2. CASE RemoveObjectFails(t)
    <3>1. PICK gone \in SUBSET (IF doomed[t] = {} THEN {<<t, Original>>} ELSE doomed[t]) :
              objects' = [s \in Tracks |-> [k \in Kinds |->
                              IF <<s, k>> \in gone THEN "none" ELSE objects[s][k]]]
      BY <2>2 DEF RemoveObjectFails
    <3>2. \A k \in Kinds : objects'[u][k] \in {objects[u][k], "none"}
      BY <3>1
    <3>3. QED
      BY <2>0, <3>2 DEF Kinds, UploadMove, OriginalMove, PresetMove
  <2>3. ASSUME NEW s \in Tracks, NEW k \in Kinds, objects' = [objects EXCEPT ![s][k] = "none"]
        PROVE  Moves
    BY <1>0, <2>0, <2>3 DEF Files, Kinds, UploadMove, OriginalMove, PresetMove
  <2>4. CASE RemoveOriginalObject(t)
    BY <2>3, <2>4 DEF RemoveOriginalObject, Kinds
  <2>5. ASSUME NEW n \in Names, RemovePresetObject(t, n) PROVE Moves
    <3>1. n[1] \in Tracks /\ n[2] \in Presets
      BY DEF Names
    <3>2. QED
      BY <2>3, <2>5, <3>1 DEF RemovePresetObject, Kinds
  <2>6. CASE DeleteTrack(t) \/ DeleteTrackRow(t)
    BY <2>1, <2>6 DEF DeleteTrack, DeleteTrackRow
  <2>7. QED
    BY <1>6, <2>2, <2>4, <2>5, <2>6 DEF DeletionStep
<1>7. ASSUME NEW w \in Workers, NEW p \in Presets, UploadPreset(w, p) PROVE Moves
  <2>0. UNCHANGED upload
    BY <1>7 DEF UploadPreset, JobFrame, requestVars
  <2>1. CASE UNCHANGED objects
    BY <1>1, <2>0, <2>1
  <2>2. CASE objects' = [objects EXCEPT ![jobRow[w].track][p] = tmp[jobRow[w].track][p]]
    <3>1. jobRow[w] # NoRow
      BY <1>0, <1>7 DEF UploadPreset, At
    <3>2. p # Original
      BY ConstantsAssumption
    <3>3. QED
      BY <1>0, <2>0, <2>2, <3>1, <3>2 DEF Files, Kinds,
         UploadMove, OriginalMove, PresetMove
  <2>3. QED
    BY <1>7, <2>1, <2>2 DEF UploadPreset
<1>8. ASSUME NEW w \in Workers,
             ProducerStep(w) \/ TakeRow(w) \/ JobStep(w) \/ WorkerEnds(w)
      PROVE  Moves
  <2>1. CASE ProducerStep(w) \/ TakeRow(w) \/ WorkerEnds(w)
    BY <1>1, <2>1 DEF ProducerStep, ReadPage, ReadPageFails, TakeRow, WorkerEnds,
       fileVars, requestVars
  <2>2. CASE \/ FetchOriginal(w) \/ FetchOriginalFails(w) \/ ProbeDuration(w)
             \/ TranscodeTimesOut(w) \/ OnFailedTranscoding(w)
             \/ RemoveFromQueueAndUpdateTrack(w)
             \/ \E p \in Presets : TranscodePreset(w, p)
    BY <1>1, <2>2 DEF FetchOriginal, FetchOriginalFails, ProbeDuration,
       TranscodeTimesOut, TranscodePreset, OnFailedTranscoding,
       RemoveFromQueueAndUpdateTrack, JobFrame, requestVars
  <2>3. QED
    BY <1>7, <1>8, <2>1, <2>2 DEF JobStep
<1>9. CASE Exit
  BY <1>0, <1>9 DEF Exit, UploadMove, OriginalMove, PresetMove
<1>10. CASE ReceiveTick \/ ListenerExits \/ Stop \/ Restart \/ UNCHANGED vars
  BY <1>1, <1>10 DEF ReceiveTick, ListenerExits, Stop, Restart, vars, fileVars, requestVars
<1>11. QED
  BY <1>5, <1>6, <1>8, <1>9, <1>10 DEF Next

\* Originals are whole or absent, and stored once the upload is beyond storing.
LEMMA OriginalInvInductive ==
    ASSUME IInv, OriginalInv, [Next]_vars
    PROVE  OriginalInv'
<1>1. ASSUME NEW t \in Tracks
      PROVE  /\ objects'[t][Original] # "partial"
             /\ upload'[t] \in {"signal", "done"} /\ deletion'[t] = "idle" =>
                    objects'[t][Original] = "whole"
  <2>1. UploadMove(t) /\ OriginalMove(t) /\ StorageStep
    BY FilesStepping, StorageStepping DEF IInv, FileInv
  <2>2. deletion'[t] = "idle" =>
            /\ deletion[t] = "idle"
            /\ objects[t][Original] = "whole" => objects'[t][Original] = "whole"
    BY <2>1 DEF StorageStep
  <2>3. upload[t] = "enqueue" /\ deletion[t] = "idle" => objects[t][Original] = "whole"
    BY DEF IInv, FileInv
  <2>4. QED
    BY <2>1, <2>2, <2>3 DEF UploadMove, OriginalMove, OriginalInv
<1>2. QED
  BY <1>1 DEF OriginalInv

-------------------------------------------------------------------------------
(* Tracks that have their presets.                                          *)

\* A track that is settled stays settled: rows are put in only by its upload or
\* for a row that is there, and goroutines read only rows that are there.
LEMMA SettledStays ==
    ASSUME IInv, [Next]_vars, NEW t \in Tracks, Settled(t)
    PROVE  Settled(t)'
<1>0. /\ jobRow \in [Workers -> PageRow \union {NoRow}]
      /\ page \in [Workers -> SUBSET PageRow]
      /\ upload \in [Tracks -> UploadStages]
      /\ \A q \in queue : q.track # t
  BY DEF IInv, TypeOK, Settled, Queued, RowsOf
<1>1. upload'[t] \notin {"idle", "put", "enqueue"}
  <2>1. UploadMove(t)
    BY FilesStepping DEF IInv
  <2>2. QED
    BY <2>1 DEF UploadMove, Settled
<1>2. ~Queued(t)'
  <2>1. NeedStep /\ OneLiveRowPerTrack'
    BY NeedStepping, IInvInductive DEF IInv, DBInv
  <2>2. Queued(t)' => t \in tracks'
    BY <2>1 DEF OneLiveRowPerTrack, Queued, RowsOf
  <2>3. QED
    BY <2>1, <2>2 DEF NeedStep, Settled
<1>3. ASSUME NEW w \in Workers
      PROVE  /\ \A r \in page'[w] : r.track # t
             /\ jobRow'[w] # NoRow => jobRow'[w].track # t
  <2>1. HeldStep(w)
    BY HeldStepping DEF IInv
  <2>2. /\ \A r \in page[w] : r.track # t
        /\ jobRow[w] # NoRow => jobRow[w].track # t
    BY DEF Settled
  <2>3. ASSUME NEW r \in page'[w] PROVE r.track # t
    <3>1. CASE r \in page[w]
      BY <2>2, <3>1
    <3>2. CASE \E q \in queue : r = [id |-> q.id, track |-> q.track]
      BY <1>0, <3>2
    <3>3. QED
      BY <2>1, <3>1, <3>2 DEF HeldStep
  <2>4. QED
    BY <2>1, <2>2, <2>3 DEF HeldStep
<1>4. QED
  BY <1>1, <1>2, <1>3 DEF Settled

\* Presets appear in a track's row only with the commit of its job.
PublishStep(t) ==
    presets'[t] # {} =>
        \/ presets[t] # {}
        \/ \E w \in Workers, r \in queue :
               /\ r.track = t /\ r.id = jobRow[w].id /\ jobRow[w] # NoRow
               /\ queue' = queue \ {r}
               /\ jobRow' = [jobRow EXCEPT ![w] = NoRow]
               /\ UNCHANGED <<page, upload>>

\* Every step changes the presets that a row names as PublishStep says.
LEMMA PublishStepping ==
    ASSUME TypeOK, RowInv, [Next]_vars, NEW u \in Tracks
    PROVE  PublishStep(u)
<1>0. /\ presets \in [Tracks -> SUBSET Names]
      /\ \A w \in Workers : job[w] = "idle" <=> jobRow[w] = NoRow
  BY DEF TypeOK, RowInv
<1>1. ASSUME UNCHANGED presets PROVE PublishStep(u)
  BY <1>1 DEF PublishStep
<1>2. ASSUME NEW w \in Workers, RemoveFromQueueAndUpdateTrack(w) PROVE PublishStep(u)
  <2>1. CASE UNCHANGED presets
    BY <1>1, <2>1
  <2>2. CASE \E r \in RowsWithID(jobRow[w].id) :
                 /\ queue' = queue \ {r}
                 /\ presets' = [presets EXCEPT ![r.track] = TranscodedNames(jobRow[w].track)]
    <3>1. PICK r \in queue : /\ r.id = jobRow[w].id
                             /\ queue' = queue \ {r}
                             /\ presets' = [presets EXCEPT ![r.track] = TranscodedNames(jobRow[w].track)]
      BY <2>2 DEF RowsWithID
    <3>2. jobRow[w] # NoRow /\ jobRow' = [jobRow EXCEPT ![w] = NoRow]
      BY <1>0, <1>2 DEF RemoveFromQueueAndUpdateTrack, At, Return
    <3>3. UNCHANGED <<page, upload>>
      BY <1>2 DEF RemoveFromQueueAndUpdateTrack, JobFrame, requestVars, producerVars
    <3>4. CASE u # r.track
      BY <1>0, <3>1, <3>4 DEF PublishStep
    <3>5. CASE u = r.track
      BY <3>1, <3>2, <3>3, <3>5 DEF PublishStep
    <3>6. QED
      BY <3>4, <3>5
  <2>3. QED
    BY <1>2, <2>1, <2>2 DEF RemoveFromQueueAndUpdateTrack
<1>3. ASSUME NEW w \in Workers,
             ProducerStep(w) \/ TakeRow(w) \/ JobStep(w) \/ WorkerEnds(w)
      PROVE  PublishStep(u)
  <2>1. CASE ProducerStep(w) \/ TakeRow(w) \/ WorkerEnds(w)
    BY <1>1, <2>1 DEF ProducerStep, ReadPage, ReadPageFails, TakeRow, WorkerEnds, dbVars
  <2>2. CASE \/ FetchOriginal(w) \/ FetchOriginalFails(w) \/ ProbeDuration(w)
             \/ TranscodeTimesOut(w) \/ OnFailedTranscoding(w)
             \/ \E p \in Presets : TranscodePreset(w, p) \/ UploadPreset(w, p)
    BY <1>1, <2>2 DEF FetchOriginal, FetchOriginalFails, ProbeDuration,
       TranscodeTimesOut, TranscodePreset, OnFailedTranscoding, UploadPreset
  <2>3. QED
    BY <1>2, <1>3, <2>1, <2>2 DEF JobStep
<1>4. ASSUME NEW t \in Tracks,
             \/ CreateTrack(t) \/ UploadStep(t) \/ ReceiveSignal(t)
             \/ DeleteTrack(t) \/ DeletionStep(t) \/ removeTmpFiles(t)
      PROVE  PublishStep(u)
  <2>1. CASE \/ CreateTrack(t) \/ UploadStep(t) \/ ReceiveSignal(t)
             \/ DeleteTrack(t) \/ removeTmpFiles(t)
    BY <1>1, <2>1 DEF CreateTrack, UploadStep, PutOriginal, PutOriginalFails,
       AddToTranscodingQueue, AddToTranscodingQueueFails, ReceiveSignal, DeleteTrack,
       removeTmpFiles, dbVars
  <2>2. CASE DeletionStep(t)
    <3>1. CASE DeleteTrackRow(t)
      BY <1>0, <1>1, <3>1 DEF DeleteTrackRow, RemoveRows, PublishStep
    <3>2. CASE \/ RemoveOriginalObject(t) \/ RemoveObjectFails(t)
               \/ \E n \in Names : RemovePresetObject(t, n)
      BY <1>1, <3>2 DEF RemoveOriginalObject, RemoveObjectFails, RemovePresetObject, dbVars
    <3>3. QED
      BY <2>2, <3>1, <3>2 DEF DeletionStep
  <2>3. QED
    BY <1>4, <2>1, <2>2
<1>5. CASE ReceiveTick \/ ListenerExits \/ Stop \/ Exit \/ Restart \/ UNCHANGED vars
  BY <1>1, <1>5 DEF ReceiveTick, ListenerExits, Stop, Exit, Restart, vars, dbVars
<1>6. QED
  BY <1>3, <1>4, <1>5 DEF Next

\* The commit of a track's job settles the track: its row was the only one, the
\* page holds younger rows only, and there is no other worker to hold one.
LEMMA CommitSettles ==
    ASSUME IInv, CursorInv, [Next]_vars,
           NEW t \in Tracks, presets'[t] # {}, presets[t] = {}
    PROVE  Settled(t)'
<1>0. /\ jobRow \in [Workers -> PageRow \union {NoRow}]
      /\ page \in [Workers -> SUBSET PageRow]
      /\ lastElementID \in [Workers -> Nat]
      /\ queue \in SUBSET QueueRow
      /\ \A w \in Workers : job[w] = "idle" <=> jobRow[w] = NoRow
  BY DEF IInv, TypeOK, RowInv
<1>1. PublishStep(t)
  BY PublishStepping DEF IInv
<1>2. PICK w \in Workers, r \in queue :
          /\ r.track = t /\ r.id = jobRow[w].id /\ jobRow[w] # NoRow
          /\ queue' = queue \ {r}
          /\ jobRow' = [jobRow EXCEPT ![w] = NoRow]
          /\ UNCHANGED <<page, upload>>
  BY <1>1 DEF PublishStep
<1>3. \A q \in queue : q.track = t => q = r
  BY <1>2 DEF IInv, DBInv, OneLiveRowPerTrack
<1>4. ~Queued(t)'
  BY <1>2, <1>3 DEF Queued, RowsOf
<1>5. upload'[t] \notin {"idle", "put", "enqueue"}
  <2>1. Queued(t)
    BY <1>2 DEF Queued, RowsOf
  <2>2. QED
    BY <1>2, <2>1 DEF IInv, DBInv
<1>6. \A s \in page[w] : s.track # t
  <2>1. SUFFICES ASSUME NEW s \in page[w], s.track = t PROVE FALSE
    OBVIOUS
  <2>2. s.id <= r.id
    BY <1>2, <2>1 DEF CursorInv, Current
  <2>3. lastElementID[w] < s.id /\ r.id <= lastElementID[w]
    BY <1>2 DEF CursorInv
  <2>4. s.id \in Nat /\ r.id \in Nat /\ lastElementID[w] \in Nat
    BY <1>0 DEF PageRow, QueueRow
  <2>5. QED
    BY <2>2, <2>3, <2>4
<1>7. ASSUME NEW v \in Workers, v # w PROVE page[v] = {} /\ jobRow[v] = NoRow
  <2>1. producer[w] # "none"
    BY <1>0, <1>2 DEF CursorInv
  <2>2. producer[v] = "none"
    BY <1>7, <2>1 DEF IInv, WorkerInv, OneWorker
  <2>3. QED
    BY <1>0, <2>2 DEF CursorInv
<1>8. ASSUME NEW v \in Workers
      PROVE  /\ \A s \in page'[v] : s.track # t
             /\ jobRow'[v] # NoRow => jobRow'[v].track # t
  <2>1. CASE v = w
    BY <1>0, <1>2, <1>6, <2>1
  <2>2. CASE v # w
    BY <1>0, <1>2, <1>7, <2>2
  <2>3. QED
    BY <2>1, <2>2
<1>9. QED
  BY <1>4, <1>5, <1>8 DEF Settled

\* A track that has presets is settled.
LEMMA SettledInvInductive ==
    ASSUME IInv, CursorInv, SettledInv, [Next]_vars
    PROVE  SettledInv'
<1>1. ASSUME NEW t \in Tracks, presets'[t] # {} PROVE Settled(t)'
  <2>1. CASE presets[t] # {}
    BY <2>1, SettledStays DEF SettledInv
  <2>2. CASE presets[t] = {}
    BY <1>1, <2>2, CommitSettles
  <2>3. QED
    BY <2>1, <2>2
<1>2. QED
  BY <1>1 DEF SettledInv

-------------------------------------------------------------------------------
(* Requests for a file.                                                     *)

\* The fallback gives a preset that the row names, or the original.
LEMMA ClosestIsNamed ==
    ASSUME NEW t, NEW names, NEW quality \in Qualities
    PROVE  findClosestExistingTrackFile(t, names, quality) \in names \union {<<t, Original>>}
<1> DEFINE order == Preference[quality]
           named == {i \in 1..Len(order) : \E n \in names : n[2] = order[i]}
           First(i) == i \in named /\ \A j \in named : i <= j
<1>1. Len(order) \in 1..3
  BY DEF Qualities, Preference
<1>2. CASE named = {}
  BY <1>2 DEF findClosestExistingTrackFile
<1>3. CASE named # {}
  <2>1. named \subseteq {1, 2, 3}
    BY <1>1
  <2> HIDE DEF named
  <2>2. \E i : First(i)
    <3>1. CASE 1 \in named
      BY <2>1, <3>1
    <3>2. CASE 1 \notin named /\ 2 \in named
      BY <2>1, <3>2
    <3>3. CASE 1 \notin named /\ 2 \notin named
      BY <1>3, <2>1, <3>3
    <3>4. QED
      BY <3>1, <3>2, <3>3
  <2>3. PICK i : i = CHOOSE k \in named : \A j \in named : k <= j
    OBVIOUS
  <2>4. i \in named
    BY <2>2, <2>3
  <2>5. findClosestExistingTrackFile(t, names, quality) = CHOOSE n \in names : n[2] = order[i]
    BY <1>3, <2>3 DEF findClosestExistingTrackFile, named
  <2>6. \E n \in names : n[2] = order[i]
    BY <2>4 DEF named
  <2>7. QED
    BY <2>5, <2>6
<1>4. QED
  BY <1>2, <1>3

\* A file offered by the pipeline stays offered, whatever step the pipeline takes.
LEMMA OfferStays ==
    ASSUME IInv, OriginalInv, [Next]_vars,
           NEW t \in Tracks, NEW file \in FilesOf(t), Offered(t, file)
    PROVE  Offered(t, file)'
<1>0. file[2] \in Kinds
  BY DEF FilesOf
<1>1. UploadMove(t) /\ StorageStep
  BY FilesStepping, StorageStepping DEF IInv, FileInv
<1>2. file[2] \in Presets => Settled(t)'
  BY SettledStays DEF Offered
<1>3. ASSUME deletion'[t] = "idle"
      PROVE  \/ upload'[t] = "put" /\ file[2] = Original
             \/ upload'[t] = "failed"
             \/ objects'[t][file[2]] # "none"
  <2>1. /\ deletion[t] = "idle"
        /\ \A p \in Presets : objects[t][p] # "none" => objects'[t][p] # "none"
        /\ objects[t][Original] = "whole" => objects'[t][Original] = "whole"
    BY <1>1, <1>3 DEF StorageStep
  <2>2. objects[t][Original] \in {"none", "whole"}
    BY DEF IInv, TypeOK, Files, Kinds, Content, OriginalInv
  <2>3. objects[t][file[2]] # "none" => objects'[t][file[2]] # "none"
    BY <1>0, <2>1, <2>2 DEF Kinds
  <2>4. CASE upload[t] = "put" /\ file[2] = Original
    BY <1>1, <2>4 DEF UploadMove
  <2>5. CASE upload[t] = "failed"
    BY <1>1, <2>5 DEF UploadMove
  <2>6. QED
    BY <2>1, <2>3, <2>4, <2>5 DEF Offered
<1>4. QED
  BY <1>2, <1>3 DEF Offered

\* What a request knows of a file stays true as long as the file is there.
LEMMA DescribedStays ==
    ASSUME IInv, OriginalInv, [Next]_vars,
           NEW t \in Tracks, NEW file \in FilesOf(t), NEW headers \in SUBSET Info,
           Offered(t, file), Described(t, file, headers)
    PROVE  Described(t, file, headers)'
<1>0. file[2] \in Kinds
  BY DEF FilesOf
<1>1. OriginalMove(t) /\ PresetMove(t)
  BY FilesStepping DEF IInv
<1>2. ASSUME NEW i \in headers PROVE objects'[t][file[2]] \in {"none", i.content}
  <2>1. CASE file[2] = Original
    BY <1>1, <2>1 DEF Described, OriginalMove
  <2>2. CASE file[2] \in Presets
    <3>1. \A w \in Workers : jobRow[w] # NoRow => jobRow[w].track # t
      BY <2>2 DEF Offered, Settled
    <3>2. objects'[t][file[2]] \in {objects[t][file[2]], "none"}
      BY <1>1, <2>2, <3>1 DEF PresetMove
    <3>3. QED
      BY <3>2 DEF Described
  <2>3. QED
    BY <1>0, <2>1, <2>2 DEF Kinds
<1>3. QED
  BY <1>2 DEF Described

\* What a call learns of the file agrees with what the request knew of it.
LEMMA LearnsTheSame ==
    ASSUME IInv, OriginalInv,
           NEW t \in Tracks, NEW file \in FilesOf(t), NEW headers \in SUBSET Info,
           Described(t, file, headers), objects[t][file[2]] # "none"
    PROVE  /\ headers \union {InfoOf(file)} \in SUBSET Info
           /\ Described(t, file, headers \union {InfoOf(file)})
<1>0. file[1] = t /\ file[2] \in Kinds /\ file \in Tracks \X Kinds
  BY DEF FilesOf
<1>1. objects[t][file[2]] \in Content
  BY <1>0 DEF IInv, TypeOK, Files
<1>2. PICK info : info = InfoOf(file)
  OBVIOUS
<1>3. info \in Info /\ info.file = file /\ info.content = objects[t][file[2]]
  BY <1>0, <1>1, <1>2 DEF Info, InfoOf
<1>4. file[2] = Original => info.content = "whole"
  BY <1>1, <1>3 DEF OriginalInv, Content
<1>5. \A i \in headers : i.file = file /\ i.content = objects[t][file[2]] /\ i \in Info
  BY DEF Described
<1>6. \A i \in headers : i = info
  BY <1>3, <1>5 DEF Info
<1>7. QED
  BY <1>2, <1>3, <1>4, <1>6 DEF Described

-------------------------------------------------------------------------------
(* Steps of a request.                                                      *)
PipelineInv == IInv /\ CursorInv /\ SettledInv /\ OriginalInv

\* A step of a request changes nothing of the pipeline, but may use up a fault.
LEMMA RequestFrame ==
    ASSUME PipelineInv, PipelineFrame, Fault \/ NoFault
    PROVE  PipelineInv'
<1> USE DEF PipelineFrame, dbVars, fileVars, requestVars, workerVars, producerVars, jobVars
<1>1. TypeOK'
  <2>1. faults' \in Nat
    BY DEF PipelineInv, IInv, TypeOK, Fault, NoFault
  <2>2. QED
    BY <2>1 DEF PipelineInv, IInv, TypeOK
<1>2. WorkerInv' /\ RowInv'
  BY DEF PipelineInv, IInv, WorkerInv, OneWorker, RowInv, Agrees
<1>3. DBInv' /\ FileInv'
  BY DEF PipelineInv, IInv, DBInv, OneLiveRowPerTrack, FileInv, NamedPresetsStored,
     QueuedOriginalStored, Queued, RowsOf
<1>4. CursorInv' /\ SettledInv' /\ OriginalInv'
  BY DEF PipelineInv, CursorInv, Current, SettledInv, Settled, Queued, RowsOf, OriginalInv
<1>5. QED
  BY <1>1, <1>2, <1>3, <1>4 DEF PipelineInv, IInv

\* Every step of the pipeline keeps its invariant.
LEMMA PipelineInvInductive ==
    ASSUME PipelineInv, [Next]_vars
    PROVE  PipelineInv'
<1>1. IInv' /\ OriginalInv' /\ SettledInv'
  BY IInvInductive, OriginalInvInductive, SettledInvInductive DEF PipelineInv
<1>2. CursorInv'
  <2>1. HeldCurrent /\ CursorPlace
    BY CursorParts DEF PipelineInv
  <2>2. HeldCurrent' /\ CursorPlace'
    BY <2>1, HeldCurrentInductive, CursorPlaceInductive DEF PipelineInv, IInv
  <2>3. QED
    BY <2>2 DEF CursorInv, HeldCurrent, CursorPlace
<1>3. QED
  BY <1>1, <1>2 DEF PipelineInv

\* A request with no file found, or none yet, satisfies its invariant.
LEMMA NoStreamHolds ==
    ASSUME stream' = NoStream
    PROVE  StreamInv'
BY DEF StreamInv, StreamOK, NoStream

\* What is known of the file of the request, at each stage.
LEMMA StreamAtStage ==
    ASSUME StreamInv, stream.stage # "idle"
    PROVE  /\ stream.track \in Tracks /\ stream.file \in FilesOf(stream.track)
           /\ Offered(stream.track, stream.file)
           /\ stream.stage \in {"access", "info", "checksum"} =>
                  stream.includeReader \in BOOLEAN
           /\ stream.stage \in {"checksum", "content"} =>
                  /\ stream.headers \in SUBSET Info
                  /\ Described(stream.track, stream.file, stream.headers)
BY DEF StreamInv, StreamOK, NoStream, Offered

\* The request goes on with what it knows of the file it has chosen.
LEMMA GoesWithHeaders ==
    ASSUME PipelineFrame, NEW t \in Tracks, NEW file \in FilesOf(t), Offered(t, file),
           NEW headers \in SUBSET Info, Described(t, file, headers),
           \/ \E b \in BOOLEAN :
                  stream' = [stage |-> "checksum", track |-> t, file |-> file,
                             includeReader |-> b, headers |-> headers]
           \/ stream' = [stage |-> "content", track |-> t, file |-> file,
                         headers |-> headers]
    PROVE  StreamInv'
<1>1. Offered(t, file)' /\ Described(t, file, headers)'
  BY DEF PipelineFrame, dbVars, fileVars, requestVars, workerVars, producerVars, jobVars,
     Offered, Described, Settled, Queued, RowsOf
<1>2. /\ stream'.track = t /\ stream'.file = file /\ stream'.headers = headers
      /\ stream'.stage \in {"checksum", "content"}
  OBVIOUS
<1>3. PICK s : s = stream'
  OBVIOUS
<1>4. StreamOK'
  <2>1. file \in Tracks \X Kinds
    BY DEF FilesOf
  <2>2. QED
    BY <2>1 DEF StreamOK
<1>5. Offered(stream.track, stream.file)'
  BY <1>1, <1>2 DEF Offered, Settled, Queued, RowsOf
<1>6. Described(stream.track, stream.file, stream.headers)'
  BY <1>1, <1>2 DEF Described
<1>7. QED
  BY <1>4, <1>5, <1>6 DEF StreamInv

\* The request goes on to ask for access or about the file it has chosen.
LEMMA GoesWithoutHeaders ==
    ASSUME PipelineFrame, NEW t \in Tracks, NEW file \in FilesOf(t), Offered(t, file),
           NEW stage \in {"access", "info"}, NEW b \in BOOLEAN,
           stream' = [stage |-> stage, track |-> t, file |-> file, includeReader |-> b]
    PROVE  StreamInv'
<1>1. Offered(t, file)'
  BY DEF PipelineFrame, dbVars, fileVars, requestVars, workerVars, producerVars, jobVars,
     Offered, Settled, Queued, RowsOf
<1>2. stream'.track = t /\ stream'.file = file /\ stream'.stage \in {"access", "info"}
  OBVIOUS
<1>3. StreamOK'
  <2>1. file \in Tracks \X Kinds
    BY DEF FilesOf
  <2>2. QED
    BY <2>1 DEF StreamOK
<1>4. Offered(stream.track, stream.file)'
  BY <1>1, <1>2 DEF Offered, Settled, Queued, RowsOf
<1>5. QED
  BY <1>2, <1>3, <1>4 DEF StreamInv

\* What the two properties say of one step.
FindsItsFile ==
    answer'.status = "file not found" =>
        \/ upload[answer'.track] \in {"put", "failed"}
        \/ deletion[answer'.track] # "idle"

FitsTogether == answer'.status = "ok" => \A i, j \in answer'.seen : i = j

StepHolds == StreamInv' /\ FindsItsFile /\ FitsTogether

\* A reply of another kind, and no reply, are covered.
LEMMA OtherReply ==
    ASSUME NEW status \in {"bad request", "track not found", "forbidden", "internal error"},
           Reply(status)
    PROVE  StepHolds
BY NoStreamHolds DEF Reply, StepHolds, FindsItsFile, FitsTogether

\* A file is reported missing only if it is, and then not without an excuse.
LEMMA NoFileHolds ==
    ASSUME NEW t \in Tracks, NEW file \in FilesOf(t), Offered(t, file),
           objects[t][file[2]] = "none", NoFile(t)
    PROVE  StepHolds
<1>1. StreamInv'
  BY NoStreamHolds DEF NoFile
<1>2. answer' = [status |-> "file not found", track |-> t]
  BY DEF NoFile
<1>3. FindsItsFile
  BY <1>2 DEF FindsItsFile, Offered
<1>4. FitsTogether
  BY <1>2 DEF FitsTogether
<1>5. QED
  BY <1>1, <1>3, <1>4 DEF StepHolds

\* Headers and body are of one content, when all that was seen agrees.
LEMMA ServedHolds ==
    ASSUME NEW t, NEW file, NEW seen, Described(t, file, seen), Served(seen)
    PROVE  StepHolds
<1>1. StreamInv'
  BY NoStreamHolds DEF Served
<1>2. answer' = [status |-> "ok", seen |-> seen]
  BY DEF Served
<1>3. QED
  BY <1>1, <1>2 DEF StepHolds, FindsItsFile, FitsTogether, Described

\* No answer: the request goes on.
LEMMA GoesHolds ==
    ASSUME StreamInv', answer' = NoAnswer
    PROVE  StepHolds
BY DEF StepHolds, FindsItsFile, FitsTogether, NoAnswer

\* A new request is offered a file by the row that it reads.
LEMMA AskHolds ==
    ASSUME PipelineInv, NEW t \in Tracks, NEW quality, NEW b \in BOOLEAN,
           Ask(t, quality, b)
    PROVE  StepHolds
<1>1. CASE BadQuality \/ NoTrack \/ Failed
  BY <1>1, OtherReply DEF BadQuality, NoTrack, Failed
<1>2. CASE /\ quality \in Qualities
           /\ t \in tracks
           /\ Goes([stage |-> "access", track |-> t, includeReader |-> b,
                    file |-> findClosestExistingTrackFile(t, presets[t], quality)])
  <2>1. presets[t] \subseteq TranscodedNames(t)
    BY DEF PipelineInv, IInv, DBInv
  <2>2. PICK file : file = findClosestExistingTrackFile(t, presets[t], quality)
    OBVIOUS
  <2>3. file \in presets[t] \union {<<t, Original>>}
    BY <1>2, <2>2, ClosestIsNamed
  <2>4. file \in FilesOf(t)
    BY <2>1, <2>3 DEF FilesOf, TranscodedNames, Kinds
  <2>5. file[2] \in Presets => Settled(t)
    BY <2>3, ConstantsAssumption DEF PipelineInv, SettledInv
  <2>6. ASSUME deletion[t] = "idle"
        PROVE  \/ upload[t] = "put" /\ file[2] = Original
               \/ upload[t] = "failed"
               \/ objects[t][file[2]] # "none"
    <3>1. CASE file \in presets[t]
      BY <1>2, <2>6, <3>1 DEF PipelineInv, IInv, FileInv, NamedPresetsStored
    <3>2. CASE file[2] = Original
      <4>1. upload[t] \in UploadStages /\ upload[t] # "idle"
        BY <1>2 DEF PipelineInv, IInv, TypeOK, DBInv
      <4>2. upload[t] = "enqueue" => objects[t][Original] = "whole"
        BY <2>6 DEF PipelineInv, IInv, FileInv
      <4>3. upload[t] \in {"signal", "done"} => objects[t][Original] = "whole"
        BY <2>6 DEF PipelineInv, OriginalInv
      <4>4. QED
        BY <3>2, <4>1, <4>2, <4>3 DEF UploadStages
    <3>3. QED
      BY <2>3, <3>1, <3>2
  <2>7. Offered(t, file)
    BY <2>4, <2>5, <2>6 DEF Offered
  <2>8. stream' = [stage |-> "access", track |-> t, file |-> file, includeReader |-> b]
    BY <1>2, <2>2 DEF Goes
  <2>9. PipelineFrame
    BY DEF Ask, StreamAt
  <2>10. StreamInv'
    BY <2>4, <2>7, <2>8, <2>9, GoesWithoutHeaders
  <2>11. QED
    BY <1>2, <2>10, GoesHolds DEF Goes
<1>3. QED
  BY <1>1, <1>2 DEF Ask

\* Access is granted or refused.
LEMMA CheckAccessHolds ==
    ASSUME PipelineInv, StreamInv, CheckAccess
    PROVE  StepHolds
<1>0. stream.stage = "access" /\ PipelineFrame
  BY DEF CheckAccess, StreamAt
<1>1. CASE NoAccess \/ Failed
  BY <1>1, OtherReply DEF NoAccess, Failed
<1>2. CASE Goes([stream EXCEPT !.stage = "info"])
  <2>1. PICK t \in Tracks, file \in Tracks \X Kinds, b \in BOOLEAN :
            stream = [stage |-> "access", track |-> t, file |-> file, includeReader |-> b]
    BY <1>0 DEF StreamInv, StreamOK, NoStream
  <2>2. file \in FilesOf(t) /\ Offered(t, file)
    BY <1>0, <2>1, StreamAtStage
  <2>3. stream' = [stage |-> "info", track |-> t, file |-> file, includeReader |-> b]
    BY <1>2, <2>1 DEF Goes
  <2>4. StreamInv'
    BY <1>0, <2>2, <2>3, GoesWithoutHeaders
  <2>5. QED
    BY <1>2, <2>4, GoesHolds DEF Goes
<1>3. QED
  BY <1>1, <1>2 DEF CheckAccess

\* After a call about the file, with headers that describe it.
LEMMA AfterInfoHolds ==
    ASSUME PipelineFrame, StreamInv, stream.stage \in {"info", "checksum"},
           NEW headers \in SUBSET Info,
           Described(stream.track, stream.file, headers), AfterInfo(headers)
    PROVE  StepHolds
<1>1. CASE Served(headers)
  BY <1>1, ServedHolds
<1>2. CASE Goes([stage |-> "content", track |-> stream.track, file |-> stream.file,
                 headers |-> headers])
  <2>1. PICK t, file : t = stream.track /\ file = stream.file
    OBVIOUS
  <2>2. t \in Tracks /\ file \in FilesOf(t) /\ Offered(t, file)
    BY <2>1, StreamAtStage
  <2>3. stream' = [stage |-> "content", track |-> t, file |-> file, headers |-> headers]
    BY <1>2, <2>1 DEF Goes
  <2>4. Described(t, file, headers)
    BY <2>1
  <2>5. StreamInv'
    BY <2>2, <2>3, <2>4, GoesWithHeaders
  <2>6. QED
    BY <1>2, <2>5, GoesHolds DEF Goes
<1>3. QED
  BY <1>1, <1>2 DEF AfterInfo

\* The stat of the file.
LEMMA GetTrackInfoHolds ==
    ASSUME PipelineInv, StreamInv, GetTrackInfo
    PROVE  StepHolds
<1>0. stream.stage = "info" /\ PipelineFrame
  BY DEF GetTrackInfo, StreamAt
<1>1. PICK t, file, b : t = stream.track /\ file = stream.file /\ b = stream.includeReader
  OBVIOUS
<1>2. t \in Tracks /\ file \in FilesOf(t) /\ b \in BOOLEAN /\ Offered(t, file)
  BY <1>0, <1>1, StreamAtStage
<1>3. PICK info : info = InfoOf(file)
  OBVIOUS
<1>4. info.content = objects[t][file[2]]
  BY <1>2, <1>3 DEF InfoOf, FilesOf
<1>5. info.content # "none" => {info} \in SUBSET Info /\ Described(t, file, {info})
  <2>1. Described(t, file, {})
    BY DEF Described
  <2>2. QED
    BY <1>2, <1>3, <1>4, <2>1, LearnsTheSame DEF PipelineInv
<1>6. CASE info.content = "none" /\ NoFile(t)
  BY <1>2, <1>4, <1>6, NoFileHolds
<1>7. CASE info.content # "none" /\ AfterInfo({info})
  BY <1>0, <1>1, <1>5, <1>7, AfterInfoHolds
<1>8. CASE /\ info.content # "none"
           /\ Goes([stage |-> "checksum", track |-> t, file |-> file,
                    includeReader |-> b, headers |-> {info}])
  <2>1. StreamInv'
    BY <1>0, <1>2, <1>5, <1>8, GoesWithHeaders DEF Goes
  <2>2. QED
    BY <1>8, <2>1, GoesHolds DEF Goes
<1>9. CASE Failed
  BY <1>9, OtherReply DEF Failed
<1>10. QED
  BY <1>1, <1>3, <1>6, <1>7, <1>8, <1>9 DEF GetTrackInfo

\* The checksum, computed from the file as it is then.
LEMMA ChecksumHolds ==
    ASSUME PipelineInv, StreamInv, calculateTrackChecksum
    PROVE  StepHolds
<1>0. stream.stage = "checksum" /\ PipelineFrame
  BY DEF calculateTrackChecksum, StreamAt
<1>1. PICK t, file, headers :
          t = stream.track /\ file = stream.file /\ headers = stream.headers
  OBVIOUS
<1>2. /\ t \in Tracks /\ file \in FilesOf(t) /\ Offered(t, file)
      /\ headers \in SUBSET Info /\ Described(t, file, headers)
  BY <1>0, <1>1, StreamAtStage
<1>3. PICK info : info = InfoOf(file)
  OBVIOUS
<1>4. info.content = objects[t][file[2]]
  BY <1>2, <1>3 DEF InfoOf, FilesOf
<1>5. CASE info.content = "none" /\ NoFile(t)
  BY <1>2, <1>4, <1>5, NoFileHolds
<1>6. CASE info.content # "none" /\ AfterInfo(headers \union {info})
  <2>1. /\ headers \union {info} \in SUBSET Info
        /\ Described(t, file, headers \union {info})
    BY <1>2, <1>3, <1>4, <1>6, LearnsTheSame DEF PipelineInv
  <2>2. QED
    BY <1>0, <1>1, <1>6, <2>1, AfterInfoHolds
<1>7. CASE Failed
  BY <1>7, OtherReply DEF Failed
<1>8. QED
  BY <1>1, <1>3, <1>5, <1>6, <1>7 DEF calculateTrackChecksum

\* The content.
LEMMA GetTrackHolds ==
    ASSUME PipelineInv, StreamInv, GetTrack
    PROVE  StepHolds
<1>0. stream.stage = "content"
  BY DEF GetTrack, StreamAt
<1>1. PICK t, file, headers :
          t = stream.track /\ file = stream.file /\ headers = stream.headers
  OBVIOUS
<1>2. /\ t \in Tracks /\ file \in FilesOf(t) /\ Offered(t, file)
      /\ headers \in SUBSET Info /\ Described(t, file, headers)
  BY <1>0, <1>1, StreamAtStage
<1>3. PICK body : body = InfoOf(file)
  OBVIOUS
<1>4. body.content = objects[t][file[2]]
  BY <1>2, <1>3 DEF InfoOf, FilesOf
<1>5. CASE body.content = "none" /\ NoFile(t)
  BY <1>2, <1>4, <1>5, NoFileHolds
<1>6. CASE body.content # "none" /\ Served(headers \union {body})
  <2>1. Described(t, file, headers \union {body})
    BY <1>2, <1>3, <1>4, <1>6, LearnsTheSame DEF PipelineInv
  <2>2. QED
    BY <1>6, <2>1, ServedHolds
<1>7. CASE Failed
  BY <1>7, OtherReply DEF Failed
<1>8. QED
  BY <1>1, <1>3, <1>5, <1>6, <1>7 DEF GetTrack

\* A step of the pipeline under a request leaves what the request knows true.
LEMMA PipelineStepHolds ==
    ASSUME PipelineInv, StreamInv, PipelineStep
    PROVE  StepHolds
<1>1. CASE stream' = NoStream
  <2>1. StreamInv'
    BY <1>1, NoStreamHolds
  <2>2. QED
    BY <2>1, GoesHolds DEF PipelineStep
<1>2. CASE stream' = stream
  <2>1. StreamOK'
    BY <1>2 DEF StreamInv, StreamOK
  <2>2. PICK s : s = stream
    OBVIOUS
  <2>3. ASSUME s.stage # "idle" PROVE Offered(s.track, s.file)'
    <3>1. PICK t, file : t = s.track /\ file = s.file
      OBVIOUS
    <3>2. t \in Tracks /\ file \in FilesOf(t) /\ Offered(t, file)
      BY <2>2, <2>3, <3>1, StreamAtStage
    <3>3. Offered(t, file)'
      BY <3>2, OfferStays DEF PipelineStep, PipelineInv
    <3>4. QED
      BY <3>1, <3>3
  <2>4. ASSUME s.stage \in {"checksum", "content"}
        PROVE  Described(s.track, s.file, s.headers)'
    <3>1. PICK t, file, headers : t = s.track /\ file = s.file /\ headers = s.headers
      OBVIOUS
    <3>2. /\ t \in Tracks /\ file \in FilesOf(t) /\ Offered(t, file)
          /\ headers \in SUBSET Info /\ Described(t, file, headers)
      BY <2>2, <2>4, <3>1, StreamAtStage
    <3>3. Described(t, file, headers)'
      BY <3>2, DescribedStays DEF PipelineStep, PipelineInv
    <3>4. QED
      BY <3>1, <3>3
  <2>5. StreamInv'
    BY <1>2, <2>1, <2>2, <2>3, <2>4 DEF StreamInv, Offered, Described, Settled, Queued, RowsOf
  <2>6. QED
    BY <2>5, GoesHolds DEF PipelineStep
<1>3. QED
  BY <1>1, <1>2 DEF PipelineStep

\* The invariant is kept, and each step does what the two properties say.
LEMMA StreamStepHolds ==
    ASSUME PipelineInv, StreamInv, StreamNext
    PROVE  PipelineInv' /\ StepHolds
<1>1. CASE PipelineStep
  BY <1>1, PipelineInvInductive, PipelineStepHolds DEF PipelineStep
<1>2. ASSUME NEW t \in Tracks, NEW quality \in Qualities \union {"unknown"},
             NEW b \in BOOLEAN, Ask(t, quality, b)
      PROVE  PipelineInv' /\ StepHolds
  BY <1>2, RequestFrame, AskHolds DEF Ask, StreamAt, Failed
<1>3. CASE CheckAccess
  BY <1>3, RequestFrame, CheckAccessHolds DEF CheckAccess, StreamAt, Failed
<1>4. CASE GetTrackInfo
  BY <1>4, RequestFrame, GetTrackInfoHolds DEF GetTrackInfo, StreamAt, Failed
<1>5. CASE calculateTrackChecksum
  BY <1>5, RequestFrame, ChecksumHolds DEF calculateTrackChecksum, StreamAt, Failed
<1>6. CASE GetTrack
  BY <1>6, RequestFrame, GetTrackHolds DEF GetTrack, StreamAt, Failed
<1>7. QED
  BY <1>1, <1>2, <1>3, <1>4, <1>5, <1>6 DEF StreamNext

-------------------------------------------------------------------------------
\* The invariants hold in every state of the pipeline with a request beside it.
LEMMA StreamInvariant == StreamSpec => [](PipelineInv /\ StreamInv)
<1>1. StreamInit => PipelineInv /\ StreamInv
  <2> SUFFICES ASSUME StreamInit PROVE PipelineInv /\ StreamInv
    OBVIOUS
  <2>1. Init /\ stream = NoStream
    BY DEF StreamInit
  <2>2. CursorInv /\ SettledInv
    BY <2>1 DEF Init, CursorInv, SettledInv
  <2>3. OriginalInv
    BY <2>1 DEF Init, OriginalInv, NoFiles, Kinds
  <2>4. StreamInv
    BY <2>1 DEF StreamInv, StreamOK, NoStream
  <2>5. QED
    BY <2>1, <2>2, <2>3, <2>4, IInvInitial DEF PipelineInv
<1>2. PipelineInv /\ StreamInv /\ [StreamNext]_<<vars, streamVars>> =>
          PipelineInv' /\ StreamInv'
  <2> SUFFICES ASSUME PipelineInv, StreamInv, [StreamNext]_<<vars, streamVars>>
               PROVE  PipelineInv' /\ StreamInv'
    OBVIOUS
  <2>1. CASE StreamNext
    BY <2>1, StreamStepHolds DEF StepHolds
  <2>2. CASE UNCHANGED <<vars, streamVars>>
    <3>1. PipelineInv'
      BY <2>2, PipelineInvInductive
    <3>2. StreamInv'
      BY <2>2 DEF vars, dbVars, fileVars, requestVars, workerVars, producerVars, jobVars,
         streamVars, StreamInv, StreamOK, Offered, Described, Settled, Queued, RowsOf
    <3>3. QED
      BY <3>1, <3>2
  <2>3. QED
    BY <2>1, <2>2
<1>3. QED
  BY <1>1, <1>2, PTL DEF StreamSpec

(* Requests take nothing from the pipeline: with one beside it, the types,  *)
(* the stored presets (NamedPresetsStored) and the stored originals of      *)
(* queued tracks (QueuedOriginalStored) are as they are without.            *)
THEOREM PipelineUndisturbed ==
    StreamSpec => [](TypeOK /\ NamedPresetsStored /\ QueuedOriginalStored)
<1>1. PipelineInv => TypeOK /\ NamedPresetsStored /\ QueuedOriginalStored
  BY DEF PipelineInv, IInv, FileInv
<1>2. QED
  BY <1>1, StreamInvariant, PTL

(* getTrackFile chooses a file by the row as it was, and asks the storage   *)
(* about it up to three times: it finds it each time, in every quality      *)
(* (StreamsFindTheirFile), unless the upload has not stored the original or *)
(* a request to delete the track has begun.  Hence the strengthening: an    *)
(* upload past its PutTrack has the original stored, and the row names only *)
(* presets that are stored.                                                 *)
THEOREM FilesAreFound == StreamSpec => StreamsFindTheirFile
<1>1. PipelineInv /\ StreamInv /\ [StreamNext]_<<vars, streamVars>> =>
          [FindsItsFile]_<<vars, streamVars>>
  BY StreamStepHolds DEF StepHolds
<1>2. QED
  BY <1>1, StreamInvariant, PTL DEF StreamSpec, StreamsFindTheirFile, FindsItsFile

(* The headers that setTrackFileHeaders writes describe the bytes that are  *)
(* sent after them (HeadersDescribeTheBody), although they come from calls  *)
(* of their own.  Hence SettledInv: when a row names a preset, no page and  *)
(* no job holds a row of the track, because of the order of the queue's ids *)
(* and because there is one worker; no job will write the object again.     *)
THEOREM HeadersAreTrue == StreamSpec => HeadersDescribeTheBody
<1>1. PipelineInv /\ StreamInv /\ [StreamNext]_<<vars, streamVars>> =>
          [FitsTogether]_<<vars, streamVars>>
  BY StreamStepHolds DEF StepHolds
<1>2. QED
  BY <1>1, StreamInvariant, PTL DEF StreamSpec, HeadersDescribeTheBody, FitsTogether
================================================================================
