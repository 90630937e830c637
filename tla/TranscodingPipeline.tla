-------------------------- MODULE TranscodingPipeline --------------------------
(***************************************************************************)
(* Uploading, transcoding and deleting tracks.                             *)
(*                                                                         *)
(* Request handlers (TrackService.UploadTrack, TrackService.DeleteTrack),  *)
(* the transcoder's listener goroutine, its worker (a producer that pages  *)
(* through the transcoding_queue table and a consumer that runs one job at *)
(* a time) and the goroutines that remove temporary files share three      *)
(* stores that no transaction spans: Postgres, the object storage and the  *)
(* local disk.  The process may be stopped or killed between any two steps.*)
(*                                                                         *)
(* Every database statement or transaction, storage call, external command *)
(* and channel hand-off is one action.                                     *)
(***************************************************************************)
EXTENDS Naturals, FiniteSets

CONSTANTS
    Tracks,        \* track ids; each is given to one upload
    Presets,       \* the presets a job produces (fast, standard, high)
    Original,      \* the kind of the uploaded file, next to the presets
    Deletable,     \* bound: tracks that a superuser may ask to delete
    Workers,       \* goroutines that may run startWorker
    NoRow,         \* no queue row
    PageSize,      \* rows per page of the queue query
    MaxFaults,     \* bound: errors, timeouts, stops and kills in a behaviour
    RemoverLimit   \* bound: removeTmpFiles goroutines pending on a track when
                   \* the worker takes its next row

ASSUME ConstantsAssumption ==
    /\ Presets # {}
    /\ Original \notin Presets
    /\ PageSize \in Nat \ {0}
    /\ MaxFaults \in Nat
    /\ RemoverLimit \in Nat
    /\ NoRow \notin [id : Nat, track : Tracks]

Kinds == Presets \union {Original}
Content == {"none", "partial", "whole"}
Files == [Tracks -> [Kinds -> Content]]
NoFiles == [t \in Tracks |-> [k \in Kinds |-> "none"]]

\* The name of a transcoded file is built from that of the original and the preset:
\* a pair <<t, p>> is the name of the object whose content is objects[t][p].
Names == Tracks \X Presets
TranscodedNames(t) == {t} \X Presets

VARIABLES
    proc,             \* the server process: "up", "stopping" or "down"
    faults,           \* faults left to happen
    \* Postgres
    tracks,           \* ids of the rows of table track
    presets,          \* presets[t]: the names in the row's *_preset_fname columns
    queue,            \* rows of table transcoding_queue
    nextID,           \* next value of the queue's BIGSERIAL
    \* object storage, local disk
    objects,          \* content of the objects of bucket "tracks"
    tmp,              \* content of the files in the working directory
    removers,         \* removers[t]: pending removeTmpFiles goroutines for t
    \* requests
    upload,           \* upload[t]: where the upload request of t is
    deletion,         \* deletion[t]: where the delete request of t is
    doomed,           \* doomed[t]: names that request has yet to remove
    \* transcoder
    listening,        \* the listener goroutine runs
    isWorkerStarted,  \* the transcoder's flag
    producer,         \* producer[w]: state of the GetTranscodingQueue goroutine
    page,             \* page[w]: rows it has read and not handed over
    pageFull,         \* pageFull[w]: its last page had PageSize rows
    lastElementID,    \* lastElementID[w]: id of the last row handed over
    job,              \* job[w]: where the consumer's job is
    jobRow,           \* jobRow[w]: the row it was given
    todo              \* todo[w]: presets left in the job's current loop

dbVars == <<tracks, presets, queue, nextID>>
fileVars == <<objects, tmp, removers>>
requestVars == <<upload, deletion, doomed>>
producerVars == <<producer, page, pageFull, lastElementID>>
jobVars == <<job, jobRow, todo>>
workerVars == <<listening, isWorkerStarted, producerVars, jobVars>>
vars == <<proc, faults, dbVars, fileVars, requestVars, workerVars>>

PageRow == [id : Nat, track : Tracks]
QueueRow == [id : Nat, track : Tracks, wasFailed : BOOLEAN]

UploadStages == {"idle", "put", "enqueue", "signal", "done", "failed"}
DeletionStages == {"idle", "objects", "row", "done", "failed"}
ProducerStages == {"none", "reading", "sending", "closed"}
JobStages ==
    {"idle", "fetch", "transcode", "requeue", "probe", "upload", "commit"}

TypeOK ==
    /\ proc \in {"up", "stopping", "down"}
    /\ faults \in Nat
    /\ tracks \in SUBSET Tracks
    /\ presets \in [Tracks -> SUBSET Names]
    /\ queue \in SUBSET QueueRow
    /\ nextID \in Nat \ {0}
    /\ objects \in Files
    /\ tmp \in Files
    /\ removers \in [Tracks -> Nat]
    /\ upload \in [Tracks -> UploadStages]
    /\ deletion \in [Tracks -> DeletionStages]
    /\ doomed \in [Tracks -> SUBSET Names]
    /\ listening \in BOOLEAN
    /\ isWorkerStarted \in BOOLEAN
    /\ producer \in [Workers -> ProducerStages]
    /\ page \in [Workers -> SUBSET PageRow]
    /\ pageFull \in [Workers -> BOOLEAN]
    /\ lastElementID \in [Workers -> Nat]
    /\ job \in [Workers -> JobStages]
    /\ jobRow \in [Workers -> PageRow \union {NoRow}]
    /\ todo \in [Workers -> SUBSET Presets]
    /\ \A w \in Workers : job[w] # "idle" => jobRow[w] # NoRow

Init ==
    /\ proc = "up"
    /\ faults = MaxFaults
    /\ tracks = {}
    /\ presets = [t \in Tracks |-> {}]
    /\ queue = {}
    /\ nextID = 1
    /\ objects = NoFiles
    /\ tmp = NoFiles
    /\ removers = [t \in Tracks |-> 0]
    /\ upload = [t \in Tracks |-> "idle"]
    /\ deletion = [t \in Tracks |-> "idle"]
    /\ doomed = [t \in Tracks |-> {}]
    /\ listening = TRUE
    /\ isWorkerStarted = FALSE
    /\ producer = [w \in Workers |-> "none"]
    /\ page = [w \in Workers |-> {}]
    /\ pageFull = [w \in Workers |-> FALSE]
    /\ lastElementID = [w \in Workers |-> 0]
    /\ job = [w \in Workers |-> "idle"]
    /\ jobRow = [w \in Workers |-> NoRow]
    /\ todo = [w \in Workers |-> {}]

-------------------------------------------------------------------------------
(* Faults: what the environment may do, MaxFaults times.                   *)

Fault == faults > 0 /\ faults' = faults - 1
NoFault == UNCHANGED faults

\* Queue rows of a track, and whether it has one.
RowsOf(t) == {r \in queue : r.track = t}
Queued(t) == RowsOf(t) # {}
RowsWithID(id) == {r \in queue : r.id = id}

-------------------------------------------------------------------------------
(* UploadTrack.                                                            *)

UploadTo(t, from, to) ==
    /\ proc # "down"
    /\ upload[t] = from
    /\ upload' = [upload EXCEPT ![t] = to]

\* CreateTrackWithAlbum commits, or its transaction is rolled back because the
\* album or the track is already there.
CreateTrack(t) ==
    /\ proc = "up"
    /\ \/ /\ UploadTo(t, "idle", "put")
          /\ tracks' = tracks \union {t}
       \/ /\ UploadTo(t, "idle", "failed")
          /\ UNCHANGED tracks
    /\ NoFault
    /\ UNCHANGED <<proc, presets, queue, nextID, fileVars, deletion, doomed,
                   workerVars>>

PutOriginal(t) ==
    /\ UploadTo(t, "put", "enqueue")
    /\ objects' = [objects EXCEPT ![t][Original] = "whole"]
    /\ NoFault
    /\ UNCHANGED <<proc, dbVars, tmp, removers, deletion, doomed, workerVars>>

\* Mutant of PutOriginalFails: a failed PutTrack does not end the request.
PutOriginalFailsAndGoesOn(t) ==
    /\ UploadTo(t, "put", "enqueue")
    /\ Fault
    /\ UNCHANGED <<proc, dbVars, fileVars, deletion, doomed, workerVars>>

\* The file cannot be read, or PutTrack reports an error, whether or not the
\* storage kept the object: the request returns and the row stays.
PutOriginalFails(t) ==
    /\ UploadTo(t, "put", "failed")
    /\ Fault
    /\ \E c \in {objects[t][Original], "whole"} :
           objects' = [objects EXCEPT ![t][Original] = c]
    /\ UNCHANGED <<proc, dbVars, tmp, removers, deletion, doomed, workerVars>>

InsertQueueRow(t, failed) ==
    /\ queue' = queue \union {[id |-> nextID, track |-> t, wasFailed |-> failed]}
    /\ nextID' = nextID + 1

AddToTranscodingQueue(t) ==
    /\ UploadTo(t, "enqueue", "signal")
    /\ t \in tracks
    /\ InsertQueueRow(t, FALSE)
    /\ NoFault
    /\ UNCHANGED <<proc, tracks, presets, fileVars, deletion, doomed, workerVars>>

\* The insert fails (the track was deleted meanwhile, or an error), or it
\* commits and the error is in the reply.
AddToTranscodingQueueFails(t) ==
    /\ UploadTo(t, "enqueue", "failed")
    /\ \/ t \notin tracks /\ NoFault /\ UNCHANGED <<queue, nextID>>
       \/ t \in tracks /\ Fault /\ UNCHANGED <<queue, nextID>>
       \/ t \in tracks /\ Fault /\ InsertQueueRow(t, FALSE)
    /\ UNCHANGED <<proc, tracks, presets, fileVars, deletion, doomed, workerVars>>

-------------------------------------------------------------------------------
(* The listener.                                                           *)

\* `go startWorker`: its consumer calls GetTranscodingQueue, with fresh locals.
startWorker ==
    /\ isWorkerStarted' = TRUE
    /\ \E w \in Workers :
           /\ producer[w] = "none"
           /\ producer' = [producer EXCEPT ![w] = "reading"]
    /\ UNCHANGED <<page, pageFull, lastElementID>>

\* Mutant of checkAndLaunchWorker: the flag is set but not looked at.
launchWorkerUnchecked ==
    \/ isWorkerStarted /\ UNCHANGED <<isWorkerStarted, producerVars>>
    \/ startWorker

\* CompareAndSwap(false, true) lets one worker in.
checkAndLaunchWorker ==
    \/ isWorkerStarted /\ UNCHANGED <<isWorkerStarted, producerVars>>
    \/ ~isWorkerStarted /\ startWorker

\* Mutant of ReceiveSignal: the listener runs the worker itself, so that it
\* receives nothing until the worker has ended.
ReceiveSignalBetweenWorkers(t) ==
    /\ listening
    /\ ~isWorkerStarted
    /\ UploadTo(t, "signal", "done")
    /\ startWorker
    /\ NoFault
    /\ UNCHANGED <<proc, dbVars, fileVars, deletion, doomed, listening, jobVars>>

\* The listener takes the value an upload is blocked on sending; both go on.
ReceiveSignal(t) ==
    /\ listening
    /\ UploadTo(t, "signal", "done")
    /\ checkAndLaunchWorker
    /\ NoFault
    /\ UNCHANGED <<proc, dbVars, fileVars, deletion, doomed, listening, jobVars>>

ReceiveTick ==
    /\ listening
    /\ proc # "down"
    /\ checkAndLaunchWorker
    /\ NoFault
    /\ UNCHANGED <<proc, dbVars, fileVars, requestVars, listening, jobVars>>

ListenerExits ==
    /\ proc = "stopping"
    /\ listening
    /\ listening' = FALSE
    /\ NoFault
    /\ UNCHANGED <<proc, dbVars, fileVars, requestVars, isWorkerStarted,
                   producerVars, jobVars>>

-------------------------------------------------------------------------------
(* The worker's producer: GetTranscodingQueue.                             *)

\* A call of the worker that returns an error: its context is cancelled once
\* the server is stopping, and before that the environment may fail it.
CallFails == \/ proc = "stopping" /\ NoFault
             \/ proc = "up" /\ Fault

\* SELECT id, track_id ... WHERE id > $1 ORDER BY id LIMIT $2
RowsAfter(id) == {[id |-> r.id, track |-> r.track] : r \in {q \in queue : q.id > id}}
FirstRows(rows, n) ==
    {r \in rows : Cardinality({s \in rows : s.id < r.id}) < n}

ReadPage(w) ==
    /\ proc = "up"
    /\ producer[w] = "reading"
    /\ LET rows == FirstRows(RowsAfter(lastElementID[w]), PageSize) IN
           /\ page' = [page EXCEPT ![w] = rows]
           /\ pageFull' = [pageFull EXCEPT ![w] = Cardinality(rows) = PageSize]
           /\ producer' = [producer EXCEPT ![w] =
                               IF rows = {} THEN "closed" ELSE "sending"]
    /\ NoFault
    /\ UNCHANGED <<proc, dbVars, fileVars, requestVars, listening,
                   isWorkerStarted, lastElementID, jobVars>>

ReadPageFails(w) ==
    /\ producer[w] = "reading"
    /\ CallFails
    /\ producer' = [producer EXCEPT ![w] = "closed"]
    /\ UNCHANGED <<proc, dbVars, fileVars, requestVars, listening,
                   isWorkerStarted, page, pageFull, lastElementID, jobVars>>

\* The consumer, between two jobs, takes the next row of the page; with the
\* last one the producer goes back to the query, while that row's job runs.
TakeRow(w) ==
    /\ proc # "down"
    /\ producer[w] = "sending"
    /\ job[w] = "idle"
    /\ \A t \in Tracks : removers[t] <= RemoverLimit
    /\ \E r \in page[w] :
           /\ \A s \in page[w] : r.id <= s.id
           /\ page' = [page EXCEPT ![w] = @ \ {r}]
           /\ lastElementID' = [lastElementID EXCEPT ![w] = r.id]
           /\ jobRow' = [jobRow EXCEPT ![w] = r]
           /\ producer' = [producer EXCEPT ![w] =
                               IF page[w] # {r} THEN "sending"
                               ELSE IF pageFull[w] THEN "reading" ELSE "closed"]
    /\ job' = [job EXCEPT ![w] = "fetch"]
    /\ NoFault
    /\ UNCHANGED <<proc, dbVars, fileVars, requestVars, listening,
                   isWorkerStarted, pageFull, todo>>

\* Mutant of WorkerEnds: the flag stays set.
WorkerEndsFlagSet(w) ==
    /\ proc # "down"
    /\ producer[w] = "closed"
    /\ job[w] = "idle"
    /\ producer' = [producer EXCEPT ![w] = "none"]
    /\ pageFull' = [pageFull EXCEPT ![w] = FALSE]
    /\ lastElementID' = [lastElementID EXCEPT ![w] = 0]
    /\ NoFault
    /\ UNCHANGED <<proc, dbVars, fileVars, requestVars, listening, isWorkerStarted,
                   page, jobVars>>

\* The queue channel is closed and drained: startWorker resets the flag.
WorkerEnds(w) ==
    /\ proc # "down"
    /\ producer[w] = "closed"
    /\ job[w] = "idle"
    /\ producer' = [producer EXCEPT ![w] = "none"]
    /\ pageFull' = [pageFull EXCEPT ![w] = FALSE]
    /\ lastElementID' = [lastElementID EXCEPT ![w] = 0]
    /\ isWorkerStarted' = FALSE
    /\ NoFault
    /\ UNCHANGED <<proc, dbVars, fileVars, requestVars, listening, page, jobVars>>

-------------------------------------------------------------------------------
(* The worker's consumer: job.                                             *)

At(w, stage) == proc # "down" /\ job[w] = stage

\* The job goes on with another stage, and with the presets of its loop.
GoOn(w, stage, left) ==
    /\ job' = [job EXCEPT ![w] = stage]
    /\ todo' = [todo EXCEPT ![w] = left]
    /\ UNCHANGED <<jobRow, removers>>

\* job returns; its deferred call starts a removeTmpFiles goroutine.
Return(w) ==
    /\ job' = [job EXCEPT ![w] = "idle"]
    /\ todo' = [todo EXCEPT ![w] = {}]
    /\ jobRow' = [jobRow EXCEPT ![w] = NoRow]
    /\ removers' = [removers EXCEPT ![jobRow[w].track] = @ + 1]

\* What no step of a job changes.
JobFrame == UNCHANGED <<proc, tracks, requestVars, listening, isWorkerStarted,
                        producerVars>>

\* writeTrackToTmpFile
FetchOriginal(w) ==
    LET t == jobRow[w].track IN
    /\ At(w, "fetch")
    /\ proc = "up"
    /\ objects[t][Original] # "none"
    /\ tmp' = [tmp EXCEPT ![t][Original] = objects[t][Original]]
    /\ GoOn(w, "transcode", Presets)
    /\ NoFault
    /\ JobFrame /\ UNCHANGED <<presets, queue, nextID, objects>>

FetchOriginalFails(w) ==
    LET t == jobRow[w].track IN
    /\ At(w, "fetch")
    /\ \/ objects[t][Original] = "none" /\ NoFault /\ UNCHANGED tmp
       \/ CallFails /\ UNCHANGED tmp
       \/ CallFails /\ tmp' = [tmp EXCEPT ![t][Original] = "partial"]
    /\ Return(w)
    /\ JobFrame /\ UNCHANGED <<presets, queue, nextID, objects>>

\* One of transcodeConcurrent's goroutines: ffmpeg writes the preset's file.  If
\* it fails (no input, or an error half-way) the error is logged and the preset
\* counts as done all the same.
TranscodePreset(w, p) ==
    LET t == jobRow[w].track IN
    /\ At(w, "transcode")
    /\ p \in todo[w]
    /\ \/ /\ proc = "up"
          /\ tmp[t][Original] # "none"
          /\ tmp' = [tmp EXCEPT ![t][p] = "whole"]
          /\ NoFault
       \/ tmp[t][Original] = "none" /\ NoFault /\ UNCHANGED tmp
       \/ CallFails /\ UNCHANGED tmp
       \/ CallFails /\ tmp' = [tmp EXCEPT ![t][p] = "partial"]
    /\ GoOn(w, IF todo[w] = {p} THEN "probe" ELSE "transcode", todo[w] \ {p})
    /\ JobFrame /\ UNCHANGED <<presets, queue, nextID, objects>>

\* The timeout (or the server's stop) comes first and kills the commands that
\* still run, each with or without a partial output.
TranscodeTimesOut(w) ==
    /\ At(w, "transcode")
    /\ CallFails
    /\ \E cut \in SUBSET todo[w] :
           tmp' = [tmp EXCEPT ![jobRow[w].track] =
                       [k \in Kinds |-> IF k \in cut THEN "partial" ELSE @[k]]]
    /\ GoOn(w, "requeue", {})
    /\ JobFrame /\ UNCHANGED <<presets, queue, nextID, objects>>

\* Mutants of OnFailedTranscoding: the row is put back and the old one is not
\* deleted; or it is deleted and not put back.
RequeueAndKeep(w) ==
    /\ At(w, "requeue")
    /\ proc = "up"
    /\ \E r \in RowsWithID(jobRow[w].id) : InsertQueueRow(r.track, TRUE)
    /\ NoFault
    /\ Return(w)
    /\ JobFrame /\ UNCHANGED <<presets, objects, tmp>>

DropFailedRow(w) ==
    /\ At(w, "requeue")
    /\ proc = "up"
    /\ queue' = queue \ RowsWithID(jobRow[w].id)
    /\ NoFault
    /\ Return(w)
    /\ JobFrame /\ UNCHANGED <<presets, nextID, objects, tmp>>

\* One transaction: the row is deleted and comes back with a new id, marked
\* failed.  Without the row (the track was deleted) it is rolled back.
OnFailedTranscoding(w) ==
    /\ At(w, "requeue")
    /\ \/ /\ proc = "up"
          /\ \E r \in RowsWithID(jobRow[w].id) :
                 queue' = (queue \ {r}) \union
                     {[id |-> nextID, track |-> r.track, wasFailed |-> TRUE]}
          /\ nextID' = nextID + 1
          /\ NoFault
       \/ RowsWithID(jobRow[w].id) = {} /\ NoFault /\ UNCHANGED <<queue, nextID>>
       \/ CallFails /\ UNCHANGED <<queue, nextID>>
    /\ Return(w)
    /\ JobFrame /\ UNCHANGED <<presets, objects, tmp>>

ProbeDuration(w) ==
    LET t == jobRow[w].track IN
    /\ At(w, "probe")
    /\ \/ /\ proc = "up"
          /\ tmp[t][Original] # "none"
          /\ GoOn(w, "upload", Presets)
          /\ NoFault
       \/ tmp[t][Original] = "none" /\ Return(w) /\ NoFault
       \/ Return(w) /\ CallFails
    /\ JobFrame /\ UNCHANGED <<presets, queue, nextID, objects, tmp>>

\* Mutant of UploadPreset: a preset whose file cannot be opened is skipped.
UploadPresetIfThere(w, p) ==
    LET t == jobRow[w].track IN
    /\ At(w, "upload")
    /\ proc = "up"
    /\ p \in todo[w]
    /\ objects' = [objects EXCEPT ![t][p] = IF tmp[t][p] = "none" THEN @ ELSE tmp[t][p]]
    /\ GoOn(w, IF todo[w] = {p} THEN "commit" ELSE "upload", todo[w] \ {p})
    /\ NoFault
    /\ JobFrame /\ UNCHANGED <<presets, queue, nextID, tmp>>

\* One turn of uploadTmpFilesToStorage's loop over a Go map: any preset is next.
UploadPreset(w, p) ==
    LET t == jobRow[w].track IN
    /\ At(w, "upload")
    /\ p \in todo[w]
    /\ \/ /\ proc = "up"
          /\ tmp[t][p] # "none"
          /\ objects' = [objects EXCEPT ![t][p] = tmp[t][p]]
          /\ GoOn(w, IF todo[w] = {p} THEN "commit" ELSE "upload", todo[w] \ {p})
          /\ NoFault
       \/ tmp[t][p] = "none" /\ Return(w) /\ NoFault /\ UNCHANGED objects
       \/ CallFails /\ Return(w) /\ UNCHANGED objects
    /\ JobFrame /\ UNCHANGED <<presets, queue, nextID, tmp>>

\* Mutant of RemoveFromQueueAndUpdateTrack: no transaction around the two
\* statements, the second of which may fail.
RemoveFromQueueThenUpdateTrack(w) ==
    /\ At(w, "commit")
    /\ \E r \in RowsWithID(jobRow[w].id) :
           /\ queue' = queue \ {r}
           /\ \/ presets' = [presets EXCEPT ![r.track] = TranscodedNames(jobRow[w].track)] /\ NoFault
              \/ UNCHANGED presets /\ CallFails
    /\ Return(w)
    /\ JobFrame /\ UNCHANGED <<nextID, objects, tmp>>

\* One transaction: the row is deleted by its id and the track it refers to gets
\* the names that the job has built from the file name in the row it was given.
\* Without the row it is rolled back.
RemoveFromQueueAndUpdateTrack(w) ==
    /\ At(w, "commit")
    /\ \/ /\ proc = "up"
          /\ \E r \in RowsWithID(jobRow[w].id) :
                 /\ queue' = queue \ {r}
                 /\ presets' = [presets EXCEPT ![r.track] = TranscodedNames(jobRow[w].track)]
          /\ NoFault
       \/ RowsWithID(jobRow[w].id) = {} /\ NoFault /\ UNCHANGED <<queue, presets>>
       \/ CallFails /\ UNCHANGED <<queue, presets>>
    /\ Return(w)
    /\ JobFrame /\ UNCHANGED <<nextID, objects, tmp>>

\* Mutant of removeTmpFiles: it runs without having been started.
removeTmpFilesUnasked(t) ==
    /\ proc # "down"
    /\ removers' = [removers EXCEPT ![t] = @ - 1]
    /\ tmp' = [tmp EXCEPT ![t] = [k \in Kinds |-> "none"]]
    /\ NoFault
    /\ UNCHANGED <<proc, dbVars, objects, requestVars, workerVars>>

\* A removeTmpFiles goroutine of an earlier job on t, at any later moment: also
\* under the next job on the same files.  Its five os.Remove calls are one step:
\* what a job sees with some of the files gone, it sees too when all are gone
\* after its last use of the others.
removeTmpFiles(t) ==
    /\ proc # "down"
    /\ removers[t] > 0
    /\ removers' = [removers EXCEPT ![t] = @ - 1]
    /\ tmp' = [tmp EXCEPT ![t] = [k \in Kinds |-> "none"]]
    /\ NoFault
    /\ UNCHANGED <<proc, dbVars, objects, requestVars, workerVars>>

-------------------------------------------------------------------------------
(* DeleteTrack.                                                            *)

DeletionTo(t, from, to) ==
    /\ proc # "down"
    /\ deletion[t] \in from
    /\ deletion' = [deletion EXCEPT ![t] = to]

DeletionFrame == UNCHANGED <<proc, tmp, removers, upload, workerVars>>

\* getTrack: the preset names as they are now.  A failed request may be repeated.
DeleteTrack(t) ==
    /\ proc = "up"
    /\ t \in tracks \cap Deletable
    /\ DeletionTo(t, {"idle", "failed"}, "objects")
    /\ doomed' = [doomed EXCEPT ![t] = presets[t]]
    /\ NoFault
    /\ DeletionFrame /\ UNCHANGED <<dbVars, objects>>

RemovePresetObject(t, n) ==
    /\ DeletionTo(t, {"objects"}, "objects")
    /\ n \in doomed[t]
    /\ doomed' = [doomed EXCEPT ![t] = @ \ {n}]
    /\ objects' = [objects EXCEPT ![n[1]][n[2]] = "none"]
    /\ NoFault
    /\ DeletionFrame /\ UNCHANGED dbVars

RemoveOriginalObject(t) ==
    /\ DeletionTo(t, {"objects"}, "row")
    /\ doomed[t] = {}
    /\ objects' = [objects EXCEPT ![t][Original] = "none"]
    /\ NoFault
    /\ DeletionFrame /\ UNCHANGED <<dbVars, doomed>>

\* Some preset's object cannot be removed: the other presets are still tried,
\* the original is not.  Or the removal of the original reports an error.  The
\* request fails, with the row in place.
RemoveObjectFails(t) ==
    /\ DeletionTo(t, {"objects"}, "failed")
    /\ Fault
    /\ \E gone \in SUBSET (IF doomed[t] = {} THEN {<<t, Original>>} ELSE doomed[t]) :
           objects' = [s \in Tracks |-> [k \in Kinds |->
                           IF <<s, k>> \in gone THEN "none" ELSE objects[s][k]]]
    /\ doomed' = [doomed EXCEPT ![t] = {}]
    /\ DeletionFrame /\ UNCHANGED dbVars

\* One transaction; the queue row goes with the track (ON DELETE CASCADE).
RemoveRows(t) ==
    /\ tracks' = tracks \ {t}
    /\ presets' = [presets EXCEPT ![t] = {}]
    /\ queue' = queue \ RowsOf(t)

\* The transaction commits, is rolled back, or commits with an error in the reply.
DeleteTrackRow(t) ==
    /\ \/ DeletionTo(t, {"row"}, "done") /\ RemoveRows(t) /\ NoFault
       \/ DeletionTo(t, {"row"}, "failed") /\ Fault /\ UNCHANGED <<tracks, presets, queue>>
       \/ DeletionTo(t, {"row"}, "failed") /\ Fault /\ RemoveRows(t)
    /\ DeletionFrame /\ UNCHANGED <<nextID, objects, doomed>>

-------------------------------------------------------------------------------
(* The process.                                                            *)

\* SIGTERM or SIGINT: the root context, and with it the worker's, is cancelled.
Stop ==
    /\ proc = "up"
    /\ Fault
    /\ proc' = "stopping"
    /\ UNCHANGED <<dbVars, fileVars, requestVars, workerVars>>

\* The process ends: after the stop's grace period, or killed at any moment.
\* Requests and goroutines are gone; database, objects and tmp files stay.
Exit ==
    /\ \/ proc = "stopping" /\ NoFault
       \/ proc = "up" /\ Fault
    /\ proc' = "down"
    /\ upload' = [t \in Tracks |->
           IF upload[t] \in {"put", "enqueue", "signal"} THEN "failed" ELSE upload[t]]
    /\ deletion' = [t \in Tracks |->
           IF deletion[t] \in {"objects", "row"} THEN "failed" ELSE deletion[t]]
    /\ doomed' = [t \in Tracks |-> {}]
    /\ removers' = [t \in Tracks |-> 0]
    /\ listening' = FALSE
    /\ isWorkerStarted' = FALSE
    /\ producer' = [w \in Workers |-> "none"]
    /\ page' = [w \in Workers |-> {}]
    /\ pageFull' = [w \in Workers |-> FALSE]
    /\ lastElementID' = [w \in Workers |-> 0]
    /\ job' = [w \in Workers |-> "idle"]
    /\ jobRow' = [w \in Workers |-> NoRow]
    /\ todo' = [w \in Workers |-> {}]
    /\ UNCHANGED <<dbVars, objects, tmp>>

Restart ==
    /\ proc = "down"
    /\ proc' = "up"
    /\ listening' = TRUE
    /\ NoFault
    /\ UNCHANGED <<dbVars, fileVars, requestVars, isWorkerStarted, producerVars,
                   jobVars>>

-------------------------------------------------------------------------------
UploadStep(t) ==
    \/ PutOriginal(t) \/ PutOriginalFails(t)
    \/ AddToTranscodingQueue(t) \/ AddToTranscodingQueueFails(t)

DeletionStep(t) ==
    \/ \E n \in Names : RemovePresetObject(t, n)
    \/ RemoveOriginalObject(t) \/ RemoveObjectFails(t) \/ DeleteTrackRow(t)

ProducerStep(w) == ReadPage(w) \/ ReadPageFails(w)

JobStep(w) ==
    \/ FetchOriginal(w) \/ FetchOriginalFails(w)
    \/ \E p \in Presets : TranscodePreset(w, p) \/ UploadPreset(w, p)
    \/ TranscodeTimesOut(w) \/ OnFailedTranscoding(w)
    \/ ProbeDuration(w) \/ RemoveFromQueueAndUpdateTrack(w)

Next ==
    \/ \E t \in Tracks :
           \/ CreateTrack(t) \/ UploadStep(t) \/ ReceiveSignal(t)
           \/ DeleteTrack(t) \/ DeletionStep(t) \/ removeTmpFiles(t)
    \/ \E w \in Workers : ProducerStep(w) \/ TakeRow(w) \/ JobStep(w) \/ WorkerEnds(w)
    \/ ReceiveTick \/ ListenerExits
    \/ Stop \/ Exit \/ Restart

Spec == Init /\ [][Next]_vars

\* Goroutines and handlers that can run do run; the ticker ticks; a stopping
\* process exits (Shutdown has a five second limit) and is started again.
\* Nothing obliges a client to upload or delete, or the environment to fail.
Fairness ==
    /\ \A t \in Tracks :
           /\ WF_vars(UploadStep(t))
           /\ WF_vars(ReceiveSignal(t))
           /\ WF_vars(DeletionStep(t))
           /\ WF_vars(removeTmpFiles(t))
    /\ \A w \in Workers :
           /\ WF_vars(ProducerStep(w))
           /\ WF_vars(TakeRow(w))
           /\ WF_vars(JobStep(w))
           /\ WF_vars(WorkerEnds(w))
    /\ WF_vars(ReceiveTick)
    /\ WF_vars(proc = "stopping" /\ Exit)
    /\ WF_vars(Restart)

FairSpec == Spec /\ Fairness

-------------------------------------------------------------------------------
(* Properties.                                                             *)

\* startWorker runs at most once at a time, although ticks and signals keep
\* arriving while a worker drains the queue and while it is just ending: two
\* jobs would write the same temporary files and requeue each other's rows.
OneWorker ==
    \A v, w \in Workers :
        producer[v] # "none" /\ producer[w] # "none" => v = w

\* A track has at most one row in the transcoding queue, whatever failed,
\* timed out and was put back, and a row never waits for a deleted track or
\* for one that already has its presets.
OneLiveRowPerTrack ==
    \A r \in queue :
        /\ r.track \in tracks
        /\ presets[r.track] = {}
        /\ \A s \in queue : s.track = r.track => s = r

\* A preset that the track row names can be streamed: the name is that of an
\* encoding of this track, and its object is stored, unless a request to delete the
\* track has begun to remove objects.
NamedPresetsStored ==
    \A t \in tracks : \A n \in presets[t] :
        n[1] = t /\ (deletion[t] = "idle" => objects[t][n[2]] # "none")

\* The original of a queued track is stored when its job comes to read it,
\* unless a request to delete the track has begun.
QueuedOriginalStored ==
    \A t \in tracks :
        Queued(t) /\ deletion[t] = "idle" => objects[t][Original] = "whole"

\* What a job announces as "track transcoded successfully" and publishes is the
\* whole output of ffmpeg.
PublishedPresetsWhole ==
    \A t \in tracks : \A n \in presets[t] : objects[n[1]][n[2]] # "partial"

\* The abstract specification, over the database rows and the answered requests.
Status(t) ==
    IF t \in tracks
    THEN IF presets[t] # {} THEN "ready" ELSE IF Queued(t) THEN "queued" ELSE "created"
    ELSE IF deletion[t] = "idle" THEN "absent" ELSE "gone"

Lifecycle == INSTANCE TrackLifecycle WITH
    status <- [t \in Tracks |-> Status(t)],
    accepted <- {t \in Tracks : upload[t] = "done"}

\* Every step of the pipeline is a step of the promised life of one track: an
\* accepted upload stays queued or ready until it is deleted, presets appear
\* all at once and never disappear, and a deleted track does not come back.
ImplementsLifecycle == Lifecycle!Spec

\* Every queue row is eventually given to a job or leaves the table: a wake-up
\* lost to a worker that is just ending is made up for by the ticker, and rows
\* whose jobs keep failing do not keep the rows behind them waiting.
EveryRowIsTaken ==
    \A id \in 1..(Cardinality(Tracks) + MaxFaults) :
        RowsWithID(id) # {} ~>
            \/ RowsWithID(id) = {}
            \/ \E w \in Workers : jobRow[w] # NoRow /\ jobRow[w].id = id

\* An upload blocked on the unbuffered signal channel is answered, or cut off
\* by the end of the process; it does not wait for the transcoding.
UploadsAreAnswered ==
    \A t \in Tracks : upload[t] = "signal" ~> upload[t] \in {"done", "failed"}

\* An accepted track that nobody deletes gets its presets, once the environment
\* stops failing.  This needs the temporary files of a failed job to be gone
\* before the next one starts (RemoverLimit = 0).
AcceptedBecomesReady ==
    \A t \in Tracks :
        upload[t] = "done" ~> presets[t] = TranscodedNames(t) \/ deletion[t] # "idle"
================================================================================
