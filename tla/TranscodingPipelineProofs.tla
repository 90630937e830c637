----------------------- MODULE TranscodingPipelineProofs -----------------------
(***************************************************************************)
(* Proofs about TranscodingPipeline, for every value of its constants.     *)
(*                                                                         *)
(* The inductive invariant has four parts.  WorkerInv ties the flag to the *)
(* one running worker.  RowInv says that the copies of queue rows that the *)
(* worker holds never contradict the table, although the table changes     *)
(* under them: ids are never given twice.  DBInv relates the rows to the   *)
(* requests that made them.  FileInv says which objects must be stored as  *)
(* long as no deletion of the track has begun.                             *)
(***************************************************************************)
EXTENDS TranscodingPipeline, TLAPS

WorkerInv ==
    /\ OneWorker
    /\ \A w \in Workers : producer[w] # "none" => isWorkerStarted

\* The row r, read some time ago, agrees with the row of that id, if it is left.
Agrees(r) ==
    /\ r.id < nextID
    /\ \A q \in queue : q.id = r.id => q.track = r.track

RowInv ==
    /\ \A r \in queue : r.id < nextID
    /\ \A r, s \in queue : r.id = s.id => r = s
    /\ \A w \in Workers :
           /\ \A r \in page[w] : Agrees(r)
           /\ job[w] = "idle" <=> jobRow[w] = NoRow
           /\ jobRow[w] # NoRow => Agrees(jobRow[w])

DBInv ==
    /\ OneLiveRowPerTrack
    /\ \A t \in Tracks :
           /\ presets[t] \in {{}, TranscodedNames(t)}
           /\ t \notin tracks => presets[t] = {}
           /\ upload[t] = "idle" => t \notin tracks /\ deletion[t] = "idle"
           /\ upload[t] \in {"idle", "put", "enqueue"} => presets[t] = {} /\ ~Queued(t)
           /\ upload[t] \in {"signal", "done"} =>
                  t \notin tracks \/ Queued(t) \/ presets[t] = TranscodedNames(t)
           /\ upload[t] \in {"put", "enqueue", "signal", "done"} =>
                  t \in tracks \/ deletion[t] # "idle"
           /\ deletion[t] \in {"objects", "row"} => t \in tracks
           /\ deletion[t] = "done" => t \notin tracks

FileInv ==
    /\ NamedPresetsStored
    /\ QueuedOriginalStored
    /\ \A t \in Tracks :
           /\ doomed[t] \subseteq TranscodedNames(t)
           /\ upload[t] = "enqueue" /\ deletion[t] = "idle" =>
                  objects[t][Original] = "whole"
    /\ \A w \in Workers :
           /\ job[w] = "commit" => todo[w] = {}
           /\ job[w] \in {"upload", "commit"} /\ deletion[jobRow[w].track] = "idle" =>
                  \A p \in Presets \ todo[w] : objects[jobRow[w].track][p] # "none"

IInv == TypeOK /\ WorkerInv /\ RowInv /\ DBInv /\ FileInv

-------------------------------------------------------------------------------
(* Writing one file, or all files of one track, gives files again.          *)
LEMMA WriteFile ==
    ASSUME NEW F \in Files, NEW t, NEW k, NEW c, t \in Tracks => c \in Content
    PROVE  [F EXCEPT ![t][k] = c] \in Files
BY DEF Files

\* Writing all files of a track keeps the files well-formed.
LEMMA WriteFiles ==
    ASSUME NEW F \in Files, NEW t, NEW G, t \in Tracks => G \in [Kinds -> Content]
    PROVE  [F EXCEPT ![t] = G] \in Files
BY DEF Files

\* What is read of a track's file is a content.
LEMMA ReadFile ==
    ASSUME NEW F \in Files, NEW t \in Tracks, NEW k \in Kinds
    PROVE  F[t][k] \in Content
BY DEF Files

\* The names built from a track's original are those of its own encodings.
LEMMA OwnNames ==
    ASSUME NEW t, NEW n \in TranscodedNames(t)
    PROVE  n[1] = t /\ n[2] \in Presets /\ n = <<t, n[2]>>
BY DEF TranscodedNames

\* There are such names, and they are names.
LEMMA NamesAreNames ==
    ASSUME NEW t \in Tracks
    PROVE  TranscodedNames(t) # {} /\ TranscodedNames(t) \subseteq Names
<1>1. PICK p \in Presets : TRUE
  BY ConstantsAssumption
<1>2. <<t, p>> \in TranscodedNames(t)
  BY DEF TranscodedNames
<1>3. QED
  BY <1>2 DEF TranscodedNames, Names

\* INSERT into transcoding_queue keeps the types of the table and its sequence.
LEMMA InsertTypes ==
    ASSUME TypeOK, NEW t \in Tracks, NEW b \in BOOLEAN, InsertQueueRow(t, b)
    PROVE  queue' \in SUBSET QueueRow /\ nextID' \in Nat \ {0}
<1>1. [id |-> nextID, track |-> t, wasFailed |-> b] \in QueueRow
  BY DEF TypeOK, QueueRow
<1>2. QED
  BY <1>1 DEF TypeOK, InsertQueueRow

JobTypes ==
    /\ job \in [Workers -> JobStages]
    /\ jobRow \in [Workers -> PageRow \union {NoRow}]
    /\ todo \in [Workers -> SUBSET Presets]
    /\ removers \in [Tracks -> Nat]
    /\ \A w \in Workers : job[w] # "idle" => jobRow[w] # NoRow

\* A job's return keeps the types of what it changes.
LEMMA ReturnTypes ==
    ASSUME TypeOK, NEW w \in Workers, Return(w)
    PROVE  JobTypes'
<1>1. removers' \in [Tracks -> Nat]
  <2>1. removers \in [Tracks -> Nat]
    BY DEF TypeOK
  <2>2. removers' = [removers EXCEPT ![jobRow[w].track] = @ + 1]
    BY DEF Return
  <2>3. CASE jobRow[w].track \in Tracks
    <3>1. removers[jobRow[w].track] + 1 \in Nat
      BY <2>1, <2>3
    <3>2. QED
      BY <2>1, <2>2, <3>1
  <2>4. CASE jobRow[w].track \notin Tracks
    BY <2>1, <2>2, <2>4
  <2>5. QED
    BY <2>3, <2>4
<1>2. job' \in [Workers -> JobStages]
  BY DEF TypeOK, Return, JobStages
<1>3. jobRow' \in [Workers -> PageRow \union {NoRow}]
  BY DEF TypeOK, Return
<1>4. \A v \in Workers : job'[v] # "idle" => jobRow'[v] # NoRow
  BY DEF TypeOK, Return
<1>5. QED
  BY <1>1, <1>2, <1>3, <1>4 DEF TypeOK, Return, JobTypes

\* A job that goes on keeps the types of what it changes.
LEMMA GoOnTypes ==
    ASSUME TypeOK, NEW w \in Workers, job[w] # "idle", NEW stage \in JobStages,
           NEW left \in SUBSET Presets, GoOn(w, stage, left)
    PROVE  JobTypes'
BY DEF TypeOK, GoOn, JobTypes

-------------------------------------------------------------------------------
\* Every step of requests, goroutines and process keeps the types.
LEMMA TypingStep ==
    ASSUME TypeOK, [Next]_vars
    PROVE  TypeOK'
<1> USE DEF TypeOK, vars, dbVars, fileVars, requestVars, producerVars, jobVars, workerVars,
        Fault, NoFault, CallFails, JobFrame, UploadTo,
        DeletionTo, DeletionFrame, UploadStages, DeletionStages,
        ProducerStages, JobStages
<1>1. ASSUME NEW t \in Tracks, CreateTrack(t) PROVE TypeOK'
  BY <1>1 DEF CreateTrack
<1>2. ASSUME NEW t \in Tracks, PutOriginal(t) PROVE TypeOK'
  <2>1. objects' \in Files
    BY <1>2, WriteFile DEF PutOriginal, Content
  <2> QED
    BY <1>2, <2>1 DEF PutOriginal
<1>3. ASSUME NEW t \in Tracks, PutOriginalFails(t) PROVE TypeOK'
  <2>1. PICK c \in {objects[t][Original], "whole"} :
            objects' = [objects EXCEPT ![t][Original] = c]
    BY <1>3 DEF PutOriginalFails
  <2>2. objects' \in Files
    BY <2>1, WriteFile, ReadFile DEF Content, Kinds
  <2> QED
    BY <1>3, <2>2 DEF PutOriginalFails
<1>4. ASSUME NEW t \in Tracks, AddToTranscodingQueue(t) PROVE TypeOK'
  <2>1. queue' \in SUBSET QueueRow /\ nextID' \in Nat \ {0}
    BY <1>4, InsertTypes DEF AddToTranscodingQueue
  <2> QED
    BY <1>4, <2>1 DEF AddToTranscodingQueue
<1>5. ASSUME NEW t \in Tracks, AddToTranscodingQueueFails(t) PROVE TypeOK'
  <2>1. queue' \in SUBSET QueueRow /\ nextID' \in Nat \ {0}
    BY <1>5, InsertTypes DEF AddToTranscodingQueueFails
  <2>2. faults' \in Nat
    <3>1. CASE NoFault
      BY <3>1
    <3>2. CASE Fault
      BY <3>2
    <3> HIDE DEF Fault, NoFault
    <3>3. QED
      BY <1>5, <3>1, <3>2, Zenon DEF AddToTranscodingQueueFails
  <2>3. upload' \in [Tracks -> UploadStages]
    BY <1>5 DEF AddToTranscodingQueueFails
  <2> QED
    BY <1>5, <2>1, <2>2, <2>3 DEF AddToTranscodingQueueFails
<1>6. ASSUME NEW t \in Tracks, ReceiveSignal(t) PROVE TypeOK'
  BY <1>6 DEF ReceiveSignal, checkAndLaunchWorker, startWorker
<1>7. ASSUME NEW t \in Tracks, removeTmpFiles(t) PROVE TypeOK'
  <2>1. tmp' \in Files
    BY <1>7, WriteFiles DEF removeTmpFiles, Content
  <2>2. removers' \in [Tracks -> Nat]
    BY <1>7 DEF removeTmpFiles
  <2> QED
    BY <1>7, <2>1, <2>2 DEF removeTmpFiles
<1>8. ASSUME NEW t \in Tracks, DeleteTrack(t) PROVE TypeOK'
  BY <1>8 DEF DeleteTrack
<1>9. ASSUME NEW t \in Tracks, RemoveOriginalObject(t) PROVE TypeOK'
  <2>1. objects' \in Files
    BY <1>9, WriteFile DEF RemoveOriginalObject, Content
  <2> QED
    BY <1>9, <2>1 DEF RemoveOriginalObject
<1>10. ASSUME NEW t \in Tracks, RemoveObjectFails(t) PROVE TypeOK'
  <2>1. objects' \in Files
    BY <1>10 DEF RemoveObjectFails, Content, Files
  <2> QED
    BY <1>10, <2>1 DEF RemoveObjectFails
<1>11. ASSUME NEW t \in Tracks, DeleteTrackRow(t) PROVE TypeOK'
  BY <1>11 DEF DeleteTrackRow, RemoveRows, RowsOf
<1>12. ASSUME NEW t \in Tracks, NEW n \in Names, RemovePresetObject(t, n) PROVE TypeOK'
  <2>1. objects' \in Files
    BY <1>12, WriteFile DEF RemovePresetObject, Content
  <2>2. doomed' \in [Tracks -> SUBSET Names]
    BY <1>12 DEF RemovePresetObject
  <2> QED
    BY <1>12, <2>1, <2>2 DEF RemovePresetObject
<1>13. ASSUME NEW w \in Workers, ReadPage(w) PROVE TypeOK'
  BY <1>13 DEF ReadPage, FirstRows, RowsAfter, QueueRow, PageRow
<1>14. ASSUME NEW w \in Workers, ReadPageFails(w) PROVE TypeOK'
  BY <1>14 DEF ReadPageFails
<1>15. ASSUME NEW w \in Workers, TakeRow(w) PROVE TypeOK'
  <2>1. jobRow' \in [Workers -> PageRow \union {NoRow}]
    BY <1>15 DEF TakeRow
  <2>2. page' \in [Workers -> SUBSET PageRow]
    BY <1>15 DEF TakeRow
  <2>3. lastElementID' \in [Workers -> Nat]
    BY <1>15 DEF TakeRow, PageRow
  <2>4. producer' \in [Workers -> ProducerStages]
    BY <1>15 DEF TakeRow
  <2>5. \A v \in Workers : job'[v] # "idle" => jobRow'[v] # NoRow
    BY <1>15, ConstantsAssumption DEF TakeRow, PageRow
  <2> QED
    BY <1>15, <2>1, <2>2, <2>3, <2>4, <2>5 DEF TakeRow
<1>16. ASSUME NEW w \in Workers, WorkerEnds(w) PROVE TypeOK'
  BY <1>16 DEF WorkerEnds
<1>17. ASSUME NEW w \in Workers, FetchOriginal(w) PROVE TypeOK'
  <2>1. tmp' \in Files
    BY <1>17, WriteFile, ReadFile DEF FetchOriginal, Kinds
  <2>2. JobTypes'
    BY <1>17, GoOnTypes DEF FetchOriginal, At
  <2> QED
    BY <1>17, <2>1, <2>2 DEF FetchOriginal, JobTypes
<1>18. ASSUME NEW w \in Workers, FetchOriginalFails(w) PROVE TypeOK'
  <2>1. tmp' \in Files
    <3>1. CASE tmp' = [tmp EXCEPT ![jobRow[w].track][Original] = "partial"]
      BY <3>1, WriteFile DEF Content
    <3>2. CASE UNCHANGED tmp
      BY <3>2
    <3>3. QED
      BY <1>18, <3>1, <3>2 DEF FetchOriginalFails
  <2>2. JobTypes'
    BY <1>18, ReturnTypes DEF FetchOriginalFails
  <2> QED
    BY <1>18, <2>1, <2>2 DEF FetchOriginalFails, JobTypes
<1>19. ASSUME NEW w \in Workers, TranscodeTimesOut(w) PROVE TypeOK'
  <2>1. tmp' \in Files
    BY <1>19, WriteFiles DEF TranscodeTimesOut, Content, Files
  <2>2. JobTypes'
    BY <1>19, GoOnTypes DEF TranscodeTimesOut, At
  <2> QED
    BY <1>19, <2>1, <2>2 DEF TranscodeTimesOut, JobTypes
<1>20. ASSUME NEW w \in Workers, OnFailedTranscoding(w) PROVE TypeOK'
  <2>1. queue' \in SUBSET QueueRow /\ nextID' \in Nat \ {0}
    <3>1. CASE UNCHANGED <<queue, nextID>>
      BY <3>1
    <3>2. CASE nextID' = nextID + 1
      <4>1. PICK r \in RowsWithID(jobRow[w].id) :
                queue' = (queue \ {r}) \union
                    {[id |-> nextID, track |-> r.track, wasFailed |-> TRUE]}
        BY <1>20, <3>2 DEF OnFailedTranscoding
      <4>2. [id |-> nextID, track |-> r.track, wasFailed |-> TRUE] \in QueueRow
        BY <4>1 DEF RowsWithID, QueueRow
      <4>3. queue' \in SUBSET QueueRow
        BY <4>1, <4>2
      <4>4. QED
        BY <3>2, <4>3
    <3>3. QED
      BY <1>20, <3>1, <3>2 DEF OnFailedTranscoding
  <2>2. JobTypes'
    BY <1>20, ReturnTypes DEF OnFailedTranscoding
  <2> QED
    BY <1>20, <2>1, <2>2 DEF OnFailedTranscoding, JobTypes
<1>21. ASSUME NEW w \in Workers, ProbeDuration(w) PROVE TypeOK'
  <2>1. JobTypes'
    BY <1>21, ReturnTypes, GoOnTypes DEF ProbeDuration, At
  <2> QED
    BY <1>21, <2>1 DEF ProbeDuration, JobTypes
<1>22. ASSUME NEW w \in Workers, RemoveFromQueueAndUpdateTrack(w) PROVE TypeOK'
  <2>0. TranscodedNames(jobRow[w].track) \subseteq Names
    BY <1>22, NamesAreNames DEF RemoveFromQueueAndUpdateTrack, At, PageRow
  <2>1. queue' \in SUBSET QueueRow /\ presets' \in [Tracks -> SUBSET Names]
    BY <1>22, <2>0 DEF RemoveFromQueueAndUpdateTrack
  <2>2. JobTypes'
    BY <1>22, ReturnTypes DEF RemoveFromQueueAndUpdateTrack
  <2> QED
    BY <1>22, <2>1, <2>2 DEF RemoveFromQueueAndUpdateTrack, JobTypes
<1>23. ASSUME NEW w \in Workers, NEW p \in Presets, TranscodePreset(w, p) PROVE TypeOK'
  <2>1. tmp' \in Files
    <3>1. ASSUME NEW c \in Content, tmp' = [tmp EXCEPT ![jobRow[w].track][p] = c]
          PROVE  tmp' \in Files
      BY <3>1, WriteFile
    <3>2. CASE UNCHANGED tmp
      BY <3>2
    <3>3. QED
      BY <1>23, <3>1, <3>2 DEF TranscodePreset, Content
  <2>2. JobTypes'
    BY <1>23, GoOnTypes DEF TranscodePreset, At
  <2> QED
    BY <1>23, <2>1, <2>2 DEF TranscodePreset, JobTypes
<1>24. ASSUME NEW w \in Workers, NEW p \in Presets, UploadPreset(w, p) PROVE TypeOK'
  <2>1. objects' \in Files
    <3>1. CASE objects' =
                  [objects EXCEPT ![jobRow[w].track][p] = tmp[jobRow[w].track][p]]
      BY <3>1, WriteFile, ReadFile DEF Kinds
    <3>2. CASE UNCHANGED objects
      BY <3>2
    <3>3. QED
      BY <1>24, <3>1, <3>2 DEF UploadPreset
  <2>2. JobTypes'
    BY <1>24, ReturnTypes, GoOnTypes DEF UploadPreset, At
  <2> QED
    BY <1>24, <2>1, <2>2 DEF UploadPreset, JobTypes
<1>25. ASSUME ReceiveTick PROVE TypeOK'
  BY <1>25 DEF ReceiveTick, checkAndLaunchWorker, startWorker
<1>26. ASSUME ListenerExits PROVE TypeOK'
  BY <1>26 DEF ListenerExits
<1>27. ASSUME Stop PROVE TypeOK'
  BY <1>27 DEF Stop
<1>28. ASSUME Exit PROVE TypeOK'
  <2>1. upload' \in [Tracks -> UploadStages] /\ deletion' \in [Tracks -> DeletionStages]
    BY <1>28 DEF Exit
  <2>2. doomed' \in [Tracks -> SUBSET Names] /\ removers' \in [Tracks -> Nat]
    BY <1>28 DEF Exit
  <2>3. /\ producer' \in [Workers -> ProducerStages]
        /\ page' \in [Workers -> SUBSET PageRow]
        /\ pageFull' \in [Workers -> BOOLEAN]
        /\ lastElementID' \in [Workers -> Nat]
    BY <1>28 DEF Exit
  <2>4. /\ job' \in [Workers -> JobStages]
        /\ jobRow' \in [Workers -> PageRow \union {NoRow}]
        /\ todo' \in [Workers -> SUBSET Presets]
        /\ \A w \in Workers : job'[w] # "idle" => jobRow'[w] # NoRow
    BY <1>28 DEF Exit
  <2>5. proc' \in {"up", "stopping", "down"} /\ faults' \in Nat
    BY <1>28 DEF Exit
  <2>6. /\ tracks' \in SUBSET Tracks
        /\ presets' \in [Tracks -> SUBSET Names]
        /\ queue' \in SUBSET QueueRow
        /\ nextID' \in Nat \ {0}
        /\ objects' \in Files
        /\ tmp' \in Files
        /\ listening' \in BOOLEAN
        /\ isWorkerStarted' \in BOOLEAN
    BY <1>28 DEF Exit
  <2> HIDE DEF UploadStages, DeletionStages, ProducerStages, JobStages
  <2> QED
    BY <2>1, <2>2, <2>3, <2>4, <2>5, <2>6
<1>29. ASSUME Restart PROVE TypeOK'
  BY <1>29 DEF Restart
<1>30. CASE UNCHANGED vars
  BY <1>30
<1>31. QED
  BY <1>1, <1>2, <1>3, <1>4, <1>5, <1>6, <1>7, <1>8, <1>9, <1>10, <1>11, <1>12, <1>13, <1>14, <1>15, <1>16, <1>17, <1>18, <1>19, <1>20, <1>21, <1>22, <1>23, <1>24, <1>25, <1>26, <1>27, <1>28, <1>29, <1>30 DEF Next, UploadStep, DeletionStep, ProducerStep, JobStep

\* The state the program starts in is well typed.
LEMMA InitTypes == Init => TypeOK
<1> SUFFICES ASSUME Init PROVE TypeOK
  OBVIOUS
<1> USE DEF Init
<1>1. faults \in Nat /\ nextID \in Nat \ {0}
  BY ConstantsAssumption
<1>2. objects \in Files /\ tmp \in Files
  BY DEF Files, NoFiles, Content
<1>3. removers \in [Tracks -> Nat] /\ lastElementID \in [Workers -> Nat]
  OBVIOUS
<1>4. upload \in [Tracks -> UploadStages] /\ deletion \in [Tracks -> DeletionStages]
  BY DEF UploadStages, DeletionStages
<1>5. /\ producer \in [Workers -> ProducerStages]
      /\ job \in [Workers -> JobStages]
      /\ jobRow \in [Workers -> PageRow \union {NoRow}]
  BY DEF ProducerStages, JobStages
<1>6. QED
  BY <1>1, <1>2, <1>3, <1>4, <1>5 DEF TypeOK

(* Every state of the specification is well typed: in particular a running *)
(* job always holds a row, so that no step of it works on a missing track. *)
THEOREM Typing == Spec => []TypeOK
<1>1. Init => TypeOK
  BY InitTypes
<1>2. QED
  BY <1>1, TypingStep, PTL DEF Spec
-------------------------------------------------------------------------------
\* WorkerInv is kept: a worker starts only when the flag was not set.
LEMMA WorkerInvInductive ==
    ASSUME TypeOK, WorkerInv, [Next]_vars
    PROVE  WorkerInv'
<1>0. producer \in [Workers -> ProducerStages]
  BY DEF TypeOK
<1>1. ASSUME UNCHANGED <<producer, isWorkerStarted>> PROVE WorkerInv'
  BY <1>1 DEF WorkerInv, OneWorker
<1>2. ASSUME checkAndLaunchWorker PROVE WorkerInv'
  <2>1. CASE UNCHANGED <<isWorkerStarted, producerVars>>
    BY <1>1, <2>1 DEF producerVars
  <2>2. CASE ~isWorkerStarted /\ startWorker
    BY <1>0, <2>2 DEF startWorker, WorkerInv, OneWorker
  <2>3. QED
    BY <1>2, <2>1, <2>2 DEF checkAndLaunchWorker
<1>3. ASSUME NEW w \in Workers, NEW stage, producer[w] # "none",
             producer' = [producer EXCEPT ![w] = stage], UNCHANGED isWorkerStarted
      PROVE  WorkerInv'
  BY <1>0, <1>3 DEF WorkerInv, OneWorker
<1>4. ASSUME NEW t \in Tracks,
             \/ CreateTrack(t) \/ UploadStep(t) \/ ReceiveSignal(t)
             \/ DeleteTrack(t) \/ DeletionStep(t) \/ removeTmpFiles(t)
      PROVE  WorkerInv'
  <2>1. CASE ReceiveSignal(t)
    BY <1>2, <2>1 DEF ReceiveSignal
  <2>2. CASE CreateTrack(t) \/ UploadStep(t)
    BY <1>1, <2>2 DEF CreateTrack, UploadStep, PutOriginal, PutOriginalFails,
       AddToTranscodingQueue, AddToTranscodingQueueFails, workerVars, producerVars
  <2>3. CASE DeleteTrack(t) \/ DeletionStep(t)
    BY <1>1, <2>3 DEF DeleteTrack, DeletionStep, RemovePresetObject,
       RemoveOriginalObject, RemoveObjectFails, DeleteTrackRow, DeletionFrame,
       workerVars, producerVars
  <2>4. CASE removeTmpFiles(t)
    BY <1>1, <2>4 DEF removeTmpFiles, workerVars, producerVars
  <2>5. QED
    BY <1>4, <2>1, <2>2, <2>3, <2>4
<1>5. ASSUME NEW w \in Workers,
             ProducerStep(w) \/ TakeRow(w) \/ JobStep(w) \/ WorkerEnds(w)
      PROVE  WorkerInv'
  <2>1. CASE ReadPage(w)
    BY <1>3, <2>1 DEF ReadPage
  <2>2. CASE ReadPageFails(w)
    BY <1>3, <2>2 DEF ReadPageFails
  <2>3. CASE TakeRow(w)
    BY <1>3, <2>3 DEF TakeRow
  <2>4. CASE JobStep(w)
    BY <1>1, <2>4 DEF JobStep, FetchOriginal, FetchOriginalFails, TranscodePreset,
       UploadPreset, TranscodeTimesOut, OnFailedTranscoding, ProbeDuration,
       RemoveFromQueueAndUpdateTrack, JobFrame, producerVars
  <2>5. CASE WorkerEnds(w)
    BY <1>0, <2>5 DEF WorkerEnds, WorkerInv, OneWorker
  <2>6. QED
    BY <1>5, <2>1, <2>2, <2>3, <2>4, <2>5 DEF ProducerStep
<1>6. CASE ReceiveTick
  BY <1>2, <1>6 DEF ReceiveTick
<1>7. CASE ListenerExits \/ Stop \/ Restart \/ UNCHANGED vars
  BY <1>1, <1>7 DEF ListenerExits, Stop, Restart, vars, workerVars, producerVars
<1>8. CASE Exit
  BY <1>8 DEF Exit, WorkerInv, OneWorker
<1>9. QED
  BY <1>4, <1>5, <1>6, <1>7, <1>8 DEF Next

(* startWorker runs at most once at a time (OneWorker), for every number of *)
(* worker goroutines: whatever ticks, signals, stops and kills happen, the  *)
(* flag is set from before a worker starts until after it has ended.        *)
THEOREM AtMostOneWorker == Spec => []OneWorker
<1>1. Init => WorkerInv
  BY DEF Init, WorkerInv, OneWorker
<1>2. TypeOK /\ WorkerInv /\ [Next]_vars => WorkerInv'
  BY WorkerInvInductive
<1>3. WorkerInv => OneWorker
  BY DEF WorkerInv
<1>4. QED
  BY <1>1, <1>2, <1>3, Typing, PTL DEF Spec
-------------------------------------------------------------------------------
(* No step changes a row in place or gives an id twice: a step adds at most *)
(* one row, under the id that the sequence gives.                           *)
QueueStep ==
    /\ nextID' \in {nextID, nextID + 1}
    /\ \A q, s \in queue' \ queue : q = s
    /\ \A q \in queue' \ queue : q.id = nextID /\ nextID' = nextID + 1

\* Every step changes the queue table as QueueStep says.
LEMMA QueueStepping ==
    ASSUME TypeOK, [Next]_vars
    PROVE  QueueStep
<1>0. nextID \in Nat
  BY DEF TypeOK
<1>1. ASSUME queue' \in SUBSET queue, UNCHANGED nextID PROVE QueueStep
  BY <1>0, <1>1 DEF QueueStep
<1>2. ASSUME NEW t \in Tracks, NEW b \in BOOLEAN, InsertQueueRow(t, b) PROVE QueueStep
  BY <1>0, <1>2 DEF QueueStep, InsertQueueRow
<1>3. ASSUME NEW t \in Tracks,
             \/ CreateTrack(t) \/ UploadStep(t) \/ ReceiveSignal(t)
             \/ DeleteTrack(t) \/ DeletionStep(t) \/ removeTmpFiles(t)
      PROVE  QueueStep
  <2>1. CASE CreateTrack(t) \/ PutOriginal(t) \/ PutOriginalFails(t)
    BY <1>1, <2>1 DEF CreateTrack, PutOriginal, PutOriginalFails, dbVars
  <2>2. CASE AddToTranscodingQueue(t)
    BY <1>2, <2>2 DEF AddToTranscodingQueue
  <2>3. CASE AddToTranscodingQueueFails(t)
    BY <1>1, <1>2, <2>3 DEF AddToTranscodingQueueFails
  <2>4. CASE ReceiveSignal(t) \/ DeleteTrack(t) \/ removeTmpFiles(t)
    BY <1>1, <2>4 DEF ReceiveSignal, DeleteTrack, removeTmpFiles, dbVars
  <2>5. CASE DeletionStep(t)
    <3>1. CASE (\E n \in Names : RemovePresetObject(t, n))
               \/ RemoveOriginalObject(t) \/ RemoveObjectFails(t)
      BY <1>1, <3>1 DEF RemovePresetObject, RemoveOriginalObject, RemoveObjectFails, dbVars
    <3>2. CASE DeleteTrackRow(t)
      BY <1>1, <3>2 DEF DeleteTrackRow, RemoveRows, RowsOf
    <3>3. QED
      BY <2>5, <3>1, <3>2 DEF DeletionStep
  <2>6. QED
    BY <1>3, <2>1, <2>2, <2>3, <2>4, <2>5 DEF UploadStep
<1>4. ASSUME NEW w \in Workers,
             ProducerStep(w) \/ TakeRow(w) \/ JobStep(w) \/ WorkerEnds(w)
      PROVE  QueueStep
  <2>1. CASE ProducerStep(w) \/ TakeRow(w) \/ WorkerEnds(w)
    BY <1>1, <2>1 DEF ProducerStep, ReadPage, ReadPageFails, TakeRow, WorkerEnds, dbVars
  <2>2. CASE OnFailedTranscoding(w)
    <3>1. CASE UNCHANGED <<queue, nextID>>
      BY <1>1, <3>1
    <3>2. CASE nextID' = nextID + 1
      <4>1. PICK r \in RowsWithID(jobRow[w].id) :
                queue' = (queue \ {r}) \union
                    {[id |-> nextID, track |-> r.track, wasFailed |-> TRUE]}
        BY <1>0, <2>2, <3>2 DEF OnFailedTranscoding
      <4>2. \A q \in queue' \ queue :
                q = [id |-> nextID, track |-> r.track, wasFailed |-> TRUE]
        BY <4>1
      <4>3. \A q \in queue' \ queue : q.id = nextID
        BY <4>2
      <4>4. QED
        BY <3>2, <4>2, <4>3 DEF QueueStep
    <3>3. QED
      BY <2>2, <3>1, <3>2 DEF OnFailedTranscoding
  <2>3. CASE RemoveFromQueueAndUpdateTrack(w)
    BY <1>1, <2>3 DEF RemoveFromQueueAndUpdateTrack
  <2>4. CASE \/ FetchOriginal(w) \/ FetchOriginalFails(w) \/ ProbeDuration(w)
             \/ TranscodeTimesOut(w)
             \/ \E p \in Presets : TranscodePreset(w, p) \/ UploadPreset(w, p)
    BY <1>1, <2>4 DEF FetchOriginal, FetchOriginalFails, ProbeDuration,
       TranscodeTimesOut, TranscodePreset, UploadPreset
  <2>5. QED
    BY <1>4, <2>1, <2>2, <2>3, <2>4 DEF JobStep
<1>5. CASE ReceiveTick \/ ListenerExits \/ Stop \/ Exit \/ Restart \/ UNCHANGED vars
  BY <1>1, <1>5 DEF ReceiveTick, ListenerExits, Stop, Exit, Restart, vars, dbVars
<1>6. QED
  BY <1>3, <1>4, <1>5 DEF Next

\* A row a goroutine has read stays in agreement with the table: ids are not
\* reused and a row's track does not change.
LEMMA AgreesStays ==
    ASSUME TypeOK, QueueStep, NEW r \in PageRow, Agrees(r)
    PROVE  Agrees(r)'
<1>1. nextID \in Nat /\ r.id \in Nat
  BY DEF TypeOK, PageRow
<1>2. r.id < nextID'
  BY <1>1 DEF QueueStep, Agrees
<1>3. ASSUME NEW q \in queue', q.id = r.id PROVE q.track = r.track
  <2>1. q \in queue
    BY <1>1, <1>3 DEF QueueStep, Agrees
  <2>2. QED
    BY <2>1, <1>3 DEF Agrees
<1>4. QED
  BY <1>2, <1>3 DEF Agrees

(* What a step may do with the rows that worker w holds: read rows of the   *)
(* table, hand one of the page over to the job, or drop them.               *)
HeldStep(w) ==
    /\ \A r \in page'[w] :
           \/ r \in page[w]
           \/ \E q \in queue : r = [id |-> q.id, track |-> q.track]
    /\ job'[w] = "idle" <=> jobRow'[w] = NoRow
    /\ jobRow'[w] # NoRow => jobRow'[w] = jobRow[w] \/ jobRow'[w] \in page[w]

\* Every step changes the row that a worker's job holds as HeldStep says.
LEMMA HeldStepping ==
    ASSUME TypeOK, RowInv, [Next]_vars, NEW v \in Workers
    PROVE  HeldStep(v)
<1>0. /\ job \in [Workers -> JobStages]
      /\ jobRow \in [Workers -> PageRow \union {NoRow}]
      /\ page \in [Workers -> SUBSET PageRow]
      /\ job[v] = "idle" <=> jobRow[v] = NoRow
  BY DEF TypeOK, RowInv
<1>1. ASSUME UNCHANGED <<page, job, jobRow>> PROVE HeldStep(v)
  BY <1>0, <1>1 DEF HeldStep
<1>2. ASSUME NEW w \in Workers, NEW stage, NEW left, job[w] # "idle", stage # "idle",
             UNCHANGED page, GoOn(w, stage, left)
      PROVE  HeldStep(v)
  BY <1>0, <1>2 DEF HeldStep, GoOn
<1>3. ASSUME NEW w \in Workers, UNCHANGED page, Return(w) PROVE HeldStep(v)
  BY <1>0, <1>3 DEF HeldStep, Return
<1>4. ASSUME NEW t \in Tracks,
             \/ CreateTrack(t) \/ UploadStep(t) \/ ReceiveSignal(t)
             \/ DeleteTrack(t) \/ DeletionStep(t) \/ removeTmpFiles(t)
      PROVE  HeldStep(v)
  <2>1. CASE CreateTrack(t) \/ UploadStep(t) \/ removeTmpFiles(t)
    BY <1>1, <2>1 DEF CreateTrack, UploadStep, PutOriginal, PutOriginalFails,
       AddToTranscodingQueue, AddToTranscodingQueueFails, removeTmpFiles,
       workerVars, producerVars, jobVars
  <2>2. CASE DeleteTrack(t) \/ DeletionStep(t)
    BY <1>1, <2>2 DEF DeleteTrack, DeletionStep, RemovePresetObject,
       RemoveOriginalObject, RemoveObjectFails, DeleteTrackRow, DeletionFrame,
       workerVars, producerVars, jobVars
  <2>3. CASE ReceiveSignal(t)
    BY <1>1, <2>3 DEF ReceiveSignal, checkAndLaunchWorker, startWorker,
       producerVars, jobVars
  <2>4. QED
    BY <1>4, <2>1, <2>2, <2>3
<1>5. ASSUME NEW w \in Workers,
             ProducerStep(w) \/ TakeRow(w) \/ JobStep(w) \/ WorkerEnds(w)
      PROVE  HeldStep(v)
  <2>1. CASE ReadPage(w)
    <3>1. ASSUME NEW r \in page'[v], r \notin page[v]
          PROVE  \E q \in queue : r = [id |-> q.id, track |-> q.track]
      <4>1. r \in FirstRows(RowsAfter(lastElementID[w]), PageSize)
        BY <1>0, <2>1, <3>1 DEF ReadPage
      <4>2. QED
        BY <4>1 DEF FirstRows, RowsAfter
    <3>2. QED
      BY <1>0, <2>1, <3>1 DEF ReadPage, HeldStep, jobVars
  <2>2. CASE ReadPageFails(w) \/ WorkerEnds(w)
    BY <1>1, <2>2 DEF ReadPageFails, WorkerEnds, jobVars
  <2>3. CASE TakeRow(w)
    <3>1. PICK r \in page[w] : /\ page' = [page EXCEPT ![w] = @ \ {r}]
                               /\ jobRow' = [jobRow EXCEPT ![w] = r]
      BY <2>3 DEF TakeRow
    <3>2. job' = [job EXCEPT ![w] = "fetch"]
      BY <2>3 DEF TakeRow
    <3>3. r # NoRow
      BY <1>0, ConstantsAssumption DEF PageRow
    <3>4. QED
      BY <1>0, <3>1, <3>2, <3>3 DEF HeldStep
  <2>4. CASE FetchOriginal(w)
    BY <1>2, <2>4 DEF FetchOriginal, At, JobFrame, producerVars
  <2>5. CASE FetchOriginalFails(w)
    BY <1>3, <2>5 DEF FetchOriginalFails, JobFrame, producerVars
  <2>6. ASSUME NEW p \in Presets, TranscodePreset(w, p) PROVE HeldStep(v)
    BY <1>2, <2>6 DEF TranscodePreset, At, JobFrame, producerVars
  <2>7. ASSUME NEW p \in Presets, UploadPreset(w, p) PROVE HeldStep(v)
    BY <1>2, <1>3, <2>7 DEF UploadPreset, At, JobFrame, producerVars
  <2>8. CASE TranscodeTimesOut(w)
    BY <1>2, <2>8 DEF TranscodeTimesOut, At, JobFrame, producerVars
  <2>9. CASE OnFailedTranscoding(w) \/ RemoveFromQueueAndUpdateTrack(w)
    BY <1>3, <2>9 DEF OnFailedTranscoding, RemoveFromQueueAndUpdateTrack,
       JobFrame, producerVars
  <2>10. CASE ProbeDuration(w)
    BY <1>2, <1>3, <2>10 DEF ProbeDuration, At, JobFrame, producerVars
  <2>11. QED
    BY <1>5, <2>1, <2>2, <2>3, <2>4, <2>5, <2>6, <2>7, <2>8, <2>9, <2>10
       DEF ProducerStep, JobStep
<1>6. CASE ReceiveTick \/ ListenerExits \/ Stop \/ Restart \/ UNCHANGED vars
  BY <1>1, <1>6 DEF ReceiveTick, ListenerExits, Stop, Restart, vars, workerVars,
     producerVars, jobVars, checkAndLaunchWorker, startWorker
<1>7. CASE Exit
  BY <1>7 DEF Exit, HeldStep
<1>8. QED
  BY <1>4, <1>5, <1>6, <1>7 DEF Next

\* RowInv is kept: no id is given twice, and rows are handed on as they were read.
LEMMA RowInvInductive ==
    ASSUME TypeOK, RowInv, [Next]_vars
    PROVE  RowInv'
<1>0. /\ nextID \in Nat
      /\ queue \in SUBSET QueueRow
      /\ page \in [Workers -> SUBSET PageRow]
      /\ jobRow \in [Workers -> PageRow \union {NoRow}]
  BY DEF TypeOK
<1>1. QueueStep
  BY QueueStepping
<1>2. \A r \in queue' : r.id < nextID'
  BY <1>0, <1>1 DEF QueueStep, RowInv, QueueRow
<1>3. \A r, s \in queue' : r.id = s.id => r = s
  BY <1>0, <1>1 DEF QueueStep, RowInv, QueueRow
<1>4. ASSUME NEW w \in Workers, NEW r \in page'[w] PROVE Agrees(r)'
  <2>1. HeldStep(w)
    BY HeldStepping
  <2>2. CASE r \in page[w]
    BY <1>0, <1>1, <2>2, AgreesStays DEF RowInv
  <2>3. CASE \E q \in queue : r = [id |-> q.id, track |-> q.track]
    <3>1. r \in PageRow /\ Agrees(r)
      BY <1>0, <2>3 DEF RowInv, Agrees, QueueRow, PageRow
    <3>2. QED
      BY <1>1, <3>1, AgreesStays
  <2>4. QED
    BY <2>1, <2>2, <2>3 DEF HeldStep
<1>5. ASSUME NEW w \in Workers, jobRow'[w] # NoRow PROVE Agrees(jobRow[w])'
  <2>1. HeldStep(w)
    BY HeldStepping
  <2>2. PICK r : r = jobRow'[w]
    OBVIOUS
  <2>3. r \in PageRow /\ Agrees(r)
    BY <1>0, <1>5, <2>1, <2>2 DEF HeldStep, RowInv
  <2>4. Agrees(r)'
    BY <1>1, <2>3, AgreesStays
  <2>5. QED
    BY <2>2, <2>4 DEF Agrees
<1>6. QED
  BY <1>2, <1>3, <1>4, <1>5, HeldStepping DEF RowInv, HeldStep

(* Ids are never given twice, and no row held by a worker contradicts the   *)
(* table, although requests and jobs change the table under the worker.     *)
LEMMA Rows == Spec => []RowInv
<1>1. Init => RowInv
  BY DEF Init, RowInv
<1>2. TypeOK /\ RowInv /\ [Next]_vars => RowInv'
  BY RowInvInductive
<1>3. QED
  BY <1>1, <1>2, Typing, PTL DEF Spec
-------------------------------------------------------------------------------
\* The row that a job finds under its id is of the track that the job works on.
LEMMA JobsOwnRow ==
    ASSUME RowInv, NEW w \in Workers, job[w] # "idle", NEW r \in queue, r.id = jobRow[w].id
    PROVE  r.track = jobRow[w].track
BY DEF RowInv, Agrees

(* How the rows of the database relate to the requests that made them.      *)
LEMMA DBInvInductive ==
    ASSUME TypeOK, RowInv, DBInv, [Next]_vars
    PROVE  DBInv'
<1> USE DEF Queued, RowsOf
<1>0. /\ queue \in SUBSET QueueRow
      /\ presets \in [Tracks -> SUBSET Names]
      /\ upload \in [Tracks -> UploadStages]
      /\ deletion \in [Tracks -> DeletionStages]
      /\ \A q \in queue : q.track \in Tracks
  BY DEF TypeOK, QueueRow
<1>1. ASSUME UNCHANGED <<tracks, presets, queue, upload, deletion>> PROVE DBInv'
  BY <1>1 DEF DBInv, OneLiveRowPerTrack
<1>2. ASSUME NEW t \in Tracks, CreateTrack(t) PROVE DBInv'
  <2>1. /\ upload[t] = "idle"
        /\ \/ upload' = [upload EXCEPT ![t] = "put"] /\ tracks' = tracks \union {t}
           \/ upload' = [upload EXCEPT ![t] = "failed"] /\ UNCHANGED tracks
        /\ UNCHANGED <<presets, queue, deletion>>
    BY <1>2 DEF CreateTrack, UploadTo
  <2>2. QED
    BY <1>0, <2>1 DEF DBInv, OneLiveRowPerTrack
<1>3. ASSUME NEW t \in Tracks, PutOriginal(t) \/ PutOriginalFails(t) PROVE DBInv'
  <2>1. /\ upload[t] = "put"
        /\ \/ upload' = [upload EXCEPT ![t] = "enqueue"]
           \/ upload' = [upload EXCEPT ![t] = "failed"]
        /\ UNCHANGED <<tracks, presets, queue, deletion>>
    BY <1>3 DEF PutOriginal, PutOriginalFails, UploadTo, dbVars
  <2>2. QED
    BY <1>0, <2>1 DEF DBInv, OneLiveRowPerTrack
<1>4. ASSUME NEW t \in Tracks, NEW stage \in {"signal", "failed"}, t \in tracks,
             InsertQueueRow(t, FALSE), UploadTo(t, "enqueue", stage),
             UNCHANGED <<tracks, presets, deletion>>
      PROVE  DBInv'
  <2>1. PICK n : n = [id |-> nextID, track |-> t, wasFailed |-> FALSE]
    OBVIOUS
  <2>2. queue' = queue \union {n} /\ n.track = t
    BY <1>4, <2>1 DEF InsertQueueRow
  <2>3. upload[t] = "enqueue" /\ upload' = [upload EXCEPT ![t] = stage]
    BY <1>4 DEF UploadTo
  <2>4. presets[t] = {} /\ \A q \in queue : q.track # t
    BY <2>3 DEF DBInv
  <2>5. OneLiveRowPerTrack'
    BY <1>0, <1>4, <2>2, <2>4 DEF DBInv, OneLiveRowPerTrack
  <2>6. QED
    BY <1>0, <1>4, <2>2, <2>3, <2>4, <2>5 DEF DBInv
<1>5. ASSUME NEW t \in Tracks,
             AddToTranscodingQueue(t) \/ AddToTranscodingQueueFails(t)
      PROVE  DBInv'
  <2>1. CASE AddToTranscodingQueue(t)
    BY <1>4, <2>1 DEF AddToTranscodingQueue
  <2>2. CASE AddToTranscodingQueueFails(t) /\ UNCHANGED <<queue, nextID>>
    <3>1. /\ upload[t] = "enqueue"
          /\ upload' = [upload EXCEPT ![t] = "failed"]
          /\ UNCHANGED <<tracks, presets, queue, deletion>>
      BY <2>2 DEF AddToTranscodingQueueFails, UploadTo
    <3>2. QED
      BY <1>0, <3>1 DEF DBInv, OneLiveRowPerTrack
  <2>3. CASE AddToTranscodingQueueFails(t) /\ t \in tracks /\ InsertQueueRow(t, FALSE)
    BY <1>4, <2>3 DEF AddToTranscodingQueueFails
  <2>4. QED
    BY <1>5, <2>1, <2>2, <2>3 DEF AddToTranscodingQueueFails
<1>6. ASSUME NEW t \in Tracks, ReceiveSignal(t) PROVE DBInv'
  <2>1. /\ upload[t] = "signal"
        /\ upload' = [upload EXCEPT ![t] = "done"]
        /\ UNCHANGED <<tracks, presets, queue, deletion>>
    BY <1>6 DEF ReceiveSignal, UploadTo, dbVars
  <2>2. QED
    BY <1>0, <2>1 DEF DBInv, OneLiveRowPerTrack
<1>7. ASSUME NEW t \in Tracks, NEW stage \in {"objects", "row", "failed"},
             deletion[t] \in {"objects", "row"} \/ t \in tracks,
             deletion' = [deletion EXCEPT ![t] = stage],
             UNCHANGED <<tracks, presets, queue, upload>>
      PROVE  DBInv'
  <2>1. t \in tracks /\ upload[t] # "idle"
    BY <1>7 DEF DBInv
  <2>2. QED
    BY <1>0, <1>7, <2>1 DEF DBInv, OneLiveRowPerTrack
<1>8. ASSUME NEW t \in Tracks, DeleteTrackRow(t) PROVE DBInv'
  <2>0. deletion[t] = "row" /\ UNCHANGED upload
    BY <1>8 DEF DeleteTrackRow, DeletionTo, DeletionFrame
  <2>1. CASE /\ deletion' = [deletion EXCEPT ![t] = "failed"]
             /\ UNCHANGED <<tracks, presets, queue>>
    BY <1>7, <2>0, <2>1
  <2>2. CASE /\ \E stage \in {"done", "failed"} : deletion' = [deletion EXCEPT ![t] = stage]
             /\ RemoveRows(t)
    <3>1. upload[t] # "idle"
      BY <2>0 DEF DBInv
    <3>2. QED
      BY <1>0, <2>0, <2>2, <3>1 DEF DBInv, OneLiveRowPerTrack, RemoveRows
  <2>3. QED
    BY <1>8, <2>1, <2>2 DEF DeleteTrackRow, DeletionTo
<1>9. ASSUME NEW t \in Tracks, DeleteTrack(t) \/ DeletionStep(t) PROVE DBInv'
  <2>1. CASE DeleteTrack(t)
    BY <1>7, <2>1 DEF DeleteTrack, DeletionTo, DeletionFrame, dbVars
  <2>2. ASSUME NEW n \in Names, RemovePresetObject(t, n) PROVE DBInv'
    BY <1>7, <2>2 DEF RemovePresetObject, DeletionTo, DeletionFrame, dbVars
  <2>3. CASE RemoveOriginalObject(t)
    BY <1>7, <2>3 DEF RemoveOriginalObject, DeletionTo, DeletionFrame, dbVars
  <2>4. CASE RemoveObjectFails(t)
    BY <1>7, <2>4 DEF RemoveObjectFails, DeletionTo, DeletionFrame, dbVars
  <2>5. QED
    BY <1>8, <1>9, <2>1, <2>2, <2>3, <2>4 DEF DeletionStep
<1>10. ASSUME NEW w \in Workers, OnFailedTranscoding(w) PROVE DBInv'
  <2>1. UNCHANGED <<tracks, presets, upload, deletion>>
    BY <1>10 DEF OnFailedTranscoding, JobFrame, requestVars
  <2>2. CASE UNCHANGED <<queue, nextID>>
    BY <1>1, <2>1, <2>2
  <2>3. CASE \E r \in RowsWithID(jobRow[w].id) :
                 queue' = (queue \ {r}) \union
                     {[id |-> nextID, track |-> r.track, wasFailed |-> TRUE]}
    <3>1. PICK r \in queue :
              \E n : n.track = r.track /\ queue' = (queue \ {r}) \union {n}
      BY <2>3 DEF RowsWithID
    <3>2. PICK n : n.track = r.track /\ queue' = (queue \ {r}) \union {n}
      BY <3>1
    <3>3. QED
      BY <1>0, <2>1, <3>2 DEF DBInv, OneLiveRowPerTrack
  <2>4. QED
    BY <1>10, <2>2, <2>3 DEF OnFailedTranscoding
<1>11. ASSUME NEW w \in Workers, RemoveFromQueueAndUpdateTrack(w) PROVE DBInv'
  <2>0. job[w] # "idle"
    BY <1>11 DEF RemoveFromQueueAndUpdateTrack, At
  <2>1. UNCHANGED <<tracks, upload, deletion>>
    BY <1>11 DEF RemoveFromQueueAndUpdateTrack, JobFrame, requestVars
  <2>2. CASE UNCHANGED <<queue, presets>>
    BY <1>1, <2>1, <2>2
  <2>3. CASE \E r \in RowsWithID(jobRow[w].id) :
                 /\ queue' = queue \ {r}
                 /\ presets' = [presets EXCEPT ![r.track] = TranscodedNames(jobRow[w].track)]
    <3>1. PICK r \in queue : /\ r.id = jobRow[w].id /\ queue' = queue \ {r}
                             /\ presets' = [presets EXCEPT ![r.track] = TranscodedNames(jobRow[w].track)]
      BY <2>3 DEF RowsWithID
    <3>2. /\ r.track \in tracks
          /\ upload[r.track] \notin {"idle", "put", "enqueue"}
          /\ \A s \in queue : s.track = r.track => s = r
      BY <1>0 DEF DBInv, OneLiveRowPerTrack
    <3>3. presets' = [presets EXCEPT ![r.track] = TranscodedNames(r.track)]
      BY <2>0, <3>1, JobsOwnRow
    <3>4. OneLiveRowPerTrack'
      BY <1>0, <2>1, <3>1, <3>2 DEF DBInv, OneLiveRowPerTrack
    <3>5. QED
      BY <1>0, <2>1, <3>1, <3>2, <3>3, <3>4 DEF DBInv
  <2>4. QED
    BY <1>11, <2>2, <2>3 DEF RemoveFromQueueAndUpdateTrack
<1>12. ASSUME NEW w \in Workers,
              ProducerStep(w) \/ TakeRow(w) \/ JobStep(w) \/ WorkerEnds(w)
       PROVE  DBInv'
  <2>1. CASE ProducerStep(w) \/ TakeRow(w) \/ WorkerEnds(w)
    BY <1>1, <2>1 DEF ProducerStep, ReadPage, ReadPageFails, TakeRow, WorkerEnds,
       dbVars, requestVars
  <2>2. CASE \/ FetchOriginal(w) \/ FetchOriginalFails(w) \/ ProbeDuration(w)
             \/ TranscodeTimesOut(w)
             \/ \E p \in Presets : TranscodePreset(w, p) \/ UploadPreset(w, p)
    BY <1>1, <2>2 DEF FetchOriginal, FetchOriginalFails, ProbeDuration,
       TranscodeTimesOut, TranscodePreset, UploadPreset, JobFrame, requestVars
  <2>3. QED
    BY <1>10, <1>11, <1>12, <2>1, <2>2 DEF JobStep
<1>13. CASE Exit
  <2>1. /\ upload' = [t \in Tracks |->
               IF upload[t] \in {"put", "enqueue", "signal"} THEN "failed" ELSE upload[t]]
        /\ deletion' = [t \in Tracks |->
               IF deletion[t] \in {"objects", "row"} THEN "failed" ELSE deletion[t]]
        /\ UNCHANGED <<tracks, presets, queue>>
    BY <1>13 DEF Exit, dbVars
  <2>2. QED
    BY <1>0, <2>1 DEF DBInv, OneLiveRowPerTrack
<1>14. CASE \/ \E t \in Tracks : removeTmpFiles(t)
            \/ ReceiveTick \/ ListenerExits \/ Stop \/ Restart \/ UNCHANGED vars
  BY <1>1, <1>14 DEF removeTmpFiles, ReceiveTick, ListenerExits, Stop, Restart, vars,
     dbVars, requestVars
<1>15. QED
  BY <1>2, <1>3, <1>5, <1>6, <1>9, <1>12, <1>13, <1>14 DEF Next, UploadStep

(* No track has two rows in the transcoding queue, and no row waits for a   *)
(* deleted track or for one that has its presets (OneLiveRowPerTrack),      *)
(* whatever fails, times out, is put back, deleted or killed.               *)
THEOREM AtMostOneLiveRow == Spec => [](DBInv /\ OneLiveRowPerTrack)
<1>1. Init => DBInv
  BY DEF Init, DBInv, OneLiveRowPerTrack, Queued, RowsOf
<1>2. DBInv => OneLiveRowPerTrack
  BY DEF DBInv
<1>3. QED
  BY <1>1, <1>2, DBInvInductive, Typing, Rows, PTL DEF Spec
-------------------------------------------------------------------------------
(* No step but those of a request to delete the track takes an object away  *)
(* or writes over an original.                                              *)
StorageStep ==
    \A t \in Tracks : deletion'[t] = "idle" =>
        /\ deletion[t] = "idle"
        /\ \A p \in Presets : objects[t][p] # "none" => objects'[t][p] # "none"
        /\ objects[t][Original] = "whole" => objects'[t][Original] = "whole"

\* Every step changes the object storage as StorageStep says.
LEMMA StorageStepping ==
    ASSUME TypeOK, \A t \in Tracks : doomed[t] \subseteq TranscodedNames(t), [Next]_vars
    PROVE  StorageStep
<1>0. objects \in Files /\ deletion \in [Tracks -> DeletionStages]
  BY DEF TypeOK
<1>1. ASSUME UNCHANGED <<objects, deletion>> PROVE StorageStep
  BY <1>1 DEF StorageStep
<1>2. ASSUME NEW t \in Tracks, NEW stage, stage # "idle",
             deletion' = [deletion EXCEPT ![t] = stage],
             \A u \in Tracks \ {t} : objects'[u] = objects[u]
      PROVE  StorageStep
  BY <1>0, <1>2 DEF StorageStep
<1>3. ASSUME NEW t \in Tracks, PutOriginal(t) \/ PutOriginalFails(t) PROVE StorageStep
  <2>1. UNCHANGED deletion
    BY <1>3 DEF PutOriginal, PutOriginalFails
  <2>2. PICK c \in {objects[t][Original], "whole"} :
            objects' = [objects EXCEPT ![t][Original] = c]
    BY <1>3 DEF PutOriginal, PutOriginalFails
  <2>3. QED
    BY <1>0, <2>1, <2>2, ConstantsAssumption DEF StorageStep, Files, Kinds
<1>4. ASSUME NEW t \in Tracks, DeleteTrack(t) \/ DeletionStep(t) PROVE StorageStep
  <2>1. CASE DeleteTrack(t)
    BY <1>2, <2>1 DEF DeleteTrack, DeletionTo
  <2>2. ASSUME NEW n \in Names, RemovePresetObject(t, n) PROVE StorageStep
    <3>1. n[1] = t
      BY <2>2, OwnNames DEF RemovePresetObject
    <3>2. \A u \in Tracks \ {t} : objects'[u] = objects[u]
      BY <1>0, <2>2, <3>1 DEF RemovePresetObject, Files
    <3>3. QED
      BY <1>2, <2>2, <3>2 DEF RemovePresetObject, DeletionTo
  <2>3. CASE RemoveOriginalObject(t)
    BY <1>0, <1>2, <2>3 DEF RemoveOriginalObject, DeletionTo, Files
  <2>4. CASE RemoveObjectFails(t)
    <3>1. PICK gone \in SUBSET (IF doomed[t] = {} THEN {<<t, Original>>} ELSE doomed[t]) :
              objects' = [s \in Tracks |-> [k \in Kinds |->
                              IF <<s, k>> \in gone THEN "none" ELSE objects[s][k]]]
      BY <2>4 DEF RemoveObjectFails
    <3>2. \A n \in gone : n[1] = t
      BY <3>1, OwnNames
    <3>3. ASSUME NEW u \in Tracks \ {t} PROVE objects'[u] = objects[u]
      <4>1. \A k \in Kinds : <<u, k>> \notin gone
        BY <3>2, <3>3
      <4>2. objects'[u] = [k \in Kinds |-> objects[u][k]]
        BY <3>1, <4>1
      <4>3. objects[u] \in [Kinds -> Content]
        BY <1>0 DEF Files
      <4>4. QED
        BY <4>2, <4>3
    <3>4. QED
      BY <1>2, <2>4, <3>3 DEF RemoveObjectFails, DeletionTo
  <2>5. CASE DeleteTrackRow(t)
    BY <1>2, <2>5 DEF DeleteTrackRow, DeletionTo, DeletionFrame
  <2>6. QED
    BY <1>4, <2>1, <2>2, <2>3, <2>4, <2>5 DEF DeletionStep
<1>5. ASSUME NEW t \in Tracks,
             CreateTrack(t) \/ UploadStep(t) \/ ReceiveSignal(t) \/ removeTmpFiles(t)
      PROVE  StorageStep
  <2>1. CASE \/ CreateTrack(t) \/ AddToTranscodingQueue(t)
             \/ AddToTranscodingQueueFails(t) \/ ReceiveSignal(t) \/ removeTmpFiles(t)
    BY <1>1, <2>1 DEF CreateTrack, AddToTranscodingQueue, AddToTranscodingQueueFails,
       ReceiveSignal, removeTmpFiles, fileVars, requestVars
  <2>2. QED
    BY <1>3, <1>5, <2>1 DEF UploadStep
<1>6. ASSUME NEW w \in Workers, NEW p \in Presets, UploadPreset(w, p) PROVE StorageStep
  <2>1. UNCHANGED deletion
    BY <1>6 DEF UploadPreset, JobFrame, requestVars
  <2>2. CASE UNCHANGED objects
    BY <1>1, <2>1, <2>2
  <2>3. CASE /\ tmp[jobRow[w].track][p] # "none"
             /\ objects' = [objects EXCEPT ![jobRow[w].track][p] = tmp[jobRow[w].track][p]]
    BY <1>0, <2>1, <2>3, ConstantsAssumption DEF StorageStep, Files, Kinds
  <2>4. QED
    BY <1>6, <2>2, <2>3 DEF UploadPreset
<1>7. ASSUME NEW w \in Workers,
             ProducerStep(w) \/ TakeRow(w) \/ JobStep(w) \/ WorkerEnds(w)
      PROVE  StorageStep
  <2>1. CASE ProducerStep(w) \/ TakeRow(w) \/ WorkerEnds(w)
    BY <1>1, <2>1 DEF ProducerStep, ReadPage, ReadPageFails, TakeRow, WorkerEnds,
       fileVars, requestVars
  <2>2. CASE \/ FetchOriginal(w) \/ FetchOriginalFails(w) \/ ProbeDuration(w)
             \/ TranscodeTimesOut(w) \/ OnFailedTranscoding(w)
             \/ RemoveFromQueueAndUpdateTrack(w)
             \/ \E p \in Presets : TranscodePreset(w, p)
    BY <1>1, <2>2 DEF FetchOriginal, FetchOriginalFails, ProbeDuration,
       TranscodeTimesOut, TranscodePreset, OnFailedTranscoding,
       RemoveFromQueueAndUpdateTrack, JobFrame, requestVars
  <2>3. QED
    BY <1>6, <1>7, <2>1, <2>2 DEF JobStep
<1>8. CASE Exit
  BY <1>0, <1>8 DEF Exit, StorageStep
<1>9. CASE ReceiveTick \/ ListenerExits \/ Stop \/ Restart \/ UNCHANGED vars
  BY <1>1, <1>9 DEF ReceiveTick, ListenerExits, Stop, Restart, vars, fileVars, requestVars
<1>10. QED
  BY <1>4, <1>5, <1>7, <1>8, <1>9 DEF Next

(* The only steps that may need an object that was not needed before: a job *)
(* commits its track's presets, or an upload queues its track.              *)
NeedStep ==
    /\ \A t \in tracks' : \A n \in presets'[t] :
           \/ t \in tracks /\ n \in presets[t]
           \/ \E w \in Workers : job[w] = "commit" /\ jobRow[w].track = t
    /\ \A t \in tracks' : Queued(t)' =>
           t \in tracks /\ (Queued(t) \/ upload[t] = "enqueue")
    /\ \A t \in Tracks : upload'[t] = "enqueue" =>
           upload[t] = "enqueue" \/ objects'[t][Original] = "whole"

\* Every step changes the need for stored objects as NeedStep says.
LEMMA NeedStepping ==
    ASSUME TypeOK, RowInv, DBInv, [Next]_vars
    PROVE  NeedStep
<1> USE DEF Queued, RowsOf
<1>0. /\ objects \in Files
      /\ presets \in [Tracks -> SUBSET Names]
      /\ upload \in [Tracks -> UploadStages]
      /\ jobRow \in [Workers -> PageRow \union {NoRow}]
      /\ tracks \in SUBSET Tracks
      /\ \A q \in queue : q.track \in tracks
  BY DEF TypeOK, DBInv, OneLiveRowPerTrack
<1>1. ASSUME UNCHANGED <<tracks, presets, queue, upload>> PROVE NeedStep
  BY <1>1, <1>0 DEF NeedStep
<1>2. ASSUME NEW t \in Tracks, CreateTrack(t) PROVE NeedStep
  <2>1. /\ upload[t] = "idle"
        /\ \/ upload' = [upload EXCEPT ![t] = "put"] /\ tracks' = tracks \union {t}
           \/ upload' = [upload EXCEPT ![t] = "failed"] /\ UNCHANGED tracks
        /\ UNCHANGED <<presets, queue>>
    BY <1>2 DEF CreateTrack, UploadTo
  <2>2. presets[t] = {}
    BY <2>1 DEF DBInv
  <2>3. QED
    BY <1>0, <2>1, <2>2 DEF NeedStep
<1>3. ASSUME NEW t \in Tracks, UploadStep(t) PROVE NeedStep
  <2>1. CASE PutOriginal(t)
    <3>1. /\ upload' = [upload EXCEPT ![t] = "enqueue"]
          /\ objects' = [objects EXCEPT ![t][Original] = "whole"]
          /\ UNCHANGED <<tracks, presets, queue>>
      BY <2>1 DEF PutOriginal, UploadTo, dbVars
    <3>2. objects'[t][Original] = "whole"
      BY <1>0, <3>1 DEF Files, Kinds
    <3>3. QED
      BY <1>0, <3>1, <3>2 DEF NeedStep
  <2>2. CASE PutOriginalFails(t)
    <3>1. /\ upload' = [upload EXCEPT ![t] = "failed"]
          /\ UNCHANGED <<tracks, presets, queue>>
      BY <2>2 DEF PutOriginalFails, UploadTo, dbVars
    <3>2. QED
      BY <1>0, <3>1 DEF NeedStep
  <2>3. CASE AddToTranscodingQueue(t) \/ AddToTranscodingQueueFails(t)
    <3>1. /\ upload[t] = "enqueue"
          /\ \E stage \in {"signal", "failed"} : upload' = [upload EXCEPT ![t] = stage]
          /\ UNCHANGED <<tracks, presets>>
      BY <2>3 DEF AddToTranscodingQueue, AddToTranscodingQueueFails, UploadTo
    <3>2. UNCHANGED queue \/ \E b \in BOOLEAN : t \in tracks /\ InsertQueueRow(t, b)
      BY <2>3 DEF AddToTranscodingQueue, AddToTranscodingQueueFails
    <3>3. \A q \in queue' : q \in queue \/ q.track = t
      BY <3>2 DEF InsertQueueRow
    <3>4. QED
      BY <1>0, <3>1, <3>3 DEF NeedStep
  <2>4. QED
    BY <1>3, <2>1, <2>2, <2>3 DEF UploadStep
<1>4. ASSUME NEW t \in Tracks, ReceiveSignal(t) PROVE NeedStep
  <2>1. /\ upload' = [upload EXCEPT ![t] = "done"]
        /\ UNCHANGED <<tracks, presets, queue>>
    BY <1>4 DEF ReceiveSignal, UploadTo, dbVars
  <2>2. QED
    BY <1>0, <2>1 DEF NeedStep
<1>5. ASSUME NEW t \in Tracks, DeleteTrack(t) \/ DeletionStep(t) PROVE NeedStep
  <2>1. CASE DeleteTrackRow(t)
    <3>1. /\ UNCHANGED upload
          /\ UNCHANGED <<tracks, presets, queue>> \/ RemoveRows(t)
      BY <2>1 DEF DeleteTrackRow, DeletionFrame
    <3>2. QED
      BY <1>0, <3>1 DEF NeedStep, RemoveRows
  <2>2. CASE \/ DeleteTrack(t) \/ RemoveOriginalObject(t) \/ RemoveObjectFails(t)
             \/ \E n \in Names : RemovePresetObject(t, n)
    BY <1>1, <2>2 DEF DeleteTrack, RemoveOriginalObject, RemoveObjectFails,
       RemovePresetObject, DeletionFrame, dbVars
  <2>3. QED
    BY <1>5, <2>1, <2>2 DEF DeletionStep
<1>6. ASSUME NEW w \in Workers, OnFailedTranscoding(w) PROVE NeedStep
  <2>1. UNCHANGED <<tracks, presets, upload>>
    BY <1>6 DEF OnFailedTranscoding, JobFrame, requestVars
  <2>2. CASE UNCHANGED <<queue, nextID>>
    BY <1>1, <2>1, <2>2
  <2>3. CASE \E r \in RowsWithID(jobRow[w].id) :
                 queue' = (queue \ {r}) \union
                     {[id |-> nextID, track |-> r.track, wasFailed |-> TRUE]}
    <3>1. PICK r \in queue :
              \E n : n.track = r.track /\ queue' = (queue \ {r}) \union {n}
      BY <2>3 DEF RowsWithID
    <3>2. PICK n : n.track = r.track /\ queue' = (queue \ {r}) \union {n}
      BY <3>1
    <3>3. QED
      BY <1>0, <2>1, <3>2 DEF NeedStep
  <2>4. QED
    BY <1>6, <2>2, <2>3 DEF OnFailedTranscoding
<1>7. ASSUME NEW w \in Workers, RemoveFromQueueAndUpdateTrack(w) PROVE NeedStep
  <2>1. UNCHANGED <<tracks, upload>> /\ job[w] = "commit"
    BY <1>7 DEF RemoveFromQueueAndUpdateTrack, JobFrame, requestVars, At
  <2>2. CASE UNCHANGED <<queue, presets>>
    BY <1>1, <2>1, <2>2
  <2>3. CASE \E r \in RowsWithID(jobRow[w].id) :
                 /\ queue' = queue \ {r}
                 /\ presets' = [presets EXCEPT ![r.track] = TranscodedNames(jobRow[w].track)]
    <3>1. PICK r \in queue : /\ r.id = jobRow[w].id
                             /\ queue' = queue \ {r}
                             /\ presets' = [presets EXCEPT ![r.track] = TranscodedNames(jobRow[w].track)]
      BY <2>3 DEF RowsWithID
    <3>2. jobRow[w] # NoRow
      BY <2>1 DEF RowInv
    <3>3. r.track = jobRow[w].track
      BY <3>1, <3>2 DEF RowInv, Agrees
    <3>4. QED
      BY <1>0, <2>1, <3>1, <3>3 DEF NeedStep
  <2>4. QED
    BY <1>7, <2>2, <2>3 DEF RemoveFromQueueAndUpdateTrack
<1>8. ASSUME NEW w \in Workers,
             ProducerStep(w) \/ TakeRow(w) \/ JobStep(w) \/ WorkerEnds(w)
      PROVE  NeedStep
  <2>1. CASE ProducerStep(w) \/ TakeRow(w) \/ WorkerEnds(w)
    BY <1>1, <2>1 DEF ProducerStep, ReadPage, ReadPageFails, TakeRow, WorkerEnds,
       dbVars, requestVars
  <2>2. CASE \/ FetchOriginal(w) \/ FetchOriginalFails(w) \/ ProbeDuration(w)
             \/ TranscodeTimesOut(w)
             \/ \E p \in Presets : TranscodePreset(w, p) \/ UploadPreset(w, p)
    BY <1>1, <2>2 DEF FetchOriginal, FetchOriginalFails, ProbeDuration,
       TranscodeTimesOut, TranscodePreset, UploadPreset, JobFrame, requestVars
  <2>3. QED
    BY <1>6, <1>7, <1>8, <2>1, <2>2 DEF JobStep
<1>9. CASE Exit
  BY <1>0, <1>9 DEF Exit, NeedStep, dbVars
<1>10. CASE \/ \E t \in Tracks : removeTmpFiles(t)
            \/ ReceiveTick \/ ListenerExits \/ Stop \/ Restart \/ UNCHANGED vars
  BY <1>1, <1>10 DEF removeTmpFiles, ReceiveTick, ListenerExits, Stop, Restart, vars,
     dbVars, requestVars
<1>11. QED
  BY <1>2, <1>3, <1>4, <1>5, <1>8, <1>9, <1>10 DEF Next

(* A job that uploads, or is about to commit, has stored every preset that  *)
(* it does not list as still to do.                                         *)
ProgressStep(w) ==
    job'[w] \in {"upload", "commit"} =>
        /\ job[w] # "idle" /\ jobRow'[w] = jobRow[w]
        /\ \A p \in Presets \ todo'[w] :
               \/ job[w] \in {"upload", "commit"} /\ p \notin todo[w]
               \/ objects'[jobRow[w].track][p] # "none"
        /\ job'[w] = "commit" => todo'[w] = {}

\* Every step of a job moves its progress as ProgressStep says.
LEMMA ProgressStepping ==
    ASSUME TypeOK, RowInv, FileInv, [Next]_vars, NEW v \in Workers
    PROVE  ProgressStep(v)
<1>0. /\ objects \in Files
      /\ job \in [Workers -> JobStages]
      /\ todo \in [Workers -> SUBSET Presets]
      /\ jobRow \in [Workers -> PageRow \union {NoRow}]
      /\ job[v] = "commit" => todo[v] = {}
  BY DEF TypeOK, FileInv
<1>1. ASSUME UNCHANGED <<job, jobRow, todo>> PROVE ProgressStep(v)
  BY <1>0, <1>1 DEF ProgressStep
<1>2. ASSUME NEW w \in Workers, Return(w) PROVE ProgressStep(v)
  BY <1>0, <1>2 DEF ProgressStep, Return
<1>3. ASSUME NEW w \in Workers, job[w] # "idle", NEW stage, NEW left \in SUBSET Presets,
             \/ stage \notin {"upload", "commit"}
             \/ stage = "upload" /\ left = Presets,
             GoOn(w, stage, left)
      PROVE  ProgressStep(v)
  BY <1>0, <1>3 DEF ProgressStep, GoOn
<1>4. ASSUME NEW t \in Tracks,
             \/ CreateTrack(t) \/ UploadStep(t) \/ ReceiveSignal(t)
             \/ DeleteTrack(t) \/ DeletionStep(t) \/ removeTmpFiles(t)
      PROVE  ProgressStep(v)
  <2>1. CASE CreateTrack(t) \/ UploadStep(t) \/ removeTmpFiles(t) \/ ReceiveSignal(t)
    BY <1>1, <2>1 DEF CreateTrack, UploadStep, PutOriginal, PutOriginalFails,
       AddToTranscodingQueue, AddToTranscodingQueueFails, removeTmpFiles, ReceiveSignal,
       workerVars, jobVars
  <2>2. CASE DeleteTrack(t) \/ DeletionStep(t)
    BY <1>1, <2>2 DEF DeleteTrack, DeletionStep, RemovePresetObject,
       RemoveOriginalObject, RemoveObjectFails, DeleteTrackRow, DeletionFrame,
       workerVars, jobVars
  <2>3. QED
    BY <1>4, <2>1, <2>2
<1>5. ASSUME NEW w \in Workers, NEW p \in Presets, UploadPreset(w, p)
      PROVE  ProgressStep(v)
  <2>0. job[w] = "upload" /\ p \in todo[w] /\ jobRow[w].track \in Tracks
    BY <1>0, <1>5 DEF UploadPreset, At, RowInv, PageRow
  <2>1. CASE Return(w)
    BY <1>2, <2>1
  <2>2. CASE /\ tmp[jobRow[w].track][p] # "none"
             /\ objects' = [objects EXCEPT ![jobRow[w].track][p] = tmp[jobRow[w].track][p]]
             /\ GoOn(w, IF todo[w] = {p} THEN "commit" ELSE "upload", todo[w] \ {p})
    <3>1. objects'[jobRow[w].track][p] # "none"
      BY <1>0, <2>0, <2>2 DEF Files, Kinds
    <3>2. /\ job' = [job EXCEPT ![w] = IF todo[w] = {p} THEN "commit" ELSE "upload"]
          /\ todo' = [todo EXCEPT ![w] = todo[w] \ {p}]
          /\ UNCHANGED jobRow
      BY <2>2 DEF GoOn
    <3>3. QED
      BY <1>0, <2>0, <3>1, <3>2 DEF ProgressStep
  <2>3. QED
    BY <1>5, <2>1, <2>2 DEF UploadPreset
<1>6. ASSUME NEW w \in Workers,
             ProducerStep(w) \/ TakeRow(w) \/ JobStep(w) \/ WorkerEnds(w)
      PROVE  ProgressStep(v)
  <2>1. CASE ProducerStep(w) \/ WorkerEnds(w)
    BY <1>1, <2>1 DEF ProducerStep, ReadPage, ReadPageFails, WorkerEnds, jobVars
  <2>2. CASE TakeRow(w)
    <3>1. /\ job' = [job EXCEPT ![w] = "fetch"]
          /\ \E r \in page[w] : jobRow' = [jobRow EXCEPT ![w] = r]
          /\ UNCHANGED todo
      BY <2>2 DEF TakeRow
    <3>2. QED
      BY <1>0, <3>1 DEF ProgressStep
  <2>3. CASE FetchOriginal(w)
    BY <1>3, <2>3 DEF FetchOriginal, At
  <2>4. CASE FetchOriginalFails(w)
    BY <1>2, <2>4 DEF FetchOriginalFails
  <2>5. ASSUME NEW p \in Presets, TranscodePreset(w, p) PROVE ProgressStep(v)
    <3>1. todo[w] \ {p} \in SUBSET Presets
      BY <1>0
    <3>2. QED
      BY <1>3, <2>5, <3>1 DEF TranscodePreset, At
  <2>6. CASE TranscodeTimesOut(w)
    BY <1>3, <2>6 DEF TranscodeTimesOut, At
  <2>7. CASE OnFailedTranscoding(w) \/ RemoveFromQueueAndUpdateTrack(w)
    BY <1>2, <2>7 DEF OnFailedTranscoding, RemoveFromQueueAndUpdateTrack
  <2>8. CASE ProbeDuration(w)
    BY <1>2, <1>3, <2>8 DEF ProbeDuration, At
  <2>9. QED
    BY <1>5, <1>6, <2>1, <2>2, <2>3, <2>4, <2>5, <2>6, <2>7, <2>8 DEF JobStep
<1>7. CASE ReceiveTick \/ ListenerExits \/ Stop \/ Restart \/ UNCHANGED vars
  BY <1>1, <1>7 DEF ReceiveTick, ListenerExits, Stop, Restart, vars, workerVars, jobVars
<1>8. CASE Exit
  BY <1>8 DEF Exit, ProgressStep
<1>9. QED
  BY <1>4, <1>6, <1>7, <1>8 DEF Next

\* A request to delete a track removes only objects that its row names.
LEMMA DoomedStepping ==
    ASSUME TypeOK, DBInv, \A t \in Tracks : doomed[t] \subseteq TranscodedNames(t), [Next]_vars
    PROVE  \A t \in Tracks : doomed'[t] \subseteq TranscodedNames(t)
<1>0. doomed \in [Tracks -> SUBSET Names]
  BY DEF TypeOK
<1>1. ASSUME UNCHANGED doomed PROVE \A t \in Tracks : doomed'[t] \subseteq TranscodedNames(t)
  BY <1>1
<1>2. ASSUME NEW t \in Tracks, DeleteTrack(t)
      PROVE  \A u \in Tracks : doomed'[u] \subseteq TranscodedNames(u)
  <2>1. doomed' = [doomed EXCEPT ![t] = presets[t]] /\ presets[t] \subseteq TranscodedNames(t)
    BY <1>2 DEF DeleteTrack, DBInv
  <2>2. QED
    BY <1>0, <2>1
<1>3. ASSUME NEW t \in Tracks, DeletionStep(t)
      PROVE  \A u \in Tracks : doomed'[u] \subseteq TranscodedNames(u)
  <2>1. UNCHANGED doomed \/ \E s \in SUBSET doomed[t] : doomed' = [doomed EXCEPT ![t] = s]
    <3>1. ASSUME NEW n \in Names, RemovePresetObject(t, n)
          PROVE  \E s \in SUBSET doomed[t] : doomed' = [doomed EXCEPT ![t] = s]
      BY <3>1 DEF RemovePresetObject
    <3>2. QED
      BY <1>3, <3>1 DEF DeletionStep, RemoveOriginalObject, RemoveObjectFails, DeleteTrackRow
  <2>2. QED
    BY <1>0, <2>1
<1>4. ASSUME NEW t \in Tracks,
             CreateTrack(t) \/ UploadStep(t) \/ ReceiveSignal(t) \/ removeTmpFiles(t)
      PROVE  UNCHANGED doomed
  BY <1>4 DEF CreateTrack, UploadStep, PutOriginal, PutOriginalFails, AddToTranscodingQueue,
     AddToTranscodingQueueFails, ReceiveSignal, removeTmpFiles, requestVars
<1>5. ASSUME NEW w \in Workers,
             ProducerStep(w) \/ TakeRow(w) \/ JobStep(w) \/ WorkerEnds(w)
      PROVE  UNCHANGED doomed
  BY <1>5 DEF ProducerStep, ReadPage, ReadPageFails, TakeRow, WorkerEnds, JobStep,
     FetchOriginal, FetchOriginalFails, ProbeDuration, TranscodeTimesOut,
     TranscodePreset, UploadPreset, OnFailedTranscoding, RemoveFromQueueAndUpdateTrack,
     JobFrame, requestVars
<1>6. CASE ReceiveTick \/ ListenerExits \/ Stop \/ Restart \/ UNCHANGED vars
  BY <1>1, <1>6 DEF ReceiveTick, ListenerExits, Stop, Restart, vars, requestVars
<1>7. CASE Exit
  BY <1>7 DEF Exit
<1>8. QED
  BY <1>1, <1>2, <1>3, <1>4, <1>5, <1>6, <1>7 DEF Next

\* FileInv is kept: objects that the database relies on are stored before it
\* does, and removed only for a deletion.
LEMMA FileInvInductive ==
    ASSUME TypeOK, RowInv, DBInv, FileInv, [Next]_vars
    PROVE  FileInv'
<1>1. StorageStep /\ NeedStep /\ \A w \in Workers : ProgressStep(w)
  BY StorageStepping, NeedStepping, ProgressStepping DEF FileInv
<1>2. /\ tracks \in SUBSET Tracks /\ tracks' \in SUBSET Tracks
      /\ \A w \in Workers : job[w] # "idle" => jobRow[w].track \in Tracks
  <2>1. tracks' \in SUBSET Tracks
    BY <1>1, TypingStep DEF TypeOK
  <2>2. QED
    BY <2>1 DEF TypeOK, RowInv, PageRow
<1>3. ASSUME NEW t \in tracks', NEW n \in presets'[t]
      PROVE  n[1] = t /\ (deletion'[t] = "idle" => objects'[t][n[2]] # "none")
  <2>0. t \in Tracks /\ n[1] = t /\ n[2] \in Presets
    BY <1>2, <1>3, DBInvInductive, OwnNames DEF DBInv
  <2>1. CASE t \in tracks /\ n \in presets[t]
    BY <1>1, <2>0, <2>1 DEF FileInv, NamedPresetsStored, StorageStep
  <2>2. CASE \E w \in Workers : job[w] = "commit" /\ jobRow[w].track = t
    BY <1>1, <2>0, <2>2 DEF FileInv, StorageStep
  <2>3. QED
    BY <1>1, <1>3, <2>0, <2>1, <2>2 DEF NeedStep
<1>4. ASSUME NEW t \in tracks', Queued(t)', deletion'[t] = "idle"
      PROVE  objects'[t][Original] = "whole"
  BY <1>1, <1>2, <1>4 DEF NeedStep, StorageStep, FileInv, QueuedOriginalStored
<1>5. ASSUME NEW t \in Tracks, upload'[t] = "enqueue", deletion'[t] = "idle"
      PROVE  objects'[t][Original] = "whole"
  BY <1>1, <1>5 DEF NeedStep, StorageStep, FileInv
<1>6. ASSUME NEW w \in Workers
      PROVE  /\ job'[w] = "commit" => todo'[w] = {}
             /\ job'[w] \in {"upload", "commit"} /\ deletion'[jobRow'[w].track] = "idle" =>
                    \A p \in Presets \ todo'[w] : objects'[jobRow'[w].track][p] # "none"
  <2>1. job'[w] = "commit" => todo'[w] = {}
    BY <1>1 DEF ProgressStep
  <2>2. ASSUME job'[w] \in {"upload", "commit"}, deletion'[jobRow'[w].track] = "idle",
               NEW p \in Presets \ todo'[w]
        PROVE  objects'[jobRow'[w].track][p] # "none"
    <3>1. /\ jobRow'[w] = jobRow[w] /\ jobRow[w].track \in Tracks
          /\ \/ job[w] \in {"upload", "commit"} /\ p \notin todo[w]
             \/ objects'[jobRow[w].track][p] # "none"
      BY <1>1, <1>2, <2>2 DEF ProgressStep
    <3>2. QED
      BY <1>1, <2>2, <3>1 DEF StorageStep, FileInv
  <2>3. QED
    BY <2>1, <2>2
<1>7. \A t \in Tracks : doomed'[t] \subseteq TranscodedNames(t)
  BY DoomedStepping DEF FileInv
<1>8. QED
  BY <1>3, <1>4, <1>5, <1>6, <1>7 DEF FileInv, NamedPresetsStored, QueuedOriginalStored

(* The stored objects cover what the database promises: every preset that a *)
(* track row names can be streamed (NamedPresetsStored), and the original   *)
(* of every queued track can be read by its job (QueuedOriginalStored),     *)
(* until a request to delete that track begins.  Hence the strengthening:   *)
(* the job about to commit has stored all its presets, and the row it will  *)
(* find under its id is still its own track's.                              *)
THEOREM DatabaseNamesStoredObjects ==
    Spec => []NamedPresetsStored /\ []QueuedOriginalStored
<1>1. Init => FileInv
  BY DEF Init, FileInv, NamedPresetsStored, QueuedOriginalStored
<1>2. FileInv => NamedPresetsStored /\ QueuedOriginalStored
  BY DEF FileInv
<1>3. QED
  BY <1>1, <1>2, FileInvInductive, AtMostOneLiveRow, Typing, Rows, PTL DEF Spec

(* The half of it that a job relies on: whenever a row is queued, the       *)
(* original that job copies to its temporary file is in the bucket, unless  *)
(* a request to delete the track has begun.                                 *)
THEOREM QueuedOriginalsStored == Spec => []QueuedOriginalStored
BY DatabaseNamesStoredObjects, PTL

\* IInv is inductive: what a module that puts more beside the pipeline relies on.
LEMMA IInvInitial == Init => IInv
<1>1. Init => WorkerInv /\ RowInv
  BY DEF Init, WorkerInv, OneWorker, RowInv
<1>2. Init => DBInv
  BY DEF Init, DBInv, OneLiveRowPerTrack, Queued, RowsOf
<1>3. Init => FileInv
  BY DEF Init, FileInv, NamedPresetsStored, QueuedOriginalStored
<1>4. QED
  BY <1>1, <1>2, <1>3, InitTypes DEF IInv

\* Every step of the pipeline keeps it.
LEMMA IInvInductive ==
    ASSUME IInv, [Next]_vars
    PROVE  IInv'
BY TypingStep, WorkerInvInductive, RowInvInductive, DBInvInductive, FileInvInductive
   DEF IInv
-------------------------------------------------------------------------------
(* Refinement of TrackLifecycle.                                            *)

Accepted == {t \in Tracks : upload[t] = "done"}

\* The step leaves what the abstract specification sees of every track but t.
OthersStay(t) == \A u \in Tracks \ {t} : Status(u)' = Status(u)

\* A step that changes no track's status and accepts no upload is a stutter.
LEMMA AbstractStutter ==
    ASSUME \A t \in Tracks : Status(t)' = Status(t), Accepted' = Accepted
    PROVE  UNCHANGED Lifecycle!vars
BY DEF Lifecycle!vars, Accepted

\* A step that changes the status of one track, as allowed, is an abstract step.
LEMMA AbstractMove ==
    ASSUME NEW t \in Tracks, OthersStay(t), Accepted' = Accepted,
           \/ Status(t) = "absent"  /\ Status(t)' = "created"
           \/ Status(t) = "created" /\ Status(t)' = "queued"
           \/ Status(t) = "queued"  /\ Status(t)' = "ready"
           \/ Status(t) \in {"created", "queued", "ready"} /\ Status(t)' = "gone"
    PROVE  Lifecycle!Next
<1> DEFINE status == [u \in Tracks |-> Status(u)]
<1>1. status[t] = Status(t)
  OBVIOUS
<1>2. status' = [status EXCEPT ![t] = Status(t)']
  BY DEF OthersStay
<1>3. UNCHANGED {u \in Tracks : upload[u] = "done"}
  BY DEF Accepted
<1>4. \/ Lifecycle!Create(t) \/ Lifecycle!Queue(t)
      \/ Lifecycle!Publish(t) \/ Lifecycle!Remove(t)
  BY <1>1, <1>2, <1>3 DEF Lifecycle!Create, Lifecycle!Queue, Lifecycle!Publish,
     Lifecycle!Remove, Lifecycle!Move
<1>5. QED
  BY <1>4 DEF Lifecycle!Next

\* Accepting the upload of a track that is queued or beyond is an abstract step.
LEMMA AbstractAccept ==
    ASSUME NEW t \in Tracks, \A u \in Tracks : Status(u)' = Status(u),
           Status(t) \in {"queued", "ready", "gone"}, Accepted' = Accepted \union {t}
    PROVE  Lifecycle!Next
BY DEF Lifecycle!Next, Lifecycle!Accept, Accepted

\* Every step of the pipeline is an abstract step or a stutter.
LEMMA StepImplements ==
    ASSUME TypeOK, RowInv, DBInv, [Next]_vars
    PROVE  [Lifecycle!Next]_(Lifecycle!vars)
<1> DEFINE AbsStep == [Lifecycle!Next]_(Lifecycle!vars)
<1>0. /\ queue \in SUBSET QueueRow
      /\ presets \in [Tracks -> SUBSET Names]
      /\ upload \in [Tracks -> UploadStages]
      /\ deletion \in [Tracks -> DeletionStages]
      /\ tracks \in SUBSET Tracks
      /\ \A q \in queue : q.track \in Tracks
  BY DEF TypeOK, QueueRow
<1>1. ASSUME UNCHANGED <<tracks, presets, queue>>,
             \A t \in Tracks :
                 /\ t \notin tracks => (deletion'[t] = "idle" <=> deletion[t] = "idle")
                 /\ upload'[t] = "done" <=> upload[t] = "done"
      PROVE  AbsStep
  <2>1. \A t \in Tracks : Status(t)' = Status(t)
    BY <1>1 DEF Status, Queued, RowsOf
  <2>2. Accepted' = Accepted
    BY <1>1 DEF Accepted
  <2>3. QED
    BY <2>1, <2>2, AbstractStutter
<1>2. ASSUME UNCHANGED <<tracks, presets, queue, deletion>>, NEW t \in Tracks,
             NEW stage \in {"put", "enqueue", "signal", "failed"}, upload[t] # "done",
             upload' = [upload EXCEPT ![t] = stage]
      PROVE  AbsStep
  BY <1>0, <1>1, <1>2
<1>3. ASSUME UNCHANGED <<tracks, presets, queue, upload>>, NEW t \in Tracks,
             NEW stage \in {"objects", "row", "failed"}, t \in tracks,
             deletion' = [deletion EXCEPT ![t] = stage]
      PROVE  AbsStep
  BY <1>0, <1>1, <1>3
<1>4. ASSUME NEW t \in Tracks, CreateTrack(t) PROVE AbsStep
  <2>1. upload[t] = "idle" /\ UNCHANGED <<presets, queue, deletion>>
    BY <1>4 DEF CreateTrack, UploadTo
  <2>2. CASE upload' = [upload EXCEPT ![t] = "failed"] /\ UNCHANGED tracks
    BY <1>2, <2>1, <2>2
  <2>3. CASE upload' = [upload EXCEPT ![t] = "put"] /\ tracks' = tracks \union {t}
    <3>1. t \notin tracks /\ deletion[t] = "idle" /\ presets[t] = {} /\ ~Queued(t)
      BY <2>1 DEF DBInv
    <3>2. Status(t) = "absent" /\ Status(t)' = "created" /\ OthersStay(t)
      BY <2>1, <2>3, <3>1 DEF Status, Queued, RowsOf, OthersStay
    <3>3. Accepted' = Accepted
      BY <1>0, <2>1, <2>3 DEF Accepted
    <3>4. QED
      BY <3>2, <3>3, AbstractMove
  <2>4. QED
    BY <1>4, <2>2, <2>3 DEF CreateTrack, UploadTo
<1>5. ASSUME NEW t \in Tracks, PutOriginal(t) \/ PutOriginalFails(t) PROVE AbsStep
  BY <1>2, <1>5 DEF PutOriginal, PutOriginalFails, UploadTo, dbVars
<1>6. ASSUME NEW t \in Tracks,
             AddToTranscodingQueue(t) \/ AddToTranscodingQueueFails(t)
      PROVE  AbsStep
  <2>1. /\ upload[t] = "enqueue"
        /\ \E stage \in {"signal", "failed"} : upload' = [upload EXCEPT ![t] = stage]
        /\ UNCHANGED <<tracks, presets, deletion>>
    BY <1>6 DEF AddToTranscodingQueue, AddToTranscodingQueueFails, UploadTo
  <2>2. CASE UNCHANGED queue
    BY <1>2, <2>1, <2>2
  <2>3. CASE t \in tracks /\ InsertQueueRow(t, FALSE)
    <3>1. PICK n : n.track = t /\ queue' = queue \union {n}
      BY <2>3 DEF InsertQueueRow
    <3>2. presets[t] = {} /\ ~Queued(t)
      BY <2>1 DEF DBInv
    <3>3. Status(t) = "created" /\ Status(t)' = "queued"
      BY <2>1, <2>3, <3>1, <3>2 DEF Status, Queued, RowsOf
    <3>4. \A u \in Tracks \ {t} : Queued(u)' <=> Queued(u)
      BY <3>1 DEF Queued, RowsOf
    <3>5. OthersStay(t)
      BY <2>1, <3>4 DEF Status, OthersStay
    <3>6. Accepted' = Accepted
      BY <1>0, <2>1 DEF Accepted
    <3>7. QED
      BY <3>3, <3>5, <3>6, AbstractMove
  <2>4. QED
    BY <1>6, <2>2, <2>3 DEF AddToTranscodingQueue, AddToTranscodingQueueFails
<1>7. ASSUME NEW t \in Tracks, ReceiveSignal(t) PROVE AbsStep
  <2>1. /\ upload[t] = "signal"
        /\ upload' = [upload EXCEPT ![t] = "done"]
        /\ UNCHANGED <<tracks, presets, queue, deletion>>
    BY <1>7 DEF ReceiveSignal, UploadTo, dbVars
  <2>2. \A u \in Tracks : Status(u)' = Status(u)
    BY <2>1 DEF Status, Queued, RowsOf
  <2>3. Status(t) \in {"queued", "ready", "gone"}
    BY <2>1, NamesAreNames DEF DBInv, Status
  <2>4. Accepted' = Accepted \union {t}
    BY <1>0, <2>1 DEF Accepted
  <2>5. QED
    BY <2>2, <2>3, <2>4, AbstractAccept
<1>8. ASSUME NEW t \in Tracks, DeleteTrackRow(t) PROVE AbsStep
  <2>1. deletion[t] = "row" /\ UNCHANGED upload /\ t \in tracks
    BY <1>8 DEF DeleteTrackRow, DeletionTo, DeletionFrame, DBInv
  <2>2. CASE /\ deletion' = [deletion EXCEPT ![t] = "failed"]
             /\ UNCHANGED <<tracks, presets, queue>>
    BY <1>3, <2>1, <2>2
  <2>3. CASE /\ \E stage \in {"done", "failed"} : deletion' = [deletion EXCEPT ![t] = stage]
             /\ RemoveRows(t)
    <3>1. Status(t) \in {"created", "queued", "ready"} /\ Status(t)' = "gone"
      BY <1>0, <2>1, <2>3 DEF Status, RemoveRows
    <3>2. \A u \in Tracks \ {t} : Queued(u)' <=> Queued(u)
      BY <2>3 DEF Queued, RowsOf, RemoveRows
    <3>3. OthersStay(t)
      BY <1>0, <2>1, <2>3, <3>2 DEF Status, OthersStay, RemoveRows
    <3>4. Accepted' = Accepted
      BY <2>1 DEF Accepted
    <3>5. QED
      BY <3>1, <3>3, <3>4, AbstractMove
  <2>4. QED
    BY <1>8, <2>2, <2>3 DEF DeleteTrackRow, DeletionTo
<1>9. ASSUME NEW t \in Tracks, DeleteTrack(t) \/ DeletionStep(t) PROVE AbsStep
  <2>1. CASE DeleteTrack(t)
    BY <1>3, <2>1 DEF DeleteTrack, DeletionTo, DeletionFrame, dbVars
  <2>2. ASSUME NEW n \in Names, RemovePresetObject(t, n) PROVE AbsStep
    BY <1>3, <2>2 DEF DBInv, RemovePresetObject, DeletionTo, DeletionFrame, dbVars
  <2>3. CASE RemoveOriginalObject(t)
    BY <1>3, <2>3 DEF DBInv, RemoveOriginalObject, DeletionTo, DeletionFrame, dbVars
  <2>4. CASE RemoveObjectFails(t)
    BY <1>3, <2>4 DEF DBInv, RemoveObjectFails, DeletionTo, DeletionFrame, dbVars
  <2>5. QED
    BY <1>8, <1>9, <2>1, <2>2, <2>3, <2>4 DEF DeletionStep
<1>10. ASSUME NEW w \in Workers, OnFailedTranscoding(w) PROVE AbsStep
  <2>1. UNCHANGED <<tracks, presets, upload, deletion>>
    BY <1>10 DEF OnFailedTranscoding, JobFrame, requestVars
  <2>2. CASE UNCHANGED <<queue, nextID>>
    BY <1>1, <2>1, <2>2
  <2>3. CASE \E r \in RowsWithID(jobRow[w].id) :
                 queue' = (queue \ {r}) \union
                     {[id |-> nextID, track |-> r.track, wasFailed |-> TRUE]}
    <3>1. PICK r \in queue :
              \E n : n.track = r.track /\ queue' = (queue \ {r}) \union {n}
      BY <2>3 DEF RowsWithID
    <3>2. \A u \in Tracks : Queued(u)' <=> Queued(u)
      <4>1. PICK n : n.track = r.track /\ queue' = (queue \ {r}) \union {n}
        BY <3>1
      <4>2. QED
        BY <4>1 DEF Queued, RowsOf
    <3>3. \A u \in Tracks : Status(u)' = Status(u)
      BY <2>1, <3>2 DEF Status
    <3>4. Accepted' = Accepted
      BY <2>1 DEF Accepted
    <3>5. QED
      BY <3>3, <3>4, AbstractStutter
  <2>4. QED
    BY <1>10, <2>2, <2>3 DEF OnFailedTranscoding
<1>11. ASSUME NEW w \in Workers, RemoveFromQueueAndUpdateTrack(w) PROVE AbsStep
  <2>0. job[w] # "idle"
    BY <1>11 DEF RemoveFromQueueAndUpdateTrack, At
  <2>1. UNCHANGED <<tracks, upload, deletion>>
    BY <1>11 DEF RemoveFromQueueAndUpdateTrack, JobFrame, requestVars
  <2>2. CASE UNCHANGED <<queue, presets>>
    BY <1>1, <2>1, <2>2
  <2>3. CASE \E r \in RowsWithID(jobRow[w].id) :
                 /\ queue' = queue \ {r}
                 /\ presets' = [presets EXCEPT ![r.track] = TranscodedNames(jobRow[w].track)]
    <3>1. PICK r \in queue : /\ r.id = jobRow[w].id /\ queue' = queue \ {r}
                             /\ presets' = [presets EXCEPT ![r.track] = TranscodedNames(jobRow[w].track)]
      BY <2>3 DEF RowsWithID
    <3>2. PICK t \in Tracks : t = r.track
      BY <1>0
    <3>3. t \in tracks /\ presets[t] = {} /\ Queued(t)
      BY <3>1, <3>2 DEF DBInv, OneLiveRowPerTrack, Queued, RowsOf
    <3>4. Status(t) = "queued" /\ Status(t)' = "ready"
      BY <1>0, <2>0, <2>1, <3>1, <3>2, <3>3, JobsOwnRow, NamesAreNames DEF Status
    <3>5. \A u \in Tracks \ {t} : Queued(u)' <=> Queued(u)
      BY <3>1, <3>2 DEF Queued, RowsOf
    <3>6. OthersStay(t)
      BY <1>0, <2>1, <3>1, <3>2, <3>5 DEF Status, OthersStay
    <3>7. Accepted' = Accepted
      BY <2>1 DEF Accepted
    <3>8. QED
      BY <3>4, <3>6, <3>7, AbstractMove
  <2>4. QED
    BY <1>11, <2>2, <2>3 DEF RemoveFromQueueAndUpdateTrack
<1>12. ASSUME NEW w \in Workers,
              ProducerStep(w) \/ TakeRow(w) \/ JobStep(w) \/ WorkerEnds(w)
       PROVE  AbsStep
  <2>1. CASE ProducerStep(w) \/ TakeRow(w) \/ WorkerEnds(w)
    BY <1>1, <2>1 DEF ProducerStep, ReadPage, ReadPageFails, TakeRow, WorkerEnds,
       dbVars, requestVars
  <2>2. CASE \/ FetchOriginal(w) \/ FetchOriginalFails(w) \/ ProbeDuration(w)
             \/ TranscodeTimesOut(w)
             \/ \E p \in Presets : TranscodePreset(w, p) \/ UploadPreset(w, p)
    BY <1>1, <2>2 DEF FetchOriginal, FetchOriginalFails, ProbeDuration,
       TranscodeTimesOut, TranscodePreset, UploadPreset, JobFrame, requestVars
  <2>3. QED
    BY <1>10, <1>11, <1>12, <2>1, <2>2 DEF JobStep
<1>13. CASE Exit
  <2>1. /\ upload' = [t \in Tracks |->
               IF upload[t] \in {"put", "enqueue", "signal"} THEN "failed" ELSE upload[t]]
        /\ deletion' = [t \in Tracks |->
               IF deletion[t] \in {"objects", "row"} THEN "failed" ELSE deletion[t]]
        /\ UNCHANGED <<tracks, presets, queue>>
    BY <1>13 DEF Exit, dbVars
  <2>2. QED
    BY <1>1, <2>1
<1>14. CASE \/ \E t \in Tracks : removeTmpFiles(t)
            \/ ReceiveTick \/ ListenerExits \/ Stop \/ Restart \/ UNCHANGED vars
  BY <1>1, <1>14 DEF removeTmpFiles, ReceiveTick, ListenerExits, Stop, Restart, vars,
     dbVars, requestVars
<1>15. QED
  BY <1>4, <1>5, <1>6, <1>7, <1>9, <1>12, <1>13, <1>14 DEF Next, UploadStep

(* The pipeline implements the life of a track that TrackLifecycle promises *)
(* (ImplementsLifecycle): an accepted upload is queued or ready until it is *)
(* deleted, presets appear all at once, and a deleted track stays gone.     *)
THEOREM PipelineImplementsLifecycle == Spec => ImplementsLifecycle
<1>1. Init => Lifecycle!Init
  BY DEF Init, Lifecycle!Init, Status
<1>2. QED
  BY <1>1, StepImplements, AtMostOneLiveRow, Typing, Rows, PTL
     DEF Spec, ImplementsLifecycle, Lifecycle!Spec
================================================================================
