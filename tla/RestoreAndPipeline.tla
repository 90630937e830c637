--------------------------- MODULE RestoreAndPipeline ---------------------------
(***************************************************************************)
(* A restore beside the TranscodingPipeline, which nobody stops for it.    *)
(*                                                                         *)
(* BackupRestore looks at the restore alone, and at the library in parts.  *)
(* Here the parts are what both sides write: the rows of track and         *)
(* transcoding_queue, the sequence of the queue's ids, and the objects.    *)
(* A worker holds rows of the queue in its page and in its job, an id and  *)
(* a file name each, while the restore empties the queue and starts its    *)
(* ids again.                                                              *)
(*                                                                         *)
(* The archive holds originals only, so that its tracks are to be queued.  *)
(* Ids of tracks are those of another installation or of an earlier time:  *)
(* any of them may be taken here too.                                      *)
(***************************************************************************)
EXTENDS TranscodingPipeline

VARIABLES
    restore,   \* where restoreArchive is
    archived,  \* the queue rows of the archive, one for each of its tracks
    snapshot,  \* snapshot[t]: the object names that backupDB has found in t's row
    left       \* tracks of the archive, or of the snapshot, left in its loop

restoreVars == <<restore, archived, snapshot, left>>

Idle == {"none", "finished", "failed"}

RestoreInit ==
    /\ Init
    /\ restore = "none"
    /\ archived = {}
    /\ snapshot = [t \in Tracks |-> {}]
    /\ left = {}

ArchivedTracks == {r.track : r \in archived}

-------------------------------------------------------------------------------
(* restoreArchive.                                                         *)

RestoreAt(stage) == proc # "down" /\ restore = stage

RestoreGoesTo(stage, tracksLeft) ==
    /\ restore' = stage
    /\ left' = tracksLeft
    /\ NoFault

RestoreFails == restore' = "failed" /\ left' = {}

\* A turn of a loop over tracks: with the last, the restore goes on.
TurnFor(t, stage, nextStage, nextLeft) ==
    IF left = {t} THEN RestoreGoesTo(nextStage, nextLeft)
                  ELSE RestoreGoesTo(stage, left \ {t})

RestoreFrame ==
    UNCHANGED <<proc, tmp, removers, requestVars, workerVars>>

\* prepareOriginalOnlySnapshot: no presets, and a queue row for every track,
\* numbered from 1 when the archive has no queue rows of its own.
prepareOriginalOnlySnapshot ==
    /\ proc = "up"
    /\ restore = "none"
    /\ \E library \in SUBSET Tracks \ {{}} :
       \E id \in [library -> 1..Cardinality(library)] :
           /\ \A s, t \in library : id[s] = id[t] => s = t
           /\ archived' = {[id |-> id[t], track |-> t, wasFailed |-> FALSE] : t \in library}
    /\ RestoreGoesTo("read", {})
    /\ UNCHANGED snapshot
    /\ RestoreFrame /\ UNCHANGED <<dbVars, objects>>

\* backupDB of the current library.
SnapshotCurrent ==
    /\ RestoreAt("read")
    /\ \/ /\ snapshot' = [t \in Tracks |->
                              IF t \in tracks THEN presets[t] \union {<<t, Original>>} ELSE {}]
          /\ RestoreGoesTo("clear", {})
       \/ RestoreFails /\ Fault /\ UNCHANGED snapshot
    /\ UNCHANGED archived
    /\ RestoreFrame /\ UNCHANGED <<dbVars, objects>>

\* TRUNCATE ... RESTART IDENTITY
ClearBackupData ==
    /\ RestoreAt("clear")
    /\ \/ /\ tracks' = {}
          /\ presets' = [t \in Tracks |-> {}]
          /\ queue' = {}
          /\ nextID' = 1
          /\ RestoreGoesTo("unstore", Tracks)
       \/ RestoreFails /\ Fault /\ UNCHANGED dbVars
    /\ UNCHANGED <<archived, snapshot>>
    /\ RestoreFrame /\ UNCHANGED objects

clearStorageState(t) ==
    /\ RestoreAt("unstore")
    /\ t \in left
    /\ \/ /\ objects' = [s \in Tracks |-> [k \in Kinds |->
                             IF <<s, k>> \in snapshot[t] THEN "none" ELSE objects[s][k]]]
          /\ TurnFor(t, "unstore", "tracks", ArchivedTracks)
       \/ RestoreFails /\ Fault /\ UNCHANGED objects
    /\ UNCHANGED <<archived, snapshot>>
    /\ RestoreFrame /\ UNCHANGED dbVars

\* The insert fails when an upload has taken the id meanwhile.
RestoreTrack(t) ==
    /\ RestoreAt("tracks")
    /\ t \in left
    /\ \/ /\ t \notin tracks
          /\ tracks' = tracks \union {t}
          /\ TurnFor(t, "tracks", "queue", ArchivedTracks)
       \/ t \in tracks /\ RestoreFails /\ NoFault /\ UNCHANGED tracks
       \/ RestoreFails /\ Fault /\ UNCHANGED tracks
    /\ UNCHANGED <<archived, snapshot>>
    /\ RestoreFrame /\ UNCHANGED <<presets, queue, nextID, objects>>

RestoreTranscodingQueue(t) ==
    /\ RestoreAt("queue")
    /\ t \in left
    /\ \E r \in archived :
           /\ r.track = t
           /\ LET fits == t \in tracks /\ RowsWithID(r.id) = {} IN
              \/ /\ fits
                 /\ queue' = queue \union {r}
                 /\ TurnFor(t, "queue", "sync", {})
              \/ ~fits /\ RestoreFails /\ NoFault /\ UNCHANGED queue
              \/ RestoreFails /\ Fault /\ UNCHANGED queue
    /\ UNCHANGED <<archived, snapshot>>
    /\ RestoreFrame /\ UNCHANGED <<tracks, presets, nextID, objects>>

\* The sequence goes on after the highest id of the table.
SyncTranscodingQueueSequence ==
    LET ids == {0} \union {r.id : r \in queue} IN
    /\ RestoreAt("sync")
    /\ \/ /\ nextID' = 1 + (CHOOSE n \in ids : \A m \in ids : m <= n)
          /\ RestoreGoesTo("store", ArchivedTracks)
       \/ RestoreFails /\ Fault /\ UNCHANGED nextID
    /\ UNCHANGED <<archived, snapshot>>
    /\ RestoreFrame /\ UNCHANGED <<tracks, presets, queue, objects>>

restoreTrackFile(t) ==
    /\ RestoreAt("store")
    /\ t \in left
    /\ \/ /\ objects' = [objects EXCEPT ![t][Original] = "whole"]
          /\ TurnFor(t, "store", "finished", {})
       \/ RestoreFails /\ Fault /\ UNCHANGED objects
    /\ UNCHANGED <<archived, snapshot>>
    /\ RestoreFrame /\ UNCHANGED dbVars

RestoreStep ==
    \/ prepareOriginalOnlySnapshot \/ SnapshotCurrent \/ ClearBackupData
    \/ SyncTranscodingQueueSequence
    \/ \E t \in Tracks :
           clearStorageState(t) \/ RestoreTrack(t)
               \/ RestoreTranscodingQueue(t) \/ restoreTrackFile(t)

-------------------------------------------------------------------------------
\* The pipeline takes no notice of the restore.  The primary keys hold: an
\* upload gets the id of no track there is, and no id is inserted twice.  A
\* restore does not outlive its process.
PipelineStep ==
    /\ Next
    /\ \A t \in tracks : upload[t] = "idle" => upload'[t] # "put"
    /\ \A r, s \in queue' : r.id = s.id => r = s
    /\ restore' = IF proc' = "down" /\ restore \notin Idle THEN "failed" ELSE restore
    /\ left' = IF proc' = "down" THEN {} ELSE left
    /\ UNCHANGED <<archived, snapshot>>

RestoreNext == PipelineStep \/ RestoreStep

RestoreSpec == RestoreInit /\ [][RestoreNext]_<<vars, restoreVars>>

-------------------------------------------------------------------------------
\* What a finished restore has put into a track's row leads to that track: the
\* preset names, which it leaves empty, are only filled in with names of encodings
\* of the track itself.  A job that was given a row of the cleared queue breaks it.
\* It has stored the encodings of its own original when it commits to the row that
\* the restore has inserted under the same id, of another track: this one leaves the
\* queue and is streamed from the other's files, which are there.
RestoredTracksPlayThemselves ==
    restore = "finished" =>
        \A t \in ArchivedTracks \intersect tracks : \A n \in presets[t] :
            objects[n[1]][n[2]] = "none" \/ n[1] = t
================================================================================
