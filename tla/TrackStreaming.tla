---------------------------- MODULE TrackStreaming ----------------------------
(***************************************************************************)
(* Streaming and downloading a track while it is uploaded, transcoded and  *)
(* deleted: TrackService.getTrackFile beside the TranscodingPipeline.      *)
(*                                                                         *)
(* A request reads the track's row once, chooses the stored file closest   *)
(* to the quality asked for, and then asks the object storage about that   *)
(* file up to three times: for its size and type, to compute a checksum    *)
(* that is not stored with it, and for its content.                        *)
(***************************************************************************)
EXTENDS TranscodingPipeline, Sequences

VARIABLES
    stream,  \* the request: where it is, what it asks for, what it has found
    answer   \* history: what the last step answered

streamVars == <<stream, answer>>

Qualities == {"fast", "standard", "high", "lossless"}

ASSUME QualitiesAssumption == Presets \subseteq Qualities

\* A file is given by its name: the track whose original it is, or whose original
\* it was made from, and the preset.
InfoOf(file) == [file |-> file, content |-> objects[file[1]][file[2]]]

NoStream == [stage |-> "idle"]
NoAnswer == [status |-> "none"]

StreamInit ==
    /\ Init
    /\ stream = NoStream
    /\ answer = NoAnswer

-------------------------------------------------------------------------------
(* The choice of a file.                                                   *)

\* For every quality, the presets in the order in which they stand in for it.
Preference == [fast     |-> <<"fast", "standard", "high">>,
               standard |-> <<"standard", "fast", "high">>,
               high     |-> <<"high", "standard", "fast">>,
               lossless |-> <<"lossless">>]

\* Mutant of findClosestExistingTrackFile: the columns are not looked at.
findExactTrackFile(t, names, quality) ==
    IF quality \in Presets THEN <<t, quality>> ELSE <<t, Original>>

\* The name in the column of the first preset that has one, or the original's.
findClosestExistingTrackFile(t, names, quality) ==
    LET order == Preference[quality]
        named == {i \in 1..Len(order) : \E n \in names : n[2] = order[i]}
    IN  IF named = {} THEN <<t, Original>>
        ELSE LET first == CHOOSE i \in named : \A j \in named : i <= j
             IN CHOOSE n \in names : n[2] = order[first]

-------------------------------------------------------------------------------
(* GetStream, GetDownload, GetDownloadMeta.                                *)

PipelineFrame == UNCHANGED <<proc, dbVars, fileVars, requestVars, workerVars>>

Reply(status) ==
    /\ stream' = NoStream
    /\ answer' = [status |-> status]

\* handleTrackFileError: what the client is told.
BadQuality == Reply("bad request")
NoTrack == Reply("track not found")
NoAccess == Reply("forbidden")
NoFile(t) ==
    /\ stream' = NoStream
    /\ answer' = [status |-> "file not found", track |-> t]
Failed == Reply("internal error") /\ Fault

\* seen: the objects that the headers' values and the body were taken from.
Served(seen) ==
    /\ stream' = NoStream
    /\ answer' = [status |-> "ok", seen |-> seen]

Goes(s) ==
    /\ stream' = s
    /\ answer' = NoAnswer

StreamAt(stage) ==
    /\ proc # "down"
    /\ stream.stage = stage
    /\ PipelineFrame

\* StreamTrack, DownloadTrack and, with nothing to read, DownloadTrackHead.
\* A quality that PresetFromString does not know is refused.  GetTrack joins the
\* row with its album's: a track whose album was deleted is not found.
Ask(t, quality, includeReader) ==
    /\ StreamAt("idle")
    /\ proc = "up"
    /\ \/ quality \notin Qualities /\ BadQuality /\ NoFault
       \/ quality \in Qualities /\ NoTrack /\ NoFault
       \/ quality \in Qualities /\ Failed
       \/ /\ quality \in Qualities
          /\ t \in tracks
          /\ Goes([stage |-> "access", track |-> t, includeReader |-> includeReader,
                   file |-> findClosestExistingTrackFile(t, presets[t], quality)])
          /\ NoFault

\* CanUserAccessTrack looks for the row again.
CheckAccess ==
    /\ StreamAt("access")
    /\ \/ stream.track \in tracks /\ Goes([stream EXCEPT !.stage = "info"]) /\ NoFault
       \/ NoAccess /\ NoFault
       \/ Failed

\* What follows the stat of the file and, for a download, its checksum.
AfterInfo(headers) ==
    IF stream.includeReader
    THEN Goes([stage |-> "content", track |-> stream.track, file |-> stream.file,
               headers |-> headers])
    ELSE Served(headers)

\* A download that finds no checksum with the file computes it: the upload and
\* the job store one, a restore does not.
GetTrackInfo ==
    /\ StreamAt("info")
    /\ LET info == InfoOf(stream.file) IN
           \/ info.content = "none" /\ NoFile(stream.track) /\ NoFault
           \/ info.content # "none" /\ AfterInfo({info}) /\ NoFault
           \/ /\ info.content # "none"
              /\ Goes([stage |-> "checksum", track |-> stream.track, file |-> stream.file,
                       includeReader |-> stream.includeReader, headers |-> {info}])
              /\ NoFault
           \/ Failed

calculateTrackChecksum ==
    /\ StreamAt("checksum")
    /\ LET info == InfoOf(stream.file) IN
           \/ info.content = "none" /\ NoFile(stream.track) /\ NoFault
           \/ /\ info.content # "none"
              /\ AfterInfo(stream.headers \union {info})
              /\ NoFault
           \/ Failed

\* Mutant of GetTrack: the file is chosen again from the row as it is now.
GetTrackChosenAgain ==
    /\ StreamAt("content")
    /\ LET named == presets[stream.track]
           body == InfoOf(IF named = {} THEN stream.file ELSE CHOOSE n \in named : TRUE)
       IN  /\ body.content # "none"
           /\ Served(stream.headers \union {body})
           /\ NoFault

GetTrack ==
    /\ StreamAt("content")
    /\ LET body == InfoOf(stream.file) IN
           \/ body.content = "none" /\ NoFile(stream.track) /\ NoFault
           \/ body.content # "none" /\ Served(stream.headers \union {body}) /\ NoFault
           \/ Failed

-------------------------------------------------------------------------------
\* A request does not outlive its process.
PipelineStep ==
    /\ Next
    /\ stream' = IF proc' = "down" THEN NoStream ELSE stream
    /\ answer' = NoAnswer

StreamNext ==
    \/ PipelineStep
    \/ \E t \in Tracks, quality \in Qualities \union {"unknown"} :
           \E includeReader \in BOOLEAN : Ask(t, quality, includeReader)
    \/ CheckAccess \/ GetTrackInfo \/ calculateTrackChecksum \/ GetTrack

StreamSpec == StreamInit /\ [][StreamNext]_<<vars, streamVars>>

-------------------------------------------------------------------------------
(* Properties.                                                             *)

\* A request that has found the track's row finds a file to send, in every
\* quality and however far the transcoding has come or fails to come, although
\* it asks the storage about a row it has read earlier.  Only an upload that
\* has not stored the original, and a request to delete the track, excuse it.
StreamsFindTheirFile ==
    [][answer'.status = "file not found" =>
          \/ upload[answer'.track] \in {"put", "failed"}
          \/ deletion[answer'.track] # "idle"]_<<vars, streamVars>>

\* The size, type and checksum in the headers are those of the bytes that
\* follow, although they are asked for in calls of their own while presets are
\* published, transcoded again after a timeout, and removed.
HeadersDescribeTheBody ==
    [][answer'.status = "ok" =>
          \A i, j \in answer'.seen : i = j]_<<vars, streamVars>>
================================================================================
