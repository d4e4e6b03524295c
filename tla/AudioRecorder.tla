--------------------------- MODULE AudioRecorder ---------------------------
(***************************************************************************)
(* AudioService, the stereo recorder: start, stop, the bounded blocking    *)
(* capture and shutdown, and the files a recording goes through:           *)
(* <id>.wav.partial, <id>.wav, <id>.json.partial, <id>.json.  The server   *)
(* thread stops a recording in several steps, during which the callback    *)
(* and the writer of CaptureStream go on and the process may die.          *)
(*                                                                         *)
(* A refused request changes nothing and is no action, except where the    *)
(* answer is what a property is about.  The mock signal is left out.       *)
(***************************************************************************)
EXTENDS CaptureStream, FiniteSets

CONSTANTS
  Ids,        \* recording ids
  None,       \* no file, no recording
  Bracket,    \* frames of a bracketed recording (expectedDurationMs)
  Tolerance,  \* frames it may have more or less, 50 ms or 5 %
  Ceiling,    \* frames of MAX_CAPTURE_MILLISECONDS
  MaxFileFaults, \* bound on failures of the server's own file operations
  MaxCrashes  \* bound on process deaths

ASSUME RecorderAssumption ==
  /\ Bracket \in 1 .. Ceiling
  /\ Ceiling \in Nat
  /\ {Tolerance, MaxFileFaults, MaxCrashes} \subseteq Nat

ASSUME NoneAssumption == None \notin Seq(Blocks)

VARIABLES
  active,     \* the active recording
  completed,  \* completed: id to the status told
  files,      \* per id, the finished WAV and sidecar and the partial sidecar
  partial,    \* ids that have a .wav.partial; the tape is the active one's
  step,       \* what the server thread is doing
  stopping,   \* the recording taken out of active to be stopped
  failure,    \* has the stop in progress anything to report?
  answer,     \* the last answer to a capture
  spent       \* file faults and crashes so far

recorder == <<active, completed, files, partial, step, stopping, failure, answer, spent>>
vars == <<recorder, streamVars>>

Steps == {"idle", "waiting", "draining", "pausing", "marking", "joining",
          "renaming", "describing", "publishing"}

Statuses == {"completed", "failed"}

Recordings == [id: Ids, frames: {None, Bracket}]

Sidecars == [status: Statuses, frames: Nat, dropped: Nat]

Nothing == [wav |-> None, sidecar |-> None, draft |-> FALSE]

Spend(what, bound) ==
  /\ spent[what] < bound
  /\ spent' = [spent EXCEPT ![what] = @ + 1]

Limit(frames) == IF frames = None THEN Ceiling ELSE frames

-----------------------------------------------------------------------------

Init ==
  /\ StreamInit
  /\ active = None
  /\ completed = [id \in Ids |-> None]
  /\ files = [id \in Ids |-> Nothing]
  /\ partial = {}
  /\ step = "idle"
  /\ stopping = None
  /\ failure = FALSE
  /\ answer = None
  /\ spent = [files |-> 0, crashes |-> 0]

-----------------------------------------------------------------------------
(* Starting. *)

(***************************************************************************)
(* Bug: only the partial files of an id are looked for.                    *)
(***************************************************************************)
TakenByPartials(id) == id \in partial \/ files[id].draft

Occupied(id) == id \in partial \/ files[id] # Nothing

(***************************************************************************)
(* start_internal for an id that is neither active nor completed.          *)
(***************************************************************************)
Begin(id, frames, next) ==
  /\ step = "idle"
  /\ active = None
  /\ completed[id] = None
  /\ ~Occupied(id)
  /\ StartStream(Limit(frames))
  /\ active' = [id |-> id, frames |-> frames]
  /\ partial' = partial \cup {id}
  /\ step' = next
  /\ UNCHANGED <<completed, files, stopping, failure, answer, spent>>

StartRecording(id) == \E frames \in {None, Bracket} : Begin(id, frames, "idle")

CapturePattern(id) == Begin(id, Bracket, "waiting")

(***************************************************************************)
(* A capture that finds its id completed: start_internal answers with the  *)
(* completed recording, and the capture then finds no active one.          *)
(***************************************************************************)
CaptureAgain(id) ==
  /\ step = "idle"
  /\ active = None
  /\ completed[id] # None
  /\ answer' = [id |-> id, status |-> "error"]
  /\ UNCHANGED <<active, completed, files, partial, step, stopping, failure,
                 spent, streamVars>>

(***************************************************************************)
(* A capture of the active recording waits for it and stops it.            *)
(***************************************************************************)
CaptureActive ==
  /\ step = "idle"
  /\ active # None
  /\ step' = "waiting"
  /\ UNCHANGED <<active, completed, files, partial, stopping, failure, answer,
                 spent, streamVars>>

(***************************************************************************)
(* The wait ends with a notice, or three seconds after the duration.       *)
(***************************************************************************)
WaitEnds ==
  /\ step = "waiting"
  /\ \/ /\ notices # <<>>
        /\ failure' = (Head(notices) = "error")
        /\ notices' = Tail(notices)
     \/ /\ failure' = TRUE
        /\ UNCHANGED notices
  /\ step' = "draining"
  /\ UNCHANGED <<active, completed, files, partial, stopping, answer, spent,
                 stream, heard, target, accepted, dropped, reported, queue,
                 writer, tape, faults>>

-----------------------------------------------------------------------------
(* Stopping: stop_internal. *)

StopRecording ==
  /\ step = "idle"
  /\ active # None
  /\ step' = "draining"
  /\ failure' \in BOOLEAN      \* TRUE: the daemon shuts down
  /\ UNCHANGED <<active, completed, files, partial, stopping, answer, spent, streamVars>>

DrainNotices ==
  /\ step = "draining"
  /\ stopping' = active
  /\ active' = None
  /\ failure' = (failure \/ HasError)
  /\ notices' = <<>>
  /\ step' = "pausing"
  /\ UNCHANGED <<completed, files, partial, answer, spent, stream, heard, target,
                 accepted, dropped, reported, queue, writer, tape, faults>>

(***************************************************************************)
(* A stream that cannot be paused runs until it is dropped.                *)
(***************************************************************************)
Pause ==
  /\ step = "pausing"
  /\ \/ stream' = FALSE /\ UNCHANGED <<failure, faults>>
     \/ StreamFault /\ failure' = TRUE /\ UNCHANGED stream
  /\ step' = "marking"
  /\ UNCHANGED <<active, completed, files, partial, stopping, answer, spent,
                 heard, target, accepted, dropped, reported, notices, queue,
                 writer, tape>>

MarkEnd ==
  /\ step = "marking"
  /\ SendMarker
  /\ failure' = (failure \/ WriterGone)
  /\ step' = "joining"
  /\ UNCHANGED <<active, completed, files, partial, stopping, answer, spent,
                 stream, heard, target, accepted, dropped, reported, notices,
                 writer, tape, faults>>

(***************************************************************************)
(* The writer takes the marker, finalizes the header and ends.             *)
(***************************************************************************)
FinishWriting ==
  /\ writer = "running"
  /\ queue # <<>>
  /\ Head(queue) = Marker
  /\ queue' = <<>>
  /\ writer' = "done"
  /\ UNCHANGED <<recorder, stream, heard, target, accepted, dropped, reported,
                 notices, tape, faults>>

GiveUp ==
  /\ step' = "idle"
  /\ stopping' = None
  /\ failure' = FALSE

(***************************************************************************)
(* The writer's result: after an error the recording is gone from memory   *)
(* and stays behind as a partial file.                                     *)
(***************************************************************************)
Join ==
  /\ step = "joining"
  /\ WriterGone
  /\ stream' = FALSE
  /\ writer' = "none"
  /\ IF writer = "done"
     THEN step' = "renaming" /\ UNCHANGED <<stopping, failure>>
     ELSE GiveUp
  /\ UNCHANGED <<active, completed, files, partial, answer, spent, heard, target,
                 accepted, dropped, reported, notices, queue, tape, faults>>

Finished(id, wav, sidecar, draft) ==
  files' = [files EXCEPT ![id] = [wav |-> wav, sidecar |-> sidecar, draft |-> draft]]

FinalizeWav ==
  /\ step = "renaming"
  /\ \/ /\ Finished(stopping.id, tape, files[stopping.id].sidecar, FALSE)
        /\ partial' = partial \ {stopping.id}
        /\ step' = "describing"
        /\ UNCHANGED <<stopping, failure, spent>>
     \/ Spend("files", MaxFileFaults) /\ GiveUp /\ UNCHANGED <<files, partial>>
  /\ UNCHANGED <<active, completed, answer, streamVars>>

(***************************************************************************)
(* durationWithinTolerance.                                                *)
(***************************************************************************)
LongEnough(recording, frames) ==
  recording.frames # None => /\ frames + Tolerance >= recording.frames
                             /\ frames <= recording.frames + Tolerance

(***************************************************************************)
(* Bug: the sidecar says what the callback accepted.                       *)
(***************************************************************************)
ToldByCallback(recording) ==
  [status  |-> IF failure \/ ~LongEnough(recording, accepted)
               THEN "failed" ELSE "completed",
   frames  |-> accepted,
   dropped |-> dropped]

Told(recording) ==
  [status  |-> IF failure \/ ~LongEnough(recording, Frames(tape))
               THEN "failed" ELSE "completed",
   frames  |-> Frames(tape),
   dropped |-> dropped]

(***************************************************************************)
(* The sidecar is written beside its place, then moved there; when either  *)
(* fails, the WAV is made partial again, unless that fails as well.        *)
(***************************************************************************)
MetadataFails(id) ==
  /\ Spend("files", MaxFileFaults)
  /\ GiveUp
  /\ \E draft \in {files[id].draft, TRUE} :
       \/ /\ Finished(id, None, files[id].sidecar, draft)
          /\ partial' = partial \cup {id}
       \/ /\ Finished(id, files[id].wav, files[id].sidecar, draft)
          /\ UNCHANGED partial
  /\ UNCHANGED <<completed, answer>>

DescribeRecording ==
  /\ step = "describing"
  /\ \/ /\ Finished(stopping.id, files[stopping.id].wav, files[stopping.id].sidecar, TRUE)
        /\ step' = "publishing"
        /\ UNCHANGED <<completed, partial, stopping, failure, answer, spent>>
     \/ MetadataFails(stopping.id)
  /\ UNCHANGED <<active, streamVars>>

PublishRecording ==
  /\ step = "publishing"
  /\ \/ /\ Finished(stopping.id, files[stopping.id].wav, Told(stopping), FALSE)
        /\ completed' = [completed EXCEPT ![stopping.id] = Told(stopping)]
        /\ answer' = [id |-> stopping.id, status |-> Told(stopping).status]
        /\ GiveUp
        /\ UNCHANGED <<partial, spent>>
     \/ MetadataFails(stopping.id)
  /\ UNCHANGED <<active, streamVars>>

-----------------------------------------------------------------------------

(***************************************************************************)
(* The process dies and starts again: memory is lost, files stay.          *)
(***************************************************************************)
Crash ==
  /\ Spend("crashes", MaxCrashes)
  /\ active' = None
  /\ stopping' = None
  /\ completed' = [id \in Ids |-> None]
  /\ step' = "idle"
  /\ failure' = FALSE
  /\ answer' = None
  /\ StreamDies
  /\ UNCHANGED <<files, partial>>

Device == (Callback \/ DeviceError) /\ UNCHANGED recorder

Writer ==
  \/ (WriteBlock \/ WriterFails) /\ UNCHANGED recorder
  \/ FinishWriting

Finalize ==
  WaitEnds \/ DrainNotices \/ Pause \/ MarkEnd \/ Join \/ FinalizeWav
    \/ DescribeRecording \/ PublishRecording

Next ==
  \/ \E id \in Ids : StartRecording(id) \/ CapturePattern(id) \/ CaptureAgain(id)
  \/ CaptureActive \/ StopRecording \/ Finalize
  \/ Device \/ Writer \/ Crash

(***************************************************************************)
(* The server thread does not stop in the middle of a request, and the     *)
(* writer thread is scheduled.                                             *)
(***************************************************************************)
Spec == Init /\ [][Next]_vars /\ WF_vars(Finalize) /\ WF_vars(Writer)

-----------------------------------------------------------------------------

TypeOK ==
  /\ StreamTypeOK
  /\ active \in Recordings \cup {None}
  /\ stopping \in Recordings \cup {None}
  /\ completed \in [Ids -> Sidecars \cup {None}]
  /\ \A id \in Ids :
       /\ files[id].wav = None \/ files[id].wav \in Seq(Blocks)
       /\ files[id].sidecar \in Sidecars \cup {None}
       /\ files[id].draft \in BOOLEAN
  /\ partial \subseteq Ids
  /\ step \in Steps
  /\ failure \in BOOLEAN

(***************************************************************************)
(* A sidecar stands beside its finished WAV and tells its length: crashes  *)
(* and failed writes leave no sidecar without its WAV, and what the        *)
(* callback accepted and the writer lost is not told.                      *)
(***************************************************************************)
SidecarMatchesWav ==
  \A id \in Ids :
    files[id].sidecar # None =>
      /\ files[id].wav # None
      /\ files[id].sidecar.frames = Frames(files[id].wav)

(***************************************************************************)
(* A recording that reports no dropped block has no gap: the WAV is what   *)
(* the device played, piece after piece.                                   *)
(***************************************************************************)
GaplessUnlessReported ==
  \A id \in Ids :
    files[id].sidecar # None /\ files[id].sidecar.dropped = 0 =>
      Gapless(files[id].wav)

(***************************************************************************)
(* A published recording is never touched again, whatever ids later        *)
(* requests use and however often the process restarts.                    *)
(***************************************************************************)
PublishedStays ==
  [][\A id \in Ids :
       files[id].sidecar # None => files'[id] = files[id]]_files

(***************************************************************************)
(* A stop or a capture that began is answered, whatever becomes of the     *)
(* device and the writer.                                                  *)
(***************************************************************************)
StopReturns == step # "idle" ~> step = "idle"

(***************************************************************************)
(* A repeated capture of a completed recording is answered with it ("Use   *)
(* an explicit stable recordingId for retries. Reusing the same ID and     *)
(* declaration is idempotent", AUDIO_CAPTURE.md).                          *)
(***************************************************************************)
CaptureIsIdempotent ==
  answer # None /\ completed[answer.id] # None =>
    answer.status = completed[answer.id].status
=============================================================================
