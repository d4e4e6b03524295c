------------------------- MODULE OverbridgeCapture -------------------------
(***************************************************************************)
(* OverbridgeAudioService: the bounded multitrack capture.  One request    *)
(* runs the whole capture on the server thread; its stems are written by   *)
(* the writer thread, which at the end finalizes and renames them one by   *)
(* one, and recording.json is written last.  A repeated capture is         *)
(* answered from memory, or after a restart from recording.json.           *)
(*                                                                         *)
(* A capture whose stream cannot be built removes its directory again and  *)
(* is no action.  The mock signal is left out.                             *)
(***************************************************************************)
EXTENDS CaptureStream, OverbridgeSelection, FiniteSets

CONSTANTS
  Ids,           \* recording ids
  Durations,     \* declarations: the frames asked for
  Stems,         \* the stems of the layout
  None,          \* no directory, no metadata
  MaxFileFaults, \* bound on failures of finalizing, renaming and writing
  MaxCrashes,    \* bound on process deaths
  MaxRequests    \* bound on capture requests

ASSUME CaptureAssumption ==
  /\ Durations \subseteq Nat \ {0}
  /\ {MaxFileFaults, MaxCrashes, MaxRequests} \subseteq Nat

VARIABLES
  completed,  \* completed: the metadata in memory, by id
  dirs,       \* the directory of each id
  step,       \* what the server thread is doing
  current,    \* the capture in progress
  failure,    \* has it anything to report?
  told,       \* the first result told for each id (history)
  answer,     \* the last answer
  spent       \* file faults, crashes and requests so far

capture == <<completed, dirs, step, current, failure, told, answer, spent>>
vars == <<capture, streamVars>>

Captures == [id: Ids, declaration: Durations]

Metadata ==
  [declaration: Durations, status: {"completed", "failed"}, frames: Nat]

Directories ==
  [stems: [Stems -> Nat \cup {None}], draft: BOOLEAN,
   metadata: Metadata \cup {None}]

ASSUME NoneAssumption == None \notin Directories \cup Metadata

Refused == [status |-> "refused"]

Spend(what, bound) ==
  /\ spent[what] < bound
  /\ spent' = [spent EXCEPT ![what] = @ + 1]

-----------------------------------------------------------------------------

Init ==
  /\ StreamInit
  /\ completed = [id \in Ids |-> None]
  /\ dirs = [id \in Ids |-> None]
  /\ step = "idle"
  /\ current = None
  /\ failure = FALSE
  /\ told = [id \in Ids |-> None]
  /\ answer = None
  /\ spent = [files |-> 0, crashes |-> 0, requests |-> 0]

-----------------------------------------------------------------------------

(***************************************************************************)
(* Bug: a restarted daemon does not look for recording.json.               *)
(***************************************************************************)
KnownInMemory(id) == completed[id]

(***************************************************************************)
(* The metadata of a finished capture, from memory or from its directory.  *)
(***************************************************************************)
Known(id) ==
  IF completed[id] = None /\ dirs[id] # None THEN dirs[id].metadata
  ELSE completed[id]

Answered(c, result) ==
  /\ answer' = [id |-> c.id, declaration |-> c.declaration, result |-> result]
  /\ told' = [told EXCEPT ![c.id] = IF @ = None /\ result # Refused THEN result ELSE @]

SameDeclaration(c) == Known(c.id).declaration = c.declaration

(***************************************************************************)
(* A known capture is answered with its metadata, or refused when it was   *)
(* declared differently.                                                   *)
(***************************************************************************)
ReplayCapture(c) ==
  /\ Known(c.id) # None
  /\ IF SameDeclaration(c)
     THEN /\ Answered(c, Known(c.id))
          /\ completed' = [completed EXCEPT ![c.id] = Known(c.id)]
     ELSE Answered(c, Refused) /\ UNCHANGED completed
  /\ UNCHANGED <<dirs, step, current, failure, streamVars>>

(***************************************************************************)
(* A directory without metadata is never written into.                     *)
(***************************************************************************)
RefuseCapture(c) ==
  /\ Known(c.id) = None
  /\ dirs[c.id] # None
  /\ Answered(c, Refused)
  /\ UNCHANGED <<completed, dirs, step, current, failure, streamVars>>

BeginCapture(c) ==
  /\ Known(c.id) = None
  /\ dirs[c.id] = None
  /\ dirs' = [dirs EXCEPT ![c.id] =
       [stems |-> [s \in Stems |-> None], draft |-> FALSE, metadata |-> None]]
  /\ StartStream(c.declaration)
  /\ step' = "waiting"
  /\ current' = c
  /\ failure' = FALSE
  /\ UNCHANGED <<completed, told, answer>>

CaptureMultitrack(c) ==
  /\ step = "idle"
  /\ Spend("requests", MaxRequests)
  /\ ReplayCapture(c) \/ RefuseCapture(c) \/ BeginCapture(c)

(***************************************************************************)
(* The wait ends with a notice, or five seconds after the duration, maybe  *)
(* just before the notice; then the notices are drained.                   *)
(***************************************************************************)
WaitEnds ==
  /\ step = "waiting"
  /\ failure' \in {notices = <<>> \/ HasError, TRUE}
  /\ notices' = <<>>
  /\ step' = "pausing"
  /\ UNCHANGED <<completed, dirs, current, told, answer, spent, stream, heard,
                 target, accepted, dropped, reported, queue, writer, tape, faults>>

(***************************************************************************)
(* Bug: a stream that cannot be paused lives on while the marker is sent.  *)
(***************************************************************************)
StillCallingBack == stream' \in {FALSE, faults' > faults}

Silenced == stream' = FALSE

(***************************************************************************)
(* Paused or not, the stream is dropped before the marker is sent.         *)
(***************************************************************************)
Pause ==
  /\ step = "pausing"
  /\ \/ UNCHANGED <<failure, faults>>
     \/ StreamFault /\ failure' = TRUE
  /\ Silenced
  /\ step' = "marking"
  /\ UNCHANGED <<completed, dirs, current, told, answer, spent, heard, target,
                 accepted, dropped, reported, notices, queue, writer, tape>>

MarkEnd ==
  /\ step = "marking"
  /\ SendMarker
  /\ failure' = (failure \/ WriterGone)
  /\ step' = "joining"
  /\ UNCHANGED <<completed, dirs, current, told, answer, spent, stream, heard,
                 target, accepted, dropped, reported, notices, writer, tape, faults>>

Unfinished == {s \in Stems : dirs[current.id].stems[s] = None}

(***************************************************************************)
(* At the marker the writer finalizes and renames stem after stem.         *)
(***************************************************************************)
AtMarker ==
  /\ writer = "running"
  /\ queue # <<>>
  /\ Head(queue) = Marker

FinishStem ==
  /\ AtMarker
  /\ \E s \in Unfinished :
       \/ /\ dirs' = [dirs EXCEPT ![current.id].stems[s] = Frames(tape)]
          /\ UNCHANGED <<queue, writer, spent>>
       \/ /\ Spend("files", MaxFileFaults)
          /\ queue' = <<>>
          /\ writer' = "failed"
          /\ UNCHANGED dirs
  /\ UNCHANGED <<completed, step, current, failure, told, answer, stream, heard,
                 target, accepted, dropped, reported, notices, tape, faults>>

WriterEnds ==
  /\ AtMarker
  /\ Unfinished = {}
  /\ queue' = <<>>
  /\ writer' = "done"
  /\ UNCHANGED <<capture, stream, heard, target, accepted, dropped, reported,
                 notices, tape, faults>>

GiveUp ==
  /\ step' = "idle"
  /\ current' = None
  /\ failure' = FALSE

(***************************************************************************)
(* The error of a failed writer is the answer; the directory stays.        *)
(***************************************************************************)
Join ==
  /\ step = "joining"
  /\ WriterGone
  /\ writer' = "none"
  /\ IF writer = "done"
     THEN step' = "describing" /\ UNCHANGED <<current, failure, told, answer>>
     ELSE GiveUp /\ Answered(current, Refused)
  /\ UNCHANGED <<completed, dirs, spent, stream, heard, target, accepted, dropped,
                 reported, notices, queue, tape, faults>>

(***************************************************************************)
(* Bug: dropped blocks are only a warning, as they are for the recorder.   *)
(***************************************************************************)
DescribedLeniently ==
  [declaration |-> current.declaration,
   status |-> IF failure \/ accepted # current.declaration
              THEN "failed" ELSE "completed",
   frames |-> accepted]

Described ==
  [declaration |-> current.declaration,
   status |-> IF failure \/ accepted # current.declaration \/ dropped > 0
              THEN "failed" ELSE "completed",
   frames |-> accepted]

(***************************************************************************)
(* recording.json is written beside its place, then moved there.           *)
(***************************************************************************)
WriteMetadata ==
  /\ step = "describing"
  /\ dirs' = [dirs EXCEPT ![current.id].draft = TRUE]
  /\ \/ step' = "publishing" /\ UNCHANGED <<current, failure, told, answer, spent>>
     \/ Spend("files", MaxFileFaults) /\ GiveUp /\ Answered(current, Refused)
  /\ UNCHANGED <<completed, streamVars>>

PublishMetadata ==
  /\ step = "publishing"
  /\ GiveUp
  /\ \/ /\ dirs' = [dirs EXCEPT ![current.id].draft = FALSE,
                                ![current.id].metadata = Described]
        /\ completed' = [completed EXCEPT ![current.id] = Described]
        /\ Answered(current, Described)
        /\ UNCHANGED spent
     \/ /\ Spend("files", MaxFileFaults)
        /\ Answered(current, Refused)
        /\ UNCHANGED <<dirs, completed>>
  /\ UNCHANGED streamVars

Crash ==
  /\ Spend("crashes", MaxCrashes)
  /\ completed' = [id \in Ids |-> None]
  /\ GiveUp
  /\ answer' = None
  /\ StreamDies
  /\ UNCHANGED <<dirs, told>>

-----------------------------------------------------------------------------

Device == (Callback \/ DeviceError) /\ UNCHANGED capture

Writer ==
  \/ (WriteBlock \/ WriterFails) /\ UNCHANGED capture
  \/ FinishStem \/ WriterEnds

Proceed ==
  WaitEnds \/ Pause \/ MarkEnd \/ Join \/ WriteMetadata \/ PublishMetadata

Next ==
  (\E c \in Captures : CaptureMultitrack(c)) \/ Proceed \/ Device \/ Writer \/ Crash

Spec == Init /\ [][Next]_vars

-----------------------------------------------------------------------------

TypeOK ==
  /\ StreamTypeOK
  /\ completed \in [Ids -> Metadata \cup {None}]
  /\ dirs \in [Ids -> Directories \cup {None}]
  /\ step \in {"idle", "waiting", "pausing", "marking", "joining",
               "describing", "publishing"}
  /\ current \in Captures \cup {None}
  /\ failure \in BOOLEAN

(***************************************************************************)
(* recording.json promises structural frame drift zero: every stem is      *)
(* finished and as long as framesPerStem, which counts what the callback   *)
(* accepted, while the stems hold what the writer wrote.                   *)
(***************************************************************************)
StemsMatchMetadata ==
  \A id \in Ids :
    dirs[id] # None /\ dirs[id].metadata # None =>
      dirs[id].stems = [s \in Stems |-> dirs[id].metadata.frames]

(***************************************************************************)
(* A capture that ends as completed holds the uninterrupted stretch of the *)
(* length that was asked for: no dropped block, and nothing the callback   *)
(* accepted is missing from the stems.                                     *)
(***************************************************************************)
CompletedIsGapless ==
  [][\A id \in Ids :
       completed[id] = None /\ completed'[id] # None /\ step = "publishing"
         /\ completed'[id].status = "completed"
       => Gapless(tape) /\ Frames(tape) = completed'[id].declaration]_completed

(***************************************************************************)
(* Once a capture was told, every repetition is told the same, and never   *)
(* a different declaration, across restarts of the daemon.                 *)
(***************************************************************************)
ReplayedForGood ==
  answer # None /\ told[answer.id] # None =>
    answer.result = IF answer.declaration = told[answer.id].declaration
                    THEN told[answer.id] ELSE Refused

(***************************************************************************)
(* Whenever a capture may be asked for, the device and configuration that  *)
(* overbridge inspection names are the ones the capture opens ("Must stay  *)
(* in lockstep", overbridge.rs), whatever devices are connected.           *)
(***************************************************************************)
SummaryNamesOpened == step = "idle" => SummaryAgrees
=============================================================================
