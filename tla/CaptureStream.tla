--------------------------- MODULE CaptureStream ---------------------------
(***************************************************************************)
(* What a capture runs besides the server thread: the audio callback,      *)
(* which may neither wait nor fail, the bounded queue it feeds, and the    *)
(* writer thread that empties the queue into a file.  The stereo recorder  *)
(* and the Overbridge capture each drive one such stream at a time.        *)
(*                                                                         *)
(* A block is a piece of what the device played: its number and how many   *)
(* of its frames were taken.  The empty block is the finish marker.        *)
(***************************************************************************)
EXTENDS Integers, SequencesExt

CONSTANTS
  QueueBlocks,  \* WRITER_QUEUE_BLOCKS
  BlockFrames,  \* frames the device delivers per callback
  MaxHeard,     \* bound on the callbacks of one stream
  MaxStreamFaults \* bound on device errors and failed file writes

ASSUME StreamAssumption ==
  /\ {QueueBlocks, BlockFrames} \subseteq Nat \ {0}
  /\ {MaxHeard, MaxStreamFaults} \subseteq Nat

VARIABLES
  stream,    \* does the device call back?
  heard,     \* callbacks so far
  target,    \* target_frames
  accepted,  \* accepted_frames
  dropped,   \* dropped_blocks
  reported,  \* target_reported
  notices,   \* notices the server has not read
  queue,     \* blocks between the callback and the writer
  writer,    \* the writer thread: "none", "running", "done" or "failed"
  tape,      \* the blocks in the file
  faults     \* device errors and failed writes so far

streamVars == <<stream, heard, target, accepted, dropped, reported, notices,
                queue, writer, tape, faults>>

Blocks == [number: Nat, frames: Nat \ {0}]

Marker == [number |-> 0, frames |-> 0]

(***************************************************************************)
(* The frames in all blocks together.                                      *)
(***************************************************************************)
Frames(blocks) ==
  LET total[n \in 0 .. Len(blocks)] ==
        IF n = 0 THEN 0 ELSE total[n - 1] + blocks[n].frames
  IN  total[Len(blocks)]

(***************************************************************************)
(* The blocks follow one another as the device played them.                *)
(***************************************************************************)
Gapless(blocks) ==
  \A i \in 1 .. Len(blocks) - 1 : blocks[i + 1].number = blocks[i].number + 1

(***************************************************************************)
(* Types, and: nobody has to stop a capture for its file to stop growing;  *)
(* what is queued and written never exceeds the target.                    *)
(***************************************************************************)
StreamTypeOK ==
  /\ {stream, reported} \subseteq BOOLEAN
  /\ {heard, target, accepted, dropped, faults} \subseteq Nat
  /\ notices \in Seq({"target", "error"})
  /\ queue \in Seq(Blocks \cup {Marker})
  /\ Len(queue) <= QueueBlocks
  /\ writer \in {"none", "running", "done", "failed"}
  /\ tape \in Seq(Blocks)
  /\ Frames(tape) + Frames(queue) <= target

StreamInit ==
  /\ stream = FALSE
  /\ heard = 0
  /\ target = 0
  /\ accepted = 0
  /\ dropped = 0
  /\ reported = FALSE
  /\ notices = <<>>
  /\ queue = <<>>
  /\ writer = "none"
  /\ tape = <<>>
  /\ faults = 0

(***************************************************************************)
(* A new file, queue and writer, and the device starts to call back.       *)
(***************************************************************************)
StartStream(frames) ==
  /\ stream' = TRUE
  /\ heard' = 0
  /\ target' = frames
  /\ accepted' = 0
  /\ dropped' = 0
  /\ reported' = FALSE
  /\ notices' = <<>>
  /\ queue' = <<>>
  /\ writer' = "running"
  /\ tape' = <<>>
  /\ UNCHANGED faults

(***************************************************************************)
(* The process died, and its threads and counters with it.                 *)
(***************************************************************************)
StreamDies ==
  /\ stream' = FALSE
  /\ heard' = 0
  /\ target' = 0
  /\ accepted' = 0
  /\ dropped' = 0
  /\ reported' = FALSE
  /\ notices' = <<>>
  /\ queue' = <<>>
  /\ writer' = "none"
  /\ tape' = <<>>
  /\ UNCHANGED faults

(***************************************************************************)
(* The sender of the queue finds no receiver.                              *)
(***************************************************************************)
WriterGone == writer \in {"done", "failed"}

-----------------------------------------------------------------------------
(* The callback thread: submit_input. *)

Taken == IF target - accepted < BlockFrames THEN target - accepted ELSE BlockFrames

(***************************************************************************)
(* Bug: a block that found the queue full is forgotten.                    *)
(***************************************************************************)
DroppedUnseen == dropped

Dropped == dropped + 1

BlockAccepted ==
  /\ queue' = Append(queue, [number |-> heard', frames |-> Taken])
  /\ accepted' = accepted + Taken
  /\ reported' = (reported \/ accepted' >= target)
  /\ notices' = IF reported' /\ ~reported THEN Append(notices, "target") ELSE notices
  /\ UNCHANGED dropped

BlockDropped ==
  /\ dropped' = Dropped
  /\ UNCHANGED <<queue, accepted, reported, notices>>

WriterMissing ==
  /\ notices' = Append(notices, "error")
  /\ UNCHANGED <<queue, accepted, reported, dropped>>

Callback ==
  /\ stream
  /\ heard < MaxHeard
  /\ heard' = heard + 1
  /\ \/ Taken = 0 /\ UNCHANGED <<queue, accepted, reported, notices, dropped>>
     \/ Taken > 0 /\ WriterGone /\ WriterMissing
     \/ Taken > 0 /\ ~WriterGone /\ Len(queue) < QueueBlocks /\ BlockAccepted
     \/ Taken > 0 /\ ~WriterGone /\ Len(queue) = QueueBlocks /\ BlockDropped
  /\ UNCHANGED <<stream, target, writer, tape, faults>>

StreamFault ==
  /\ faults < MaxStreamFaults
  /\ faults' = faults + 1

(***************************************************************************)
(* The device reports an error, usually that it was disconnected.          *)
(***************************************************************************)
DeviceError ==
  /\ stream
  /\ StreamFault
  /\ notices' = Append(notices, "error")
  /\ UNCHANGED <<stream, heard, target, accepted, dropped, reported, queue,
                 writer, tape>>

-----------------------------------------------------------------------------
(* The writer thread. *)

WriteBlock ==
  /\ writer = "running"
  /\ queue # <<>>
  /\ Head(queue) # Marker
  /\ tape' = Append(tape, Head(queue))
  /\ queue' = Tail(queue)
  /\ UNCHANGED <<stream, heard, target, accepted, dropped, reported, notices,
                 writer, faults>>

(***************************************************************************)
(* A failed write ends the thread and drops the receiver with what is in   *)
(* the queue.                                                              *)
(***************************************************************************)
WriterFails ==
  /\ writer = "running"
  /\ queue # <<>>
  /\ StreamFault
  /\ writer' = "failed"
  /\ queue' = <<>>
  /\ UNCHANGED <<stream, heard, target, accepted, dropped, reported, notices, tape>>

-----------------------------------------------------------------------------
(* The server thread at the end of a capture. *)

(***************************************************************************)
(* Bug: the marker is offered like a block, and lost when there is no room.*)
(***************************************************************************)
OfferMarker ==
  queue' = IF writer = "running" /\ Len(queue) < QueueBlocks
           THEN Append(queue, Marker) ELSE queue

(***************************************************************************)
(* The finish marker: send() waits for room while there is a writer.       *)
(***************************************************************************)
SendMarker ==
  /\ writer = "running" => Len(queue) < QueueBlocks
  /\ queue' = IF writer = "running" THEN Append(queue, Marker) ELSE queue

HasError == \E i \in DOMAIN notices : notices[i] = "error"
=============================================================================
