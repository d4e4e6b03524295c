------------------------ MODULE AudioRecorder_proofs ------------------------
(***************************************************************************)
(* What holds of the recorder for every size of the queue and of a block,  *)
(* every duration and any number of recordings, device errors, failing     *)
(* file operations and crashes.                                            *)
(***************************************************************************)
EXTENDS AudioRecorder, SequenceTheorems, TLAPS

-----------------------------------------------------------------------------
(* The callback, the queue and the writer. *)

StreamTypes ==
  /\ stream \in BOOLEAN /\ reported \in BOOLEAN
  /\ {heard, target, accepted, dropped, faults} \subseteq Nat
  /\ accepted <= target
  /\ queue \in Seq(Blocks \cup {Marker})
  /\ writer \in {"none", "running", "done", "failed"}
  /\ tape \in Seq(Blocks)
  /\ writer = "none" => ~stream

(***************************************************************************)
(* The marker is not among the first n blocks of a queue.                  *)
(***************************************************************************)
Unmarked(q, n) == \A i \in 1 .. n : q[i] # Marker

(***************************************************************************)
(* Unless a block was dropped, the file and the queue behind it hold the   *)
(* callbacks 1, 2, 3, ...; and all of them, while more can come.  What is  *)
(* queued behind the marker is never written.                              *)
(***************************************************************************)
ChainInv ==
  dropped = 0 =>
    /\ \A i \in 1 .. Len(tape) : tape[i].number = i
    /\ \A i \in 1 .. Len(queue) : Unmarked(queue, i) => queue[i].number = Len(tape) + i
    /\ writer = "running" /\ accepted < target /\ Unmarked(queue, Len(queue))
         => heard = Len(tape) + Len(queue)

StreamInv == StreamTypes /\ ChainInv

LEMMA ChainIsGapless ==
  ASSUME StreamInv, dropped = 0
  PROVE  Gapless(tape)
<1>1. Len(tape) \in Nat
  BY DEF StreamInv, StreamTypes
<1>2. QED  BY <1>1 DEF StreamInv, ChainInv, Gapless

LEMMA BlockTypes ==
  /\ Marker \notin Blocks
  /\ \A n \in Nat, k \in Nat : k > 0 => [number |-> n, frames |-> k] \in Blocks
  BY DEF Marker, Blocks

LEMMA FreshStream ==
  ASSUME queue' = <<>>, tape' = <<>>, heard' = 0, accepted' = 0, dropped' = 0,
         target' \in Nat, faults' \in Nat, stream' \in BOOLEAN, reported' \in BOOLEAN,
         writer' \in {"none", "running"}, writer' = "none" => ~stream'
  PROVE  StreamInv'
<1>1. /\ queue' \in Seq(Blocks \cup {Marker}) /\ Len(queue') = 0
      /\ tape' \in Seq(Blocks) /\ Len(tape') = 0
  OBVIOUS
<1>2. StreamTypes'
  BY <1>1 DEF StreamTypes
<1>3. ChainInv'
  BY <1>1 DEF ChainInv
<1>4. QED  BY <1>2, <1>3 DEF StreamInv

LEMMA InitStream == StreamInit => StreamInv
<1> SUFFICES ASSUME StreamInit  PROVE  StreamInv
  OBVIOUS
<1>1. queue \in Seq(Blocks \cup {Marker}) /\ Len(queue) = 0
  BY DEF StreamInit
<1>2. tape \in Seq(Blocks) /\ Len(tape) = 0
  BY DEF StreamInit
<1>3. StreamTypes
  <2>1. stream \in BOOLEAN /\ reported \in BOOLEAN /\ ~stream
    BY Zenon DEF StreamInit
  <2>2. {heard, target, accepted, dropped, faults} \subseteq Nat
        /\ accepted <= target
    BY DEF StreamInit
  <2>3. writer = "none"
    BY DEF StreamInit
  <2>4. QED  BY <1>1, <1>2, <2>1, <2>2, <2>3 DEF StreamTypes
<1>4. ChainInv
  BY <1>1, <1>2 DEF StreamInit, ChainInv
<1>5. QED  BY <1>3, <1>4 DEF StreamInv

LEMMA StreamStays ==
  ASSUME StreamInv, UNCHANGED <<heard, target, accepted, dropped, queue, writer, tape>>,
         stream' \in BOOLEAN, stream' => stream, reported' \in BOOLEAN, faults' \in Nat
  PROVE  StreamInv'
<1>1. StreamTypes'
  BY DEF StreamInv, StreamTypes
<1>2. ChainInv'
  BY DEF StreamInv, ChainInv
<1>3. QED  BY <1>1, <1>2 DEF StreamInv

(***************************************************************************)
(* The stream is dropped with the writer.                                  *)
(***************************************************************************)
LEMMA JoinedStream ==
  ASSUME StreamInv, WriterGone, stream' = FALSE, writer' = "none",
         UNCHANGED <<heard, target, accepted, dropped, reported, queue, tape, faults>>
  PROVE  StreamInv'
<1>1. StreamTypes'
  BY DEF StreamInv, StreamTypes
<1>2. ChainInv'
  BY DEF StreamInv, ChainInv
<1>3. QED  BY <1>1, <1>2 DEF StreamInv

LEMMA CallbackInv ==
  ASSUME StreamInv, Callback
  PROVE  StreamInv'
<1> DEFINE block == [number |-> heard + 1, frames |-> Taken]
<1>1. /\ StreamTypes /\ stream /\ heard' = heard + 1
      /\ UNCHANGED <<stream, target, writer, tape, faults>>
      /\ {heard, target, accepted, dropped, faults} \subseteq Nat
      /\ BlockFrames \in Nat \ {0} /\ Len(tape) \in Nat
  BY StreamAssumption DEF StreamInv, StreamTypes, Callback
<1>2. /\ Taken \in Nat /\ accepted + Taken <= target
      /\ Taken > 0 => accepted < target
  <2>1. /\ target \in Nat /\ accepted \in Nat /\ accepted <= target
        /\ BlockFrames \in Nat
    BY <1>1 DEF StreamTypes
  <2>2. QED  BY <2>1 DEF Taken
<1>3. Len(queue) \in Nat /\ DOMAIN queue = 1 .. Len(queue)
  BY <1>1 DEF StreamTypes
<1>4. CASE Taken = 0 /\ UNCHANGED <<queue, accepted, reported, notices, dropped>>
  <2>1. ~(accepted < target)
    BY <1>1, <1>4 DEF Taken
  <2>2. StreamTypes'
    BY <1>1, <1>4 DEF StreamTypes
  <2>3. ChainInv'
    BY <1>1, <1>4, <2>1 DEF StreamInv, ChainInv, Unmarked
  <2>4. QED  BY <2>2, <2>3 DEF StreamInv
<1>5. CASE WriterGone /\ WriterMissing
  <2>1. StreamTypes'
    BY <1>1, <1>5 DEF StreamTypes, WriterMissing
  <2>2. ChainInv'
    BY <1>1, <1>5 DEF StreamInv, ChainInv, Unmarked, WriterGone, WriterMissing
  <2>3. QED  BY <2>1, <2>2 DEF StreamInv
<1>6. CASE BlockDropped
  <2>1. dropped' = dropped + 1 /\ UNCHANGED <<queue, accepted, reported>>
    BY <1>6 DEF BlockDropped, Dropped
  <2>2. StreamTypes'
    BY <1>1, <2>1 DEF StreamTypes
  <2>3. ChainInv'
    BY <1>1, <2>1 DEF ChainInv
  <2>4. QED  BY <2>2, <2>3 DEF StreamInv
<1>7. CASE Taken > 0 /\ ~WriterGone /\ BlockAccepted
  <2>1. /\ queue' = Append(queue, block) /\ accepted' = accepted + Taken
        /\ reported' \in BOOLEAN /\ dropped' = dropped
    BY <1>1, <1>7 DEF BlockAccepted, StreamTypes
  <2>2. block \in Blocks /\ block # Marker /\ block.number = heard + 1
    BY <1>1, <1>2, <1>7, BlockTypes
  <2>3. writer = "running"
    BY <1>1, <1>7 DEF WriterGone, StreamTypes
  <2> HIDE DEF block
  <2>4. /\ Len(queue') = Len(queue) + 1
        /\ queue'[Len(queue) + 1] = block
        /\ \A i \in 1 .. Len(queue) : queue'[i] = queue[i]
        /\ queue' \in Seq(Blocks \cup {Marker})
    BY <1>1, <1>3, <2>1, <2>2 DEF StreamTypes
  <2>5. StreamTypes'
    <3>1. /\ {heard', target', accepted', dropped', faults'} \subseteq Nat
          /\ accepted' <= target'
      BY <1>1, <1>2, <2>1
    <3>2. QED  BY <1>1, <2>1, <2>4, <3>1 DEF StreamTypes
  <2>6. \A i \in 1 .. Len(queue) : Unmarked(queue', i) => Unmarked(queue, i)
    BY <1>3, <2>4 DEF Unmarked
  <2>7. Unmarked(queue', Len(queue) + 1) => Unmarked(queue, Len(queue))
    BY <1>3, <2>4 DEF Unmarked
  <2>8. ChainInv'
    <3> SUFFICES ASSUME dropped = 0
                 PROVE  ChainInv'
      BY <2>1 DEF ChainInv
    <3>1. \A i \in 1 .. Len(tape) : tape'[i].number = i
      BY <1>1 DEF StreamInv, ChainInv
    <3>2. Unmarked(queue, Len(queue)) => heard = Len(tape) + Len(queue)
      BY <1>2, <1>7, <2>3 DEF StreamInv, ChainInv
    <3>3. ASSUME NEW i \in 1 .. Len(queue'), Unmarked(queue', i)
          PROVE  queue'[i].number = Len(tape) + i
      <4>1. CASE i \in 1 .. Len(queue)
        BY <1>1, <1>3, <2>4, <2>6, <3>3, <4>1 DEF StreamInv, ChainInv
      <4>2. CASE i = Len(queue) + 1
        BY <1>1, <1>3, <2>2, <2>4, <2>7, <3>2, <3>3, <4>2
      <4>3. QED  BY <1>3, <2>4, <4>1, <4>2
    <3>4. Unmarked(queue', Len(queue')) => heard' = Len(tape) + Len(queue')
      BY <1>1, <1>3, <2>4, <2>7, <3>2
    <3>5. QED  BY <1>1, <3>1, <3>3, <3>4 DEF ChainInv
  <2>9. QED  BY <2>5, <2>8 DEF StreamInv
<1>8. QED  BY <1>4, <1>5, <1>6, <1>7 DEF Callback

LEMMA WriteBlockInv ==
  ASSUME StreamInv, WriteBlock
  PROVE  StreamInv'
<1>1. /\ StreamTypes /\ writer = "running" /\ queue # <<>> /\ Head(queue) # Marker
      /\ tape' = Append(tape, Head(queue)) /\ queue' = Tail(queue)
      /\ UNCHANGED <<stream, heard, target, accepted, dropped, reported, writer, faults>>
  BY DEF StreamInv, WriteBlock
<1>2. queue \in Seq(Blocks \cup {Marker}) /\ tape \in Seq(Blocks)
  BY <1>1 DEF StreamTypes
<1>3. Len(queue) \in Nat /\ Len(queue) > 0 /\ Len(tape) \in Nat
  BY <1>1, <1>2
<1>4. Head(queue) = queue[1] /\ Head(queue) \in Blocks
  BY <1>1, <1>2, <1>3
<1>5. /\ queue' \in Seq(Blocks \cup {Marker}) /\ Len(queue') = Len(queue) - 1
      /\ \A i \in 1 .. Len(queue') : queue'[i] = queue[i + 1]
  BY <1>1, <1>2, <1>3
<1>6. /\ tape' \in Seq(Blocks) /\ Len(tape') = Len(tape) + 1
      /\ tape'[Len(tape) + 1] = queue[1]
      /\ \A i \in 1 .. Len(tape) : tape'[i] = tape[i]
  BY <1>1, <1>2, <1>3, <1>4
<1>7. StreamTypes'
  BY <1>1, <1>5, <1>6 DEF StreamTypes
<1>8. ASSUME NEW n \in 0 .. Len(queue'), Unmarked(queue', n)
      PROVE  Unmarked(queue, n + 1)
  <2>1. SUFFICES ASSUME NEW i \in 1 .. n + 1  PROVE  queue[i] # Marker
    BY DEF Unmarked
  <2>2. CASE i = 1
    BY <1>1, <1>4, <2>2
  <2>3. CASE i # 1
    <3>1. i - 1 \in 1 .. n /\ i - 1 \in 1 .. Len(queue')
      BY <1>3, <1>5, <2>3
    <3>2. queue'[i - 1] = queue[i - 1 + 1] /\ i - 1 + 1 = i
      BY <1>5, <3>1
    <3>3. QED  BY <1>8, <3>1, <3>2 DEF Unmarked
  <2>4. QED  BY <2>2, <2>3
<1>9. ChainInv'
  <2> SUFFICES ASSUME dropped = 0  PROVE  ChainInv'
    BY <1>1 DEF ChainInv
  <2>1. /\ \A i \in 1 .. Len(tape) : tape[i].number = i
        /\ \A i \in 1 .. Len(queue) : Unmarked(queue, i) => queue[i].number = Len(tape) + i
        /\ accepted < target /\ Unmarked(queue, Len(queue))
             => heard = Len(tape) + Len(queue)
    BY <1>1 DEF StreamInv, ChainInv
  <2>2. queue[1].number = Len(tape) + 1
    <3>1. Unmarked(queue, 1)
      BY <1>1, <1>4 DEF Unmarked
    <3>2. QED  BY <1>3, <2>1, <3>1
  <2>3. \A i \in 1 .. Len(tape') : tape'[i].number = i
    BY <1>3, <1>6, <2>1, <2>2
  <2>4. ASSUME NEW i \in 1 .. Len(queue'), Unmarked(queue', i)
        PROVE  queue'[i].number = Len(tape') + i
    <3>1. Unmarked(queue, i + 1) /\ i + 1 \in 1 .. Len(queue)
      BY <1>3, <1>5, <1>8, <2>4
    <3>2. queue[i + 1].number = Len(tape) + (i + 1)
      BY <2>1, <3>1
    <3>3. QED  BY <1>3, <1>5, <1>6, <3>2
  <2>5. accepted' < target' /\ Unmarked(queue', Len(queue'))
          => heard' = Len(tape') + Len(queue')
    <3>1. Unmarked(queue', Len(queue')) => Unmarked(queue, Len(queue') + 1)
      BY <1>3, <1>5, <1>8
    <3>2. Len(queue') + 1 = Len(queue) /\ Len(tape') + Len(queue') = Len(tape) + Len(queue)
      BY <1>3, <1>5, <1>6
    <3>3. QED  BY <1>1, <2>1, <3>1, <3>2
  <2>6. QED  BY <2>3, <2>4, <2>5 DEF ChainInv
<1>10. QED  BY <1>7, <1>9 DEF StreamInv

(***************************************************************************)
(* The writer ends, and what is queued is lost with the receiver.          *)
(***************************************************************************)
LEMMA WriterEndsInv ==
  ASSUME StreamInv, queue' = <<>>, writer' \in {"done", "failed"}, faults' \in Nat,
         UNCHANGED <<stream, heard, target, accepted, dropped, reported, tape>>
  PROVE  StreamInv'
<1>1. queue' \in Seq(Blocks \cup {Marker}) /\ Len(queue') = 0
  OBVIOUS
<1>2. StreamTypes'
  BY <1>1 DEF StreamInv, StreamTypes
<1>3. ChainInv'
  BY <1>1 DEF StreamInv, ChainInv
<1>4. QED  BY <1>2, <1>3 DEF StreamInv

LEMMA SendMarkerInv ==
  ASSUME StreamInv, SendMarker,
         UNCHANGED <<stream, heard, target, accepted, dropped, reported, writer, tape, faults>>
  PROVE  StreamInv'
<1>1. CASE queue' = queue
  BY <1>1, StreamStays DEF StreamInv, StreamTypes
<1>2. CASE queue' = Append(queue, Marker)
  <2>1. queue \in Seq(Blocks \cup {Marker}) /\ Len(queue) \in Nat
    BY DEF StreamInv, StreamTypes
  <2>2. /\ queue' \in Seq(Blocks \cup {Marker}) /\ Len(queue') = Len(queue) + 1
        /\ queue'[Len(queue) + 1] = Marker
        /\ \A i \in 1 .. Len(queue) : queue'[i] = queue[i]
    BY <1>2, <2>1
  <2>3. StreamTypes'
    BY <2>2 DEF StreamInv, StreamTypes
  <2>4. ~Unmarked(queue', Len(queue) + 1)
    BY <2>1, <2>2 DEF Unmarked
  <2>5. \A i \in 1 .. Len(queue) : Unmarked(queue', i) => Unmarked(queue, i)
    BY <2>1, <2>2 DEF Unmarked
  <2>6. ChainInv'
    <3> SUFFICES ASSUME dropped = 0  PROVE  ChainInv'
      BY DEF ChainInv
    <3>1. /\ \A i \in 1 .. Len(tape) : tape[i].number = i
          /\ \A i \in 1 .. Len(queue) :
               Unmarked(queue, i) => queue[i].number = Len(tape) + i
        BY DEF StreamInv, ChainInv
    <3>2. ASSUME NEW i \in 1 .. Len(queue'), Unmarked(queue', i)
          PROVE  queue'[i].number = Len(tape) + i
      <4>1. i \in 1 .. Len(queue)
        BY <2>1, <2>2, <2>4, <3>2
      <4>2. QED  BY <2>2, <2>5, <3>1, <3>2, <4>1
    <3>3. ~Unmarked(queue', Len(queue'))
      BY <2>2, <2>4
    <3>4. QED  BY <3>1, <3>2, <3>3 DEF ChainInv
  <2>7. QED  BY <2>3, <2>6 DEF StreamInv
<1>3. QED  BY <1>1, <1>2 DEF SendMarker

-----------------------------------------------------------------------------
(* The recorder around it. *)

Stopping == {"pausing", "marking", "joining", "renaming", "describing", "publishing"}

(***************************************************************************)
(* The recording that is active, or being stopped, has no finished file    *)
(* yet; while the files are finished the writer is gone, so that the tape  *)
(* is what was renamed.                                                    *)
(***************************************************************************)
RecorderInv ==
  /\ DOMAIN files = Ids
  /\ active \in Recordings \cup {None}
  /\ active # None => files[active.id] = Nothing
  /\ step \in Steps
  /\ step \in {"waiting", "draining"} =>
       active \in Recordings /\ files[active.id] = Nothing
  /\ step \in Stopping => stopping \in Recordings /\ active = None
  /\ step \in {"pausing", "marking", "joining", "renaming"} =>
       files[stopping.id] = Nothing
  /\ step \in {"renaming", "describing", "publishing"} => writer = "none"
  /\ step \in {"describing", "publishing"} =>
       files[stopping.id].sidecar = None /\ files[stopping.id].wav = tape

IInv == StreamInv /\ RecorderInv /\ SidecarMatchesWav /\ GaplessUnlessReported

LEMMA InitInv == Init => IInv
<1> SUFFICES ASSUME Init  PROVE  IInv
  OBVIOUS
<1>1. StreamInv
  BY InitStream DEF Init
<1>2. RecorderInv
  BY DEF Init, RecorderInv, Steps, Stopping
<1>3. \A id \in Ids : files[id].sidecar = None
  BY DEF Init, Nothing
<1>4. QED
  BY <1>1, <1>2, <1>3 DEF IInv, SidecarMatchesWav, GaplessUnlessReported

(***************************************************************************)
(* Files that stay the way they are.                                       *)
(***************************************************************************)
LEMMA FilesStay ==
  ASSUME IInv, UNCHANGED files
  PROVE  SidecarMatchesWav' /\ GaplessUnlessReported'
  BY DEF IInv, SidecarMatchesWav, GaplessUnlessReported

(***************************************************************************)
(* A file operation of the stop in progress touches only its own id, and   *)
(* leaves no sidecar there, or the one that describes the tape.            *)
(***************************************************************************)
LEMMA FilesChange ==
  ASSUME IInv, step \in {"renaming", "describing", "publishing"},
         UNCHANGED tape, NEW wav, NEW sidecar, NEW draft,
         Finished(stopping.id, wav, sidecar, draft),
         \/ sidecar = None
         \/ wav = tape /\ sidecar.frames = Frames(tape) /\ sidecar.dropped = dropped
  PROVE  /\ SidecarMatchesWav' /\ GaplessUnlessReported'
         /\ DOMAIN files' = Ids
         /\ \A id \in Ids \ {stopping.id} : files'[id] = files[id]
         /\ files'[stopping.id] = [wav |-> wav, sidecar |-> sidecar, draft |-> draft]
<1>1. /\ DOMAIN files = Ids /\ stopping.id \in Ids
      /\ tape \in Seq(Blocks)
  BY DEF IInv, RecorderInv, Stopping, Recordings, StreamInv, StreamTypes
<1>2. /\ DOMAIN files' = Ids
      /\ \A id \in Ids \ {stopping.id} : files'[id] = files[id]
      /\ files'[stopping.id] = [wav |-> wav, sidecar |-> sidecar, draft |-> draft]
  BY <1>1 DEF Finished
<1>3. ASSUME sidecar # None
      PROVE  /\ wav # None /\ sidecar.frames = Frames(wav)
             /\ sidecar.dropped = 0 => Gapless(wav)
  BY <1>1, <1>3, NoneAssumption, ChainIsGapless DEF IInv
<1>4. SidecarMatchesWav'
  BY <1>2, <1>3 DEF IInv, SidecarMatchesWav
<1>5. GaplessUnlessReported'
  BY <1>2, <1>3 DEF IInv, GaplessUnlessReported
<1>6. QED  BY <1>2, <1>4, <1>5

-----------------------------------------------------------------------------
(* The steps. *)

LEMMA BeginInv ==
  ASSUME IInv, NEW id \in Ids, NEW frames \in {None, Bracket},
         NEW next \in {"idle", "waiting"}, Begin(id, frames, next)
  PROVE  IInv'
<1>1. Limit(frames) \in Nat
  BY RecorderAssumption DEF Limit
<1>2. StreamInv'
  <2>1. faults \in Nat
    BY DEF IInv, StreamInv, StreamTypes
  <2>2. QED  BY <1>1, <2>1, FreshStream DEF Begin, StartStream
<1>3. RecorderInv'
  <2>1. active' = [id |-> id, frames |-> frames] /\ UNCHANGED files
    BY DEF Begin
  <2>2. active' \in Recordings /\ active'.id = id
    BY <2>1 DEF Recordings
  <2>3. files[id] = Nothing /\ step' \in {"idle", "waiting"}
    BY DEF Begin, Occupied
  <2>4. QED  BY <2>1, <2>2, <2>3 DEF IInv, RecorderInv, Steps, Stopping
<1>4. QED  BY <1>2, <1>3, FilesStay DEF IInv, Begin

(***************************************************************************)
(* The stream goes on by itself: callback, device and writer.              *)
(***************************************************************************)
LEMMA ConcurrentInv ==
  ASSUME IInv, Device \/ Writer
  PROVE  IInv'
<1>1. StreamInv /\ faults \in Nat /\ UNCHANGED recorder
  BY DEF IInv, StreamInv, StreamTypes, Device, Writer, FinishWriting
<1>2. StreamInv'
  <2>1. CASE Callback
    BY <1>1, <2>1, CallbackInv
  <2>2. CASE DeviceError
    BY <1>1, <2>2, StreamStays DEF DeviceError, StreamFault, StreamInv, StreamTypes
  <2>3. CASE WriteBlock
    BY <1>1, <2>3, WriteBlockInv
  <2>4. CASE WriterFails
    BY <1>1, <2>4, WriterEndsInv DEF WriterFails, StreamFault
  <2>5. CASE FinishWriting
    BY <1>1, <2>5, WriterEndsInv DEF FinishWriting
  <2>6. QED  BY <2>1, <2>2, <2>3, <2>4, <2>5 DEF Device, Writer
<1>3. writer = "none" => writer' = "none" /\ tape' = tape
  BY DEF Device, Writer, Callback, DeviceError, WriteBlock, WriterFails, FinishWriting
<1>4. UNCHANGED <<active, files, step, stopping>>
  BY <1>1 DEF recorder
<1>5. RecorderInv'
  BY <1>3, <1>4 DEF IInv, RecorderInv, Steps, Stopping
<1>6. QED  BY <1>2, <1>4, <1>5, FilesStay DEF IInv

LEMMA CrashInv ==
  ASSUME IInv, Crash
  PROVE  IInv'
<1>1. faults \in Nat
  BY DEF IInv, StreamInv, StreamTypes
<1>2. StreamInv'
  BY <1>1, FreshStream DEF Crash, StreamDies
<1>3. RecorderInv'
  BY DEF Crash, IInv, RecorderInv, Steps, Stopping
<1>4. QED  BY <1>2, <1>3, FilesStay DEF IInv, Crash

(***************************************************************************)
(* What a stop does before it comes to the files.                          *)
(***************************************************************************)
LEMMA EarlyInv ==
  ASSUME IInv,
         \/ CaptureActive \/ StopRecording \/ WaitEnds \/ DrainNotices
         \/ Pause \/ MarkEnd \/ Join \/ \E id \in Ids : CaptureAgain(id)
  PROVE  IInv'
<1>1. StreamInv /\ faults \in Nat /\ stream \in BOOLEAN /\ reported \in BOOLEAN
  BY DEF IInv, StreamInv, StreamTypes
<1>2. UNCHANGED files
  BY DEF CaptureActive, StopRecording, WaitEnds, DrainNotices, Pause, MarkEnd, Join,
    CaptureAgain
<1>3. CASE CaptureActive \/ StopRecording \/ \E id \in Ids : CaptureAgain(id)
  <2>1. UNCHANGED streamVars
    BY <1>3 DEF CaptureActive, StopRecording, CaptureAgain
  <2>2. StreamInv'
    BY <1>1, <2>1, StreamStays DEF streamVars
  <2>3. RecorderInv'
    BY <1>3, <2>1 DEF CaptureActive, StopRecording, CaptureAgain, streamVars, IInv,
      RecorderInv, Steps, Stopping
  <2>4. QED  BY <1>2, <2>2, <2>3, FilesStay DEF IInv
<1>4. CASE WaitEnds \/ DrainNotices
  <2>1. StreamInv'
    BY <1>1, <1>4, StreamStays DEF WaitEnds, DrainNotices
  <2>2. RecorderInv'
    BY <1>4 DEF WaitEnds, DrainNotices, IInv, RecorderInv, Steps, Stopping
  <2>3. QED  BY <1>2, <2>1, <2>2, FilesStay DEF IInv
<1>5. CASE Pause
  <2>1. StreamInv'
    <3>1. /\ reported' = reported
          /\ UNCHANGED <<heard, target, accepted, dropped, queue, writer, tape>>
      BY <1>5 DEF Pause
    <3>2. faults' \in Nat
      BY <1>1, <1>5 DEF Pause, StreamFault
    <3>3. stream' = FALSE \/ stream' = stream
      BY <1>5 DEF Pause
    <3>4. CASE stream' = FALSE
      BY <1>1, <3>1, <3>2, <3>4, StreamStays
    <3>5. CASE stream' = stream
      BY <1>1, <3>1, <3>2, <3>5, StreamStays
    <3>6. QED  BY <3>3, <3>4, <3>5
  <2>2. RecorderInv'
    BY <1>5 DEF Pause, IInv, RecorderInv, Steps, Stopping
  <2>3. QED  BY <1>2, <2>1, <2>2, FilesStay DEF IInv
<1>6. CASE MarkEnd
  <2>1. StreamInv'
    BY <1>1, <1>6, SendMarkerInv DEF MarkEnd
  <2>2. RecorderInv'
    BY <1>6 DEF MarkEnd, IInv, RecorderInv, Steps, Stopping
  <2>3. QED  BY <1>2, <2>1, <2>2, FilesStay DEF IInv
<1>7. CASE Join
  <2>1. StreamInv'
    BY <1>7, JoinedStream DEF IInv, Join
  <2>2. RecorderInv'
    BY <1>7 DEF Join, GiveUp, IInv, RecorderInv, Steps, Stopping
  <2>3. QED  BY <1>2, <2>1, <2>2, FilesStay DEF IInv
<1>8. QED  BY <1>3, <1>4, <1>5, <1>6, <1>7

LEMMA FileStepInv ==
  ASSUME IInv, FinalizeWav \/ DescribeRecording \/ PublishRecording
  PROVE  /\ IInv'
         /\ \A id \in Ids : files[id].sidecar # None => files'[id] = files[id]
<1>1. /\ step \in {"renaming", "describing", "publishing"}
      /\ UNCHANGED <<active, streamVars>> /\ UNCHANGED <<tape, writer, dropped>>
  BY DEF FinalizeWav, DescribeRecording, PublishRecording, streamVars
<1>2. /\ stopping \in Recordings /\ active = None /\ writer = "none"
      /\ DOMAIN files = Ids /\ stopping.id \in Ids
      /\ files[stopping.id].sidecar = None
      /\ step # "renaming" => files[stopping.id].wav = tape
  BY <1>1 DEF IInv, RecorderInv, Stopping, Nothing, Recordings
<1>3. StreamInv'
  BY <1>1, StreamStays DEF streamVars, IInv, StreamInv, StreamTypes
<1>4. CASE UNCHANGED files /\ GiveUp
  <2>1. RecorderInv'
    BY <1>1, <1>2, <1>4 DEF GiveUp, IInv, RecorderInv, Steps, Stopping
  <2>2. QED  BY <1>3, <1>4, <2>1, FilesStay DEF IInv
<1>5. ASSUME NEW wav, NEW sidecar, NEW draft, Finished(stopping.id, wav, sidecar, draft),
             \/ sidecar = None
             \/ wav = tape /\ sidecar.frames = Frames(tape) /\ sidecar.dropped = dropped,
             \/ GiveUp
             \/ /\ step' \in {"describing", "publishing"} /\ stopping' = stopping
                /\ sidecar = None /\ wav = tape
      PROVE  /\ IInv'
             /\ \A id \in Ids : files[id].sidecar # None => files'[id] = files[id]
  <2>1. /\ SidecarMatchesWav' /\ GaplessUnlessReported'
        /\ DOMAIN files' = Ids
        /\ \A id \in Ids \ {stopping.id} : files'[id] = files[id]
        /\ files'[stopping.id] = [wav |-> wav, sidecar |-> sidecar, draft |-> draft]
    BY <1>1, <1>5, FilesChange
  <2>2. RecorderInv'
    BY <1>1, <1>2, <1>5, <2>1 DEF GiveUp, RecorderInv, Steps, Stopping
  <2>3. QED  BY <1>2, <1>3, <2>1, <2>2 DEF IInv
<1>6. CASE step \in {"describing", "publishing"} /\ MetadataFails(stopping.id)
  <2>1. PICK wav, draft : Finished(stopping.id, wav, None, draft)
    BY <1>2, <1>6 DEF MetadataFails
  <2>2. QED  BY <1>5, <1>6, <2>1 DEF MetadataFails
<1>7. CASE FinalizeWav
  <2>1. CASE UNCHANGED files /\ GiveUp
    BY <1>4, <2>1
  <2>2. CASE /\ Finished(stopping.id, tape, files[stopping.id].sidecar, FALSE)
             /\ step' = "describing" /\ stopping' = stopping
    <3>1. Finished(stopping.id, tape, None, FALSE)
      BY <1>2, <2>2
    <3>2. QED  BY <1>5, <2>2, <3>1
  <2>3. QED  BY <1>7, <2>1, <2>2 DEF FinalizeWav
<1>8. CASE DescribeRecording
  <2>1. CASE /\ Finished(stopping.id, files[stopping.id].wav,
                         files[stopping.id].sidecar, TRUE)
             /\ step' = "publishing" /\ stopping' = stopping
    <3>1. Finished(stopping.id, tape, None, TRUE)
      BY <1>2, <1>8, <2>1 DEF DescribeRecording
    <3>2. QED  BY <1>5, <2>1, <3>1
  <2>2. QED  BY <1>6, <1>8, <2>1 DEF DescribeRecording
<1>9. CASE PublishRecording
  <2>1. CASE Finished(stopping.id, files[stopping.id].wav, Told(stopping), FALSE) /\ GiveUp
    <3> DEFINE told == Told(stopping)
    <3>1. told.frames = Frames(tape) /\ told.dropped = dropped
      BY DEF Told
    <3> HIDE DEF told
    <3>2. Finished(stopping.id, tape, told, FALSE)
      BY <1>2, <1>9, <2>1 DEF PublishRecording, told
    <3>3. QED  BY <1>5, <2>1, <3>1, <3>2
  <2>2. QED  BY <1>6, <1>9, <2>1 DEF PublishRecording
<1>10. QED  BY <1>7, <1>8, <1>9

LEMMA NextInv ==
  ASSUME IInv, [Next]_vars
  PROVE  /\ IInv'
         /\ \A id \in Ids : files[id].sidecar # None => files'[id] = files[id]
<1>1. CASE UNCHANGED vars
  <2>1. UNCHANGED <<files, active, step, stopping>> /\ UNCHANGED streamVars
    BY <1>1 DEF vars, recorder
  <2>2. StreamInv'
    BY <2>1, StreamStays DEF streamVars, IInv, StreamInv, StreamTypes
  <2>3. RecorderInv'
    BY <2>1 DEF streamVars, IInv, RecorderInv, Steps, Stopping
  <2>4. QED  BY <2>1, <2>2, <2>3, FilesStay DEF IInv
<1>2. CASE \E id \in Ids : StartRecording(id) \/ CapturePattern(id)
  <2>1. PICK id \in Ids, frames \in {None, Bracket}, next \in {"idle", "waiting"} :
          Begin(id, frames, next)
    BY <1>2 DEF StartRecording, CapturePattern
  <2>2. QED  BY <2>1, BeginInv DEF Begin
<1>3. CASE Device \/ Writer
  BY <1>3, ConcurrentInv DEF Device, Writer, FinishWriting, recorder
<1>4. CASE Crash
  BY <1>4, CrashInv DEF Crash
<1>5. CASE \/ CaptureActive \/ StopRecording \/ WaitEnds \/ DrainNotices
           \/ Pause \/ MarkEnd \/ Join \/ \E id \in Ids : CaptureAgain(id)
  BY <1>5, EarlyInv DEF CaptureActive, StopRecording, WaitEnds, DrainNotices, Pause,
    MarkEnd, Join, CaptureAgain
<1>6. CASE FinalizeWav \/ DescribeRecording \/ PublishRecording
  BY <1>6, FileStepInv
<1>7. QED  BY <1>1, <1>2, <1>3, <1>4, <1>5, <1>6 DEF Next, Finalize

LEMMA Invariant == Spec => []IInv
<1>1. IInv /\ [Next]_vars => IInv'
  BY NextInv
<1>2. QED  BY <1>1, InitInv, PTL DEF Spec

(***************************************************************************)
(* A sidecar stands beside the WAV it describes, whichever file operations *)
(* fail and whenever the process dies.                                     *)
(***************************************************************************)
THEOREM SidecarsAreTrue == Spec => []SidecarMatchesWav
<1>1. IInv => SidecarMatchesWav
  BY DEF IInv
<1>2. QED  BY <1>1, Invariant, PTL

(***************************************************************************)
(* A recording whose sidecar counts no dropped block has every piece the   *)
(* device played, in order, whatever the callback, the writer and the stop *)
(* did meanwhile.                                                          *)
(***************************************************************************)
THEOREM GapsAreReported == Spec => []GaplessUnlessReported
<1>1. IInv => GaplessUnlessReported
  BY DEF IInv
<1>2. QED  BY <1>1, Invariant, PTL

(***************************************************************************)
(* The files of a published recording are never touched again.             *)
(***************************************************************************)
THEOREM PublishedFilesStay == Spec => PublishedStays
<1>1. IInv /\ [Next]_vars =>
        \A id \in Ids : files[id].sidecar # None => files'[id] = files[id]
  BY NextInv
<1>2. QED  BY <1>1, Invariant, PTL DEF Spec, PublishedStays

=============================================================================
