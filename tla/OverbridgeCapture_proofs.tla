---------------------- MODULE OverbridgeCapture_proofs ----------------------
(***************************************************************************)
(* What holds of the multitrack capture for all recording ids, durations   *)
(* and stems, every size of the queue and of a block, and any number of    *)
(* requests, device errors, failing file operations and crashes.           *)
(***************************************************************************)
EXTENDS OverbridgeCapture, SequenceTheorems, WellFoundedInduction, TLAPS

-----------------------------------------------------------------------------
(* The callback, the queue and the writer. *)

StreamTypes ==
  /\ stream \in BOOLEAN /\ reported \in BOOLEAN
  /\ {heard, target, accepted, dropped, faults} \subseteq Nat
  /\ accepted <= target
  /\ queue \in Seq(Blocks \cup {Marker})
  /\ writer \in {"none", "running", "done", "failed"}
  /\ tape \in Seq(Blocks)
  /\ writer = "none" => ~stream

(***************************************************************************)
(* The marker is not among the first n blocks of a queue.                  *)
(***************************************************************************)
Unmarked(q, n) == \A i \in 1 .. n : q[i] # Marker

(***************************************************************************)
(* Unless a block was dropped, the file and the queue behind it hold the   *)
(* callbacks 1, 2, 3, ...; and all of them, while more can come.  What is  *)
(* queued behind the marker is never written.                              *)
(***************************************************************************)
ChainInv ==
  dropped = 0 =>
    /\ \A i \in 1 .. Len(tape) : tape[i].number = i
    /\ \A i \in 1 .. Len(queue) : Unmarked(queue, i) => queue[i].number = Len(tape) + i
    /\ writer = "running" /\ accepted < target /\ Unmarked(queue, Len(queue))
         => heard = Len(tape) + Len(queue)

StreamInv == StreamTypes /\ ChainInv

LEMMA ChainIsGapless ==
  ASSUME StreamInv, dropped = 0
  PROVE  Gapless(tape)
<1>1. Len(tape) \in Nat
  BY DEF StreamInv, StreamTypes
<1>2. QED  BY <1>1 DEF StreamInv, ChainInv, Gapless

LEMMA BlockTypes ==
  /\ Marker \notin Blocks
  /\ \A n \in Nat, k \in Nat : k > 0 => [number |-> n, frames |-> k] \in Blocks
  BY DEF Marker, Blocks

LEMMA FreshStream ==
  ASSUME queue' = <<>>, tape' = <<>>, heard' = 0, accepted' = 0, dropped' = 0,
         target' \in Nat, faults' \in Nat, stream' \in BOOLEAN, reported' \in BOOLEAN,
         writer' \in {"none", "running"}, writer' = "none" => ~stream'
  PROVE  StreamInv'
<1>1. /\ queue' \in Seq(Blocks \cup {Marker}) /\ Len(queue') = 0
      /\ tape' \in Seq(Blocks) /\ Len(tape') = 0
  OBVIOUS
<1>2. StreamTypes'
  BY <1>1 DEF StreamTypes
<1>3. ChainInv'
  BY <1>1 DEF ChainInv
<1>4. QED  BY <1>2, <1>3 DEF StreamInv

LEMMA InitStream == StreamInit => StreamInv
<1> SUFFICES ASSUME StreamInit  PROVE  StreamInv
  OBVIOUS
<1>1. queue \in Seq(Blocks \cup {Marker}) /\ Len(queue) = 0
  BY DEF StreamInit
<1>2. tape \in Seq(Blocks) /\ Len(tape) = 0
  BY DEF StreamInit
<1>3. StreamTypes
  <2>1. stream \in BOOLEAN /\ reported \in BOOLEAN /\ ~stream
    BY Zenon DEF StreamInit
  <2>2. {heard, target, accepted, dropped, faults} \subseteq Nat
        /\ accepted <= target
    BY DEF StreamInit
  <2>3. writer = "none"
    BY DEF StreamInit
  <2>4. QED  BY <1>1, <1>2, <2>1, <2>2, <2>3 DEF StreamTypes
<1>4. ChainInv
  BY <1>1, <1>2 DEF StreamInit, ChainInv
<1>5. QED  BY <1>3, <1>4 DEF StreamInv

LEMMA StreamStays ==
  ASSUME StreamInv, UNCHANGED <<heard, target, accepted, dropped, queue, writer, tape>>,
         stream' \in BOOLEAN, stream' => stream, reported' \in BOOLEAN, faults' \in Nat
  PROVE  StreamInv'
<1>1. StreamTypes'
  BY DEF StreamInv, StreamTypes
<1>2. ChainInv'
  BY DEF StreamInv, ChainInv
<1>3. QED  BY <1>1, <1>2 DEF StreamInv

(***************************************************************************)
(* The stream is dropped with the writer.                                  *)
(***************************************************************************)
LEMMA JoinedStream ==
  ASSUME StreamInv, WriterGone, stream' = FALSE, writer' = "none",
         UNCHANGED <<heard, target, accepted, dropped, reported, queue, tape, faults>>
  PROVE  StreamInv'
<1>1. StreamTypes'
  BY DEF StreamInv, StreamTypes
<1>2. ChainInv'
  BY DEF StreamInv, ChainInv
<1>3. QED  BY <1>1, <1>2 DEF StreamInv

LEMMA CallbackInv ==
  ASSUME StreamInv, Callback
  PROVE  StreamInv'
<1> DEFINE block == [number |-> heard + 1, frames |-> Taken]
<1>1. /\ StreamTypes /\ stream /\ heard' = heard + 1
      /\ UNCHANGED <<stream, target, writer, tape, faults>>
      /\ {heard, target, accepted, dropped, faults} \subseteq Nat
      /\ BlockFrames \in Nat \ {0} /\ Len(tape) \in Nat
  BY StreamAssumption DEF StreamInv, StreamTypes, Callback
<1>2. /\ Taken \in Nat /\ accepted + Taken <= target
      /\ Taken > 0 => accepted < target
  <2>1. /\ target \in Nat /\ accepted \in Nat /\ accepted <= target
        /\ BlockFrames \in Nat
    BY <1>1 DEF StreamTypes
  <2>2. QED  BY <2>1 DEF Taken
<1>3. Len(queue) \in Nat /\ DOMAIN queue = 1 .. Len(queue)
  BY <1>1 DEF StreamTypes
<1>4. CASE Taken = 0 /\ UNCHANGED <<queue, accepted, reported, notices, dropped>>
  <2>1. ~(accepted < target)
    BY <1>1, <1>4 DEF Taken
  <2>2. StreamTypes'
    BY <1>1, <1>4 DEF StreamTypes
  <2>3. ChainInv'
    BY <1>1, <1>4, <2>1 DEF StreamInv, ChainInv, Unmarked
  <2>4. QED  BY <2>2, <2>3 DEF StreamInv
<1>5. CASE WriterGone /\ WriterMissing
  <2>1. StreamTypes'
    BY <1>1, <1>5 DEF StreamTypes, WriterMissing
  <2>2. ChainInv'
    BY <1>1, <1>5 DEF StreamInv, ChainInv, Unmarked, WriterGone, WriterMissing
  <2>3. QED  BY <2>1, <2>2 DEF StreamInv
<1>6. CASE BlockDropped
  <2>1. dropped' = dropped + 1 /\ UNCHANGED <<queue, accepted, reported>>
    BY <1>6 DEF BlockDropped, Dropped
  <2>2. StreamTypes'
    BY <1>1, <2>1 DEF StreamTypes
  <2>3. ChainInv'
    BY <1>1, <2>1 DEF ChainInv
  <2>4. QED  BY <2>2, <2>3 DEF StreamInv
<1>7. CASE Taken > 0 /\ ~WriterGone /\ BlockAccepted
  <2>1. /\ queue' = Append(queue, block) /\ accepted' = accepted + Taken
        /\ reported' \in BOOLEAN /\ dropped' = dropped
    BY <1>1, <1>7 DEF BlockAccepted, StreamTypes
  <2>2. block \in Blocks /\ block # Marker /\ block.number = heard + 1
    BY <1>1, <1>2, <1>7, BlockTypes
  <2>3. writer = "running"
    BY <1>1, <1>7 DEF WriterGone, StreamTypes
  <2> HIDE DEF block
  <2>4. /\ Len(queue') = Len(queue) + 1
        /\ queue'[Len(queue) + 1] = block
        /\ \A i \in 1 .. Len(queue) : queue'[i] = queue[i]
        /\ queue' \in Seq(Blocks \cup {Marker})
    BY <1>1, <1>3, <2>1, <2>2 DEF StreamTypes
  <2>5. StreamTypes'
    <3>1. /\ {heard', target', accepted', dropped', faults'} \subseteq Nat
          /\ accepted' <= target'
      BY <1>1, <1>2, <2>1
    <3>2. QED  BY <1>1, <2>1, <2>4, <3>1 DEF StreamTypes
  <2>6. \A i \in 1 .. Len(queue) : Unmarked(queue', i) => Unmarked(queue, i)
    BY <1>3, <2>4 DEF Unmarked
  <2>7. Unmarked(queue', Len(queue) + 1) => Unmarked(queue, Len(queue))
    BY <1>3, <2>4 DEF Unmarked
  <2>8. ChainInv'
    <3> SUFFICES ASSUME dropped = 0
                 PROVE  ChainInv'
      BY <2>1 DEF ChainInv
    <3>1. \A i \in 1 .. Len(tape) : tape'[i].number = i
      BY <1>1 DEF StreamInv, ChainInv
    <3>2. Unmarked(queue, Len(queue)) => heard = Len(tape) + Len(queue)
      BY <1>2, <1>7, <2>3 DEF StreamInv, ChainInv
    <3>3. ASSUME NEW i \in 1 .. Len(queue'), Unmarked(queue', i)
          PROVE  queue'[i].number = Len(tape) + i
      <4>1. CASE i \in 1 .. Len(queue)
        BY <1>1, <1>3, <2>4, <2>6, <3>3, <4>1 DEF StreamInv, ChainInv
      <4>2. CASE i = Len(queue) + 1
        BY <1>1, <1>3, <2>2, <2>4, <2>7, <3>2, <3>3, <4>2
      <4>3. QED  BY <1>3, <2>4, <4>1, <4>2
    <3>4. Unmarked(queue', Len(queue')) => heard' = Len(tape) + Len(queue')
      BY <1>1, <1>3, <2>4, <2>7, <3>2
    <3>5. QED  BY <1>1, <3>1, <3>3, <3>4 DEF ChainInv
  <2>9. QED  BY <2>5, <2>8 DEF StreamInv
<1>8. QED  BY <1>4, <1>5, <1>6, <1>7 DEF Callback

LEMMA WriteBlockInv ==
  ASSUME StreamInv, WriteBlock
  PROVE  StreamInv'
<1>1. /\ StreamTypes /\ writer = "running" /\ queue # <<>> /\ Head(queue) # Marker
      /\ tape' = Append(tape, Head(queue)) /\ queue' = Tail(queue)
      /\ UNCHANGED <<stream, heard, target, accepted, dropped, reported, writer, faults>>
  BY DEF StreamInv, WriteBlock
<1>2. queue \in Seq(Blocks \cup {Marker}) /\ tape \in Seq(Blocks)
  BY <1>1 DEF StreamTypes
<1>3. Len(queue) \in Nat /\ Len(queue) > 0 /\ Len(tape) \in Nat
  BY <1>1, <1>2
<1>4. Head(queue) = queue[1] /\ Head(queue) \in Blocks
  BY <1>1, <1>2, <1>3
<1>5. /\ queue' \in Seq(Blocks \cup {Marker}) /\ Len(queue') = Len(queue) - 1
      /\ \A i \in 1 .. Len(queue') : queue'[i] = queue[i + 1]
  BY <1>1, <1>2, <1>3
<1>6. /\ tape' \in Seq(Blocks) /\ Len(tape') = Len(tape) + 1
      /\ tape'[Len(tape) + 1] = queue[1]
      /\ \A i \in 1 .. Len(tape) : tape'[i] = tape[i]
  BY <1>1, <1>2, <1>3, <1>4
<1>7. StreamTypes'
  BY <1>1, <1>5, <1>6 DEF StreamTypes
<1>8. ASSUME NEW n \in 0 .. Len(queue'), Unmarked(queue', n)
      PROVE  Unmarked(queue, n + 1)
  <2>1. SUFFICES ASSUME NEW i \in 1 .. n + 1  PROVE  queue[i] # Marker
    BY DEF Unmarked
  <2>2. CASE i = 1
    BY <1>1, <1>4, <2>2
  <2>3. CASE i # 1
    <3>1. i - 1 \in 1 .. n /\ i - 1 \in 1 .. Len(queue')
      BY <1>3, <1>5, <2>3
    <3>2. queue'[i - 1] = queue[i - 1 + 1] /\ i - 1 + 1 = i
      BY <1>5, <3>1
    <3>3. QED  BY <1>8, <3>1, <3>2 DEF Unmarked
  <2>4. QED  BY <2>2, <2>3
<1>9. ChainInv'
  <2> SUFFICES ASSUME dropped = 0  PROVE  ChainInv'
    BY <1>1 DEF ChainInv
  <2>1. /\ \A i \in 1 .. Len(tape) : tape[i].number = i
        /\ \A i \in 1 .. Len(queue) : Unmarked(queue, i) => queue[i].number = Len(tape) + i
        /\ accepted < target /\ Unmarked(queue, Len(queue))
             => heard = Len(tape) + Len(queue)
    BY <1>1 DEF StreamInv, ChainInv
  <2>2. queue[1].number = Len(tape) + 1
    <3>1. Unmarked(queue, 1)
      BY <1>1, <1>4 DEF Unmarked
    <3>2. QED  BY <1>3, <2>1, <3>1
  <2>3. \A i \in 1 .. Len(tape') : tape'[i].number = i
    BY <1>3, <1>6, <2>1, <2>2
  <2>4. ASSUME NEW i \in 1 .. Len(queue'), Unmarked(queue', i)
        PROVE  queue'[i].number = Len(tape') + i
    <3>1. Unmarked(queue, i + 1) /\ i + 1 \in 1 .. Len(queue)
      BY <1>3, <1>5, <1>8, <2>4
    <3>2. queue[i + 1].number = Len(tape) + (i + 1)
      BY <2>1, <3>1
    <3>3. QED  BY <1>3, <1>5, <1>6, <3>2
  <2>5. accepted' < target' /\ Unmarked(queue', Len(queue'))
          => heard' = Len(tape') + Len(queue')
    <3>1. Unmarked(queue', Len(queue')) => Unmarked(queue, Len(queue') + 1)
      BY <1>3, <1>5, <1>8
    <3>2. Len(queue') + 1 = Len(queue) /\ Len(tape') + Len(queue') = Len(tape) + Len(queue)
      BY <1>3, <1>5, <1>6
    <3>3. QED  BY <1>1, <2>1, <3>1, <3>2
  <2>6. QED  BY <2>3, <2>4, <2>5 DEF ChainInv
<1>10. QED  BY <1>7, <1>9 DEF StreamInv

(***************************************************************************)
(* The writer ends, and what is queued is lost with the receiver.          *)
(***************************************************************************)
LEMMA WriterEndsInv ==
  ASSUME StreamInv, queue' = <<>>, writer' \in {"done", "failed"}, faults' \in Nat,
         UNCHANGED <<stream, heard, target, accepted, dropped, reported, tape>>
  PROVE  StreamInv'
<1>1. queue' \in Seq(Blocks \cup {Marker}) /\ Len(queue') = 0
  OBVIOUS
<1>2. StreamTypes'
  BY <1>1 DEF StreamInv, StreamTypes
<1>3. ChainInv'
  BY <1>1 DEF StreamInv, ChainInv
<1>4. QED  BY <1>2, <1>3 DEF StreamInv

LEMMA SendMarkerInv ==
  ASSUME StreamInv, SendMarker,
         UNCHANGED <<stream, heard, target, accepted, dropped, reported, writer, tape, faults>>
  PROVE  StreamInv'
<1>1. CASE queue' = queue
  BY <1>1, StreamStays DEF StreamInv, StreamTypes
<1>2. CASE queue' = Append(queue, Marker)
  <2>1. queue \in Seq(Blocks \cup {Marker}) /\ Len(queue) \in Nat
    BY DEF StreamInv, StreamTypes
  <2>2. /\ queue' \in Seq(Blocks \cup {Marker}) /\ Len(queue') = Len(queue) + 1
        /\ queue'[Len(queue) + 1] = Marker
        /\ \A i \in 1 .. Len(queue) : queue'[i] = queue[i]
    BY <1>2, <2>1
  <2>3. StreamTypes'
    BY <2>2 DEF StreamInv, StreamTypes
  <2>4. ~Unmarked(queue', Len(queue) + 1)
    BY <2>1, <2>2 DEF Unmarked
  <2>5. \A i \in 1 .. Len(queue) : Unmarked(queue', i) => Unmarked(queue, i)
    BY <2>1, <2>2 DEF Unmarked
  <2>6. ChainInv'
    <3> SUFFICES ASSUME dropped = 0  PROVE  ChainInv'
      BY DEF ChainInv
    <3>1. /\ \A i \in 1 .. Len(tape) : tape[i].number = i
          /\ \A i \in 1 .. Len(queue) :
               Unmarked(queue, i) => queue[i].number = Len(tape) + i
        BY DEF StreamInv, ChainInv
    <3>2. ASSUME NEW i \in 1 .. Len(queue'), Unmarked(queue', i)
          PROVE  queue'[i].number = Len(tape) + i
      <4>1. i \in 1 .. Len(queue)
        BY <2>1, <2>2, <2>4, <3>2
      <4>2. QED  BY <2>2, <2>5, <3>1, <3>2, <4>1
    <3>3. ~Unmarked(queue', Len(queue'))
      BY <2>2, <2>4
    <3>4. QED  BY <3>1, <3>2, <3>3 DEF ChainInv
  <2>7. QED  BY <2>3, <2>6 DEF StreamInv
<1>3. QED  BY <1>1, <1>2 DEF SendMarker

-----------------------------------------------------------------------------
(* The frames of a sequence of blocks. *)

LEMMA HasFirst ==
  ASSUME NEW T \in SUBSET Nat, T # {}
  PROVE  \E n \in T : \A m \in T : n <= m
<1>1. \E n \in T : \A m \in T : ~ (<<m, n>> \in OpToRel(<, Nat))
  BY WFMin, NatLessThanWellFounded, Zenon
<1>2. PICK n \in T : \A m \in T : ~ (<<m, n>> \in OpToRel(<, Nat))
  BY <1>1
<1>3. \A m \in T : ~ (m < n)
  BY <1>2, Zenon DEF OpToRel
<1>4. QED  BY <1>3

(***************************************************************************)
(* f holds, for every n, the frames of the first n blocks.                 *)
(***************************************************************************)
Totals(f, blocks, last) ==
  f = [n \in 0 .. last |-> IF n = 0 THEN 0 ELSE f[n - 1] + blocks[n].frames]

LEMMA TotalsExist ==
  ASSUME NEW blocks, NEW last \in Nat
  PROVE  \E f : Totals(f, blocks, last)
<1> SUFFICES ASSUME \A f : ~Totals(f, blocks, last)
             PROVE  FALSE
  OBVIOUS
<1> DEFINE T == {n \in Nat : \A f : ~Totals(f, blocks, n)}
<1>1. PICK n \in T : \A m \in T : n <= m
  BY HasFirst
<1>2. n \in Nat /\ \A f : ~Totals(f, blocks, n)
  OBVIOUS
<1>3. n # 0
  <2>1. Totals([m \in 0 .. 0 |-> 0], blocks, 0)
    BY DEF Totals
  <2>2. QED  BY <1>2, <2>1
<1>4. n - 1 \in Nat /\ n - 1 \notin T
  BY <1>1, <1>2, <1>3
<1>5. PICK f : Totals(f, blocks, n - 1)
  BY <1>4
<1> DEFINE g == [m \in 0 .. n |-> IF m = n THEN f[n - 1] + blocks[n].frames ELSE f[m]]
<1>6. Totals(g, blocks, n)
  <2>1. \A m \in 0 .. n - 1 : g[m] = f[m]
    BY <1>2
  <2>2. \A m \in 0 .. n - 1 : f[m] = IF m = 0 THEN 0 ELSE f[m - 1] + blocks[m].frames
    BY <1>5 DEF Totals
  <2>3. ASSUME NEW m \in 0 .. n
        PROVE  g[m] = IF m = 0 THEN 0 ELSE g[m - 1] + blocks[m].frames
    <3>1. CASE m = n
      <4>1. g[n] = f[n - 1] + blocks[n].frames /\ g[n - 1] = f[n - 1]
        BY <1>2, <1>4, <2>1
      <4>2. QED  BY <1>3, <3>1, <4>1
    <3>2. CASE m = 0
      BY <1>3, <1>4, <2>1, <2>2, <3>2
    <3>3. CASE m \in 1 .. n - 1
      <4>1. m - 1 \in 0 .. n - 1 /\ m \in 0 .. n - 1 /\ m # 0
        BY <1>4, <3>3
      <4>2. QED  BY <2>1, <2>2, <4>1
    <3>4. QED  BY <1>4, <3>1, <3>2, <3>3
  <2>4. g = [m \in 0 .. n |-> g[m]]
    OBVIOUS
  <2> HIDE DEF g
  <2>5. [m \in 0 .. n |-> g[m]] =
          [m \in 0 .. n |-> IF m = 0 THEN 0 ELSE g[m - 1] + blocks[m].frames]
    BY <2>3
  <2>6. QED  BY <2>4, <2>5 DEF Totals
<1> HIDE DEF g
<1>7. QED  BY <1>2, <1>6

LEMMA FramesIs ==
  ASSUME NEW blocks, Len(blocks) \in Nat
  PROVE  \E f : Totals(f, blocks, Len(blocks)) /\ Frames(blocks) = f[Len(blocks)]
<1> DEFINE f == CHOOSE g : g =
      [n \in 0 .. Len(blocks) |-> IF n = 0 THEN 0 ELSE g[n - 1] + blocks[n].frames]
<1>1. \E g : Totals(g, blocks, Len(blocks))
  BY TotalsExist
<1>2. f = [n \in 0 .. Len(blocks) |-> IF n = 0 THEN 0 ELSE f[n - 1] + blocks[n].frames]
  BY <1>1, Zenon DEF Totals
<1>3. Frames(blocks) = f[Len(blocks)]
  BY DEF Frames
<1> HIDE DEF f
<1>4. QED  BY <1>2, <1>3 DEF Totals

(***************************************************************************)
(* As long as the blocks are the same, so are their totals.                *)
(***************************************************************************)
LEMMA SameTotals ==
  ASSUME NEW a, NEW b, NEW j \in Nat, NEW k \in Nat, NEW f, NEW g,
         Totals(f, a, j), Totals(g, b, k), NEW last \in Nat, last <= j, last <= k,
         \A n \in 1 .. last : a[n] = b[n]
  PROVE  f[last] = g[last]
<1> SUFFICES ASSUME f[last] # g[last]  PROVE  FALSE
  OBVIOUS
<1> DEFINE T == {n \in Nat : n <= last /\ f[n] # g[n]}
<1>1. PICK n \in T : \A m \in T : n <= m
  <2>1. last \in T /\ T \in SUBSET Nat
    OBVIOUS
  <2>2. QED  BY <2>1, HasFirst
<1>2. n \in Nat /\ n <= last /\ f[n] # g[n]
  OBVIOUS
<1>3. /\ f[n] = IF n = 0 THEN 0 ELSE f[n - 1] + a[n].frames
      /\ g[n] = IF n = 0 THEN 0 ELSE g[n - 1] + b[n].frames
  <2>1. n \in 0 .. j /\ n \in 0 .. k
    BY <1>2
  <2>2. QED  BY <2>1 DEF Totals
<1>4. n # 0
  BY <1>2, <1>3
<1>5. f[n - 1] = g[n - 1]
  BY <1>1, <1>2, <1>4
<1>6. a[n] = b[n]
  BY <1>2, <1>4
<1>7. QED  BY <1>2, <1>3, <1>4, <1>5, <1>6

LEMMA FramesOfNone == Frames(<<>>) = 0
<1>1. PICK f : Totals(f, <<>>, 0) /\ Frames(<<>>) = f[0]
  BY FramesIs
<1>2. QED  BY <1>1 DEF Totals

LEMMA FramesOfMore ==
  ASSUME NEW S, NEW blocks \in Seq(S), NEW b \in S
  PROVE  Frames(Append(blocks, b)) = Frames(blocks) + b.frames
<1> DEFINE n == Len(blocks)
           more == Append(blocks, b)
<1>1. /\ n \in Nat /\ Len(more) = n + 1 /\ more[n + 1] = b
      /\ \A i \in 1 .. n : more[i] = blocks[i]
  OBVIOUS
<1> HIDE DEF more
<1>2. PICK f : Totals(f, blocks, n) /\ Frames(blocks) = f[n]
  BY <1>1, FramesIs
<1>3. PICK g : Totals(g, more, n + 1) /\ Frames(more) = g[n + 1]
  BY <1>1, FramesIs
<1> HIDE DEF n
<1>4. f[n] = g[n]
  BY <1>1, <1>2, <1>3, SameTotals
<1>5. g[n + 1] = g[n] + b.frames
  BY <1>1, <1>3 DEF Totals
<1>6. QED  BY <1>2, <1>3, <1>4, <1>5 DEF more

LEMMA FramesAreNumbers ==
  ASSUME NEW S, \A b \in S : b.frames \in Nat, NEW blocks \in Seq(S)
  PROVE  Frames(blocks) \in Nat
<1> DEFINE last == Len(blocks)
<1>1. PICK f : Totals(f, blocks, last) /\ Frames(blocks) = f[last]
  BY FramesIs
<1>2. last \in Nat /\ \A n \in 1 .. last : blocks[n].frames \in Nat
  OBVIOUS
<1> HIDE DEF last
<1>3. \A n \in 0 .. last : f[n] = IF n = 0 THEN 0 ELSE f[n - 1] + blocks[n].frames
  BY <1>1 DEF Totals
<1> SUFFICES ASSUME f[last] \notin Nat  PROVE  FALSE
  BY <1>1
<1> DEFINE T == {n \in Nat : n <= last /\ f[n] \notin Nat}
<1>4. PICK n \in T : \A m \in T : n <= m
  <2>1. last \in T /\ T \in SUBSET Nat
    BY <1>2
  <2>2. QED  BY <2>1, HasFirst
<1>5. n \in 0 .. last /\ f[n] \notin Nat /\ n # 0
  BY <1>2, <1>3
<1>6. n - 1 \in Nat /\ n - 1 <= last /\ n - 1 < n /\ n \in 1 .. last
  BY <1>2, <1>5
<1>7. f[n - 1] \in Nat
  <2>1. n - 1 \notin T
    BY <1>4, <1>6
  <2>2. QED  BY <1>6, <2>1
<1>8. f[n] = f[n - 1] + blocks[n].frames
  BY <1>3, <1>5
<1>9. QED  BY <1>2, <1>5, <1>6, <1>7, <1>8

LEMMA BlockFramesAreNumbers == \A b \in Blocks \cup {Marker} : b.frames \in Nat
  BY DEF Blocks, Marker

-----------------------------------------------------------------------------
(* While there is a writer, what the callback accepted is in the file or   *)
(* in the queue.                                                           *)

FlowInv == writer = "running" => accepted = Frames(tape \o queue)

LEMMA FreshFlow ==
  ASSUME queue' = <<>>, tape' = <<>>, accepted' = 0
  PROVE  FlowInv'
<1>1. tape' \o queue' = <<>>
  OBVIOUS
<1>2. QED  BY <1>1, FramesOfNone DEF FlowInv

LEMMA CallbackFlow ==
  ASSUME StreamInv, FlowInv, Callback
  PROVE  FlowInv'
<1>1. writer' = writer /\ tape' = tape /\ heard' = heard + 1
  BY DEF Callback
<1>2. CASE UNCHANGED <<queue, accepted>>
  BY <1>1, <1>2 DEF FlowInv
<1>3. CASE Taken > 0 /\ BlockAccepted
  <2> DEFINE block == [number |-> heard + 1, frames |-> Taken]
             S == Blocks \cup {Marker}
  <2>1. queue' = Append(queue, block) /\ accepted' = accepted + Taken
    BY <1>1, <1>3 DEF BlockAccepted
  <2>2. tape \in Seq(S) /\ queue \in Seq(S) /\ heard \in Nat
        /\ {target, accepted} \subseteq Nat
    BY DEF StreamInv, StreamTypes
  <2>3. block \in S /\ block.frames = Taken
    BY <1>3, <2>2, StreamAssumption, BlockTypes DEF Taken
  <2> HIDE DEF block, S
  <2>4. tape \o Append(queue, block) = Append(tape \o queue, block)
    BY <2>2, <2>3
  <2>5. tape \o queue \in Seq(S)
    BY <2>2
  <2>6. Frames(tape' \o queue') = Frames(tape \o queue) + Taken
    BY <1>1, <2>1, <2>3, <2>4, <2>5, FramesOfMore
  <2>7. QED  BY <1>1, <2>1, <2>6 DEF FlowInv
<1>4. QED  BY <1>2, <1>3 DEF Callback, WriterMissing, BlockDropped

LEMMA WriteBlockFlow ==
  ASSUME StreamInv, FlowInv, WriteBlock
  PROVE  FlowInv'
<1> DEFINE S == Blocks \cup {Marker}
<1>1. tape \in Seq(S) /\ queue \in Seq(S) /\ queue # <<>>
  BY DEF StreamInv, StreamTypes, WriteBlock
<1> HIDE DEF S
<1>2. Append(tape, Head(queue)) \o Tail(queue) = tape \o queue
  BY <1>1
<1>3. tape' \o queue' = tape \o queue
  BY <1>2 DEF WriteBlock
<1>4. QED  BY <1>3 DEF FlowInv, WriteBlock

LEMMA SendMarkerFlow ==
  ASSUME StreamInv, FlowInv, SendMarker, UNCHANGED <<tape, writer, accepted>>
  PROVE  FlowInv'
<1> DEFINE S == Blocks \cup {Marker}
<1> SUFFICES ASSUME writer = "running"  PROVE  accepted = Frames(tape' \o queue')
  BY DEF FlowInv
<1>1. tape \in Seq(S) /\ queue \in Seq(S) /\ Marker \in S
  BY DEF StreamInv, StreamTypes
<1>2. tape' = tape /\ queue' = Append(queue, Marker)
  BY DEF SendMarker
<1> HIDE DEF S
<1>3. tape \o Append(queue, Marker) = Append(tape \o queue, Marker)
      /\ tape \o queue \in Seq(S)
  BY <1>1
<1>4. Frames(tape' \o queue') = Frames(tape \o queue) + 0
  <2>1. Frames(Append(tape \o queue, Marker)) = Frames(tape \o queue) + Marker.frames
    BY <1>1, <1>3, FramesOfMore
  <2>2. Marker.frames = 0
    BY DEF Marker
  <2>3. QED  BY <1>2, <1>3, <2>1, <2>2
<1>5. QED  BY <1>4 DEF FlowInv, StreamInv, StreamTypes

LEMMA DeviceErrorInv ==
  ASSUME StreamInv, FlowInv, DeviceError
  PROVE  StreamInv' /\ FlowInv'
<1>1. StreamInv'
  BY StreamStays DEF DeviceError, StreamFault, StreamInv, StreamTypes
<1>2. FlowInv'
  BY DEF DeviceError, FlowInv
<1>3. QED  BY <1>1, <1>2

LEMMA StreamSame ==
  ASSUME StreamInv, FlowInv, UNCHANGED streamVars
  PROVE  StreamInv' /\ FlowInv'
<1>1. StreamInv'
  BY StreamStays DEF streamVars, StreamInv, StreamTypes
<1>2. FlowInv'
  BY DEF streamVars, FlowInv
<1>3. QED  BY <1>1, <1>2

(***************************************************************************)
(* With only the marker left to write, everything accepted is in the file. *)
(***************************************************************************)
LEMMA AllWritten ==
  ASSUME StreamInv, FlowInv, writer = "running", Len(queue) = 1, Head(queue) = Marker
  PROVE  Frames(tape) = accepted
<1> DEFINE S == Blocks \cup {Marker}
<1>1. tape \in Seq(S) /\ queue \in Seq(S) /\ Marker \in S
  BY DEF StreamInv, StreamTypes
<1> HIDE DEF S
<1>2. tape \o queue = Append(tape, Marker)
  <2>1. queue[1] = Marker
    BY <1>1
  <2>2. queue = <<Marker>>
    BY <1>1, <2>1
  <2>3. QED  BY <1>1, <2>2, AppendIsConcat
<1>3. Frames(tape \o queue) = Frames(tape) + Marker.frames
  BY <1>1, <1>2, FramesOfMore
<1>4. Marker.frames = 0
  BY DEF Marker
<1>5. Frames(tape) \in Nat
  BY FramesAreNumbers, BlockFramesAreNumbers, <1>1 DEF S
<1>6. accepted = Frames(tape \o queue)
  BY DEF FlowInv
<1>7. QED  BY <1>3, <1>4, <1>5, <1>6
-----------------------------------------------------------------------------
(***************************************************************************)
(* What memory knows and what was told is the metadata in the directory.   *)
(***************************************************************************)
BookInv ==
  /\ dirs \in [Ids -> Directories \cup {None}]
  /\ DOMAIN completed = Ids /\ DOMAIN told = Ids
  /\ \A id \in Ids :
       /\ completed[id] # None => dirs[id] # None /\ dirs[id].metadata = completed[id]
       /\ told[id] # None => dirs[id] # None /\ dirs[id].metadata = told[id]

(***************************************************************************)
(* A capture in progress works in a directory without metadata.            *)
(***************************************************************************)
StepInv ==
  /\ step \in {"idle", "waiting", "pausing", "marking", "joining",
               "describing", "publishing"}
  /\ step # "idle" =>
       /\ current \in Captures
       /\ dirs[current.id] # None /\ dirs[current.id].metadata = None

(***************************************************************************)
(* The marker is the last block of a stream that is silent, so that stems  *)
(* are finished when everything accepted is in the file.                   *)
(***************************************************************************)
Finished(s) == dirs[current.id].stems[s] = accepted

StemInv ==
  /\ step \in {"marking", "joining", "describing", "publishing"} => ~stream
  /\ writer = "running" => step \in {"waiting", "pausing", "marking", "joining"}
  /\ writer = "running" =>
       \A i \in 1 .. Len(queue) : queue[i] = Marker => i = Len(queue) /\ step = "joining"
  /\ step \in {"waiting", "pausing", "marking"} =>
       \A s \in Stems : dirs[current.id].stems[s] = None
  /\ step = "joining" /\ writer = "running" =>
       \A s \in Stems : dirs[current.id].stems[s] # None => AtMarker /\ Finished(s)
  /\ writer = "done" => step = "joining"
  /\ step \in {"describing", "publishing"} => writer = "none"
  /\ writer = "done" \/ step \in {"describing", "publishing"} =>
       Frames(tape) = accepted /\ \A s \in Stems : Finished(s)

IInv ==
  /\ StreamInv /\ FlowInv /\ BookInv /\ StepInv /\ StemInv
  /\ StemsMatchMetadata /\ ReplayedForGood

LEMMA InitInv == Init => IInv
<1> SUFFICES ASSUME Init  PROVE  IInv
  OBVIOUS
<1>1. StreamInv
  BY InitStream DEF Init
<1>2. FlowInv /\ StepInv /\ StemInv
  BY DEF Init, StreamInit, FlowInv, StepInv, StemInv
<1>3. BookInv
  BY DEF Init, BookInv
<1>4. StemsMatchMetadata /\ ReplayedForGood
  BY DEF Init, StemsMatchMetadata, ReplayedForGood
<1>5. QED  BY <1>1, <1>2, <1>3, <1>4 DEF IInv

-----------------------------------------------------------------------------
(* The books: directories, memory and answers. *)

LEMMA BooksStay ==
  ASSUME IInv, UNCHANGED <<completed, dirs, told, answer>>
  PROVE  BookInv' /\ StemsMatchMetadata' /\ ReplayedForGood'
<1>1. BookInv'
  BY DEF IInv, BookInv
<1>2. StemsMatchMetadata'
  BY DEF IInv, StemsMatchMetadata
<1>3. ReplayedForGood'
  BY DEF IInv, ReplayedForGood
<1>4. QED  BY <1>1, <1>2, <1>3

(***************************************************************************)
(* An answer that repeats what was told, or tells it for the first time.   *)
(***************************************************************************)
LEMMA AnswerIsGood ==
  ASSUME DOMAIN told = Ids, NEW c \in Captures, NEW result, Answered(c, result),
         \A id \in Ids : told[id] # None => dirs'[id] # None /\ dirs'[id].metadata = told[id],
         result # Refused => /\ dirs'[c.id] # None /\ dirs'[c.id].metadata = result
                             /\ result.declaration = c.declaration,
         told[c.id] # None =>
           result = IF c.declaration = told[c.id].declaration THEN told[c.id] ELSE Refused
  PROVE  /\ ReplayedForGood'
         /\ DOMAIN told' = Ids
         /\ \A id \in Ids : told'[id] # None =>
              dirs'[id] # None /\ dirs'[id].metadata = told'[id]
<1>1. c.id \in Ids
  BY DEF Captures
<1>2. /\ DOMAIN told' = Ids
      /\ \A id \in Ids \ {c.id} : told'[id] = told[id]
      /\ told'[c.id] = IF told[c.id] = None /\ result # Refused THEN result ELSE told[c.id]
      /\ answer' = [id |-> c.id, declaration |-> c.declaration, result |-> result]
  BY <1>1 DEF Answered
<1>3. \A id \in Ids : told'[id] # None => dirs'[id] # None /\ dirs'[id].metadata = told'[id]
  BY <1>1, <1>2
<1>4. ReplayedForGood'
  <2>1. answer'.id = c.id /\ answer'.declaration = c.declaration /\ answer'.result = result
    BY <1>2
  <2>2. told'[c.id] # None =>
          result = IF c.declaration = told'[c.id].declaration THEN told'[c.id] ELSE Refused
    <3>1. CASE told[c.id] # None
      BY <1>2, <3>1
    <3>2. CASE told[c.id] = None
      BY <1>2, <3>2
    <3>3. QED  BY <3>1, <3>2
  <2>3. QED  BY <2>1, <2>2 DEF ReplayedForGood
<1>5. QED  BY <1>2, <1>3, <1>4

(***************************************************************************)
(* A capture in progress is answered for the first time.                   *)
(***************************************************************************)
LEMMA FirstAnswer ==
  ASSUME IInv, step # "idle"
  PROVE  /\ current \in Captures /\ current.id \in Ids
         /\ told[current.id] = None /\ completed[current.id] = None
<1>1. /\ current \in Captures
      /\ dirs[current.id] # None /\ dirs[current.id].metadata = None
  BY DEF IInv, StepInv
<1>2. current.id \in Ids
  BY <1>1 DEF Captures
<1>3. QED  BY <1>1, <1>2 DEF IInv, BookInv

LEMMA RefusedBooks ==
  ASSUME IInv, NEW c \in Captures, told[c.id] = None, Answered(c, Refused),
         UNCHANGED <<completed, dirs>>
  PROVE  BookInv' /\ StemsMatchMetadata' /\ ReplayedForGood'
<1>1. /\ ReplayedForGood' /\ DOMAIN told' = Ids
      /\ \A id \in Ids : told'[id] # None =>
           dirs'[id] # None /\ dirs'[id].metadata = told'[id]
  BY AnswerIsGood DEF IInv, BookInv
<1>2. BookInv'
  BY <1>1 DEF IInv, BookInv
<1>3. StemsMatchMetadata'
  BY DEF IInv, StemsMatchMetadata
<1>4. QED  BY <1>1, <1>2, <1>3

-----------------------------------------------------------------------------
(* The steps. *)

LEMMA RequestInv ==
  ASSUME IInv, NEW c \in Captures, CaptureMultitrack(c)
  PROVE  IInv'
<1>1. /\ c.id \in Ids /\ step = "idle"
      /\ BookInv /\ StreamInv /\ FlowInv /\ StepInv /\ StemInv
  BY DEF IInv, Captures, CaptureMultitrack
<1>2. CASE ReplayCapture(c) \/ RefuseCapture(c)
  <2>1. UNCHANGED <<dirs, step, current, streamVars>>
    BY <1>2 DEF ReplayCapture, RefuseCapture
  <2>2. StreamInv' /\ FlowInv' /\ StepInv' /\ StemInv'
    <3>1. StreamInv' /\ FlowInv'
      BY <1>1, <2>1, StreamSame
    <3>2. StepInv' /\ StemInv'
      BY <1>1, <2>1 DEF streamVars, StepInv, StemInv, Finished, AtMarker
    <3>3. QED  BY <3>1, <3>2
  <2>3. dirs[c.id] # None
    BY <1>1, <1>2 DEF ReplayCapture, RefuseCapture, Known, BookInv
  <2>4. Known(c.id) = dirs[c.id].metadata
    BY <1>1, <2>3 DEF BookInv, Known
  <2>5. StemsMatchMetadata'
    BY <2>1 DEF IInv, StemsMatchMetadata
  <2>6. CASE RefuseCapture(c)
    <3>1. told[c.id] = None
      BY <1>1, <2>4, <2>6 DEF RefuseCapture, BookInv
    <3>2. QED
      BY <2>2, <2>6, <3>1, RefusedBooks DEF RefuseCapture, IInv
  <2>7. CASE ReplayCapture(c)
    <3> DEFINE known == Known(c.id)
    <3>1. known # None /\ (told[c.id] # None => told[c.id] = known)
      BY <1>1, <2>4, <2>7 DEF ReplayCapture, BookInv
    <3>2. CASE ~SameDeclaration(c)
      <4>1. Answered(c, Refused) /\ UNCHANGED <<completed, dirs>>
        BY <2>1, <2>7, <3>2 DEF ReplayCapture
      <4>2. told[c.id] # None => c.declaration # told[c.id].declaration
        BY <3>1, <3>2 DEF SameDeclaration
      <4>3. /\ ReplayedForGood' /\ DOMAIN told' = Ids
            /\ \A id \in Ids : told'[id] # None =>
                 dirs'[id] # None /\ dirs'[id].metadata = told'[id]
        BY <1>1, <4>1, <4>2, AnswerIsGood DEF BookInv
      <4>4. BookInv'
        BY <1>1, <4>1, <4>3 DEF BookInv
      <4>5. QED  BY <2>2, <2>5, <4>3, <4>4 DEF IInv
    <3>3. CASE SameDeclaration(c)
      <4>1. /\ Answered(c, known) /\ known.declaration = c.declaration
            /\ completed' = [completed EXCEPT ![c.id] = known]
        BY <2>7, <3>3 DEF ReplayCapture, SameDeclaration
      <4>2. dirs'[c.id] # None /\ dirs'[c.id].metadata = known
        BY <2>1, <2>3, <2>4
      <4> HIDE DEF known
      <4>3. /\ ReplayedForGood' /\ DOMAIN told' = Ids
            /\ \A id \in Ids : told'[id] # None =>
                 dirs'[id] # None /\ dirs'[id].metadata = told'[id]
        BY <1>1, <2>1, <3>1, <4>1, <4>2, AnswerIsGood DEF BookInv
      <4>4. BookInv'
        BY <1>1, <2>1, <4>1, <4>2, <4>3 DEF BookInv
      <4>5. QED  BY <2>2, <2>5, <4>3, <4>4 DEF IInv
    <3>4. QED  BY <3>2, <3>3
  <2>8. QED  BY <1>2, <2>6, <2>7
<1>3. CASE BeginCapture(c)
  <2> DEFINE fresh == [stems |-> [s \in Stems |-> None], draft |-> FALSE, metadata |-> None]
  <2>1. fresh \in Directories /\ fresh # None
    <3>1. [s \in Stems |-> None] \in [Stems -> Nat \cup {None}]
      OBVIOUS
    <3>2. fresh \in Directories
      BY <3>1 DEF Directories
    <3>3. QED  BY <3>2, NoneAssumption
  <2>2. /\ dirs' = [dirs EXCEPT ![c.id] = fresh] /\ dirs[c.id] = None
        /\ StartStream(c.declaration) /\ step' = "waiting" /\ current' = c
        /\ UNCHANGED <<completed, told, answer>>
    BY <1>3 DEF BeginCapture
  <2>3. /\ dirs' \in [Ids -> Directories \cup {None}]
        /\ dirs'[c.id] = fresh
        /\ \A id \in Ids \ {c.id} : dirs'[id] = dirs[id]
    BY <1>1, <2>1, <2>2 DEF BookInv
  <2>4. fresh.metadata = None /\ \A s \in Stems : fresh.stems[s] = None
    OBVIOUS
  <2> HIDE DEF fresh
  <2>5. StreamInv' /\ FlowInv'
    <3>1. c.declaration \in Nat
      BY CaptureAssumption DEF Captures
    <3>2. StreamInv'
      BY <1>1, <2>2, <3>1, FreshStream DEF StartStream, StreamInv, StreamTypes
    <3>3. FlowInv'
      BY <2>2, FreshFlow DEF StartStream
    <3>4. QED  BY <3>2, <3>3
  <2>6. BookInv'
    BY <1>1, <2>1, <2>2, <2>3 DEF BookInv
  <2>7. StepInv' /\ StemInv'
    <3>1. stream' = TRUE /\ queue' = <<>> /\ writer' = "running" /\ Len(queue') = 0
      BY <2>2 DEF StartStream
    <3>2. QED  BY <2>1, <2>2, <2>3, <2>4, <3>1 DEF StepInv, StemInv
  <2>8. StemsMatchMetadata'
    <3>1. dirs'[c.id].metadata = None
      BY <2>3, <2>4
    <3>2. \A id \in Ids \ {c.id} :
            dirs'[id] # None /\ dirs'[id].metadata # None =>
              dirs'[id].stems = [s \in Stems |-> dirs'[id].metadata.frames]
      BY <2>3 DEF IInv, StemsMatchMetadata
    <3>3. QED  BY <3>1, <3>2 DEF StemsMatchMetadata
  <2>9. ReplayedForGood'
    BY <2>2 DEF IInv, ReplayedForGood
  <2>10. QED  BY <2>5, <2>6, <2>7, <2>8, <2>9 DEF IInv
<1>4. QED  BY <1>2, <1>3 DEF CaptureMultitrack

LEMMA DeviceInv ==
  ASSUME IInv, Callback \/ DeviceError, UNCHANGED capture
  PROVE  IInv'
<1>1. StreamInv /\ FlowInv /\ StepInv /\ StemInv /\ stream
  BY DEF IInv, Callback, DeviceError
<1>2. /\ step \in {"idle", "waiting", "pausing"} /\ writer # "done"
      /\ UNCHANGED <<stream, writer, tape>>
  BY <1>1 DEF StemInv, StepInv, Callback, DeviceError
<1>3. UNCHANGED <<completed, dirs, told, answer, step, current>>
  BY DEF capture
<1>4. writer = "running" => \A i \in 1 .. Len(queue') : queue'[i] # Marker
  <2> SUFFICES ASSUME writer = "running"
               PROVE  \A i \in 1 .. Len(queue') : queue'[i] # Marker
    OBVIOUS
  <2>1. /\ queue \in Seq(Blocks \cup {Marker}) /\ {heard, target, accepted} \subseteq Nat
        /\ \A i \in 1 .. Len(queue) : queue[i] # Marker
    BY <1>1, <1>2 DEF StemInv, StreamInv, StreamTypes
  <2>2. CASE queue' = queue
    BY <2>1, <2>2
  <2>3. CASE Callback /\ Taken > 0 /\ BlockAccepted
    <3>1. queue' = Append(queue, [number |-> heard + 1, frames |-> Taken])
      BY <2>3 DEF Callback, BlockAccepted
    <3>2. [number |-> heard + 1, frames |-> Taken] \in Blocks
      BY <2>1, <2>3, StreamAssumption, BlockTypes DEF Taken
    <3>3. QED  BY <2>1, <3>1, <3>2, BlockTypes
  <2>4. QED
    BY <2>2, <2>3 DEF Callback, DeviceError, WriterMissing, BlockDropped
<1>5. StreamInv' /\ FlowInv'
  <2>1. CASE Callback
    BY <1>1, <2>1, CallbackInv, CallbackFlow
  <2>2. CASE DeviceError
    BY <1>1, <2>2, DeviceErrorInv
  <2>3. QED  BY <2>1, <2>2
<1>6. StepInv' /\ StemInv'
  BY <1>1, <1>2, <1>3, <1>4 DEF StepInv, StemInv
<1>7. QED  BY <1>3, <1>5, <1>6, BooksStay DEF IInv

LEMMA WriterInv ==
  ASSUME IInv, WriteBlock \/ WriterFails, UNCHANGED capture
  PROVE  IInv'
<1>1. /\ StreamInv /\ FlowInv /\ StepInv /\ StemInv /\ writer = "running"
      /\ queue \in Seq(Blocks \cup {Marker})
      /\ UNCHANGED <<stream, accepted>>
  BY DEF IInv, WriteBlock, WriterFails, StreamInv, StreamTypes
<1>2. UNCHANGED <<completed, dirs, told, answer, step, current>>
  BY DEF capture
<1>3. CASE WriteBlock
  <2>1. StreamInv' /\ FlowInv'
    BY <1>1, <1>3, WriteBlockInv, WriteBlockFlow
  <2>2. ~AtMarker /\ writer' = "running" /\ queue' = Tail(queue) /\ queue # <<>>
    BY <1>3 DEF WriteBlock, AtMarker
  <2>3. Len(queue') = Len(queue) - 1 /\ Len(queue) \in Nat
        /\ \A i \in 1 .. Len(queue') : queue'[i] = queue[i + 1]
    BY <1>1, <2>2
  <2>4. \A i \in 1 .. Len(queue') : queue'[i] = Marker => i = Len(queue') /\ step = "joining"
    BY <1>1, <2>3 DEF StemInv
  <2>5. StepInv' /\ StemInv'
    BY <1>1, <1>2, <2>2, <2>4 DEF StepInv, StemInv
  <2>6. QED  BY <1>2, <2>1, <2>5, BooksStay DEF IInv
<1>4. CASE WriterFails
  <2>1. StreamInv' /\ FlowInv' /\ writer' = "failed"
    BY <1>1, <1>4, WriterEndsInv DEF WriterFails, StreamFault, FlowInv, StreamInv, StreamTypes
  <2>2. StepInv' /\ StemInv'
    BY <1>1, <1>2, <1>4, <2>1 DEF StepInv, StemInv
  <2>3. QED  BY <1>2, <2>1, <2>2, BooksStay DEF IInv
<1>5. QED  BY <1>3, <1>4

LEMMA WaitEndsInv ==
  ASSUME IInv, WaitEnds
  PROVE  IInv'
<1>1. /\ StreamInv /\ FlowInv /\ StepInv /\ StemInv
      /\ step = "waiting" /\ step' = "pausing"
      /\ UNCHANGED <<completed, dirs, current, told, answer, stream, heard, target,
                     accepted, dropped, reported, queue, writer, tape, faults>>
  BY DEF IInv, WaitEnds
<1>2. StreamInv' /\ FlowInv'
  <2>1. StreamInv'
    BY <1>1, StreamStays DEF StreamInv, StreamTypes
  <2>2. FlowInv'
    BY <1>1 DEF FlowInv
  <2>3. QED  BY <2>1, <2>2
<1>3. StepInv' /\ StemInv'
  BY <1>1 DEF StepInv, StemInv
<1>4. QED  BY <1>1, <1>2, <1>3, BooksStay DEF IInv

LEMMA PauseInv ==
  ASSUME IInv, Pause
  PROVE  IInv'
<1>1. /\ StreamInv /\ FlowInv /\ StepInv /\ StemInv
      /\ step = "pausing" /\ step' = "marking" /\ stream' = FALSE /\ faults' \in Nat
      /\ UNCHANGED <<completed, dirs, current, told, answer, heard, target,
                     accepted, dropped, reported, queue, writer, tape>>
  BY DEF IInv, Pause, Silenced, StreamFault, StreamInv, StreamTypes
<1>2. StreamInv' /\ FlowInv'
  <2>1. StreamInv'
    BY <1>1, StreamStays DEF StreamInv, StreamTypes
  <2>2. FlowInv'
    BY <1>1 DEF FlowInv
  <2>3. QED  BY <2>1, <2>2
<1>3. StepInv' /\ StemInv'
  BY <1>1 DEF StepInv, StemInv
<1>4. QED  BY <1>1, <1>2, <1>3, BooksStay DEF IInv

LEMMA MarkEndInv ==
  ASSUME IInv, MarkEnd
  PROVE  IInv'
<1>1. /\ StreamInv /\ FlowInv /\ StepInv /\ StemInv /\ SendMarker
      /\ step = "marking" /\ step' = "joining"
      /\ UNCHANGED <<completed, dirs, current, told, answer, stream, heard, target,
                     accepted, dropped, reported, writer, tape, faults>>
      /\ queue \in Seq(Blocks \cup {Marker})
  BY DEF IInv, MarkEnd, StreamInv, StreamTypes
<1>2. StreamInv' /\ FlowInv'
  BY <1>1, SendMarkerInv, SendMarkerFlow
<1>3. writer' = "running" =>
        \A i \in 1 .. Len(queue') : queue'[i] = Marker => i = Len(queue')
  <2> SUFFICES ASSUME writer = "running", NEW i \in 1 .. Len(queue'), queue'[i] = Marker
               PROVE  i = Len(queue')
    BY <1>1
  <2>1. queue' = Append(queue, Marker)
    BY <1>1 DEF SendMarker
  <2>2. Len(queue') = Len(queue) + 1 /\ Len(queue) \in Nat
        /\ \A j \in 1 .. Len(queue) : queue'[j] = queue[j]
    BY <1>1, <2>1
  <2>3. \A j \in 1 .. Len(queue) : queue[j] # Marker
    BY <1>1 DEF StemInv
  <2>4. QED  BY <2>2, <2>3
<1>4. StepInv'
  BY <1>1 DEF StepInv
<1>5. StemInv'
  BY <1>1, <1>3 DEF StemInv
<1>6. QED  BY <1>1, <1>2, <1>4, <1>5, BooksStay DEF IInv

(***************************************************************************)
(* Work in the directory of a capture that has no metadata yet.            *)
(***************************************************************************)
LEMMA WorkInDirectory ==
  ASSUME IInv, step # "idle", NEW d \in Directories, d.metadata = None,
         dirs' = [dirs EXCEPT ![current.id] = d], UNCHANGED completed,
         (UNCHANGED <<told, answer>>) \/ Answered(current, Refused)
  PROVE  /\ BookInv' /\ StemsMatchMetadata' /\ ReplayedForGood'
         /\ dirs'[current.id] = d /\ d # None
<1>1. /\ current \in Captures /\ current.id \in Ids
      /\ told[current.id] = None /\ completed[current.id] = None
  BY FirstAnswer
<1>2. /\ dirs' \in [Ids -> Directories \cup {None}]
      /\ dirs'[current.id] = d
      /\ \A id \in Ids \ {current.id} : dirs'[id] = dirs[id]
  BY <1>1 DEF IInv, BookInv
<1>3. d # None
  BY NoneAssumption
<1>4. \A id \in Ids : told[id] # None => dirs'[id] # None /\ dirs'[id].metadata = told[id]
  BY <1>1, <1>2 DEF IInv, BookInv
<1>5. /\ ReplayedForGood' /\ DOMAIN told' = Ids
      /\ \A id \in Ids : told'[id] # None =>
           dirs'[id] # None /\ dirs'[id].metadata = told'[id]
  <2>1. CASE UNCHANGED <<told, answer>>
    BY <1>4, <2>1 DEF IInv, BookInv, ReplayedForGood
  <2>2. CASE Answered(current, Refused)
    BY <1>1, <1>4, <2>2, AnswerIsGood DEF IInv, BookInv
  <2>3. QED  BY <2>1, <2>2
<1>6. BookInv'
  BY <1>1, <1>2, <1>5 DEF IInv, BookInv
<1>7. StemsMatchMetadata'
  <2>1. \A id \in Ids \ {current.id} :
          dirs'[id] # None /\ dirs'[id].metadata # None =>
            dirs'[id].stems = [s \in Stems |-> dirs'[id].metadata.frames]
    <3>1. StemsMatchMetadata
      BY DEF IInv
    <3>2. SUFFICES ASSUME NEW id \in Ids \ {current.id}, dirs'[id] # None,
                          dirs'[id].metadata # None
                   PROVE  dirs'[id].stems = [s \in Stems |-> dirs'[id].metadata.frames]
      OBVIOUS
    <3>3. dirs'[id] = dirs[id]
      BY <1>2
    <3>4. dirs[id].stems = [s \in Stems |-> dirs[id].metadata.frames]
      BY <3>1, <3>2, <3>3 DEF StemsMatchMetadata
    <3>5. QED  BY <3>3, <3>4
  <2>2. QED  BY <1>2, <2>1 DEF StemsMatchMetadata
<1>8. QED  BY <1>2, <1>3, <1>5, <1>6, <1>7

(***************************************************************************)
(* At the marker nothing else is queued, and all that was accepted is in   *)
(* the file.                                                               *)
(***************************************************************************)
LEMMA MarkerIsLast ==
  ASSUME IInv, AtMarker
  PROVE  step = "joining" /\ Frames(tape) = accepted /\ accepted \in Nat
<1>1. /\ StreamInv /\ FlowInv /\ StemInv /\ accepted \in Nat /\ writer = "running"
      /\ queue \in Seq(Blocks \cup {Marker}) /\ queue # <<>> /\ Head(queue) = Marker
  BY DEF IInv, AtMarker, StreamInv, StreamTypes
<1>2. Len(queue) \in Nat /\ 1 \in 1 .. Len(queue) /\ queue[1] = Marker
  BY <1>1
<1>3. Len(queue) = 1 /\ step = "joining"
  BY <1>1, <1>2 DEF StemInv
<1>4. QED  BY <1>1, <1>3, AllWritten

LEMMA FinishStemInv ==
  ASSUME IInv, FinishStem
  PROVE  IInv'
<1>1. /\ StreamInv /\ FlowInv /\ BookInv /\ StepInv /\ StemInv /\ AtMarker
      /\ writer = "running" /\ faults \in Nat
      /\ UNCHANGED <<completed, step, current, told, answer, stream, heard,
                     target, accepted, dropped, reported, tape, faults>>
  BY DEF IInv, FinishStem, AtMarker, StreamInv, StreamTypes
<1>2. step = "joining" /\ Frames(tape) = accepted /\ accepted \in Nat
  BY <1>1, MarkerIsLast
<1>3. ASSUME NEW s \in Unfinished,
             dirs' = [dirs EXCEPT ![current.id].stems[s] = Frames(tape)],
             UNCHANGED <<queue, writer>>
      PROVE  IInv'
  <2> DEFINE old == dirs[current.id]
             d == [old EXCEPT !.stems[s] = accepted]
  <2>1. current.id \in Ids /\ old \in Directories /\ old.metadata = None /\ s \in Stems
    BY <1>1, <1>2 DEF StepInv, BookInv, Captures, Unfinished
  <2>2. /\ d \in Directories /\ d.metadata = None /\ d.stems[s] = accepted
        /\ \A r \in Stems \ {s} : d.stems[r] = old.stems[r]
    BY <1>2, <2>1 DEF Directories
  <2>3. dirs' = [dirs EXCEPT ![current.id] = d]
    BY <1>2, <1>3
  <2> HIDE DEF d
  <2>4. /\ BookInv' /\ StemsMatchMetadata' /\ ReplayedForGood'
        /\ dirs'[current.id] = d /\ d # None
    BY <1>1, <1>2, <2>2, <2>3, WorkInDirectory
  <2>5. StreamInv' /\ FlowInv'
    BY <1>1, <1>3, StreamStays DEF FlowInv, StreamInv, StreamTypes
  <2>6. StepInv'
    BY <1>1, <2>2, <2>4 DEF StepInv
  <2>7. StemInv'
    <3>1. AtMarker'
      BY <1>1, <1>3 DEF AtMarker
    <3>2. \A r \in Stems : dirs'[current'.id].stems[r] # None => Finished(r)'
      BY <1>1, <1>2, <2>2, <2>4 DEF StemInv, Finished
    <3>3. QED  BY <1>1, <1>2, <1>3, <3>1, <3>2 DEF StemInv
  <2>8. QED  BY <2>4, <2>5, <2>6, <2>7 DEF IInv
<1>4. ASSUME queue' = <<>>, writer' = "failed", UNCHANGED dirs
      PROVE  IInv'
  <2>1. StreamInv'
    BY <1>1, <1>4, WriterEndsInv
  <2>2. FlowInv'
    BY <1>4 DEF FlowInv
  <2>3. StepInv' /\ StemInv'
    BY <1>1, <1>2, <1>4 DEF StepInv, StemInv
  <2>4. QED  BY <1>1, <1>4, <2>1, <2>2, <2>3, BooksStay DEF IInv
<1>5. QED  BY <1>3, <1>4 DEF FinishStem

LEMMA WriterEndsGood ==
  ASSUME IInv, WriterEnds
  PROVE  IInv'
<1>1. /\ StreamInv /\ StepInv /\ StemInv /\ AtMarker /\ Unfinished = {}
      /\ writer = "running" /\ faults \in Nat /\ queue' = <<>> /\ writer' = "done"
      /\ UNCHANGED <<completed, dirs, step, current, told, answer, stream, heard,
                     target, accepted, dropped, reported, tape, faults>>
  BY DEF IInv, WriterEnds, AtMarker, StreamInv, StreamTypes, capture
<1>2. step = "joining" /\ Frames(tape) = accepted
  BY <1>1, MarkerIsLast
<1>3. StreamInv' /\ FlowInv'
  <2>1. StreamInv'
    BY <1>1, WriterEndsInv
  <2>2. QED  BY <1>1, <2>1 DEF FlowInv
<1>4. \A s \in Stems : Finished(s)
  BY <1>1, <1>2 DEF StemInv, Unfinished
<1>5. StepInv' /\ StemInv'
  <2>1. Frames(tape') = accepted' /\ \A s \in Stems : Finished(s)'
    BY <1>1, <1>2, <1>4 DEF Finished
  <2>2. QED  BY <1>1, <1>2, <2>1 DEF StepInv, StemInv
<1>6. QED  BY <1>1, <1>3, <1>5, BooksStay DEF IInv

LEMMA JoinInv ==
  ASSUME IInv, Join
  PROVE  IInv'
<1>1. /\ StreamInv /\ StepInv /\ StemInv /\ WriterGone /\ step = "joining"
      /\ stream = FALSE /\ writer' = "none"
      /\ UNCHANGED <<completed, dirs, stream, heard, target, accepted, dropped,
                     reported, queue, tape, faults>>
  BY DEF IInv, Join, StemInv, StreamInv, StreamTypes
<1>2. StreamInv' /\ FlowInv'
  <2>1. StreamInv'
    BY <1>1, JoinedStream
  <2>2. QED  BY <1>1, <2>1 DEF FlowInv
<1>3. CASE writer = "done"
  <2>1. step' = "describing" /\ UNCHANGED <<current, told, answer>>
    BY <1>3 DEF Join
  <2>2. Frames(tape) = accepted /\ \A s \in Stems : Finished(s)
    BY <1>1, <1>3 DEF StemInv
  <2>3. Frames(tape') = accepted' /\ \A s \in Stems : Finished(s)'
    BY <1>1, <2>1, <2>2 DEF Finished
  <2>4. StepInv' /\ StemInv'
    BY <1>1, <2>1, <2>3 DEF StepInv, StemInv
  <2>5. QED  BY <1>1, <1>2, <2>1, <2>4, BooksStay DEF IInv
<1>4. CASE writer # "done"
  <2>1. step' = "idle" /\ Answered(current, Refused)
    BY <1>4 DEF Join, GiveUp
  <2>2. StepInv' /\ StemInv'
    BY <1>1, <2>1 DEF StepInv, StemInv
  <2>3. BookInv' /\ StemsMatchMetadata' /\ ReplayedForGood'
    BY <1>1, <2>1, FirstAnswer, RefusedBooks
  <2>4. QED  BY <1>2, <2>2, <2>3 DEF IInv
<1>5. QED  BY <1>3, <1>4

LEMMA WriteMetadataInv ==
  ASSUME IInv, WriteMetadata
  PROVE  IInv'
<1> DEFINE old == dirs[current.id]
           d == [old EXCEPT !.draft = TRUE]
<1>1. /\ StreamInv /\ FlowInv /\ BookInv /\ StepInv /\ StemInv
      /\ step = "describing" /\ writer = "none"
      /\ UNCHANGED <<completed, streamVars>>
      /\ dirs' = [dirs EXCEPT ![current.id] = d]
  BY DEF IInv, WriteMetadata, StemInv
<1>2. current.id \in Ids /\ old \in Directories /\ old.metadata = None
  BY <1>1 DEF StepInv, BookInv, Captures
<1>3. d \in Directories /\ d.metadata = None /\ d.stems = old.stems
  BY <1>2 DEF Directories
<1> HIDE DEF d
<1>4. \/ step' = "publishing" /\ UNCHANGED <<current, told, answer>>
      \/ step' = "idle" /\ Answered(current, Refused)
  BY DEF WriteMetadata, GiveUp
<1>5. /\ BookInv' /\ StemsMatchMetadata' /\ ReplayedForGood'
      /\ dirs'[current.id] = d /\ d # None
  BY <1>1, <1>3, <1>4, WorkInDirectory
<1>6. StreamInv' /\ FlowInv'
  BY <1>1, StreamSame
<1>7. StepInv' /\ StemInv'
  <2>1. UNCHANGED <<stream, writer, tape, accepted>>
    BY <1>1 DEF streamVars
  <2>2. CASE step' = "publishing" /\ UNCHANGED current
    <3>1. Frames(tape) = accepted /\ \A s \in Stems : old.stems[s] = accepted
      BY <1>1 DEF StemInv, Finished
    <3>2. Frames(tape') = accepted' /\ \A s \in Stems : Finished(s)'
      BY <1>3, <1>5, <2>1, <2>2, <3>1 DEF Finished
    <3>3. QED  BY <1>1, <1>3, <1>5, <2>1, <2>2, <3>2 DEF StepInv, StemInv
  <2>3. CASE step' = "idle"
    BY <1>1, <2>1, <2>3 DEF StepInv, StemInv
  <2>4. QED  BY <1>4, <2>2, <2>3
<1>8. QED  BY <1>5, <1>6, <1>7 DEF IInv

LEMMA PublishMetadataInv ==
  ASSUME IInv, PublishMetadata
  PROVE  IInv'
<1> DEFINE id == current.id
           old == dirs[id]
           d == [old EXCEPT !.draft = FALSE, !.metadata = Described]
<1>1. /\ StreamInv /\ FlowInv /\ BookInv /\ StepInv /\ StemInv
      /\ step = "publishing" /\ step' = "idle" /\ writer = "none" /\ accepted \in Nat
      /\ UNCHANGED streamVars
  BY DEF IInv, PublishMetadata, GiveUp, StemInv, StreamInv, StreamTypes
<1>2. /\ current \in Captures /\ id \in Ids /\ told[id] = None
      /\ old \in Directories
  <2>1. current \in Captures /\ id \in Ids /\ told[id] = None /\ old # None
    BY <1>1, FirstAnswer DEF StepInv
  <2>2. QED  BY <1>1, <2>1 DEF BookInv
<1>3. StreamInv' /\ FlowInv'
  BY <1>1, StreamSame
<1>4. StepInv' /\ StemInv'
  BY <1>1 DEF streamVars, StepInv, StemInv
<1>5. CASE Answered(current, Refused) /\ UNCHANGED <<dirs, completed>>
  <2>1. BookInv' /\ StemsMatchMetadata' /\ ReplayedForGood'
    BY <1>2, <1>5, RefusedBooks
  <2>2. QED  BY <1>3, <1>4, <2>1 DEF IInv
<1>6. ASSUME dirs' = [dirs EXCEPT ![current.id].draft = FALSE,
                                  ![current.id].metadata = Described],
             completed' = [completed EXCEPT ![id] = Described],
             Answered(current, Described)
      PROVE  IInv'
  <2>1. /\ Described \in Metadata /\ Described.frames = accepted
        /\ Described.declaration = current.declaration
    BY <1>1, <1>2 DEF Described, Metadata, Captures
  <2>2. Described # None
    BY <2>1, NoneAssumption
  <2>3. d \in Directories /\ d.metadata = Described /\ d.stems = old.stems
    BY <1>2, <2>1 DEF Directories
  <2>4. dirs' = [dirs EXCEPT ![id] = d]
    BY <1>1, <1>2, <1>6 DEF BookInv
  <2>5. old.stems = [s \in Stems |-> accepted]
    <3>1. \A s \in Stems : old.stems[s] = accepted
      BY <1>1 DEF StemInv, Finished
    <3>2. old.stems \in [Stems -> Nat \cup {None}]
      BY <1>2 DEF Directories
    <3>3. QED  BY <3>1, <3>2
  <2> HIDE DEF d, old
  <2>6. /\ dirs' \in [Ids -> Directories \cup {None}]
        /\ dirs'[id] = d /\ d # None
        /\ \A i \in Ids \ {id} : dirs'[i] = dirs[i]
    BY <1>1, <1>2, <2>3, <2>4, NoneAssumption DEF BookInv
  <2> HIDE DEF id
  <2>7. \A i \in Ids : told[i] # None => dirs'[i] # None /\ dirs'[i].metadata = told[i]
    BY <1>1, <1>2, <2>6 DEF BookInv
  <2>8. /\ ReplayedForGood' /\ DOMAIN told' = Ids
        /\ \A i \in Ids : told'[i] # None =>
             dirs'[i] # None /\ dirs'[i].metadata = told'[i]
    BY <1>1, <1>2, <1>6, <2>1, <2>3, <2>6, <2>7, AnswerIsGood DEF BookInv, id
  <2>9. BookInv'
    <3>1. DOMAIN completed' = Ids /\ completed'[id] = Described
      BY <1>1, <1>2, <1>6 DEF BookInv
    <3>2. \A i \in Ids \ {id} : completed'[i] = completed[i]
      BY <1>1, <1>6 DEF BookInv
    <3>3. \A i \in Ids : completed'[i] # None =>
            dirs'[i] # None /\ dirs'[i].metadata = completed'[i]
      BY <1>1, <2>3, <2>6, <3>1, <3>2 DEF BookInv
    <3>4. QED  BY <2>6, <2>8, <3>1, <3>3 DEF BookInv
  <2>10. StemsMatchMetadata'
    <3>1. \A i \in Ids \ {id} :
            dirs'[i] # None /\ dirs'[i].metadata # None =>
              dirs'[i].stems = [s \in Stems |-> dirs'[i].metadata.frames]
      <4>1. StemsMatchMetadata
        BY DEF IInv
      <4>2. QED  BY <2>6, <4>1, Zenon DEF StemsMatchMetadata
    <3>2. dirs'[id].stems = [s \in Stems |-> dirs'[id].metadata.frames]
      BY <2>1, <2>3, <2>5, <2>6
    <3>3. QED  BY <3>1, <3>2 DEF StemsMatchMetadata
  <2>11. QED  BY <1>3, <1>4, <2>8, <2>9, <2>10 DEF IInv
<1>7. QED  BY <1>5, <1>6 DEF PublishMetadata

LEMMA CrashInv ==
  ASSUME IInv, Crash
  PROVE  IInv'
<1>1. /\ StreamInv /\ BookInv /\ StreamDies /\ step' = "idle"
      /\ completed' = [id \in Ids |-> None] /\ answer' = None
      /\ UNCHANGED <<dirs, told>>
  BY DEF IInv, Crash, GiveUp
<1>2. StreamInv' /\ FlowInv'
  <2>1. StreamInv'
    BY <1>1, FreshStream DEF StreamDies, StreamInv, StreamTypes
  <2>2. QED  BY <1>1, <2>1, FreshFlow DEF StreamDies
<1>3. StepInv' /\ StemInv'
  BY <1>1 DEF StepInv, StemInv, StreamDies
<1>4. BookInv'
  BY <1>1 DEF BookInv
<1>5. StemsMatchMetadata' /\ ReplayedForGood'
  BY <1>1 DEF IInv, StemsMatchMetadata, ReplayedForGood
<1>6. QED  BY <1>2, <1>3, <1>4, <1>5 DEF IInv

LEMMA StutterInv ==
  ASSUME IInv, UNCHANGED vars
  PROVE  IInv'
<1>1. /\ StreamInv /\ FlowInv /\ StepInv /\ StemInv /\ UNCHANGED streamVars
      /\ UNCHANGED <<completed, dirs, step, current, told, answer>>
  BY DEF IInv, vars, capture
<1>2. StreamInv' /\ FlowInv'
  BY <1>1, StreamSame
<1>3. StepInv' /\ StemInv'
  BY <1>1 DEF streamVars, StepInv, StemInv, Finished, AtMarker
<1>4. QED  BY <1>1, <1>2, <1>3, BooksStay DEF IInv

LEMMA NextInv == IInv /\ [Next]_vars => IInv'
<1> SUFFICES ASSUME IInv, [Next]_vars  PROVE  IInv'
  OBVIOUS
<1>1. CASE \E c \in Captures : CaptureMultitrack(c)
  BY <1>1, RequestInv
<1>2. CASE Proceed
  BY <1>2, WaitEndsInv, PauseInv, MarkEndInv, JoinInv, WriteMetadataInv,
     PublishMetadataInv DEF Proceed
<1>3. CASE Device
  BY <1>3, DeviceInv DEF Device
<1>4. CASE Writer
  BY <1>4, WriterInv, FinishStemInv, WriterEndsGood DEF Writer
<1>5. CASE Crash
  BY <1>5, CrashInv
<1>6. CASE UNCHANGED vars
  BY <1>6, StutterInv
<1>7. QED  BY <1>1, <1>2, <1>3, <1>4, <1>5, <1>6 DEF Next

LEMMA Invariant == Spec => []IInv
<1>1. QED  BY InitInv, NextInv, PTL DEF Spec

-----------------------------------------------------------------------------
(***************************************************************************)
(* recording.json is true of its stems: whatever blocks were dropped and   *)
(* whichever step failed or was cut off by a crash, beside a published     *)
(* recording.json every stem is finished and as long as it says.           *)
(***************************************************************************)
THEOREM StemsMatch == Spec => []StemsMatchMetadata
<1>1. IInv => StemsMatchMetadata
  BY DEF IInv
<1>2. QED  BY <1>1, Invariant, PTL

(***************************************************************************)
(* Asking for a capture again never yields another answer than the first,  *)
(* nor one for another declaration, however often the daemon restarts.     *)
(***************************************************************************)
THEOREM ReplaysForGood == Spec => []ReplayedForGood
<1>1. IInv => ReplayedForGood
  BY DEF IInv
<1>2. QED  BY <1>1, Invariant, PTL

(***************************************************************************)
(* A capture is only called completed when its stems hold the stretch that *)
(* was asked for: no callback is missing in it, and nothing is missing     *)
(* that the callback thread counted as accepted.                           *)
(***************************************************************************)
LEMMA PublishedAsCompleted ==
  ASSUME IInv, PublishMetadata, NEW id \in Ids,
         completed[id] = None, completed'[id] # None, completed'[id].status = "completed"
  PROVE  Gapless(tape) /\ Frames(tape) = completed'[id].declaration
<1>1. /\ StreamInv /\ StemInv /\ step = "publishing" /\ dropped \in Nat
      /\ DOMAIN completed = Ids /\ Frames(tape) = accepted
  BY DEF IInv, PublishMetadata, BookInv, StepInv, StemInv, StreamInv, StreamTypes
<1>2. completed' = [completed EXCEPT ![current.id] = Described]
  BY DEF PublishMetadata
<1>3. completed'[id] = Described
  BY <1>1, <1>2
<1>4. /\ accepted = current.declaration /\ ~(dropped > 0)
      /\ completed'[id].declaration = current.declaration
  BY <1>3 DEF Described
<1>5. dropped = 0
  BY <1>1, <1>4
<1>6. QED  BY <1>1, <1>4, <1>5, ChainIsGapless

THEOREM CompletedCapturesAreGapless == Spec => CompletedIsGapless
<1>1. ASSUME IInv, [Next]_vars, NEW id \in Ids,
             completed[id] = None, completed'[id] # None, step = "publishing",
             completed'[id].status = "completed"
      PROVE  Gapless(tape) /\ Frames(tape) = completed'[id].declaration
  <2>1. completed' # completed
    BY <1>1
  <2>2. ~Crash
    BY <1>1 DEF Crash
  <2>3. ~(\E c \in Captures : CaptureMultitrack(c))
    BY <1>1 DEF CaptureMultitrack
  <2>4. ~Device
    BY <2>1 DEF Device, capture
  <2>5. ~Writer
    BY <2>1 DEF Writer, FinishStem, WriterEnds, capture
  <2>6. PublishMetadata
    BY <1>1, <2>1, <2>2, <2>3, <2>4, <2>5
       DEF Next, Proceed, WaitEnds, Pause, MarkEnd, Join, WriteMetadata, vars, capture
  <2>7. QED  BY <1>1, <2>6, PublishedAsCompleted
<1>2. IInv /\ [Next]_vars =>
        [\A id \in Ids :
           completed[id] = None /\ completed'[id] # None /\ step = "publishing"
             /\ completed'[id].status = "completed"
           => Gapless(tape) /\ Frames(tape) = completed'[id].declaration]_completed
  BY <1>1
<1>3. QED  BY <1>2, Invariant, PTL DEF Spec, CompletedIsGapless

-----------------------------------------------------------------------------
(***************************************************************************)
(* The choice of the device and of its stream configuration: what the      *)
(* inventory names is what select_overbridge_input opens.                  *)
(***************************************************************************)

(***************************************************************************)
(* Devices, with any number of configurations, and those inspect_provider  *)
(* calls available.                                                        *)
(***************************************************************************)
Devices ==
  [matches: BOOLEAN, readable: BOOLEAN, configurations: Seq(Configurations)]

Available(device) == device.matches /\ device.readable /\ HasUsable(device)

(***************************************************************************)
(* A nonempty set of naturals has a least element: the first index that    *)
(* passes a test.                                                          *)
(***************************************************************************)
LEMMA LeastNatural ==
  ASSUME NEW S \in SUBSET Nat, S # {}
  PROVE  \E x \in S : \A y \in S : x <= y
<1>1. PICK x \in S : \A y \in S : ~ (<<y, x>> \in OpToRel(<, Nat))
  BY WFMin, NatLessThanWellFounded, Zenon
<1>2. \A y \in S : ~ (y < x)
  BY <1>1, Zenon DEF OpToRel
<1>3. QED  BY <1>2

(***************************************************************************)
(* The two scores are one: a rate other than the preferred one is only     *)
(* opened where the preferred one is not supported.                        *)
(***************************************************************************)
LEMMA ScoresAgree ==
  ASSUME NEW c \in Configurations
  PROVE  SelectionScore(c) = ConfigurationScore(c)
<1>1. c.min <= c.max /\ c.min \in Nat /\ c.max \in Nat
  BY SelectionAssumption DEF Configurations
<1>2. (RateOf(c) = PreferredRate) <=> SupportsPreferredRate(c)
  BY <1>1, SelectionAssumption DEF RateOf, SupportsPreferredRate
<1>3. QED
  BY <1>2 DEF SelectionScore, ConfigurationScore, Bit

(***************************************************************************)
(* For every sequence of devices, each with any configurations, the two    *)
(* searches choose the same device, configuration and sample rate, when    *)
(* every matching device that cannot be read has an available one before   *)
(* it.                                                                     *)
(***************************************************************************)
THEOREM SelectionsAgree ==
  ASSUME NEW devices \in Seq(Devices),
         \A i \in DOMAIN devices :
           devices[i].matches /\ ~devices[i].readable =>
             \E j \in 1 .. i - 1 : Available(devices[j])
  PROVE  SelectedDeviceSummary(devices) = SelectOverbridgeInput(devices)
<1> DEFINE I == {i \in 1 .. Len(devices) : Available(devices[i])}
           J == {i \in 1 .. Len(devices) : devices[i].matches
                   /\ (~devices[i].readable \/ HasUsable(devices[i]))}
           d == IF I # {} THEN Min(I) ELSE 0
           found == devices[d].configurations
<1>1. SelectInSeq(devices, LAMBDA e : e.matches /\ e.readable /\ HasUsable(e)) = d
  BY DEF SelectInSeq, Available
<1>2. SelectInSeq(devices, LAMBDA e : e.matches /\ (~e.readable \/ HasUsable(e)))
        = IF J # {} THEN Min(J) ELSE 0
  BY DEF SelectInSeq
<1>3. Len(devices) \in Nat /\ DOMAIN devices = 1 .. Len(devices)
  OBVIOUS
<1>4. I \subseteq J
  BY DEF Available
<1>5. \A j \in J \ I : \E i \in I : i < j
  BY <1>3 DEF Available
<1>6. {i \in I : \A j \in I : i <= j} = {i \in J : \A j \in J : i <= j}
  BY <1>3, <1>4, <1>5
<1>7. (I = {}) <=> (J = {})
  BY <1>4, <1>5
<1>8. Min(I) = Min(J)
  <2>1. ASSUME NEW x
        PROVE  (x \in I /\ \A y \in I : x <= y) <=> (x \in J /\ \A y \in J : x <= y)
    BY <1>6, Zenon
  <2> HIDE DEF I, J
  <2>2. Min(I) = CHOOSE x : x \in I /\ \A y \in I : x <= y
    BY DEF Min
  <2>3. Min(J) = CHOOSE x : x \in J /\ \A y \in J : x <= y
    BY DEF Min
  <2>4. QED  BY <2>1, <2>2, <2>3
<1>9. SelectedDeviceSummary(devices) =
        IF d = 0 THEN Unavailable
        ELSE Choice(d, found, [i \in DOMAIN found |-> ConfigurationScore(found[i])])
  BY <1>1 DEF SelectedDeviceSummary
<1>10. SelectOverbridgeInput(devices) =
         IF d = 0 \/ ~devices[d].readable THEN Unavailable
         ELSE Choice(d, found, [i \in DOMAIN found |-> SelectionScore(found[i])])
  BY <1>2, <1>7, <1>8, Zenon DEF SelectOverbridgeInput
<1>11. CASE I = {}
  BY <1>9, <1>10, <1>11
<1>12. CASE I # {}
  <2>1. d \in I
    <3>1. I \in SUBSET Nat
      OBVIOUS
    <3> HIDE DEF I
    <3>2. \E i \in I : \A j \in I : i <= j
      BY <1>12, <3>1, LeastNatural
    <3>3. QED  BY <1>12, <3>2 DEF Min
  <2>2. d \in 1 .. Len(devices) /\ Available(devices[d]) /\ devices[d] \in Devices
    BY <1>3, <2>1
  <2>3. d # 0 /\ devices[d].readable /\ found \in Seq(Configurations)
    <3>1. d # 0 /\ devices[d].readable
      BY <2>2 DEF Available
    <3>2. \A e \in Devices : e.configurations \in Seq(Configurations)
      BY DEF Devices
    <3>3. QED  BY <2>2, <3>1, <3>2
  <2>4. [i \in DOMAIN found |-> ConfigurationScore(found[i])]
          = [i \in DOMAIN found |-> SelectionScore(found[i])]
    <3>1. \A i \in DOMAIN found : found[i] \in Configurations
      BY <2>3
    <3>2. \A i \in DOMAIN found : ConfigurationScore(found[i]) = SelectionScore(found[i])
      BY <3>1, ScoresAgree
    <3> HIDE DEF found
    <3>3. QED  BY <3>2
  <2>5. QED  BY <1>9, <1>10, <2>3, <2>4
<1>13. QED  BY <1>11, <1>12

(***************************************************************************)
(* In particular for the devices of SummaryAgrees.                         *)
(***************************************************************************)
LEMMA SummaryAlwaysAgrees == SummaryAgrees
<1> SUFFICES ASSUME NEW first \in Configurations, NEW second \in Configurations,
                    NEW matches \in BOOLEAN, NEW readable \in BOOLEAN,
                    ~ (matches /\ ~readable)
             PROVE  LET devices ==
                          <<[matches |-> matches, readable |-> readable, configurations |-> <<first>>],
                            [matches |-> TRUE, readable |-> TRUE, configurations |-> <<first, second>>]>>
                    IN  SelectedDeviceSummary(devices) = SelectOverbridgeInput(devices)
  BY DEF SummaryAgrees
<1> DEFINE devices ==
             <<[matches |-> matches, readable |-> readable, configurations |-> <<first>>],
               [matches |-> TRUE, readable |-> TRUE, configurations |-> <<first, second>>]>>
<1>1. devices \in Seq(Devices)
  BY DEF Devices
<1>2. \A i \in DOMAIN devices : ~ (devices[i].matches /\ ~devices[i].readable)
  OBVIOUS
<1> HIDE DEF devices
<1>3. SelectedDeviceSummary(devices) = SelectOverbridgeInput(devices)
  BY <1>1, <1>2, SelectionsAgree
<1>4. QED  BY <1>3 DEF devices
(***************************************************************************)
(* Inspection names what a capture opens, whenever a capture may start.    *)
(***************************************************************************)
THEOREM InspectionNamesOpened == Spec => []SummaryNamesOpened
<1>1. SummaryNamesOpened
  BY SummaryAlwaysAgrees DEF SummaryNamesOpened
<1>2. QED  BY <1>1, PTL
=============================================================================
