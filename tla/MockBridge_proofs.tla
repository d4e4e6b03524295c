-------------------------- MODULE MockBridge_proofs --------------------------
(***************************************************************************)
(* What holds of the mock bridge for any operations, any tracks and steps, *)
(* any transport and any number of requests. The record of the bridge is   *)
(* one value, so that the invariant is a formula of a record and is kept   *)
(* by each function of one; the loops over the sets and over the steps are *)
(* recursive functions, and each fact about them is proved at the first    *)
(* element that would break it.                                            *)
(***************************************************************************)
EXTENDS MockBridge, WellFoundedInduction, TLAPS

(***************************************************************************)
(* A non-empty set of numbers has a least one.                             *)
(***************************************************************************)
LEMMA HasFirst ==
  ASSUME NEW T \in SUBSET Nat, T # {}
  PROVE  \E n \in T : \A m \in T : n <= m
<1>1. PICK n \in T : \A m \in T : ~ (<<m, n>> \in OpToRel(<, Nat))
  BY WFMin, NatLessThanWellFounded, Zenon
<1>2. \A m \in T : ~ (m < n)
  BY <1>1, Zenon DEF OpToRel
<1>3. QED  BY <1>2

(***************************************************************************)
(* Replay and the two loops of the bridge are recursive functions. f lists *)
(* what the journal says after each of its events.                         *)
(***************************************************************************)
Readings(f, events, sets, last) ==
  f = [n \in 0 .. last |->
         IF n = 0 THEN Unwritten ELSE Replayed(f[n - 1], events[n], sets)]

LEMMA ReadingsExist ==
  ASSUME NEW events, NEW sets, NEW last \in Nat
  PROVE  \E f : Readings(f, events, sets, last)
<1> SUFFICES ASSUME \A f : ~Readings(f, events, sets, last)
             PROVE  FALSE
  OBVIOUS
<1> DEFINE T == {n \in Nat : \A f : ~Readings(f, events, sets, n)}
<1>1. PICK n \in T : \A m \in T : n <= m
  BY HasFirst
<1>2. n \in Nat /\ \A f : ~Readings(f, events, sets, n)
  OBVIOUS
<1>3. n # 0
  <2>1. Readings([m \in 0 .. 0 |-> Unwritten], events, sets, 0)
    BY DEF Readings
  <2>2. QED  BY <1>2, <2>1
<1>4. n - 1 \in Nat /\ n - 1 \notin T
  BY <1>1, <1>2, <1>3
<1>5. PICK f : Readings(f, events, sets, n - 1)
  BY <1>4
<1> DEFINE g == [m \in 0 .. n |->
                   IF m = n THEN Replayed(f[n - 1], events[n], sets) ELSE f[m]]
<1>6. Readings(g, events, sets, n)
  <2>1. \A m \in 0 .. n - 1 : g[m] = f[m]
    BY <1>2
  <2>2. \A m \in 0 .. n - 1 :
          f[m] = IF m = 0 THEN Unwritten ELSE Replayed(f[m - 1], events[m], sets)
    BY <1>5 DEF Readings
  <2>3. ASSUME NEW m \in 0 .. n
        PROVE  g[m] = IF m = 0 THEN Unwritten ELSE Replayed(g[m - 1], events[m], sets)
    <3>1. CASE m = n
      <4>1. g[n] = Replayed(f[n - 1], events[n], sets) /\ g[n - 1] = f[n - 1]
        BY <1>2, <1>4, <2>1
      <4>2. QED  BY <1>3, <3>1, <4>1
    <3>2. CASE m = 0
      BY <1>3, <1>4, <2>1, <2>2, <3>2
    <3>3. CASE m \in 1 .. n - 1
      <4>1. m - 1 \in 0 .. n - 1 /\ m \in 0 .. n - 1 /\ m # 0
        BY <1>4, <3>3
      <4>2. QED  BY <2>1, <2>2, <4>1
    <3>4. QED  BY <1>4, <3>1, <3>2, <3>3
  <2>4. g = [m \in 0 .. n |-> g[m]]
    OBVIOUS
  <2> HIDE DEF g
  <2>5. [m \in 0 .. n |-> g[m]] =
          [m \in 0 .. n |-> IF m = 0 THEN Unwritten ELSE Replayed(g[m - 1], events[m], sets)]
    BY <2>3
  <2>6. QED  BY <2>4, <2>5 DEF Readings
<1> HIDE DEF g
<1>7. QED  BY <1>2, <1>6

LEMMA ReplayIs ==
  ASSUME NEW events, NEW sets, Len(events) \in Nat
  PROVE  \E f : Readings(f, events, sets, Len(events)) /\ Replay(events, sets) = f[Len(events)]
<1> DEFINE f == CHOOSE g : g =
      [n \in 0 .. Len(events) |->
         IF n = 0 THEN Unwritten ELSE Replayed(g[n - 1], events[n], sets)]
<1>1. \E g : Readings(g, events, sets, Len(events))
  BY ReadingsExist
<1>2. f = [n \in 0 .. Len(events) |->
             IF n = 0 THEN Unwritten ELSE Replayed(f[n - 1], events[n], sets)]
  BY <1>1, Zenon DEF Readings
<1>3. Replay(events, sets) = f[Len(events)]
  BY DEF Replay
<1> HIDE DEF f
<1>4. QED  BY <1>2, <1>3 DEF Readings

(***************************************************************************)
(* The first events of a, read with s, do what those of b do, read with t. *)
(***************************************************************************)
ReadAlike(a, s, b, t, last) ==
  \A n \in 1 .. last : \A r : Replayed(r, a[n], s) = Replayed(r, b[n], t)

LEMMA SameReadings ==
  ASSUME NEW a, NEW b, NEW s, NEW t, NEW j \in Nat, NEW k \in Nat, NEW f, NEW g,
         Readings(f, a, s, j), Readings(g, b, t, k), NEW last \in Nat, last <= j, last <= k,
         ReadAlike(a, s, b, t, last)
  PROVE  f[last] = g[last]
<1> SUFFICES ASSUME f[last] # g[last]  PROVE  FALSE
  OBVIOUS
<1> DEFINE T == {n \in Nat : n <= last /\ f[n] # g[n]}
<1>1. PICK n \in T : \A m \in T : n <= m
  <2>1. last \in T /\ T \in SUBSET Nat
    OBVIOUS
  <2>2. QED  BY <2>1, HasFirst
<1>2. n \in Nat /\ n <= last /\ f[n] # g[n]
  OBVIOUS
<1>3. /\ f[n] = IF n = 0 THEN Unwritten ELSE Replayed(f[n - 1], a[n], s)
      /\ g[n] = IF n = 0 THEN Unwritten ELSE Replayed(g[n - 1], b[n], t)
  <2>1. n \in 0 .. j /\ n \in 0 .. k
    BY <1>2
  <2>2. QED  BY <2>1 DEF Readings
<1>4. n # 0
  BY <1>2, <1>3
<1>5. f[n - 1] = g[n - 1]
  BY <1>1, <1>2, <1>4
<1>6. Replayed(f[n - 1], a[n], s) = Replayed(f[n - 1], b[n], t)
  BY <1>2, <1>4 DEF ReadAlike
<1>7. QED  BY <1>2, <1>3, <1>4, <1>5, <1>6

LEMMA SameReplay ==
  ASSUME NEW S, NEW events \in Seq(S), NEW s, NEW t,
         ReadAlike(events, s, events, t, Len(events))
  PROVE  Replay(events, s) = Replay(events, t)
<1> DEFINE last == Len(events)
<1>1. last \in Nat
  OBVIOUS
<1> HIDE DEF last
<1>2. PICK f : Readings(f, events, s, last) /\ Replay(events, s) = f[last]
  BY <1>1, ReplayIs DEF last
<1>3. PICK g : Readings(g, events, t, last) /\ Replay(events, t) = g[last]
  BY <1>1, ReplayIs DEF last
<1>4. ReadAlike(events, s, events, t, last)
  BY DEF last
<1>5. f[last] = g[last]
  BY <1>1, <1>2, <1>3, <1>4, SameReadings
<1>6. QED  BY <1>2, <1>3, <1>5

LEMMA ReplayOfNone == ASSUME NEW sets PROVE Replay(<<>>, sets) = Unwritten
<1>1. PICK f : Readings(f, <<>>, sets, 0) /\ Replay(<<>>, sets) = f[0]
  BY ReplayIs
<1>2. QED  BY <1>1 DEF Readings

(***************************************************************************)
(* One event more is read after the others.                                *)
(***************************************************************************)
LEMMA ReplayOfMore ==
  ASSUME NEW S, NEW events \in Seq(S), NEW e \in S, NEW sets
  PROVE  Replay(Append(events, e), sets) = Replayed(Replay(events, sets), e, sets)
<1> DEFINE n == Len(events)
           more == Append(events, e)
<1>1. /\ n \in Nat /\ Len(more) = n + 1 /\ more[n + 1] = e
      /\ \A i \in 1 .. n : more[i] = events[i]
  OBVIOUS
<1> HIDE DEF more
<1>2. PICK f : Readings(f, events, sets, n) /\ Replay(events, sets) = f[n]
  BY <1>1, ReplayIs
<1>3. PICK g : Readings(g, more, sets, n + 1) /\ Replay(more, sets) = g[n + 1]
  BY <1>1, ReplayIs
<1> HIDE DEF n
<1>4. f[n] = g[n]
  <2>1. ReadAlike(events, sets, more, sets, n)
    BY <1>1 DEF ReadAlike
  <2>2. QED  BY <1>1, <1>2, <1>3, <2>1, SameReadings
<1>5. g[n + 1] = Replayed(g[n], e, sets)
  BY <1>1, <1>3 DEF Readings
<1>6. QED  BY <1>2, <1>3, <1>4, <1>5 DEF more

-----------------------------------------------------------------------------
(***************************************************************************)
(* Types: BookInv says what the record of the bridge is made of.           *)
(***************************************************************************)
SetRecords ==
  [id: Ids, ops: {set.ops : set \in Sets}, at: {set.at : set \in Sets},
   expected: Nat, status: {"queued", "applied", "rejected"},
   resulting: Nat \cup {None}]

Events ==
  [type: {"applied", "rejected", "pattern", "snapshot", "rollback"},
   id: Ids \cup SnapshotIds \cup Patterns]

IsRecord(b) ==
  b = [content |-> b.content, active |-> b.active, step |-> b.step,
       beat |-> b.beat, measure |-> b.measure, playing |-> b.playing,
       epoch |-> b.epoch, counter |-> b.counter, revision |-> b.revision,
       sets |-> b.sets, snapshots |-> b.snapshots, events |-> b.events]

BookInv(b) ==
  /\ IsRecord(b)
  /\ b.revision \in Nat
  /\ b.sets \in Seq(SetRecords)
  /\ b.events \in Seq(Events)
  /\ \E S : b.snapshots \in Seq(S)

(***************************************************************************)
(* Names: an id names one set, what the journal says was applied is a set  *)
(* that is known, and a snapshot has an id of its own.                     *)
(***************************************************************************)
UniqueIds(sets) ==
  \A i, j \in DOMAIN sets : sets[i].id = sets[j].id => i = j

KnownEvents(events, sets) ==
  \A n \in 1 .. Len(events) :
    events[n].type = "applied" => \E i \in DOMAIN sets : sets[i].id = events[n].id

Named(b) ==
  /\ UniqueIds(b.sets)
  /\ KnownEvents(b.events, b.sets)
  /\ UniqueIds(b.snapshots)
  /\ \A i \in DOMAIN b.snapshots : b.snapshots[i].id \in SnapshotIds

Won(r) == r.resulting # r.expected

(***************************************************************************)
(* What a set that was applied says: its revision is not ahead, a set that *)
(* changed the content raised the one it was prepared for by one, and no   *)
(* two raised the same.                                                    *)
(***************************************************************************)
WinInv(b) ==
  LET applied == {i \in DOMAIN b.sets : b.sets[i].status = "applied"}
  IN /\ \A i \in applied :
          /\ b.sets[i].resulting \in Nat /\ b.sets[i].resulting <= b.revision
          /\ Won(b.sets[i]) => b.sets[i].resulting = b.sets[i].expected + 1
     /\ \A i, j \in applied :
          i # j /\ Won(b.sets[i]) /\ Won(b.sets[j]) =>
            b.sets[i].expected # b.sets[j].expected

(***************************************************************************)
(* The journal, read again, gives the content, and what it remembers under *)
(* the id of a snapshot is what the snapshot holds.                        *)
(***************************************************************************)
Explained(b) ==
  LET r == Replay(b.events, b.sets)
  IN /\ r = [content |-> b.content, active |-> b.active,
             revision |-> b.revision, taken |-> r.taken]
     /\ \A i \in DOMAIN b.snapshots :
          LET s == b.snapshots[i]
          IN /\ s.id \in DOMAIN r.taken
             /\ r.taken[s.id] = [content |-> s.content, active |-> s.active]

BridgeInv(b) == BookInv(b) /\ Named(b) /\ WinInv(b)

(***************************************************************************)
(* A list of sets that grew, or of which some were settled, says the same  *)
(* of those that are in the journal.                                       *)
(***************************************************************************)
SameOps(s, t) ==
  \A i \in DOMAIN s : i \in DOMAIN t /\ t[i].id = s[i].id /\ t[i].ops = s[i].ops

LEMMA SetOfIs ==
  ASSUME NEW sets, UniqueIds(sets), NEW i \in DOMAIN sets
  PROVE  SetOf(sets, sets[i].id) = sets[i]
  BY DEF SetOf, UniqueIds

LEMMA SameOpsReadAlike ==
  ASSUME NEW events \in Seq(Events), NEW s, NEW t, UniqueIds(s), UniqueIds(t), SameOps(s, t),
         KnownEvents(events, s)
  PROVE  ReadAlike(events, s, events, t, Len(events))
<1> SUFFICES ASSUME NEW n \in 1 .. Len(events), NEW r
             PROVE  Replayed(r, events[n], s) = Replayed(r, events[n], t)
  BY DEF ReadAlike
<1>1. CASE events[n].type # "applied"
  <2>1. events[n] \in Events
    OBVIOUS
  <2>2. events[n].type \in {"rejected", "pattern", "snapshot", "rollback"}
    BY <1>1, <2>1 DEF Events
  <2>3. QED  BY <1>1, <2>2 DEF Replayed
<1>2. CASE events[n].type = "applied"
  <2>1. PICK i \in DOMAIN s : s[i].id = events[n].id
    BY <1>2 DEF KnownEvents
  <2>2. i \in DOMAIN t /\ t[i].id = events[n].id /\ t[i].ops = s[i].ops
    BY <2>1 DEF SameOps
  <2>3. SetOf(s, events[n].id).ops = SetOf(t, events[n].id).ops
    BY <2>1, <2>2, SetOfIs
  <2>4. QED  BY <1>2, <2>3 DEF Replayed
<1>3. QED  BY <1>1, <1>2

(***************************************************************************)
(* So the journal reads the same with it, and one event more is read on    *)
(* top.                                                                    *)
(***************************************************************************)
LEMMA ReplayGrows ==
  ASSUME NEW events \in Seq(Events), NEW e \in Events, NEW s, NEW t,
         UniqueIds(s), UniqueIds(t), SameOps(s, t), KnownEvents(events, s)
  PROVE  /\ Replay(events, t) = Replay(events, s)
         /\ Replay(Append(events, e), t) = Replayed(Replay(events, s), e, t)
<1>1. Replay(events, t) = Replay(events, s)
  BY SameOpsReadAlike, SameReplay
<1>2. Replay(Append(events, e), t) = Replayed(Replay(events, t), e, t)
  BY ReplayOfMore
<1>3. QED  BY <1>1, <1>2

-----------------------------------------------------------------------------
(* What the helpers make of the record, field by field. *)

SettledAs(b, i, content, c) ==
  /\ BookInv(c)
  /\ c.content = content /\ c.revision = Revised(b, content)
  /\ c.revision \in {b.revision, b.revision + 1}
  /\ c.sets = [b.sets EXCEPT
                 ![i] = [b.sets[i] EXCEPT !.status = "applied",
                                          !.resulting = Revised(b, content)]]
  /\ c.events = Append(b.events, Event("applied", b.sets[i].id))
  /\ c.active = b.active /\ c.step = b.step /\ c.epoch = b.epoch
  /\ c.snapshots = b.snapshots

LEMMA SettledIs ==
  ASSUME NEW b, BookInv(b), NEW i \in DOMAIN b.sets, NEW content
  PROVE  SettledAs(b, i, content, Settled(b, i, content))
<1> DEFINE rec == [b.sets[i] EXCEPT !.status = "applied",
                                    !.resulting = Revised(b, content)]
           c == Settled(b, i, content)
<1>1. b.sets[i] \in SetRecords /\ Revised(b, content) \in {b.revision, b.revision + 1}
      /\ Revised(b, content) \in Nat
  BY DEF BookInv, Revised
<1>2. rec \in SetRecords
  BY <1>1 DEF SetRecords
<1>3. b.sets[i].id \in Ids
  BY <1>1 DEF SetRecords
<1>4. Event("applied", b.sets[i].id) \in Events
  BY <1>3 DEF Event, Events
<1>5. c = [content |-> content, active |-> b.active, step |-> b.step,
           beat |-> b.beat, measure |-> b.measure, playing |-> b.playing,
           epoch |-> b.epoch, counter |-> b.counter, revision |-> Revised(b, content),
           sets |-> [b.sets EXCEPT ![i] = rec], snapshots |-> b.snapshots,
           events |-> Append(b.events, Event("applied", b.sets[i].id))]
  <2>1. Applied(b, i, content) =
          [b EXCEPT !.content = content, !.revision = Revised(b, content),
                    !.sets = [b.sets EXCEPT ![i] = rec]]
    BY DEF Applied, BookInv, IsRecord
  <2>2. Applied(b, i, content) =
          [content |-> content, active |-> b.active, step |-> b.step,
           beat |-> b.beat, measure |-> b.measure, playing |-> b.playing,
           epoch |-> b.epoch, counter |-> b.counter, revision |-> Revised(b, content),
           sets |-> [b.sets EXCEPT ![i] = rec], snapshots |-> b.snapshots,
           events |-> b.events]
    BY <2>1 DEF BookInv, IsRecord
  <2>3. Settled(b, i, content) =
          [Applied(b, i, content) EXCEPT !.events =
             Append(b.events, Event("applied", b.sets[i].id))]
    BY <2>2 DEF Settled, WithEvent
  <2> DEFINE a == Applied(b, i, content)
             e == Append(b.events, Event("applied", b.sets[i].id))
             t == [b.sets EXCEPT ![i] = rec]
             n == Revised(b, content)
  <2> HIDE DEF rec, a, e, t, n
  <2>4. a = [content |-> content, active |-> b.active, step |-> b.step,
             beat |-> b.beat, measure |-> b.measure, playing |-> b.playing,
             epoch |-> b.epoch, counter |-> b.counter, revision |-> n,
             sets |-> t, snapshots |-> b.snapshots, events |-> b.events]
    BY <2>2 DEF a, n, t
  <2>5. [a EXCEPT !.events = e] =
            [content |-> content, active |-> b.active, step |-> b.step,
             beat |-> b.beat, measure |-> b.measure, playing |-> b.playing,
             epoch |-> b.epoch, counter |-> b.counter, revision |-> n,
             sets |-> t, snapshots |-> b.snapshots, events |-> e]
    BY <2>4
  <2>6. QED  BY <2>3, <2>5 DEF a, e, t, n
<1> HIDE DEF rec
<1>6. [b.sets EXCEPT ![i] = rec] \in Seq(SetRecords)
  BY <1>2 DEF BookInv
<1>7. Append(b.events, Event("applied", b.sets[i].id)) \in Seq(Events)
  BY <1>4 DEF BookInv
<1> HIDE DEF c
<1>8. BookInv(c)
  <2>1. IsRecord(c)
    BY <1>5 DEF IsRecord
  <2>2. QED  BY <1>1, <1>5, <1>6, <1>7, <2>1 DEF BookInv
<1>9. QED  BY <1>1, <1>5, <1>8 DEF c, rec, SettledAs

RejectedAs(b, i, c) ==
  /\ BookInv(c)
  /\ c.sets = [b.sets EXCEPT ![i] = [b.sets[i] EXCEPT !.status = "rejected"]]
  /\ c.events = Append(b.events, Event("rejected", b.sets[i].id))
  /\ c.content = b.content /\ c.revision = b.revision
  /\ c.active = b.active /\ c.step = b.step /\ c.epoch = b.epoch
  /\ c.snapshots = b.snapshots

LEMMA RejectIs ==
  ASSUME NEW b, BookInv(b), NEW i \in DOMAIN b.sets
  PROVE  RejectedAs(b, i, Reject(b, i))
<1> DEFINE rec == [b.sets[i] EXCEPT !.status = "rejected"]
           c == Reject(b, i)
<1>1. b.sets[i] \in SetRecords
  BY DEF BookInv
<1>2. rec \in SetRecords
  BY <1>1 DEF SetRecords
<1>3. b.sets[i].id \in Ids
  BY <1>1 DEF SetRecords
<1>4. Event("rejected", b.sets[i].id) \in Events
  BY <1>3 DEF Event, Events
<1>5. c = [b EXCEPT !.sets = [b.sets EXCEPT ![i] = rec],
                    !.events = Append(b.events, Event("rejected", b.sets[i].id))]
  BY DEF Reject, WithEvent, BookInv, IsRecord
<1> HIDE DEF rec
<1>6. [b.sets EXCEPT ![i] = rec] \in Seq(SetRecords)
  BY <1>2 DEF BookInv
<1>7. Append(b.events, Event("rejected", b.sets[i].id)) \in Seq(Events)
  BY <1>4 DEF BookInv
<1>8. c = [content |-> b.content, active |-> b.active, step |-> b.step,
           beat |-> b.beat, measure |-> b.measure, playing |-> b.playing,
           epoch |-> b.epoch, counter |-> b.counter, revision |-> b.revision,
           sets |-> [b.sets EXCEPT ![i] = rec], snapshots |-> b.snapshots,
           events |-> Append(b.events, Event("rejected", b.sets[i].id))]
  BY <1>5 DEF BookInv, IsRecord
<1> HIDE DEF c
<1>9. BookInv(c)
  <2>1. IsRecord(c)
    BY <1>8 DEF IsRecord
  <2>2. QED  BY <1>6, <1>7, <1>8, <2>1 DEF BookInv
<1>10. QED  BY <1>8, <1>9 DEF c, rec, RejectedAs

-----------------------------------------------------------------------------
(***************************************************************************)
(* c is b with sets settled.                                               *)
(***************************************************************************)
SameSets(s, t) ==
  /\ DOMAIN t = DOMAIN s
  /\ \A i \in DOMAIN s :
       t[i].id = s[i].id /\ t[i].ops = s[i].ops /\ t[i].at = s[i].at

Kept(b, c) ==
  /\ c.epoch = b.epoch /\ c.active = b.active /\ c.step = b.step
  /\ c.snapshots = b.snapshots
  /\ SameSets(b.sets, c.sets)

LEMMA SameSetsNamed ==
  ASSUME NEW s, NEW t, SameSets(s, t), UniqueIds(s)
  PROVE  UniqueIds(t) /\ SameOps(s, t)
  BY DEF SameSets, UniqueIds, SameOps

LEMMA KnownAfter ==
  ASSUME NEW b, BridgeInv(b), NEW c, SameSets(b.sets, c.sets), NEW e \in Events,
         c.events = Append(b.events, e),
         e.type = "applied" => \E i \in DOMAIN b.sets : b.sets[i].id = e.id
  PROVE  KnownEvents(c.events, c.sets)
<1> SUFFICES ASSUME NEW n \in 1 .. Len(c.events), c.events[n].type = "applied"
             PROVE  \E i \in DOMAIN c.sets : c.sets[i].id = c.events[n].id
  BY DEF KnownEvents
<1>1. b.events \in Seq(Events) /\ KnownEvents(b.events, b.sets)
  BY DEF BridgeInv, BookInv, Named
<1>2. Len(b.events) \in Nat /\ Len(c.events) = Len(b.events) + 1
      /\ c.events[Len(b.events) + 1] = e
      /\ \A k \in 1 .. Len(b.events) : c.events[k] = b.events[k]
  BY <1>1
<1>3. \E i \in DOMAIN b.sets : b.sets[i].id = c.events[n].id
  <2>1. CASE n \in 1 .. Len(b.events)
    BY <1>1, <1>2, <2>1 DEF KnownEvents
  <2>2. CASE n = Len(b.events) + 1
    BY <1>2, <2>2
  <2>3. QED  BY <1>2, <2>1, <2>2
<1>4. QED  BY <1>3 DEF SameSets

LEMMA NamedAfter ==
  ASSUME NEW b, BridgeInv(b), NEW c, Kept(b, c), NEW e \in Events,
         c.events = Append(b.events, e),
         e.type = "applied" => \E i \in DOMAIN b.sets : b.sets[i].id = e.id
  PROVE  Named(c)
<1>1. UniqueIds(c.sets)
  BY SameSetsNamed DEF BridgeInv, Named, Kept
<1>2. KnownEvents(c.events, c.sets)
  BY KnownAfter DEF Kept
<1>3. QED  BY <1>1, <1>2 DEF Named, BridgeInv, Kept

LEMMA OneChanged ==
  ASSUME NEW b, BookInv(b), NEW i \in DOMAIN b.sets, NEW rec,
         rec.id = b.sets[i].id, rec.ops = b.sets[i].ops, rec.at = b.sets[i].at
  PROVE  SameSets(b.sets, [b.sets EXCEPT ![i] = rec])
  BY DEF SameSets, BookInv

(***************************************************************************)
(* A set that is applied to the revision it was prepared for keeps the     *)
(* invariant: it alone raises that revision.                               *)
(***************************************************************************)
LEMMA SettledKeeps ==
  ASSUME NEW b, BridgeInv(b), NEW i \in DOMAIN b.sets, NEW content, Expected(b, i),
         NEW c, c = Settled(b, i, content)
  PROVE  /\ BridgeInv(c) /\ Kept(b, c)
         /\ c.sets[i].status # "queued"
         /\ \A j \in DOMAIN b.sets : j # i => c.sets[j] = b.sets[j]
<1> DEFINE n == Revised(b, content)
           rec == [b.sets[i] EXCEPT !.status = "applied", !.resulting = n]
<1>1. BookInv(b) /\ WinInv(b)
  BY DEF BridgeInv
<1>2. /\ BookInv(c)
      /\ c.revision = n /\ n \in {b.revision, b.revision + 1} /\ b.revision \in Nat
      /\ c.sets = [b.sets EXCEPT ![i] = rec]
      /\ c.events = Append(b.events, Event("applied", b.sets[i].id))
      /\ c.active = b.active /\ c.step = b.step /\ c.epoch = b.epoch
      /\ c.snapshots = b.snapshots
  <2>1. b.revision \in Nat
    BY <1>1 DEF BookInv
  <2>2. SettledAs(b, i, content, c)
    BY <1>1, SettledIs
  <2>3. QED  BY <2>1, <2>2 DEF SettledAs
<1>3. b.sets[i] \in SetRecords
  BY <1>1 DEF BookInv
<1>4. /\ rec.status = "applied" /\ rec.resulting = n /\ rec.expected = b.revision
      /\ rec.id = b.sets[i].id /\ rec.ops = b.sets[i].ops /\ rec.at = b.sets[i].at
  BY <1>3 DEF SetRecords, Expected
<1> HIDE DEF n, rec
<1>5. /\ DOMAIN c.sets = DOMAIN b.sets /\ c.sets[i] = rec
      /\ \A j \in DOMAIN b.sets : j # i => c.sets[j] = b.sets[j]
  BY <1>1, <1>2 DEF BookInv
<1>6. Kept(b, c)
  BY <1>1, <1>2, <1>4, OneChanged DEF Kept
<1>7. Event("applied", b.sets[i].id) \in Events
      /\ Event("applied", b.sets[i].id).id = b.sets[i].id
  BY <1>3 DEF SetRecords, Event, Events
<1>8. Named(c)
  BY <1>2, <1>6, <1>7, NamedAfter
<1>9. WinInv(c)
  <2> DEFINE applied == {j \in DOMAIN b.sets : b.sets[j].status = "applied"}
  <2>1. \A j \in applied :
          /\ b.sets[j].resulting \in Nat /\ b.sets[j].resulting <= b.revision
          /\ Won(b.sets[j]) => b.sets[j].expected < b.revision
    <3> SUFFICES ASSUME NEW j \in applied
                 PROVE  /\ b.sets[j].resulting \in Nat
                        /\ b.sets[j].resulting <= b.revision
                        /\ Won(b.sets[j]) => b.sets[j].expected < b.revision
      OBVIOUS
    <3>1. /\ b.sets[j].resulting \in Nat /\ b.sets[j].resulting <= b.revision
          /\ Won(b.sets[j]) => b.sets[j].resulting = b.sets[j].expected + 1
      BY <1>1 DEF WinInv
    <3>2. b.sets[j] \in SetRecords
      BY <1>1 DEF BookInv
    <3>3. b.sets[j].expected \in Nat
      BY <3>2 DEF SetRecords
    <3>4. QED  BY <1>2, <3>1, <3>3
  <2>2. ASSUME NEW j \in DOMAIN c.sets, c.sets[j].status = "applied"
        PROVE  /\ c.sets[j].resulting \in Nat /\ c.sets[j].resulting <= c.revision
               /\ Won(c.sets[j]) => c.sets[j].resulting = c.sets[j].expected + 1
    <3>1. CASE j = i
      BY <1>2, <1>4, <1>5, <3>1 DEF Won
    <3>2. CASE j # i
      <4>1. j \in applied /\ c.sets[j] = b.sets[j]
        BY <1>5, <2>2, <3>2
      <4>2. QED  BY <1>1, <1>2, <2>1, <4>1 DEF WinInv
    <3>3. QED  BY <3>1, <3>2
  <2>3. ASSUME NEW j \in DOMAIN c.sets, NEW k \in DOMAIN c.sets, j # k,
               c.sets[j].status = "applied", c.sets[k].status = "applied",
               Won(c.sets[j]), Won(c.sets[k])
        PROVE  c.sets[j].expected # c.sets[k].expected
    <3>1. CASE j = i
      BY <1>2, <1>4, <1>5, <2>1, <2>3, <3>1
    <3>2. CASE k = i
      BY <1>2, <1>4, <1>5, <2>1, <2>3, <3>2
    <3>3. CASE j # i /\ k # i
      BY <1>1, <1>5, <2>3, <3>3 DEF WinInv
    <3>4. QED  BY <3>1, <3>2, <3>3
  <2>4. QED  BY <2>2, <2>3 DEF WinInv
<1>10. QED  BY <1>2, <1>4, <1>5, <1>6, <1>8, <1>9 DEF BridgeInv

(***************************************************************************)
(* A set that is rejected keeps it.                                        *)
(***************************************************************************)
LEMMA RejectKeeps ==
  ASSUME NEW b, BridgeInv(b), NEW i \in DOMAIN b.sets, b.sets[i].status = "queued",
         NEW c, c = Reject(b, i)
  PROVE  /\ BridgeInv(c) /\ Kept(b, c)
         /\ c.sets[i].status # "queued"
         /\ \A j \in DOMAIN b.sets : j # i => c.sets[j] = b.sets[j]
<1> DEFINE rec == [b.sets[i] EXCEPT !.status = "rejected"]
<1>1. BookInv(b) /\ WinInv(b) /\ b.sets[i] \in SetRecords
  BY DEF BridgeInv, BookInv
<1>2. RejectedAs(b, i, c)
  BY <1>1, RejectIs
<1>3. /\ BookInv(c) /\ c.revision = b.revision
      /\ c.sets = [b.sets EXCEPT ![i] = rec]
      /\ c.events = Append(b.events, Event("rejected", b.sets[i].id))
      /\ c.active = b.active /\ c.step = b.step /\ c.epoch = b.epoch
      /\ c.snapshots = b.snapshots
  BY <1>2 DEF RejectedAs
<1>4. /\ rec.status = "rejected" /\ rec.id = b.sets[i].id
      /\ rec.ops = b.sets[i].ops /\ rec.at = b.sets[i].at
  BY <1>1 DEF SetRecords
<1> HIDE DEF rec
<1>5. /\ DOMAIN c.sets = DOMAIN b.sets /\ c.sets[i] = rec
      /\ \A j \in DOMAIN b.sets : j # i => c.sets[j] = b.sets[j]
  BY <1>1, <1>3 DEF BookInv
<1>6. Kept(b, c)
  BY <1>1, <1>3, <1>4, OneChanged DEF Kept
<1>7. Event("rejected", b.sets[i].id) \in Events
      /\ Event("rejected", b.sets[i].id).type # "applied"
  BY <1>1 DEF SetRecords, Event, Events
<1>8. Named(c)
  BY <1>3, <1>6, <1>7, NamedAfter
<1>9. \A j \in DOMAIN c.sets :
        c.sets[j].status = "applied" =>
          j \in DOMAIN b.sets /\ c.sets[j] = b.sets[j]
  BY <1>4, <1>5
<1>10. WinInv(c)
  BY <1>1, <1>3, <1>9 DEF WinInv
<1>11. QED  BY <1>3, <1>4, <1>5, <1>6, <1>8, <1>10 DEF BridgeInv

(***************************************************************************)
(* The journal of c is that of b and one event more.                       *)
(***************************************************************************)
LEMMA JournalGrows ==
  ASSUME NEW b, BridgeInv(b), NEW c, NEW e \in Events,
         c.events = Append(b.events, e), UniqueIds(c.sets), SameOps(b.sets, c.sets)
  PROVE  Replay(c.events, c.sets) = Replayed(Replay(b.events, b.sets), e, c.sets)
<1>1. b.events \in Seq(Events) /\ UniqueIds(b.sets) /\ KnownEvents(b.events, b.sets)
  BY DEF BridgeInv, BookInv, Named
<1>2. QED  BY <1>1, ReplayGrows

Reading(r, b) ==
  r = [content |-> b.content, active |-> b.active, revision |-> b.revision,
       taken |-> r.taken]

Remembered(r, b) ==
  \A i \in DOMAIN b.snapshots :
    LET s == b.snapshots[i]
    IN /\ s.id \in DOMAIN r.taken
       /\ r.taken[s.id] = [content |-> s.content, active |-> s.active]

LEMMA ExplainedIs ==
  ASSUME NEW b
  PROVE  Explained(b) <=> /\ Reading(Replay(b.events, b.sets), b)
                          /\ Remembered(Replay(b.events, b.sets), b)
  BY DEF Explained, Reading, Remembered

(***************************************************************************)
(* The event of a set that is applied explains what it did to the content. *)
(***************************************************************************)
LEMMA SettledExplained ==
  ASSUME NEW b, BridgeInv(b), Explained(b), NEW i \in DOMAIN b.sets, Expected(b, i),
         NEW content,
         content = ApplyOperations(b.content, b.sets[i].ops, b.active).content,
         NEW c, c = Settled(b, i, content)
  PROVE  Explained(c)
<1> DEFINE r == Replay(b.events, b.sets)
           q == Replay(c.events, c.sets)
           id == b.sets[i].id
<1>1. BookInv(b) /\ UniqueIds(b.sets) /\ b.sets[i] \in SetRecords
  BY DEF BridgeInv, BookInv, Named
<1>2. SettledAs(b, i, content, c)
  BY <1>1, SettledIs
<1>3. BridgeInv(c) /\ SameSets(b.sets, c.sets)
  BY SettledKeeps DEF Kept
<1>4. UniqueIds(c.sets) /\ SameOps(b.sets, c.sets)
  BY <1>1, <1>3, SameSetsNamed
<1>5. SetOf(c.sets, id).ops = b.sets[i].ops
  <2>1. i \in DOMAIN c.sets /\ c.sets[i].id = id /\ c.sets[i].ops = b.sets[i].ops
    BY <1>3 DEF SameSets
  <2> DEFINE sets == c.sets
  <2>2. i \in DOMAIN sets /\ UniqueIds(sets) /\ sets[i].id = id /\ sets[i].ops = b.sets[i].ops
    BY <1>4, <2>1
  <2> HIDE DEF sets, id
  <2>3. SetOf(sets, sets[i].id) = sets[i]
    BY <2>2, SetOfIs
  <2>4. SetOf(sets, id).ops = b.sets[i].ops
    BY <2>2, <2>3
  <2>5. QED  BY <2>4 DEF sets
<1>6. Event("applied", id) \in Events
  BY <1>1 DEF SetRecords, Event, Events
<1>7. q = Replayed(r, Event("applied", id), c.sets)
  <2>1. c.events = Append(b.events, Event("applied", id))
    BY <1>2 DEF SettledAs
  <2>2. QED  BY <1>4, <1>6, <2>1, JournalGrows
<1>8. Reading(r, b) /\ Remembered(r, b)
  BY ExplainedIs
<1> HIDE DEF r, q
<1>9. q = [r EXCEPT !.content = content,
                    !.revision = IF content # r.content THEN r.revision + 1 ELSE r.revision]
  <2>1. Event("applied", id).type = "applied" /\ Event("applied", id).id = id
    BY DEF Event
  <2>2. ApplyOperations(r.content, SetOf(c.sets, id).ops, r.active).content = content
    BY <1>5, <1>8 DEF Reading
  <2>3. QED  BY <1>7, <2>1, <2>2 DEF Replayed
<1>10. q = [content |-> content, active |-> b.active,
            revision |-> Revised(b, content), taken |-> r.taken]
  <2>1. r.content = b.content /\ r.revision = b.revision
    BY <1>8 DEF Reading
  <2>2. q = [r EXCEPT !.content = content, !.revision = Revised(b, content)]
    BY <1>9, <2>1 DEF Revised
  <2> DEFINE t == r.taken
             n == Revised(b, content)
  <2>3. r = [content |-> b.content, active |-> b.active,
             revision |-> b.revision, taken |-> t]
    BY <1>8 DEF Reading
  <2>4. q = [r EXCEPT !.content = content, !.revision = n]
    BY <2>2
  <2> HIDE DEF t, n
  <2>5. q = [content |-> content, active |-> b.active, revision |-> n, taken |-> t]
    BY <2>3, <2>4
  <2>6. QED  BY <2>5 DEF t, n
<1>11. Reading(q, c) /\ q.taken = r.taken
  BY <1>2, <1>10 DEF Reading, SettledAs
<1>12. Remembered(q, c)
  <2>1. c.snapshots = b.snapshots
    BY <1>2 DEF SettledAs
  <2>2. QED  BY <1>8, <1>11, <2>1 DEF Remembered
<1>13. QED  BY <1>11, <1>12, ExplainedIs DEF q

LEMMA RejectExplained ==
  ASSUME NEW b, BridgeInv(b), Explained(b), NEW i \in DOMAIN b.sets,
         b.sets[i].status = "queued", NEW c, c = Reject(b, i)
  PROVE  Explained(c)
<1> DEFINE r == Replay(b.events, b.sets)
           q == Replay(c.events, c.sets)
           id == b.sets[i].id
<1>1. BookInv(b) /\ UniqueIds(b.sets) /\ b.sets[i] \in SetRecords
  BY DEF BridgeInv, BookInv, Named
<1>2. RejectedAs(b, i, c)
  BY <1>1, RejectIs
<1>3. BridgeInv(c) /\ SameSets(b.sets, c.sets)
  BY RejectKeeps DEF Kept
<1>4. UniqueIds(c.sets) /\ SameOps(b.sets, c.sets)
  BY <1>1, <1>3, SameSetsNamed
<1>5. Event("rejected", id) \in Events /\ Event("rejected", id).type = "rejected"
  BY <1>1 DEF SetRecords, Event, Events
<1>6. q = Replayed(r, Event("rejected", id), c.sets)
  <2>1. c.events = Append(b.events, Event("rejected", id))
    BY <1>2 DEF RejectedAs
  <2>2. QED  BY <1>4, <1>5, <2>1, JournalGrows
<1>7. q = r
  BY <1>5, <1>6 DEF Replayed
<1>8. Reading(r, b) /\ Remembered(r, b)
  BY ExplainedIs
<1> HIDE DEF r, q
<1>9. Reading(q, c) /\ Remembered(q, c)
  BY <1>2, <1>7, <1>8 DEF Reading, Remembered, RejectedAs
<1>10. QED  BY <1>9, ExplainedIs DEF q

-----------------------------------------------------------------------------
(* The loop over the sets. *)

(***************************************************************************)
(* A set that fails leaves its edits, and nothing else.                    *)
(***************************************************************************)
LEMMA FailedKeeps ==
  ASSUME NEW b, BridgeInv(b), NEW content, NEW c, c = [b EXCEPT !.content = content]
  PROVE  BridgeInv(c) /\ Kept(b, c) /\ c.sets = b.sets
<1>1. BookInv(b)
  BY DEF BridgeInv
<1>2. c = [content |-> content, active |-> b.active, step |-> b.step,
           beat |-> b.beat, measure |-> b.measure, playing |-> b.playing,
           epoch |-> b.epoch, counter |-> b.counter, revision |-> b.revision,
           sets |-> b.sets, snapshots |-> b.snapshots, events |-> b.events]
  BY <1>1 DEF BookInv, IsRecord
<1>3. /\ c.epoch = b.epoch /\ c.active = b.active /\ c.step = b.step
      /\ c.snapshots = b.snapshots /\ c.sets = b.sets /\ c.events = b.events
      /\ c.revision = b.revision
  BY <1>2
<1>4. IsRecord(c)
  BY <1>2 DEF IsRecord
<1>5. BookInv(c)
  BY <1>1, <1>3, <1>4 DEF BookInv
<1>6. Named(c) /\ WinInv(c)
  BY <1>3 DEF BridgeInv, Named, WinInv
<1>7. QED  BY <1>3, <1>5, <1>6 DEF BridgeInv, Kept, SameSets

(***************************************************************************)
(* What a step of the loop makes of b: c, with the i-th set settled.       *)
(***************************************************************************)
Handled(b, i, c) ==
  /\ BridgeInv(c) /\ Kept(b, c)
  /\ c.sets[i].status # "queued"
  /\ \A j \in DOMAIN b.sets : j # i => c.sets[j] = b.sets[j]
  /\ Explained(b) => Explained(c)

LEMMA RecordApplied ==
  ASSUME NEW b, BridgeInv(b), NEW i \in DOMAIN b.sets, Expected(b, i),
         NEW q, q = ApplyRecord(b, i)
  PROVE  /\ q.ok \in BOOLEAN
         /\ BridgeInv(q.bridge) /\ Kept(b, q.bridge)
         /\ q.ok => Handled(b, i, q.bridge)
<1> DEFINE r == ApplyOperations(b.content, b.sets[i].ops, b.active)
           content == r.content
<1>1. CASE r.ok
  <2> DEFINE c == Settled(b, i, content)
  <2>1. q.ok = TRUE /\ q.bridge = c
    BY <1>1 DEF ApplyRecord
  <2>2. Explained(b) => Explained(c)
    BY SettledExplained
  <2>3. /\ BridgeInv(c) /\ Kept(b, c)
        /\ c.sets[i].status # "queued"
        /\ \A j \in DOMAIN b.sets : j # i => c.sets[j] = b.sets[j]
    <3> HIDE DEF content
    <3>1. QED  BY SettledKeeps
  <2> HIDE DEF c
  <2>4. QED  BY <2>1, <2>2, <2>3 DEF Handled
<1>2. CASE ~r.ok
  <2> DEFINE c == [b EXCEPT !.content = content]
  <2>1. q.ok = FALSE /\ q.bridge = c
    BY <1>2 DEF ApplyRecord
  <2>2. BridgeInv(c) /\ Kept(b, c)
    BY FailedKeeps
  <2> HIDE DEF c
  <2>3. QED  BY <2>1, <2>2
<1>3. QED  BY <1>1, <1>2

LEMMA Rejected ==
  ASSUME NEW b, BridgeInv(b), NEW i \in DOMAIN b.sets, b.sets[i].status = "queued"
  PROVE  Handled(b, i, Reject(b, i))
<1> DEFINE c == Reject(b, i)
<1>1. Explained(b) => Explained(c)
  BY RejectExplained
<1>2. /\ BridgeInv(c) /\ Kept(b, c)
      /\ c.sets[i].status # "queued"
      /\ \A j \in DOMAIN b.sets : j # i => c.sets[j] = b.sets[j]
  BY RejectKeeps
<1> HIDE DEF c
<1>3. QED  BY <1>1, <1>2 DEF Handled, c

(***************************************************************************)
(* No set among the first n is due; this is what the loop has made sure    *)
(* of.                                                                     *)
(***************************************************************************)
Quiet(b, n, boundaries) ==
  \A i \in 1 .. n :
    b.sets[i].status = "queued" => ~IsDue(b, b.sets[i].at, boundaries)

LoopInv(b, boundaries, n, r) ==
  /\ r.ok \in BOOLEAN
  /\ BridgeInv(r.bridge) /\ Kept(b, r.bridge)
  /\ r.ok => /\ Explained(b) => Explained(r.bridge)
             /\ Quiet(r.bridge, n, boundaries)

LEMMA KeptAlong ==
  ASSUME NEW a, NEW b, NEW c, Kept(a, b), Kept(b, c)
  PROVE  Kept(a, c)
  BY DEF Kept, SameSets

(***************************************************************************)
(* The loop over the sets: settling a set makes no earlier one due, and a  *)
(* set that is settled stays so.                                           *)
(***************************************************************************)
LEMMA HandleDueKeeps ==
  ASSUME NEW b, BridgeInv(b), NEW boundaries, NEW n \in 1 .. Len(b.sets),
         NEW r, LoopInv(b, boundaries, n - 1, r)
  PROVE  LoopInv(b, boundaries, n, HandleDue(r, n, boundaries))
<1> DEFINE a == r.bridge
           q == HandleDue(r, n, boundaries)
<1>1. /\ r.ok \in BOOLEAN /\ BridgeInv(a) /\ Kept(b, a)
      /\ r.ok => (Explained(b) => Explained(a)) /\ Quiet(a, n - 1, boundaries)
  BY DEF LoopInv
<1>2. /\ b.sets \in Seq(SetRecords) /\ Len(b.sets) \in Nat
      /\ DOMAIN b.sets = 1 .. Len(b.sets) /\ DOMAIN a.sets = DOMAIN b.sets
      /\ n \in DOMAIN a.sets /\ n \in Nat
  <2>1. b.sets \in Seq(SetRecords)
    BY DEF BridgeInv, BookInv
  <2>2. DOMAIN a.sets = DOMAIN b.sets
    BY <1>1 DEF Kept, SameSets
  <2>3. QED  BY <2>1, <2>2
<1> HIDE DEF a
<1>3. CASE ~r.ok
  <2>1. q = r
    BY <1>3 DEF HandleDue
  <2>2. QED  BY <1>1, <1>3, <2>1 DEF LoopInv, a
<1>4. CASE r.ok /\ (a.sets[n].status # "queued" \/ ~IsDue(a, a.sets[n].at, boundaries))
  <2>1. q = r
    BY <1>4 DEF HandleDue, a
  <2>2. Quiet(a, n, boundaries)
    BY <1>1, <1>2, <1>4 DEF Quiet
  <2>3. QED  BY <1>1, <1>4, <2>1, <2>2 DEF LoopInv, a
<1>5. CASE r.ok /\ a.sets[n].status = "queued" /\ IsDue(a, a.sets[n].at, boundaries)
  <2>1. /\ q.ok \in BOOLEAN /\ BridgeInv(q.bridge) /\ Kept(a, q.bridge)
        /\ q.ok => Handled(a, n, q.bridge)
    <3>1. CASE Expected(a, n)
      <4>1. q = ApplyRecord(a, n)
        BY <1>5, <3>1 DEF HandleDue, a
      <4> HIDE DEF q
      <4>2. QED  BY <1>1, <1>2, <3>1, <4>1, RecordApplied
    <3>2. CASE ~Expected(a, n)
      <4>1. q = Begun(Reject(a, n))
        BY <1>5, <3>2 DEF HandleDue, a
      <4>2. q.ok = TRUE /\ q.bridge = Reject(a, n)
        BY <4>1 DEF Begun
      <4>3. Handled(a, n, Reject(a, n))
        BY <1>1, <1>2, <1>5, Rejected
      <4> HIDE DEF q
      <4>4. QED  BY <4>2, <4>3 DEF Handled
    <3>3. QED  BY <3>1, <3>2
  <2> DEFINE c == q.bridge
  <2> HIDE DEF q
  <2>2. Kept(b, c)
    BY <1>1, <2>1, KeptAlong
  <2>3. ASSUME q.ok  PROVE  Quiet(c, n, boundaries)
    <3> SUFFICES ASSUME NEW i \in 1 .. n, c.sets[i].status = "queued"
                 PROVE  ~IsDue(c, c.sets[i].at, boundaries)
      BY DEF Quiet
    <3>1. i \in DOMAIN a.sets
      BY <1>2
    <3>2. i # n /\ c.sets[i] = a.sets[i]
      BY <2>1, <2>3, <3>1 DEF Handled
    <3>3. i \in 1 .. n - 1
      BY <1>2, <3>2
    <3>4. ~IsDue(a, a.sets[i].at, boundaries)
      BY <1>1, <1>5, <3>2, <3>3 DEF Quiet
    <3>5. c.epoch = a.epoch /\ c.active = a.active /\ c.step = a.step
      BY <2>1 DEF Kept
    <3>6. QED  BY <3>2, <3>4, <3>5 DEF IsDue
  <2>4. ASSUME q.ok, Explained(b)  PROVE  Explained(c)
    BY <1>1, <1>5, <2>1, <2>4 DEF Handled
  <2>5. QED  BY <2>1, <2>2, <2>3, <2>4 DEF LoopInv, q
<1>6. QED  BY <1>1, <1>3, <1>4, <1>5

DueRuns(f, b, boundaries, last) ==
  f = [n \in 0 .. last |-> IF n = 0 THEN Begun(b) ELSE HandleDue(f[n - 1], n, boundaries)]

LEMMA DueRunsExist ==
  ASSUME NEW b, NEW boundaries, NEW last \in Nat
  PROVE  \E f : DueRuns(f, b, boundaries, last)
<1> SUFFICES ASSUME \A f : ~DueRuns(f, b, boundaries, last)
             PROVE  FALSE
  OBVIOUS
<1> DEFINE T == {n \in Nat : \A f : ~DueRuns(f, b, boundaries, n)}
<1>1. PICK n \in T : \A m \in T : n <= m
  BY HasFirst
<1>2. n \in Nat /\ \A f : ~DueRuns(f, b, boundaries, n)
  OBVIOUS
<1>3. n # 0
  <2>1. DueRuns([m \in 0 .. 0 |-> Begun(b)], b, boundaries, 0)
    BY DEF DueRuns
  <2>2. QED  BY <1>2, <2>1
<1>4. n - 1 \in Nat /\ n - 1 \notin T
  BY <1>1, <1>2, <1>3
<1>5. PICK f : DueRuns(f, b, boundaries, n - 1)
  BY <1>4
<1> DEFINE g == [m \in 0 .. n |-> IF m = n THEN HandleDue(f[n - 1], n, boundaries) ELSE f[m]]
<1>6. DueRuns(g, b, boundaries, n)
  <2>1. \A m \in 0 .. n - 1 : g[m] = f[m]
    BY <1>2
  <2>2. \A m \in 0 .. n - 1 :
          f[m] = IF m = 0 THEN Begun(b) ELSE HandleDue(f[m - 1], m, boundaries)
    BY <1>5 DEF DueRuns
  <2>3. ASSUME NEW m \in 0 .. n
        PROVE  g[m] = IF m = 0 THEN Begun(b) ELSE HandleDue(g[m - 1], m, boundaries)
    <3>1. CASE m = n
      <4>1. g[n] = HandleDue(f[n - 1], n, boundaries) /\ g[n - 1] = f[n - 1]
        BY <1>2, <1>4, <2>1
      <4>2. QED  BY <1>3, <3>1, <4>1
    <3>2. CASE m = 0
      BY <1>3, <1>4, <2>1, <2>2, <3>2
    <3>3. CASE m \in 1 .. n - 1
      <4>1. m - 1 \in 0 .. n - 1 /\ m \in 0 .. n - 1 /\ m # 0
        BY <1>4, <3>3
      <4>2. QED  BY <2>1, <2>2, <4>1
    <3>4. QED  BY <1>4, <3>1, <3>2, <3>3
  <2>4. g = [m \in 0 .. n |-> g[m]]
    OBVIOUS
  <2> HIDE DEF g
  <2>5. [m \in 0 .. n |-> g[m]] =
          [m \in 0 .. n |-> IF m = 0 THEN Begun(b) ELSE HandleDue(g[m - 1], m, boundaries)]
    BY <2>3
  <2>6. QED  BY <2>4, <2>5 DEF DueRuns
<1> HIDE DEF g
<1>7. QED  BY <1>2, <1>6

LEMMA ApplyDueIs ==
  ASSUME NEW b, NEW boundaries, Len(b.sets) \in Nat
  PROVE  \E f : /\ DueRuns(f, b, boundaries, Len(b.sets))
                /\ ApplyDue(b, boundaries) = f[Len(b.sets)]
<1> DEFINE f == CHOOSE g : g =
      [n \in 0 .. Len(b.sets) |->
         IF n = 0 THEN Begun(b) ELSE HandleDue(g[n - 1], n, boundaries)]
<1>1. \E g : DueRuns(g, b, boundaries, Len(b.sets))
  BY DueRunsExist
<1>2. f = [n \in 0 .. Len(b.sets) |->
             IF n = 0 THEN Begun(b) ELSE HandleDue(f[n - 1], n, boundaries)]
  BY <1>1, Zenon DEF DueRuns
<1>3. ApplyDue(b, boundaries) = f[Len(b.sets)]
  BY DEF ApplyDue
<1> HIDE DEF f
<1>4. QED  BY <1>2, <1>3 DEF DueRuns

(***************************************************************************)
(* So the whole loop leaves no set that is due, unless one fails.          *)
(***************************************************************************)
LEMMA ApplyDueKeeps ==
  ASSUME NEW b, BridgeInv(b), NEW boundaries
  PROVE  LoopInv(b, boundaries, Len(b.sets), ApplyDue(b, boundaries))
<1> DEFINE last == Len(b.sets)
<1>1. last \in Nat
  BY DEF BridgeInv, BookInv
<1> HIDE DEF last
<1>2. PICK f : DueRuns(f, b, boundaries, last) /\ ApplyDue(b, boundaries) = f[last]
  BY <1>1, ApplyDueIs DEF last
<1> SUFFICES ASSUME ~LoopInv(b, boundaries, last, f[last])  PROVE  FALSE
  BY <1>2 DEF last
<1> DEFINE T == {n \in Nat : n <= last /\ ~LoopInv(b, boundaries, n, f[n])}
<1>3. PICK n \in T : \A m \in T : n <= m
  <2>1. last \in T /\ T \in SUBSET Nat
    BY <1>1
  <2>2. QED  BY <2>1, HasFirst
<1>4. n \in 0 .. last /\ ~LoopInv(b, boundaries, n, f[n])
  BY <1>1
<1>5. f[n] = IF n = 0 THEN Begun(b) ELSE HandleDue(f[n - 1], n, boundaries)
  BY <1>2, <1>4 DEF DueRuns
<1>6. CASE n = 0
  <2>1. f[n].ok = TRUE /\ f[n].bridge = b
    BY <1>5, <1>6 DEF Begun
  <2>2. Kept(b, b) /\ Quiet(b, 0, boundaries)
    BY DEF Kept, SameSets, Quiet
  <2>3. QED  BY <1>4, <1>6, <2>1, <2>2 DEF LoopInv
<1>7. CASE n # 0
  <2>1. n - 1 \in Nat /\ n - 1 <= last /\ ~(n <= n - 1) /\ n \in 1 .. last
    BY <1>1, <1>4, <1>7
  <2>2. LoopInv(b, boundaries, n - 1, f[n - 1])
    BY <1>3, <2>1
  <2>3. LoopInv(b, boundaries, n, HandleDue(f[n - 1], n, boundaries))
    BY <2>1, <2>2, HandleDueKeeps DEF last
  <2>4. QED  BY <1>4, <1>5, <1>7, <2>3
<1>8. QED  BY <1>6, <1>7

-----------------------------------------------------------------------------
(* The transport. *)

SteppedTo(b, s, c) ==
  /\ BridgeInv(c) /\ c.step = s
  /\ Explained(b) => Explained(c)

LEMMA SteppedIs ==
  ASSUME NEW b, BridgeInv(b), NEW s, NEW beat, NEW measure,
         NEW c, c = [b EXCEPT !.step = s, !.beat = beat, !.measure = measure]
  PROVE  SteppedTo(b, s, c)
<1>1. BookInv(b)
  BY DEF BridgeInv
<1>2. c = [content |-> b.content, active |-> b.active, step |-> s,
           beat |-> beat, measure |-> measure, playing |-> b.playing,
           epoch |-> b.epoch, counter |-> b.counter, revision |-> b.revision,
           sets |-> b.sets, snapshots |-> b.snapshots, events |-> b.events]
  BY <1>1 DEF BookInv, IsRecord
<1>3. /\ c.content = b.content /\ c.active = b.active /\ c.revision = b.revision
      /\ c.snapshots = b.snapshots /\ c.sets = b.sets /\ c.events = b.events
      /\ c.step = s
  BY <1>2
<1>4. IsRecord(c)
  BY <1>2 DEF IsRecord
<1>5. BookInv(c)
  BY <1>1, <1>3, <1>4 DEF BookInv
<1>6. Named(c) /\ WinInv(c)
  BY <1>3 DEF BridgeInv, Named, WinInv
<1>7. Explained(b) => Explained(c)
  BY <1>3 DEF Explained
<1>8. QED  BY <1>3, <1>5, <1>6, <1>7 DEF BridgeInv, SteppedTo

(***************************************************************************)
(* After k steps; a boundary that was reached leaves nothing due.          *)
(***************************************************************************)
StepsInv(b, k, r) ==
  /\ r.ok \in BOOLEAN
  /\ BridgeInv(r.bridge)
  /\ r.ok => /\ Explained(b) => Explained(r.bridge)
             /\ k # 0 => Quiet(r.bridge, Len(r.bridge.sets), Boundaries(r.bridge.step))

LEMMA StepOnceKeeps ==
  ASSUME NEW b, BridgeInv(b)
  PROVE  StepsInv(b, 1, StepOnce(b))
<1> DEFINE next == NextStep(b)
           absolute == b.measure * StepsPerMeasure + b.step + 1
           c == [b EXCEPT !.step = next,
                          !.beat = (next % StepsPerMeasure) \div StepsPerBeat,
                          !.measure = absolute \div StepsPerMeasure]
           r == StepOnce(b)
<1>1. r = ApplyDue(c, Boundaries(next))
  BY DEF StepOnce
<1>2. BridgeInv(c) /\ c.step = next /\ (Explained(b) => Explained(c))
  <2> DEFINE beat == (next % StepsPerMeasure) \div StepsPerBeat
             measure == absolute \div StepsPerMeasure
  <2>1. c = [b EXCEPT !.step = next, !.beat = beat, !.measure = measure]
    OBVIOUS
  <2> HIDE DEF next, beat, measure, c
  <2>2. SteppedTo(b, next, c)
    BY <2>1, SteppedIs
  <2>3. QED  BY <2>2 DEF SteppedTo
<1> HIDE DEF next, absolute, c, r
<1>3. LoopInv(c, Boundaries(next), Len(c.sets), r)
  BY <1>1, <1>2, ApplyDueKeeps
<1>4. r.bridge.step = next /\ Len(r.bridge.sets) = Len(c.sets)
  <2>1. r.bridge.step = c.step /\ DOMAIN r.bridge.sets = DOMAIN c.sets
    BY <1>3 DEF LoopInv, Kept, SameSets
  <2>2. c.sets \in Seq(SetRecords) /\ r.bridge.sets \in Seq(SetRecords)
    BY <1>2, <1>3 DEF LoopInv, BridgeInv, BookInv
  <2>3. QED  BY <1>2, <2>1, <2>2
<1>5. QED  BY <1>2, <1>3, <1>4 DEF LoopInv, StepsInv, r

LEMMA StepAfterKeeps ==
  ASSUME NEW b, NEW k, NEW r, StepsInv(b, k, r)
  PROVE  StepsInv(b, k + 1, StepAfter(r))
<1>1. CASE ~r.ok
  BY <1>1 DEF StepAfter, StepsInv
<1>2. CASE r.ok
  <2>1. StepsInv(r.bridge, 1, StepOnce(r.bridge))
    BY StepOnceKeeps DEF StepsInv
  <2>2. QED  BY <1>2, <2>1 DEF StepAfter, StepsInv
<1>3. QED  BY <1>1, <1>2

StepRuns(f, b, last) ==
  f = [n \in 0 .. last |-> IF n = 0 THEN Begun(b) ELSE StepAfter(f[n - 1])]

LEMMA StepRunsExist ==
  ASSUME NEW b, NEW last \in Nat
  PROVE  \E f : StepRuns(f, b, last)
<1> SUFFICES ASSUME \A f : ~StepRuns(f, b, last)
             PROVE  FALSE
  OBVIOUS
<1> DEFINE T == {n \in Nat : \A f : ~StepRuns(f, b, n)}
<1>1. PICK n \in T : \A m \in T : n <= m
  BY HasFirst
<1>2. n \in Nat /\ \A f : ~StepRuns(f, b, n)
  OBVIOUS
<1>3. n # 0
  <2>1. StepRuns([m \in 0 .. 0 |-> Begun(b)], b, 0)
    BY DEF StepRuns
  <2>2. QED  BY <1>2, <2>1
<1>4. n - 1 \in Nat /\ n - 1 \notin T
  BY <1>1, <1>2, <1>3
<1>5. PICK f : StepRuns(f, b, n - 1)
  BY <1>4
<1> DEFINE g == [m \in 0 .. n |-> IF m = n THEN StepAfter(f[n - 1]) ELSE f[m]]
<1>6. StepRuns(g, b, n)
  <2>1. \A m \in 0 .. n - 1 : g[m] = f[m]
    BY <1>2
  <2>2. \A m \in 0 .. n - 1 :
          f[m] = IF m = 0 THEN Begun(b) ELSE StepAfter(f[m - 1])
    BY <1>5 DEF StepRuns
  <2>3. ASSUME NEW m \in 0 .. n
        PROVE  g[m] = IF m = 0 THEN Begun(b) ELSE StepAfter(g[m - 1])
    <3>1. CASE m = n
      <4>1. g[n] = StepAfter(f[n - 1]) /\ g[n - 1] = f[n - 1]
        BY <1>2, <1>4, <2>1
      <4>2. QED  BY <1>3, <3>1, <4>1
    <3>2. CASE m = 0
      BY <1>3, <1>4, <2>1, <2>2, <3>2
    <3>3. CASE m \in 1 .. n - 1
      <4>1. m - 1 \in 0 .. n - 1 /\ m \in 0 .. n - 1 /\ m # 0
        BY <1>4, <3>3
      <4>2. QED  BY <2>1, <2>2, <4>1
    <3>4. QED  BY <1>4, <3>1, <3>2, <3>3
  <2>4. g = [m \in 0 .. n |-> g[m]]
    OBVIOUS
  <2> HIDE DEF g
  <2>5. [m \in 0 .. n |-> g[m]] =
          [m \in 0 .. n |-> IF m = 0 THEN Begun(b) ELSE StepAfter(g[m - 1])]
    BY <2>3
  <2>6. QED  BY <2>4, <2>5 DEF StepRuns
<1> HIDE DEF g
<1>7. QED  BY <1>2, <1>6

LEMMA StepManyIs ==
  ASSUME NEW b, NEW n \in Nat
  PROVE  \E f : StepRuns(f, b, n) /\ StepMany(b, n) = f[n]
<1> DEFINE f == CHOOSE g : g =
      [k \in 0 .. n |-> IF k = 0 THEN Begun(b) ELSE StepAfter(g[k - 1])]
<1>1. \E g : StepRuns(g, b, n)
  BY StepRunsExist
<1>2. f = [k \in 0 .. n |-> IF k = 0 THEN Begun(b) ELSE StepAfter(f[k - 1])]
  BY <1>1, Zenon DEF StepRuns
<1>3. StepMany(b, n) = f[n]
  BY DEF StepMany
<1> HIDE DEF f
<1>4. QED  BY <1>2, <1>3 DEF StepRuns

LEMMA StepManyKeeps ==
  ASSUME NEW b, BridgeInv(b), NEW n \in Nat
  PROVE  StepsInv(b, n, StepMany(b, n))
<1>1. PICK f : StepRuns(f, b, n) /\ StepMany(b, n) = f[n]
  BY StepManyIs
<1> SUFFICES ASSUME ~StepsInv(b, n, f[n])  PROVE  FALSE
  BY <1>1
<1> DEFINE T == {k \in Nat : k <= n /\ ~StepsInv(b, k, f[k])}
<1>2. PICK k \in T : \A m \in T : k <= m
  <2>1. n \in T /\ T \in SUBSET Nat
    OBVIOUS
  <2>2. QED  BY <2>1, HasFirst
<1>3. k \in 0 .. n /\ ~StepsInv(b, k, f[k])
  OBVIOUS
<1>4. f[k] = IF k = 0 THEN Begun(b) ELSE StepAfter(f[k - 1])
  BY <1>1, <1>3 DEF StepRuns
<1>5. CASE k = 0
  <2>1. f[k].ok = TRUE /\ f[k].bridge = b
    BY <1>4, <1>5 DEF Begun
  <2>2. QED  BY <1>3, <1>5, <2>1 DEF StepsInv
<1>6. CASE k # 0
  <2>1. k - 1 \in Nat /\ k - 1 <= n /\ ~(k <= k - 1) /\ (k - 1) + 1 = k
    BY <1>3, <1>6
  <2>2. StepsInv(b, k - 1, f[k - 1])
    BY <1>2, <2>1
  <2>3. StepsInv(b, k, StepAfter(f[k - 1]))
    BY <2>1, <2>2, StepAfterKeeps
  <2>4. QED  BY <1>3, <1>4, <1>6, <2>3
<1>7. QED  BY <1>5, <1>6

-----------------------------------------------------------------------------
(* The requests, one lemma per action. *)

(***************************************************************************)
(* A set that is recorded: its id is new, its revision the current one.    *)
(***************************************************************************)
RecordedAs(b, c) ==
  /\ BridgeInv(c)
  /\ Len(c.sets) \in DOMAIN c.sets
  /\ Expected(c, Len(c.sets))
  /\ Explained(b) => Explained(c)

LEMMA RecordedIs ==
  ASSUME NEW b, BridgeInv(b), NEW id \in Ids, ~Known(b, id), NEW set \in Sets,
         NEW c, c = [b EXCEPT !.sets = Append(@, Record(id, set, b.revision))]
  PROVE  RecordedAs(b, c)
<1> DEFINE rec == Record(id, set, b.revision)
           more == Append(b.sets, rec)
           n == Len(b.sets)
<1>1. BookInv(b)
  BY DEF BridgeInv
<1>2. rec \in SetRecords /\ rec.id = id /\ rec.status = "queued"
      /\ rec.expected = b.revision
  BY <1>1 DEF Record, SetRecords, BookInv
<1>3. c = [b EXCEPT !.sets = more]
  OBVIOUS
<1> HIDE DEF rec
<1>4. b.sets \in Seq(SetRecords) /\ b.events \in Seq(Events) /\ b.revision \in Nat
  BY <1>1 DEF BookInv
<1>5. /\ n \in Nat /\ DOMAIN b.sets = 1 .. n
      /\ more \in Seq(SetRecords) /\ Len(more) = n + 1 /\ DOMAIN more = 1 .. n + 1
      /\ more[n + 1] = rec
      /\ \A i \in DOMAIN b.sets : more[i] = b.sets[i]
  BY <1>2, <1>4
<1> HIDE DEF more, n
<1>6. c = [content |-> b.content, active |-> b.active, step |-> b.step,
           beat |-> b.beat, measure |-> b.measure, playing |-> b.playing,
           epoch |-> b.epoch, counter |-> b.counter, revision |-> b.revision,
           sets |-> more, snapshots |-> b.snapshots, events |-> b.events]
  BY <1>1, <1>3 DEF BookInv, IsRecord
<1>7. /\ c.content = b.content /\ c.active = b.active /\ c.revision = b.revision
      /\ c.snapshots = b.snapshots /\ c.events = b.events /\ c.sets = more
  BY <1>6
<1>8. BookInv(c)
  <2>1. IsRecord(c)
    BY <1>6 DEF IsRecord
  <2>2. QED  BY <1>1, <1>5, <1>7, <2>1 DEF BookInv
<1>9. SameOps(b.sets, more)
  BY <1>5 DEF SameOps
<1>10. UniqueIds(more)
  <2>1. UniqueIds(b.sets) /\ \A i \in DOMAIN b.sets : b.sets[i].id # id
    BY DEF BridgeInv, Named, Known
  <2>2. QED  BY <1>2, <1>5, <2>1 DEF UniqueIds
<1>11. Named(c)
  <2>1. KnownEvents(b.events, more)
    BY <1>9 DEF BridgeInv, Named, KnownEvents, SameOps
  <2>2. QED  BY <1>7, <1>10, <2>1 DEF BridgeInv, Named
<1>12. WinInv(c)
  <2>1. \A i \in DOMAIN c.sets :
          c.sets[i].status = "applied" => i \in DOMAIN b.sets /\ c.sets[i] = b.sets[i]
    BY <1>2, <1>5, <1>7
  <2>2. QED  BY <1>7, <2>1 DEF BridgeInv, WinInv
<1>13. Replay(b.events, more) = Replay(b.events, b.sets)
  <2>1. UniqueIds(b.sets) /\ KnownEvents(b.events, b.sets)
    BY DEF BridgeInv, Named
  <2>2. ReadAlike(b.events, b.sets, b.events, more, Len(b.events))
    BY <1>4, <1>9, <1>10, <2>1, SameOpsReadAlike
  <2>3. QED  BY <1>4, <2>2, SameReplay
<1>14. Explained(b) => Explained(c)
  <2> DEFINE r == Replay(b.events, b.sets)
             q == Replay(c.events, c.sets)
  <2>1. q = r
    BY <1>7, <1>13
  <2>2. Explained(b) <=> Reading(r, b) /\ Remembered(r, b)
    BY ExplainedIs
  <2>3. Explained(c) <=> Reading(q, c) /\ Remembered(q, c)
    BY ExplainedIs
  <2> HIDE DEF r, q
  <2>4. QED  BY <1>7, <2>1, <2>2, <2>3 DEF Reading, Remembered
<1>15. Len(c.sets) \in DOMAIN c.sets /\ Expected(c, Len(c.sets))
  BY <1>2, <1>5, <1>7 DEF Expected
<1>16. QED  BY <1>8, <1>11, <1>12, <1>14, <1>15 DEF BridgeInv, RecordedAs

(***************************************************************************)
(* The inductive invariant.                                                *)
(***************************************************************************)
IInv ==
  /\ BridgeInv(bridge)
  /\ ~failed => Explained(bridge)
  /\ failed \in BOOLEAN
  /\ spent \in [steps : Nat, commands : Nat]

LEMMA QueueKeeps ==
  ASSUME IInv, NEW id \in Ids, NEW set \in Sets, Queue(id, set)
  PROVE  IInv'
<1>1. RecordedAs(bridge, bridge')
  BY RecordedIs DEF IInv, Queue
<1>2. QED  BY <1>1 DEF IInv, Queue, RecordedAs

LEMMA ApplyNowKeeps ==
  ASSUME IInv, NEW id \in Ids, NEW set \in Sets, ApplyNow(id, set)
  PROVE  IInv'
<1> DEFINE c == [bridge EXCEPT !.sets = Append(@, Record(id, set, bridge.revision))]
           i == Len(c.sets)
           r == ApplyRecord(c, i)
<1>1. /\ ~Known(bridge, id) /\ bridge' = r.bridge /\ failed' = (failed \/ ~r.ok)
      /\ UNCHANGED spent
  BY DEF ApplyNow
<1>2. RecordedAs(bridge, c)
  BY <1>1, RecordedIs DEF IInv
<1> HIDE DEF c
<1>3. /\ r.ok \in BOOLEAN /\ BridgeInv(r.bridge)
      /\ r.ok => Handled(c, i, r.bridge)
  <2>1. BridgeInv(c) /\ i \in DOMAIN c.sets /\ Expected(c, i)
    BY <1>2 DEF RecordedAs
  <2> HIDE DEF i, r
  <2>2. QED  BY <2>1, RecordApplied DEF r
<1> HIDE DEF i, r
<1>4. ~failed' => Explained(bridge')
  BY <1>1, <1>2, <1>3 DEF IInv, RecordedAs, Handled
<1>5. QED  BY <1>1, <1>3, <1>4 DEF IInv

LEMMA AdvanceKeeps ==
  ASSUME IInv, MockAssumption, NEW n \in Advances, Advance(n)
  PROVE  IInv' /\ StepsInv(bridge, n, StepMany(bridge, n))
<1> DEFINE r == StepMany(bridge, n)
<1>1. n \in Nat
  BY DEF MockAssumption
<1>2. StepsInv(bridge, n, r)
  BY <1>1, StepManyKeeps DEF IInv
<1> HIDE DEF r
<1>3. /\ bridge' = r.bridge /\ failed' = (failed \/ ~r.ok)
      /\ spent' = [spent EXCEPT !["steps"] = @ + n]
  BY DEF Advance, Spend, r
<1>4. spent' \in [steps : Nat, commands : Nat]
  BY <1>1, <1>3 DEF IInv
<1>5. QED  BY <1>2, <1>3, <1>4 DEF IInv, StepsInv, r

LEMMA SpendCommand ==
  ASSUME IInv, Spend("commands", 1, MaxCommands)
  PROVE  spent' \in [steps : Nat, commands : Nat] /\ spent'.steps = spent.steps
  BY DEF IInv, Spend

LEMMA SetTransportKeeps ==
  ASSUME IInv, NEW command, SetTransport(command)
  PROVE  IInv'
<1> DEFINE b == bridge
           c == bridge'
<1>1. BookInv(b) /\ spent' \in [steps : Nat, commands : Nat] /\ failed' = failed
  BY SpendCommand DEF IInv, BridgeInv, SetTransport
<1>2. PICK playing, epoch, counter :
        c = [content |-> b.content, active |-> b.active, step |-> b.step,
             beat |-> b.beat, measure |-> b.measure, playing |-> playing,
             epoch |-> epoch, counter |-> counter, revision |-> b.revision,
             sets |-> b.sets, snapshots |-> b.snapshots, events |-> b.events]
  <2>1. CASE command = "start"
    <3>1. c = [b EXCEPT !.playing = TRUE, !.epoch = b.counter, !.counter = b.counter + 1]
      BY <2>1 DEF SetTransport
    <3>2. QED  BY <1>1, <3>1 DEF BookInv, IsRecord
  <2>2. CASE command # "start"
    <3>1. c = [b EXCEPT !.playing = command # "stop"]
      BY <2>2 DEF SetTransport
    <3>2. QED  BY <1>1, <3>1 DEF BookInv, IsRecord
  <2>3. QED  BY <2>1, <2>2
<1>3. /\ c.content = b.content /\ c.active = b.active /\ c.revision = b.revision
      /\ c.snapshots = b.snapshots /\ c.sets = b.sets /\ c.events = b.events
  BY <1>2
<1>4. IsRecord(c)
  BY <1>2 DEF IsRecord
<1>5. BookInv(c)
  BY <1>1, <1>3, <1>4 DEF BookInv
<1>6. Named(c) /\ WinInv(c)
  BY <1>3 DEF IInv, BridgeInv, Named, WinInv
<1>7. Explained(b) => Explained(c)
  BY <1>3 DEF Explained
<1>8. QED  BY <1>1, <1>5, <1>6, <1>7 DEF IInv, BridgeInv

(***************************************************************************)
(* A request that writes an event, and leaves the sets as they are.        *)
(***************************************************************************)
Announces(b, e, c) ==
  /\ IsRecord(c)
  /\ c.sets = b.sets /\ c.events = Append(b.events, e)
  /\ c.revision \in {b.revision, b.revision + 1}
  /\ \E S : c.snapshots \in Seq(S)
  /\ UniqueIds(c.snapshots)
  /\ \A i \in DOMAIN c.snapshots : c.snapshots[i].id \in SnapshotIds

AnnouncedAs(b, e, c) ==
  /\ BridgeInv(c)
  /\ Replay(c.events, c.sets) = Replayed(Replay(b.events, b.sets), e, b.sets)

LEMMA AnnouncedIs ==
  ASSUME NEW b, BridgeInv(b), NEW e \in Events, e.type # "applied",
         NEW c, Announces(b, e, c)
  PROVE  AnnouncedAs(b, e, c)
<1>1. /\ c.sets = b.sets /\ c.events = Append(b.events, e)
      /\ c.revision \in {b.revision, b.revision + 1}
  BY DEF Announces
<1>2. /\ b.sets \in Seq(SetRecords) /\ b.events \in Seq(Events)
      /\ b.revision \in Nat /\ UniqueIds(b.sets)
  BY DEF BridgeInv, BookInv, Named
<1>3. BookInv(c)
  <2>1. Append(b.events, e) \in Seq(Events)
    BY <1>2
  <2>2. c.revision \in Nat
    BY <1>1, <1>2
  <2>3. QED  BY <1>1, <1>2, <2>1, <2>2 DEF BookInv, Announces
<1>4. SameSets(b.sets, c.sets)
  BY <1>1 DEF SameSets
<1>5. UniqueIds(c.sets) /\ SameOps(b.sets, c.sets)
  BY <1>2, <1>4, SameSetsNamed
<1>6. KnownEvents(c.events, c.sets)
  BY <1>1, <1>4, KnownAfter
<1>7. Named(c)
  BY <1>5, <1>6 DEF Named, Announces
<1>8. WinInv(c)
  <2>1. WinInv(b)
    BY DEF BridgeInv
  <2>2. ASSUME NEW i \in DOMAIN c.sets, c.sets[i].status = "applied"
        PROVE  /\ c.sets[i].resulting \in Nat /\ c.sets[i].resulting <= c.revision
               /\ Won(c.sets[i]) => c.sets[i].resulting = c.sets[i].expected + 1
    <3>1. /\ b.sets[i].resulting \in Nat /\ b.sets[i].resulting <= b.revision
          /\ Won(b.sets[i]) => b.sets[i].resulting = b.sets[i].expected + 1
      BY <1>1, <2>1, <2>2 DEF WinInv
    <3>2. QED  BY <1>1, <1>2, <3>1
  <2>3. QED  BY <1>1, <2>1, <2>2 DEF WinInv
<1>9. Replay(c.events, c.sets) = Replayed(Replay(b.events, b.sets), e, c.sets)
  BY <1>1, <1>5, JournalGrows
<1>10. QED  BY <1>1, <1>3, <1>7, <1>8, <1>9 DEF BridgeInv, AnnouncedAs

LEMMA ChangePatternKeeps ==
  ASSUME IInv, NEW p \in Patterns, NEW immediate \in BOOLEAN, ChangePattern(p, immediate)
  PROVE  IInv'
<1> DEFINE b == bridge
           c == bridge'
           e == Event("pattern", p)
           step == IF immediate THEN 0 ELSE b.step
           patterns == Ensure(b.content.patterns, p)
           content == [b.content EXCEPT !.patterns = patterns]
           r == Replay(b.events, b.sets)
           q == Replay(c.events, c.sets)
<1>1. BookInv(b) /\ spent' \in [steps : Nat, commands : Nat] /\ failed' = failed
  BY SpendCommand DEF IInv, BridgeInv, ChangePattern
<1>2. c = [content |-> content, active |-> p, step |-> step,
           beat |-> b.beat, measure |-> b.measure, playing |-> b.playing,
           epoch |-> b.epoch, counter |-> b.counter, revision |-> b.revision,
           sets |-> b.sets, snapshots |-> b.snapshots,
           events |-> Append(b.events, e)]
  <2> DEFINE a == [b EXCEPT !.content.patterns = Ensure(@, p), !.active = p,
                            !.step = IF immediate THEN 0 ELSE @]
             more == Append(b.events, e)
  <2>1. c = [a EXCEPT !.events = Append(@, e)]
    BY DEF ChangePattern, WithEvent
  <2>2. a = [b EXCEPT !.content = content, !.active = p, !.step = step]
    BY <1>1 DEF BookInv, IsRecord
  <2> HIDE DEF content, step, a
  <2>3. a = [content |-> content, active |-> p, step |-> step,
             beat |-> b.beat, measure |-> b.measure, playing |-> b.playing,
             epoch |-> b.epoch, counter |-> b.counter, revision |-> b.revision,
             sets |-> b.sets, snapshots |-> b.snapshots, events |-> b.events]
    BY <1>1, <2>2 DEF BookInv, IsRecord
  <2>4. c = [a EXCEPT !.events = more]
    BY <2>1, <2>3
  <2> HIDE DEF more
  <2>5. c = [content |-> content, active |-> p, step |-> step,
             beat |-> b.beat, measure |-> b.measure, playing |-> b.playing,
             epoch |-> b.epoch, counter |-> b.counter, revision |-> b.revision,
             sets |-> b.sets, snapshots |-> b.snapshots, events |-> more]
    BY <2>3, <2>4
  <2>6. QED  BY <2>5 DEF more
<1>3. e \in Events /\ e.type = "pattern" /\ e.id = p
  BY DEF Event, Events
<1> HIDE DEF e, content, step
<1>4. AnnouncedAs(b, e, c)
  <2>1. IsRecord(c)
    BY <1>2 DEF IsRecord
  <2>2. Announces(b, e, c)
    BY <1>1, <1>2, <2>1 DEF Announces, BookInv, IInv, BridgeInv, Named
  <2>3. QED  BY <1>3, <2>2, AnnouncedIs DEF IInv
<1>5. ASSUME Explained(b)  PROVE  Explained(c)
  <2>1. Reading(r, b) /\ Remembered(r, b)
    BY <1>5, ExplainedIs
  <2>2. q = Replayed(r, e, b.sets)
    BY <1>4 DEF AnnouncedAs
  <2> HIDE DEF r, q
  <2>3. q = [r EXCEPT !.content.patterns = Ensure(@, p), !.active = p]
    BY <1>3, <2>2 DEF Replayed
  <2> DEFINE t == r.taken
  <2>4. r = [content |-> b.content, active |-> b.active,
             revision |-> b.revision, taken |-> t]
    BY <2>1 DEF Reading
  <2>5. q = [r EXCEPT !.content = content, !.active = p]
    <3>1. r.content = b.content
      BY <2>4
    <3>2. r = [content |-> r.content, active |-> r.active,
               revision |-> r.revision, taken |-> r.taken]
      BY <2>4
    <3>3. q = [r EXCEPT !.content = [r.content EXCEPT !.patterns = Ensure(r.content.patterns, p)],
                        !.active = p]
      BY <2>3, <3>2
    <3>4. QED  BY <3>1, <3>3, Zenon DEF content
  <2> HIDE DEF t
  <2>6. q = [content |-> content, active |-> p, revision |-> b.revision, taken |-> t]
    BY <2>4, <2>5
  <2>7. Reading(q, c) /\ q.taken = r.taken
    BY <1>2, <2>6 DEF Reading, t
  <2>8. Remembered(q, c)
    BY <1>2, <2>1, <2>7 DEF Remembered
  <2>9. QED  BY <2>7, <2>8, ExplainedIs DEF q
<1>6. QED  BY <1>1, <1>4, <1>5 DEF IInv, AnnouncedAs

LongerBy(s, x, t) ==
  LET n == Len(s)
  IN /\ \E S : t \in Seq(S)
     /\ n \in Nat /\ DOMAIN s = 1 .. n /\ DOMAIN t = 1 .. n + 1
     /\ t[n + 1] = x /\ \A i \in 1 .. n : t[i] = s[i]

LEMMA LongerSeq ==
  ASSUME NEW s, NEW S, s \in Seq(S), NEW x
  PROVE  LongerBy(s, x, Append(s, x))
<1> DEFINE T == S \cup {x}
<1>1. s \in Seq(T) /\ x \in T
  OBVIOUS
<1> HIDE DEF T
<1>2. Append(s, x) \in Seq(T)
  BY <1>1
<1>3. QED  BY <1>1, <1>2 DEF LongerBy

LEMMA CreateSnapshotKeeps ==
  ASSUME IInv, NEW id \in SnapshotIds, CreateSnapshot(id)
  PROVE  IInv'
<1> DEFINE b == bridge
           c == bridge'
           e == Event("snapshot", id)
           s == [id |-> id, content |-> b.content, active |-> b.active,
                 step |-> b.step, beat |-> b.beat, measure |-> b.measure,
                 playing |-> b.playing, epoch |-> b.epoch]
           n == Len(b.snapshots)
           more == Append(b.snapshots, s)
           r == Replay(b.events, b.sets)
           q == Replay(c.events, c.sets)
<1>1. BookInv(b) /\ UNCHANGED <<failed, spent>>
      /\ \A i \in DOMAIN b.snapshots : b.snapshots[i].id # id
  BY DEF IInv, BridgeInv, CreateSnapshot
<1>2. c = [content |-> b.content, active |-> b.active, step |-> b.step,
           beat |-> b.beat, measure |-> b.measure, playing |-> b.playing,
           epoch |-> b.epoch, counter |-> b.counter, revision |-> b.revision,
           sets |-> b.sets, snapshots |-> more, events |-> Append(b.events, e)]
  <2> DEFINE a == [b EXCEPT !.snapshots = more]
             events == Append(b.events, e)
  <2>1. c = [a EXCEPT !.events = Append(@, e)]
    BY DEF CreateSnapshot, WithEvent
  <2> HIDE DEF more
  <2>0. a = [b EXCEPT !.snapshots = more]
    OBVIOUS
  <2> HIDE DEF a
  <2>2. a = [content |-> b.content, active |-> b.active, step |-> b.step,
             beat |-> b.beat, measure |-> b.measure, playing |-> b.playing,
             epoch |-> b.epoch, counter |-> b.counter, revision |-> b.revision,
             sets |-> b.sets, snapshots |-> more, events |-> b.events]
    BY <1>1, <2>0 DEF BookInv, IsRecord
  <2>3. c = [a EXCEPT !.events = events]
    BY <2>1, <2>2
  <2> HIDE DEF events
  <2>4. c = [content |-> b.content, active |-> b.active, step |-> b.step,
             beat |-> b.beat, measure |-> b.measure, playing |-> b.playing,
             epoch |-> b.epoch, counter |-> b.counter, revision |-> b.revision,
             sets |-> b.sets, snapshots |-> more, events |-> events]
    BY <2>2, <2>3
  <2>5. QED  BY <2>4 DEF events
<1>3. e \in Events /\ e.type = "snapshot" /\ e.id = id
  BY DEF Event, Events
<1>4. s.id = id /\ [content |-> s.content, active |-> s.active]
                    = [content |-> b.content, active |-> b.active]
  OBVIOUS
<1> HIDE DEF e, s
<1>5. /\ \E S : more \in Seq(S)
      /\ n \in Nat /\ DOMAIN b.snapshots = 1 .. n /\ DOMAIN more = 1 .. n + 1
      /\ more[n + 1] = s /\ \A i \in 1 .. n : more[i] = b.snapshots[i]
  <2>1. PICK S : b.snapshots \in Seq(S)
    BY <1>1 DEF BookInv
  <2>2. LongerBy(b.snapshots, s, more)
    BY <2>1, LongerSeq
  <2>3. QED  BY <2>2 DEF LongerBy
<1> HIDE DEF more, n
<1>6. AnnouncedAs(b, e, c)
  <2>1. IsRecord(c)
    BY <1>2 DEF IsRecord
  <2>2. UniqueIds(b.snapshots) /\ \A i \in DOMAIN b.snapshots : b.snapshots[i].id \in SnapshotIds
    BY DEF IInv, BridgeInv, Named
  <2>3. UniqueIds(more)
    BY <1>1, <1>4, <1>5, <2>2 DEF UniqueIds
  <2>4. \A i \in DOMAIN more : more[i].id \in SnapshotIds
    BY <1>4, <1>5, <2>2
  <2>5. Announces(b, e, c)
    BY <1>1, <1>2, <1>5, <2>1, <2>3, <2>4 DEF Announces, BookInv
  <2>6. QED  BY <1>3, <2>5, AnnouncedIs DEF IInv
<1>7. ASSUME Explained(b)  PROVE  Explained(c)
  <2> DEFINE was == [content |-> r.content, active |-> r.active]
             t == Put(r.taken, id, was)
  <2>1. Reading(r, b) /\ Remembered(r, b)
    BY <1>7, ExplainedIs
  <2>2. q = Replayed(r, e, b.sets)
    BY <1>6 DEF AnnouncedAs
  <2> HIDE DEF r, q
  <2>3. q = [r EXCEPT !.taken = t]
    BY <1>3, <2>2 DEF Replayed
  <2>4. was = [content |-> b.content, active |-> b.active]
    BY <2>1 DEF Reading
  <2>5. /\ id \in DOMAIN t /\ t[id] = was
        /\ \A x \in DOMAIN r.taken : x # id => x \in DOMAIN t /\ t[x] = r.taken[x]
    BY DEF Put
  <2> HIDE DEF was, t
  <2>6. q = [content |-> b.content, active |-> b.active,
             revision |-> b.revision, taken |-> t]
    BY <2>1, <2>3 DEF Reading
  <2>7. Reading(q, c) /\ q.taken = t
    BY <1>2, <2>6 DEF Reading
  <2>8. Remembered(q, c)
    <3> SUFFICES ASSUME NEW i \in DOMAIN more
                 PROVE  /\ more[i].id \in DOMAIN t
                        /\ t[more[i].id] = [content |-> more[i].content,
                                            active |-> more[i].active]
      BY <1>2, <2>7 DEF Remembered
    <3>1. CASE i = n + 1
      BY <1>4, <1>5, <2>4, <2>5, <3>1
    <3>2. CASE i \in 1 .. n
      BY <1>1, <1>5, <2>1, <2>5, <3>2 DEF Remembered
    <3>3. QED  BY <1>5, <3>1, <3>2
  <2>9. QED  BY <2>7, <2>8, ExplainedIs DEF q
<1>8. QED  BY <1>1, <1>6, <1>7 DEF IInv, AnnouncedAs

LEMMA RollbackKeeps ==
  ASSUME IInv, NEW i \in DOMAIN bridge.snapshots, RollbackSnapshot(i)
  PROVE  IInv'
<1> DEFINE b == bridge
           c == bridge'
           s == b.snapshots[i]
           e == Event("rollback", s.id)
           r == Replay(b.events, b.sets)
           q == Replay(c.events, c.sets)
<1>1. BookInv(b) /\ spent' \in [steps : Nat, commands : Nat] /\ failed' = failed
      /\ s.id \in SnapshotIds
  BY SpendCommand DEF IInv, BridgeInv, RollbackSnapshot, Named
<1>2. c = [content |-> s.content, active |-> s.active, step |-> s.step,
           beat |-> s.beat, measure |-> s.measure, playing |-> s.playing,
           epoch |-> s.epoch, counter |-> b.counter, revision |-> b.revision + 1,
           sets |-> b.sets, snapshots |-> b.snapshots,
           events |-> Append(b.events, e)]
  <2> DEFINE a == Restored(b, s)
             k == b.revision + 1
             d == [a EXCEPT !.revision = a.revision + 1]
             more == Append(b.events, e)
  <2>1. c = [d EXCEPT !.events = Append(@, e)]
    BY DEF RollbackSnapshot, WithEvent
  <2> HIDE DEF s, d
  <2>0. a = [b EXCEPT !.content = s.content, !.active = s.active, !.step = s.step,
                      !.beat = s.beat, !.measure = s.measure, !.playing = s.playing,
                      !.epoch = s.epoch]
    BY DEF Restored
  <2> HIDE DEF a
  <2>2. a = [content |-> s.content, active |-> s.active, step |-> s.step,
             beat |-> s.beat, measure |-> s.measure, playing |-> s.playing,
             epoch |-> s.epoch, counter |-> b.counter, revision |-> b.revision,
             sets |-> b.sets, snapshots |-> b.snapshots, events |-> b.events]
    BY <1>1, <2>0 DEF BookInv, IsRecord
  <2>3. d = [a EXCEPT !.revision = k]
    BY <2>2 DEF d
  <2> HIDE DEF k
  <2>4. d = [content |-> s.content, active |-> s.active, step |-> s.step,
             beat |-> s.beat, measure |-> s.measure, playing |-> s.playing,
             epoch |-> s.epoch, counter |-> b.counter, revision |-> k,
             sets |-> b.sets, snapshots |-> b.snapshots, events |-> b.events]
    BY <2>2, <2>3
  <2>5. c = [d EXCEPT !.events = more]
    BY <2>1, <2>4
  <2> HIDE DEF more
  <2>6. c = [content |-> s.content, active |-> s.active, step |-> s.step,
             beat |-> s.beat, measure |-> s.measure, playing |-> s.playing,
             epoch |-> s.epoch, counter |-> b.counter, revision |-> k,
             sets |-> b.sets, snapshots |-> b.snapshots, events |-> more]
    BY <2>4, <2>5
  <2>7. QED  BY <2>6 DEF k, more
<1>3. e \in Events /\ e.type = "rollback" /\ e.id = s.id
  BY <1>1 DEF Event, Events
<1> HIDE DEF e
<1>4. AnnouncedAs(b, e, c)
  <2>1. IsRecord(c)
    BY <1>2 DEF IsRecord
  <2>2. Announces(b, e, c)
    BY <1>1, <1>2, <2>1 DEF Announces, BookInv, IInv, BridgeInv, Named
  <2>3. QED  BY <1>3, <2>2, AnnouncedIs DEF IInv
<1>5. ASSUME Explained(b)  PROVE  Explained(c)
  <2> DEFINE content == s.content
             active == s.active
             t == r.taken
             k == b.revision + 1
  <2>1. Reading(r, b) /\ Remembered(r, b)
    BY <1>5, ExplainedIs
  <2>2. q = Replayed(r, e, b.sets)
    BY <1>4 DEF AnnouncedAs
  <2> HIDE DEF r, q
  <2>3. r.taken[s.id].content = content /\ r.taken[s.id].active = active
    <3>1. r.taken[s.id] = [content |-> content, active |-> active]
      BY <2>1 DEF Remembered
    <3> HIDE DEF content, active
    <3>2. QED  BY <3>1
  <2>4. r.revision = b.revision
    BY <2>1 DEF Reading
  <2>5. q = [r EXCEPT !.content = content, !.active = active, !.revision = k]
    <3>1. q = [r EXCEPT !.content = r.taken[s.id].content,
                        !.active = r.taken[s.id].active,
                        !.revision = @ + 1]
      BY <1>3, <2>2 DEF Replayed
    <3>2. QED  BY <2>1, <2>3, <2>4, <3>1 DEF Reading
  <2> HIDE DEF content, active, t, k
  <2>6. q = [content |-> content, active |-> active, revision |-> k, taken |-> t]
    BY <2>1, <2>5 DEF Reading, t
  <2>7. Reading(q, c) /\ q.taken = r.taken
    BY <1>2, <2>6 DEF Reading, content, active, t, k
  <2>8. Remembered(q, c)
    BY <1>2, <2>1, <2>7 DEF Remembered
  <2>9. QED  BY <2>7, <2>8, ExplainedIs DEF q
<1>6. QED  BY <1>1, <1>4, <1>5 DEF IInv, AnnouncedAs

-----------------------------------------------------------------------------
(* The invariant, and what it says. *)

LEMMA InitHolds == ASSUME MockAssumption, Init PROVE IInv
<1> USE DEF Init
<1>1. IsRecord(bridge)
  BY DEF IsRecord
<1>2. /\ bridge.sets = <<>> /\ bridge.events = <<>> /\ bridge.snapshots = <<>>
      /\ bridge.content = EmptyContent /\ bridge.active = FirstPattern
      /\ bridge.revision = 0
  OBVIOUS
<1>3. BookInv(bridge)
  BY <1>1, <1>2 DEF BookInv
<1>4. Named(bridge) /\ WinInv(bridge)
  BY <1>2 DEF Named, UniqueIds, KnownEvents, WinInv
<1>5. Explained(bridge)
  <2> DEFINE r == Replay(bridge.events, bridge.sets)
  <2>1. r = Unwritten
    BY <1>2, ReplayOfNone
  <2> HIDE DEF r
  <2>2. Reading(r, bridge) /\ Remembered(r, bridge)
    BY <1>2, <2>1 DEF Unwritten, Reading, Remembered
  <2>3. QED  BY <2>2, ExplainedIs DEF r
<1>6. QED  BY <1>3, <1>4, <1>5 DEF IInv, BridgeInv

LEMMA StepKeeps ==
  ASSUME MockAssumption, IInv, [Next]_vars
  PROVE  IInv'
<1>1. ASSUME NEW id \in Ids, NEW set \in Sets, Queue(id, set)  PROVE IInv'
  BY <1>1, QueueKeeps
<1>2. ASSUME NEW id \in Ids, NEW set \in Sets, ApplyNow(id, set)  PROVE IInv'
  BY <1>2, ApplyNowKeeps
<1>3. ASSUME NEW n \in Advances, Advance(n)  PROVE IInv'
  BY <1>3, AdvanceKeeps
<1>4. ASSUME NEW command \in {"start", "stop", "continue"}, SetTransport(command)
      PROVE  IInv'
  BY <1>4, SetTransportKeeps
<1>5. ASSUME NEW p \in Patterns, NEW immediate \in BOOLEAN, ChangePattern(p, immediate)
      PROVE  IInv'
  BY <1>5, ChangePatternKeeps
<1>6. ASSUME NEW id \in SnapshotIds, CreateSnapshot(id)  PROVE IInv'
  BY <1>6, CreateSnapshotKeeps
<1>7. ASSUME NEW i \in DOMAIN bridge.snapshots, RollbackSnapshot(i)  PROVE IInv'
  BY <1>7, RollbackKeeps
<1>8. CASE UNCHANGED vars
  BY <1>8 DEF vars, IInv
<1>9. QED  BY <1>1, <1>2, <1>3, <1>4, <1>5, <1>6, <1>7, <1>8 DEF Next

(***************************************************************************)
(* The invariant holds in every state.                                     *)
(***************************************************************************)
THEOREM Invariance == Spec => []IInv
<1>1. Init => IInv
  BY InitHolds, MockAssumption
<1>2. IInv /\ [Next]_vars => IInv'
  BY StepKeeps, MockAssumption
<1>3. QED  BY <1>1, <1>2, PTL DEF Spec

(***************************************************************************)
(* Of the sets prepared against one revision at most one is applied with a *)
(* change to the content, however queues, immediate sets, boundaries,      *)
(* Pattern changes and rollbacks follow each other; for any operations,    *)
(* transport and number of requests.                                       *)
(***************************************************************************)
THEOREM RevisionsAreSpentOnce == Spec => []OneWinnerPerRevision
<1>1. IInv => OneWinnerPerRevision
  BY DEF IInv, BridgeInv, WinInv, Won, OneWinnerPerRevision
<1>2. QED  BY <1>1, Invariance, PTL

(***************************************************************************)
(* The journal of MockBridgeState, read again, gives the content, the      *)
(* active Pattern and the revision, unless a set failed.                   *)
(***************************************************************************)
THEOREM JournalExplains == Spec => []JournalExplainsContent
<1>1. ASSUME IInv  PROVE JournalExplainsContent
  <2> DEFINE r == Replay(bridge.events, bridge.sets)
  <2>1. ~failed => Reading(r, bridge)
    BY <1>1, ExplainedIs DEF IInv
  <2> HIDE DEF r
  <2>2. ~failed => /\ r.content = bridge.content
                   /\ r.active = bridge.active
                   /\ r.revision = bridge.revision
    BY <2>1 DEF Reading
  <2>3. QED  BY <2>2 DEF JournalExplainsContent, r
<1>2. QED  BY <1>1, Invariance, PTL

QuietAfter(b) ==
  \A i \in DOMAIN b.sets :
    b.sets[i].status = "queued" => ~IsDue(b, b.sets[i].at, Boundaries(b.step))

(***************************************************************************)
(* A transport that moved stands at a step nothing waits for.              *)
(***************************************************************************)
LEMMA AdvanceSettles ==
  ASSUME MockAssumption, IInv, NEW n \in Advances, Advance(n),
         spent'.steps # spent.steps, ~failed'
  PROVE  QuietAfter(bridge')
<1> DEFINE r == StepMany(bridge, n)
<1>1. StepsInv(bridge, n, r)
  BY AdvanceKeeps
<1> HIDE DEF r
<1>2. /\ bridge' = r.bridge /\ failed' = (failed \/ ~r.ok) /\ n \in Nat
      /\ spent' = [spent EXCEPT !["steps"] = @ + n]
  BY DEF Advance, Spend, r, MockAssumption
<1>3. n # 0
  BY <1>2 DEF IInv
<1>4. r.ok
  BY <1>1, <1>2 DEF StepsInv
<1>5. BridgeInv(r.bridge)
      /\ Quiet(r.bridge, Len(r.bridge.sets), Boundaries(r.bridge.step))
  BY <1>1, <1>3, <1>4 DEF StepsInv
<1>6. DOMAIN r.bridge.sets = 1 .. Len(r.bridge.sets)
  BY <1>5 DEF BridgeInv, BookInv
<1>7. QED  BY <1>2, <1>5, <1>6 DEF Quiet, QuietAfter

LEMMA OnlyAdvanceSteps ==
  ASSUME IInv, [Next]_vars, spent'.steps # spent.steps
  PROVE  \E n \in Advances : Advance(n)
<1>1. ASSUME Spend("commands", 1, MaxCommands)  PROVE FALSE
  BY <1>1, SpendCommand
<1>2. ASSUME UNCHANGED spent  PROVE FALSE
  BY <1>2
<1>3. QED  BY <1>1, <1>2
       DEF Next, vars, Queue, ApplyNow, SetTransport, ChangePattern, CreateSnapshot,
           RollbackSnapshot

(***************************************************************************)
(* advance_transport leaves no set waiting for the step it stops at, for   *)
(* every number of sets and of steps, unless a set failed.                 *)
(***************************************************************************)
THEOREM DueSetsAreSettled == Spec => DueSetsSettle
<1> DEFINE A == spent'.steps # spent.steps /\ ~failed' =>
                  \A i \in DOMAIN bridge'.sets :
                    bridge'.sets[i].status = "queued" =>
                      ~IsDue(bridge', bridge'.sets[i].at, Boundaries(bridge'.step))
<1>1. IInv /\ [Next]_vars => [A]_vars
  <2> SUFFICES ASSUME IInv, [Next]_vars, spent'.steps # spent.steps, ~failed'
               PROVE  QuietAfter(bridge')
    BY DEF QuietAfter
  <2>1. PICK n \in Advances : Advance(n)
    BY OnlyAdvanceSteps
  <2>2. QED  BY <2>1, MockAssumption, AdvanceSettles
<1>2. QED  BY <1>1, Invariance, PTL DEF Spec, DueSetsSettle
==============================================================================
