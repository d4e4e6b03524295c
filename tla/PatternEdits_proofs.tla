------------------------- MODULE PatternEdits_proofs -------------------------
(***************************************************************************)
(* What operation sets do to the Pattern in the work buffer, for any       *)
(* number of tracks, steps and slots of the pool, any operation sets of    *)
(* any length, and any number of sets and panel changes. A pool is seen as *)
(* cells, one per slot and step; writing a lock rewrites the cells of one  *)
(* track, parameter and step and no other that shows anything. EditAll and *)
(* AskAll are loops, and each fact about them is proved at the first       *)
(* operation that would break it.                                          *)
(***************************************************************************)
EXTENDS PatternEdits, FiniteSetTheorems, WellFoundedInduction, TLAPS

(***************************************************************************)
(* A non-empty set of numbers has a least one: the loops over operations   *)
(* are reasoned about by their first exception.                            *)
(***************************************************************************)
LEMMA HasFirst ==
  ASSUME NEW T \in SUBSET Nat, T # {}
  PROVE  \E n \in T : \A m \in T : n <= m
<1>1. PICK n \in T : \A m \in T : ~ (<<m, n>> \in OpToRel(<, Nat))
  BY WFMin, NatLessThanWellFounded, Zenon
<1>2. \A m \in T : ~ (m < n)
  BY <1>1, Zenon DEF OpToRel
<1>3. QED  BY <1>2

-----------------------------------------------------------------------------
(* The pool. *)

(***************************************************************************)
(* PoolInv: types; a slot of a parameter belongs to a track; free slots    *)
(* are clean; no two slots belong to the same track and parameter; and a   *)
(* companion behind a free slot has no byte set, so that a lock that       *)
(* claims the slot does not get a low byte of an older one.                *)
(***************************************************************************)
Owns(slot, t, type) == slot.track = t /\ slot.type = type

PoolInv(pool) ==
  /\ pool \in [1 .. PoolSize -> Slots]
  /\ \A i \in 1 .. PoolSize : pool[i].type \in Types => pool[i].track \in Tracks
  /\ \A i \in 1 .. PoolSize : pool[i].type = "free" => pool[i] = FreeSlot
  /\ \A i, j \in 1 .. PoolSize :
       pool[i].type \in Types /\ Owns(pool[j], pool[i].track, pool[i].type) => i = j
  /\ \A i \in 1 .. PoolSize :
       i + 1 \in 1 .. PoolSize /\ pool[i].type = "free" /\ IsCompanion(pool[i + 1])
         => pool[i + 1].bytes = NoBytes

LEMMA PoolLen ==
  ASSUME NEW pool, pool \in [1 .. PoolSize -> Slots]
  PROVE  Len(pool) = PoolSize
  BY PatternAssumption

LEMMA SizeIsNumber == PoolSize \in Nat /\ Top \in Nat
  BY PatternAssumption

(***************************************************************************)
(* A byte is a number, and the unset byte no value.                        *)
(***************************************************************************)
LEMMA BytesAre ==
  /\ Unset \in Bytes /\ 0 .. Top \subseteq Bytes
  /\ \A b \in Bytes : b \in Nat
  /\ ~InRange(Unset) /\ \A b \in Bytes : InRange(b) => b # Unset
  BY SizeIsNumber DEF Unset, Bytes, InRange

LEMMA CleanSlots ==
  NoBytes \in [Steps -> Bytes] /\ FreeSlot \in Slots /\ FreeSlot.type = "free"
  BY BytesAre DEF NoBytes, FreeSlot, Slots

(***************************************************************************)
(* q is the slot with one byte changed.                                    *)
(***************************************************************************)
ByteChanged(slot, s, byte, q) ==
  /\ q \in Slots /\ q.track = slot.track /\ q.type = slot.type
  /\ q.bytes[s] = byte /\ \A x \in Steps : x # s => q.bytes[x] = slot.bytes[x]

LEMMA ChangeByte ==
  ASSUME NEW slot \in Slots, NEW s \in Steps, NEW byte \in Bytes,
         NEW q, q = [slot EXCEPT !.bytes[s] = byte]
  PROVE  ByteChanged(slot, s, byte, q)
<1>1. slot = [track |-> slot.track, type |-> slot.type, bytes |-> slot.bytes]
      /\ slot.bytes \in [Steps -> Bytes]
      /\ slot.track \in Tracks \cup {None}
      /\ slot.type \in Types \cup {"free", Companion}
  BY DEF Slots
<1> DEFINE bytes == [slot.bytes EXCEPT ![s] = byte]
<1>2. q = [track |-> slot.track, type |-> slot.type, bytes |-> bytes]
  <2>1. q = [slot EXCEPT !.bytes = bytes]
    BY <1>1
  <2> HIDE DEF bytes
  <2>2. QED  BY <1>1, <2>1
<1>3. bytes \in [Steps -> Bytes] /\ bytes[s] = byte
      /\ \A x \in Steps : x # s => bytes[x] = slot.bytes[x]
  BY <1>1
<1> HIDE DEF bytes
<1>4. QED  BY <1>1, <1>2, <1>3 DEF Slots, ByteChanged

(***************************************************************************)
(* What a cell of the pool shows.                                          *)
(***************************************************************************)
Shows(pool, i, x) == pool[i].type \in Parameters /\ InRange(pool[i].bytes[x])

Shown(pool, i, x) ==
  Lock(pool[i].track, x, pool[i].type,
       Value(pool[i].type, pool[i].bytes[x], LowByte(pool, i, x)))

(***************************************************************************)
(* The locks of a pool are what its cells show.                            *)
(***************************************************************************)
LEMMA DecodeIs ==
  ASSUME NEW pool, pool \in [1 .. PoolSize -> Slots]
  PROVE  \A l : l \in Decode(pool) <=>
           \E i \in 1 .. PoolSize, x \in Steps : Shows(pool, i, x) /\ l = Shown(pool, i, x)
<1>1. Len(pool) = PoolSize
  BY PoolLen
<1>2. QED  BY <1>1 DEF Decode, Shows, Shown

(***************************************************************************)
(* A cell that stays, and one that is written.                             *)
(***************************************************************************)
SameCell(pool, q, i, x) ==
  /\ q[i].track = pool[i].track /\ q[i].type = pool[i].type
  /\ q[i].bytes[x] = pool[i].bytes[x] /\ LowByte(q, i, x) = LowByte(pool, i, x)

Written(q, i, t, s, type, byte) ==
  Owns(q[i], t, type) /\ q[i].bytes[s] = byte /\ LowByte(q, i, s) = 0

(***************************************************************************)
(* From pool to q the cells of one track, step and parameter are written,  *)
(* and no other that shows anything changes.                               *)
(***************************************************************************)
CellRewritten(pool, q, i, x, t, s, type, byte) ==
  \/ SameCell(pool, q, i, x) /\ ~(Owns(pool[i], t, type) /\ x = s)
  \/ /\ x = s /\ Written(q, i, t, s, type, byte)
     /\ Owns(pool[i], t, type) \/ pool[i].type = "free"
  \/ /\ pool[i].type \in {"free", Companion}
     /\ q[i].type = Companion \/ q[i].bytes[x] = Unset

Rewrites(pool, q, t, s, type, byte) ==
  /\ \A i \in 1 .. PoolSize, x \in Steps : CellRewritten(pool, q, i, x, t, s, type, byte)
  /\ \E i \in 1 .. PoolSize : Written(q, i, t, s, type, byte)

(***************************************************************************)
(* What writing a byte asks of the locks.                                  *)
(***************************************************************************)
IsAt(l, t, s, type) == l.track = t /\ l.step = s /\ l.type = type

LocksWritten(old, new, t, s, type, byte) ==
  \A l : l \in new <=>
    \/ l \in old /\ ~IsAt(l, t, s, type)
    \/ /\ type \in Parameters /\ InRange(byte)
       /\ l = Lock(t, s, type, Value(type, byte, 0))

(***************************************************************************)
(* So a pool rewritten that way shows what was asked, and the other locks  *)
(* as before.                                                              *)
(***************************************************************************)
LEMMA RewritesLocks ==
  ASSUME NEW pool, pool \in [1 .. PoolSize -> Slots], NEW q, q \in [1 .. PoolSize -> Slots],
         NEW t, NEW s \in Steps, NEW type, NEW byte, Rewrites(pool, q, t, s, type, byte)
  PROVE  LocksWritten(Decode(pool), Decode(q), t, s, type, byte)
<1>1. /\ \A l : l \in Decode(pool) <=>
           \E i \in 1 .. PoolSize, x \in Steps : Shows(pool, i, x) /\ l = Shown(pool, i, x)
      /\ \A l : l \in Decode(q) <=>
           \E i \in 1 .. PoolSize, x \in Steps : Shows(q, i, x) /\ l = Shown(q, i, x)
  BY DecodeIs
<1>2. ~InRange(Unset) /\ Companion \notin Parameters /\ "free" \notin Parameters
  BY BytesAre DEF Parameters, Companion
<1>3. \A i \in 1 .. PoolSize, x \in Steps : CellRewritten(pool, q, i, x, t, s, type, byte)
  BY DEF Rewrites
<1>4. ASSUME NEW i \in 1 .. PoolSize, NEW x \in Steps, SameCell(pool, q, i, x)
      PROVE  /\ Shows(q, i, x) <=> Shows(pool, i, x)
             /\ Shown(q, i, x) = Shown(pool, i, x)
  BY <1>4 DEF SameCell, Shows, Shown
<1>5. ASSUME NEW i \in 1 .. PoolSize, NEW x \in Steps
      PROVE  IsAt(Shown(pool, i, x), t, s, type) <=> Owns(pool[i], t, type) /\ x = s
  BY DEF Shown, Lock, IsAt, Owns
<1>6. ASSUME NEW i \in 1 .. PoolSize, Written(q, i, t, s, type, byte)
      PROVE  /\ Shows(q, i, s) <=> type \in Parameters /\ InRange(byte)
             /\ Shown(q, i, s) = Lock(t, s, type, Value(type, byte, 0))
  BY <1>6 DEF Written, Owns, Shows, Shown
<1>7. ASSUME NEW l, l \in Decode(q)
      PROVE  \/ l \in Decode(pool) /\ ~IsAt(l, t, s, type)
             \/ /\ type \in Parameters /\ InRange(byte)
                /\ l = Lock(t, s, type, Value(type, byte, 0))
  <2>1. PICK i \in 1 .. PoolSize, x \in Steps : Shows(q, i, x) /\ l = Shown(q, i, x)
    BY <1>1, <1>7
  <2>2. CASE SameCell(pool, q, i, x) /\ ~(Owns(pool[i], t, type) /\ x = s)
    BY <1>1, <1>4, <1>5, <2>1, <2>2
  <2>3. CASE x = s /\ Written(q, i, t, s, type, byte)
    BY <1>6, <2>1, <2>3
  <2>4. CASE q[i].type = Companion \/ q[i].bytes[x] = Unset
    BY <1>2, <2>1, <2>4 DEF Shows
  <2>5. QED  BY <1>3, <2>2, <2>3, <2>4 DEF CellRewritten
<1>8. ASSUME NEW l, l \in Decode(pool), ~IsAt(l, t, s, type)
      PROVE  l \in Decode(q)
  <2>1. PICK i \in 1 .. PoolSize, x \in Steps : Shows(pool, i, x) /\ l = Shown(pool, i, x)
    BY <1>1, <1>8
  <2>2. SameCell(pool, q, i, x)
    BY <1>2, <1>3, <1>5, <1>8, <2>1 DEF CellRewritten, Shows
  <2>3. QED  BY <1>1, <1>4, <2>1, <2>2
<1>9. ASSUME type \in Parameters, InRange(byte)
      PROVE  Lock(t, s, type, Value(type, byte, 0)) \in Decode(q)
  <2>1. PICK i \in 1 .. PoolSize : Written(q, i, t, s, type, byte)
    BY DEF Rewrites
  <2>2. QED  BY <1>1, <1>6, <1>9, <2>1
<1>10. QED  BY <1>7, <1>8, <1>9 DEF LocksWritten

LEMMA TypeNames ==
  /\ Companion \notin Types /\ "free" \notin Types /\ Companion # "free"
  /\ Parameters \subseteq Types /\ "depth" \in Types
  BY DEF Types, Parameters, Companion

(***************************************************************************)
(* Writing into the slot a lock has, and into the companion behind it.     *)
(***************************************************************************)
Overwritten(pool, q, own, s, byte) ==
  /\ q \in [1 .. PoolSize -> Slots]
  /\ \A i \in 1 .. PoolSize :
       /\ q[i].track = pool[i].track /\ q[i].type = pool[i].type
       /\ \A x \in Steps : x # s => q[i].bytes[x] = pool[i].bytes[x]
       /\ i \in own => q[i].bytes[s] = byte
       /\ i \notin own /\ i - 1 \in own /\ IsCompanion(pool[i]) => q[i].bytes[s] = Unset
       /\ i \notin own /\ ~(i - 1 \in own /\ IsCompanion(pool[i])) => q[i] = pool[i]

LEMMA OverwriteIs ==
  ASSUME NEW pool, pool \in [1 .. PoolSize -> Slots], NEW own \in SUBSET (1 .. PoolSize),
         NEW s \in Steps, NEW byte \in Bytes
  PROVE  Overwritten(pool, Overwrite(pool, own, s, byte), own, s, byte)
<1> DEFINE q == Overwrite(pool, own, s, byte)
<1>1. q = [i \in 1 .. PoolSize |->
            IF i \in own THEN [pool[i] EXCEPT !.bytes[s] = byte]
            ELSE IF i - 1 \in own /\ IsCompanion(pool[i])
                   THEN [pool[i] EXCEPT !.bytes[s] = Unset]
                   ELSE pool[i]]
  BY PoolLen DEF Overwrite
<1> HIDE DEF q
<1>2. ASSUME NEW i \in 1 .. PoolSize
      PROVE  /\ q[i] \in Slots
             /\ q[i].track = pool[i].track /\ q[i].type = pool[i].type
             /\ \A x \in Steps : x # s => q[i].bytes[x] = pool[i].bytes[x]
             /\ i \in own => q[i].bytes[s] = byte
             /\ i \notin own /\ i - 1 \in own /\ IsCompanion(pool[i]) => q[i].bytes[s] = Unset
             /\ i \notin own /\ ~(i - 1 \in own /\ IsCompanion(pool[i])) => q[i] = pool[i]
  <2>1. pool[i] \in Slots /\ Unset \in Bytes
    BY BytesAre
  <2>2. CASE i \in own
    <3>1. q[i] = [pool[i] EXCEPT !.bytes[s] = byte]
      BY <1>1, <2>2
    <3>2. ByteChanged(pool[i], s, byte, q[i])
      BY <2>1, <3>1, ChangeByte
    <3>3. QED  BY <2>2, <3>2 DEF ByteChanged
  <2>3. CASE i \notin own /\ i - 1 \in own /\ IsCompanion(pool[i])
    <3>1. q[i] = [pool[i] EXCEPT !.bytes[s] = Unset]
      BY <1>1, <2>3
    <3>2. ByteChanged(pool[i], s, Unset, q[i])
      BY <2>1, <3>1, ChangeByte
    <3>3. QED  BY <2>3, <3>2 DEF ByteChanged
  <2>4. CASE i \notin own /\ ~(i - 1 \in own /\ IsCompanion(pool[i]))
    <3>1. q[i] = pool[i]
      BY <1>1, <2>4
    <3>2. QED  BY <2>1, <2>4, <3>1
  <2>5. QED  BY <2>2, <2>3, <2>4
<1>3. q \in [1 .. PoolSize -> Slots]
  BY <1>1, <1>2
<1>4. QED  BY <1>2, <1>3 DEF Overwritten, q

LEMMA OverwriteRewrites ==
  ASSUME NEW pool, PoolInv(pool), NEW t, NEW s \in Steps, NEW type \in Types,
         NEW byte \in Bytes, NEW own, own = SlotsOf(pool, t, type), own # {},
         NEW q, q = Overwrite(pool, own, s, byte)
  PROVE  PoolInv(q) /\ Rewrites(pool, q, t, s, type, byte)
<1>1. /\ pool \in [1 .. PoolSize -> Slots]
      /\ own = {i \in 1 .. PoolSize : Owns(pool[i], t, type)}
  <2>1. pool \in [1 .. PoolSize -> Slots]
    BY DEF PoolInv
  <2>2. SlotsOf(pool, t, type) = {i \in 1 .. PoolSize : Owns(pool[i], t, type)}
    BY <2>1, PoolLen DEF SlotsOf, Owns
  <2>3. QED  BY <2>1, <2>2
<1>2. Overwritten(pool, q, own, s, byte)
  BY <1>1, OverwriteIs
<1>3. /\ q \in [1 .. PoolSize -> Slots]
      /\ \A i \in 1 .. PoolSize :
           /\ q[i].track = pool[i].track /\ q[i].type = pool[i].type
           /\ \A x \in Steps : x # s => q[i].bytes[x] = pool[i].bytes[x]
           /\ i \in own => q[i].bytes[s] = byte
           /\ i \notin own /\ i - 1 \in own /\ IsCompanion(pool[i]) => q[i].bytes[s] = Unset
           /\ i \notin own /\ ~(i - 1 \in own /\ IsCompanion(pool[i])) => q[i] = pool[i]
  BY <1>2 DEF Overwritten
<1>4. Len(pool) = PoolSize /\ Len(q) = PoolSize
  BY <1>1, <1>3, PoolLen
<1>5. \A i \in own : pool[i].type = type /\ ~IsCompanion(pool[i]) /\ pool[i].type # "free"
  BY <1>1, TypeNames DEF Owns, IsCompanion
<1>6. ASSUME NEW i \in own
      PROVE  Written(q, i, t, s, type, byte)
  <2>1. Owns(q[i], t, type) /\ q[i].bytes[s] = byte
    BY <1>1, <1>3 DEF Owns
  <2>2. LowByte(q, i, s) = 0
    <3> SUFFICES ASSUME i < Len(q), IsCompanion(q[i + 1])
                 PROVE  q[i + 1].bytes[s] = Unset
      BY DEF LowByte
    <3>1. i \in 1 .. PoolSize /\ i + 1 \in 1 .. PoolSize /\ (i + 1) - 1 = i
      BY <1>1, <1>4, SizeIsNumber
    <3>2. IsCompanion(pool[i + 1])
      BY <1>3, <3>1 DEF IsCompanion
    <3>3. i + 1 \notin own
      BY <1>5, <3>2
    <3>4. QED  BY <1>3, <3>1, <3>2, <3>3
  <2>3. QED  BY <2>1, <2>2 DEF Written
<1>7. ASSUME NEW i \in 1 .. PoolSize, NEW x \in Steps
      PROVE  CellRewritten(pool, q, i, x, t, s, type, byte)
  <2>1. CASE i \in own /\ x = s
    BY <1>1, <1>6, <2>1 DEF CellRewritten
  <2>2. CASE i \notin own /\ i - 1 \in own /\ IsCompanion(pool[i])
    BY <1>3, <2>2 DEF CellRewritten, IsCompanion
  <2>3. CASE /\ ~(i \in own /\ x = s)
             /\ ~(i \notin own /\ i - 1 \in own /\ IsCompanion(pool[i]))
    <3>1. /\ q[i].track = pool[i].track /\ q[i].type = pool[i].type
          /\ q[i].bytes[x] = pool[i].bytes[x]
      BY <1>3, <2>3
    <3>2. LowByte(q, i, x) = LowByte(pool, i, x)
      <4>1. CASE i < PoolSize
        <5>1. i + 1 \in 1 .. PoolSize /\ (i + 1) - 1 = i
          BY <4>1, SizeIsNumber
        <5>2. IsCompanion(q[i + 1]) <=> IsCompanion(pool[i + 1])
          BY <1>3, <5>1 DEF IsCompanion
        <5>3. IsCompanion(pool[i + 1]) => q[i + 1].bytes[x] = pool[i + 1].bytes[x]
          BY <1>3, <1>5, <2>3, <5>1
        <5>4. QED  BY <1>4, <3>1, <5>2, <5>3 DEF LowByte
      <4>2. CASE ~(i < PoolSize)
        BY <1>4, <4>2 DEF LowByte
      <4>3. QED  BY <4>1, <4>2
    <3>3. ~(Owns(pool[i], t, type) /\ x = s)
      BY <1>1, <2>3
    <3>4. QED  BY <3>1, <3>2, <3>3 DEF CellRewritten, SameCell
  <2>4. QED  BY <2>1, <2>2, <2>3
<1>8. Rewrites(pool, q, t, s, type, byte)
  <2>1. PICK i \in 1 .. PoolSize : i \in own
    BY <1>1
  <2>2. QED  BY <1>6, <1>7, <2>1 DEF Rewrites
<1>9. PoolInv(q)
  <2>1. \A i \in 1 .. PoolSize : q[i].type \in Types => q[i].track \in Tracks
    BY <1>3 DEF PoolInv
  <2>2. ASSUME NEW i \in 1 .. PoolSize, q[i].type = "free"
        PROVE  q[i] = FreeSlot
    <3>1. pool[i].type = "free" /\ i \notin own /\ ~IsCompanion(pool[i])
      BY <1>3, <1>5, <2>2, TypeNames DEF IsCompanion
    <3>2. QED  BY <1>3, <3>1 DEF PoolInv
  <2>3. \A i, j \in 1 .. PoolSize :
          q[i].type \in Types /\ Owns(q[j], q[i].track, q[i].type) => i = j
    BY <1>3 DEF PoolInv, Owns
  <2>4. ASSUME NEW i \in 1 .. PoolSize, i + 1 \in 1 .. PoolSize, q[i].type = "free",
               IsCompanion(q[i + 1])
        PROVE  q[i + 1].bytes = NoBytes
    <3>1. pool[i].type = "free" /\ IsCompanion(pool[i + 1])
      BY <1>3, <2>4 DEF IsCompanion
    <3>2. i \notin own /\ i + 1 \notin own /\ (i + 1) - 1 = i
      BY <1>5, <3>1
    <3>3. q[i + 1] = pool[i + 1]
      BY <1>3, <2>4, <3>2
    <3>4. QED  BY <2>4, <3>1, <3>3 DEF PoolInv
  <2>5. QED  BY <1>3, <2>1, <2>2, <2>3, <2>4 DEF PoolInv
<1>10. QED  BY <1>8, <1>9

(***************************************************************************)
(* Claiming a free slot for a lock.                                        *)
(***************************************************************************)
LEMMA ClaimRewrites ==
  ASSUME NEW pool, PoolInv(pool), NEW t \in Tracks, NEW s \in Steps, NEW type \in Types,
         NEW byte \in Bytes, SlotsOf(pool, t, type) = {}, FreeSlots(pool) # {},
         NEW q, q = Claim(pool, t, s, type, byte)
  PROVE  PoolInv(q) /\ Rewrites(pool, q, t, s, type, byte)
<1> DEFINE k == Lowest(FreeSlots(pool))
           bytes == [NoBytes EXCEPT ![s] = byte]
           slot == [track |-> t, type |-> type, bytes |-> bytes]
<1>1. /\ pool \in [1 .. PoolSize -> Slots]
      /\ \A i \in 1 .. PoolSize : ~Owns(pool[i], t, type)
      /\ FreeSlots(pool) = {i \in 1 .. PoolSize : pool[i].type = "free"}
  <2>1. pool \in [1 .. PoolSize -> Slots]
    BY DEF PoolInv
  <2>2. /\ SlotsOf(pool, t, type) = {i \in 1 .. PoolSize : Owns(pool[i], t, type)}
        /\ FreeSlots(pool) = {i \in 1 .. PoolSize : pool[i].type = "free"}
    BY <2>1, PoolLen DEF SlotsOf, FreeSlots, Owns
  <2>3. QED  BY <2>1, <2>2
<1>2. k \in 1 .. PoolSize /\ pool[k].type = "free"
  <2>1. FreeSlots(pool) \in SUBSET Nat
    BY <1>1
  <2>2. \E i \in FreeSlots(pool) : \A j \in FreeSlots(pool) : i <= j
    BY <2>1, HasFirst
  <2>3. k \in FreeSlots(pool)
    BY <2>2 DEF Lowest
  <2>4. QED  BY <1>1, <2>3
<1>3. /\ bytes \in [Steps -> Bytes] /\ bytes[s] = byte
      /\ \A x \in Steps : x # s => bytes[x] = Unset
  BY CleanSlots DEF NoBytes
<1>4. q = [pool EXCEPT ![k] = slot]
  BY DEF Claim
<1> HIDE DEF k, bytes
<1>5. slot \in Slots /\ slot.track = t /\ slot.type = type /\ slot.bytes = bytes
  BY <1>3 DEF Slots
<1> HIDE DEF slot
<1>6. /\ q \in [1 .. PoolSize -> Slots] /\ q[k] = slot
      /\ \A i \in 1 .. PoolSize : i # k => q[i] = pool[i]
  BY <1>1, <1>2, <1>4, <1>5
<1>7. Len(pool) = PoolSize /\ Len(q) = PoolSize
  BY <1>1, <1>6, PoolLen
<1>8. ~IsCompanion(pool[k]) /\ ~IsCompanion(q[k])
  BY <1>2, <1>5, <1>6, TypeNames DEF IsCompanion
<1>9. Written(q, k, t, s, type, byte)
  <2>1. LowByte(q, k, s) = 0
    <3> SUFFICES ASSUME k < Len(q), IsCompanion(q[k + 1])
                 PROVE  q[k + 1].bytes[s] = Unset
      BY DEF LowByte
    <3>1. k + 1 \in 1 .. PoolSize /\ k + 1 # k
      BY <1>2, <1>7, SizeIsNumber
    <3>2. q[k + 1] = pool[k + 1]
      BY <1>6, <3>1
    <3>3. pool[k + 1].bytes = NoBytes
      BY <1>2, <3>1, <3>2 DEF PoolInv
    <3>4. QED  BY <3>2, <3>3 DEF NoBytes
  <2>2. QED  BY <1>3, <1>5, <1>6, <2>1 DEF Written, Owns
<1>10. ASSUME NEW i \in 1 .. PoolSize, NEW x \in Steps
       PROVE  CellRewritten(pool, q, i, x, t, s, type, byte)
  <2>1. CASE i = k /\ x = s
    BY <1>2, <1>9, <2>1 DEF CellRewritten
  <2>2. CASE i = k /\ x # s
    BY <1>2, <1>3, <1>5, <1>6, <2>2 DEF CellRewritten
  <2>3. CASE i # k
    <3>1. q[i] = pool[i]
      BY <1>6, <2>3
    <3>2. LowByte(q, i, x) = LowByte(pool, i, x)
      <4>1. CASE i < PoolSize
        <5>1. i + 1 \in 1 .. PoolSize
          BY <4>1, SizeIsNumber
        <5>2. q[i + 1] = pool[i + 1] \/ (~IsCompanion(q[i + 1]) /\ ~IsCompanion(pool[i + 1]))
          BY <1>6, <1>8, <5>1
        <5>3. QED  BY <1>7, <3>1, <5>2 DEF LowByte
      <4>2. CASE ~(i < PoolSize)
        BY <1>7, <4>2 DEF LowByte
      <4>3. QED  BY <4>1, <4>2
    <3>3. QED  BY <1>1, <3>1, <3>2 DEF CellRewritten, SameCell
  <2>4. QED  BY <2>1, <2>2, <2>3
<1>11. PoolInv(q)
  <2>1. \A i \in 1 .. PoolSize : q[i].type \in Types => q[i].track \in Tracks
    BY <1>5, <1>6 DEF PoolInv
  <2>2. \A i \in 1 .. PoolSize : q[i].type = "free" => q[i] = FreeSlot
    BY <1>5, <1>6, TypeNames DEF PoolInv
  <2>3. ASSUME NEW i \in 1 .. PoolSize, NEW j \in 1 .. PoolSize, q[i].type \in Types,
               Owns(q[j], q[i].track, q[i].type)
        PROVE  i = j
    <3>1. CASE i = k
      BY <1>1, <1>5, <1>6, <2>3, <3>1
    <3>2. CASE i # k
      BY <1>1, <1>5, <1>6, <2>3, <3>2 DEF PoolInv, Owns
    <3>3. QED  BY <3>1, <3>2
  <2>4. ASSUME NEW i \in 1 .. PoolSize, i + 1 \in 1 .. PoolSize, q[i].type = "free",
               IsCompanion(q[i + 1])
        PROVE  q[i + 1].bytes = NoBytes
    <3>1. i # k /\ i + 1 # k
      BY <1>5, <1>6, <1>8, <2>4, TypeNames
    <3>2. q[i] = pool[i] /\ q[i + 1] = pool[i + 1]
      BY <1>6, <2>4, <3>1
    <3>3. QED  BY <2>4, <3>2 DEF PoolInv
  <2>5. QED  BY <1>6, <2>1, <2>2, <2>3, <2>4 DEF PoolInv
<1>12. QED  BY <1>9, <1>10, <1>11, <1>2 DEF Rewrites

(***************************************************************************)
(* Writing a byte, wherever there is room.                                 *)
(***************************************************************************)
LEMMA SetByteRewrites ==
  ASSUME NEW pool, PoolInv(pool), NEW t \in Tracks, NEW s \in Steps, NEW type \in Types,
         NEW byte \in Bytes, HasRoom(pool, t, type), NEW q, q = SetByte(pool, t, s, type, byte)
  PROVE  PoolInv(q) /\ Rewrites(pool, q, t, s, type, byte)
<1>1. CASE SlotsOf(pool, t, type) # {}
  <2>1. q = Overwrite(pool, SlotsOf(pool, t, type), s, byte)
    BY <1>1 DEF SetByte
  <2>2. QED  BY <1>1, <2>1, OverwriteRewrites
<1>2. CASE SlotsOf(pool, t, type) = {}
  <2>1. q = Claim(pool, t, s, type, byte)
    BY <1>2 DEF SetByte
  <2>2. QED  BY <1>2, <2>1, ClaimRewrites DEF HasRoom
<1>3. QED  BY <1>1, <1>2

LocksSet(pool, q, t, s, type, byte) ==
  PoolInv(q) /\ LocksWritten(Decode(pool), Decode(q), t, s, type, byte)

LEMMA SetByteSets ==
  ASSUME NEW pool, PoolInv(pool), NEW t \in Tracks, NEW s \in Steps, NEW type \in Types,
         NEW byte \in Bytes, HasRoom(pool, t, type), NEW q, q = SetByte(pool, t, s, type, byte)
  PROVE  LocksSet(pool, q, t, s, type, byte)
<1>1. PoolInv(q) /\ Rewrites(pool, q, t, s, type, byte)
  BY SetByteRewrites
<1>2. pool \in [1 .. PoolSize -> Slots] /\ q \in [1 .. PoolSize -> Slots]
  BY <1>1 DEF PoolInv
<1>3. QED  BY <1>1, <1>2, RewritesLocks DEF LocksSet

(***************************************************************************)
(* Clearing a lock, that it has a slot or not.                             *)
(***************************************************************************)
LEMMA ClearByteClears ==
  ASSUME NEW pool, PoolInv(pool), NEW t \in Tracks, NEW s \in Steps, NEW type \in Types,
         NEW q, q = ClearByte(pool, t, s, type)
  PROVE  LocksSet(pool, q, t, s, type, Unset)
<1>1. CASE SlotsOf(pool, t, type) # {}
  <2>1. q = SetByte(pool, t, s, type, Unset) /\ HasRoom(pool, t, type)
    BY <1>1 DEF ClearByte, HasRoom
  <2>2. QED  BY <2>1, SetByteSets, BytesAre
<1>2. CASE SlotsOf(pool, t, type) = {}
  <2>1. q = pool
    BY <1>2 DEF ClearByte
  <2>2. pool \in [1 .. PoolSize -> Slots]
    BY DEF PoolInv
  <2>3. ASSUME NEW l, l \in Decode(pool)  PROVE ~IsAt(l, t, s, type)
    <3>1. PICK i \in 1 .. PoolSize, x \in Steps : Shows(pool, i, x) /\ l = Shown(pool, i, x)
      BY <2>2, <2>3, DecodeIs
    <3>2. ~Owns(pool[i], t, type)
      BY <1>2, <2>2, PoolLen DEF SlotsOf, Owns
    <3>3. QED  BY <3>1, <3>2 DEF IsAt, Shown, Lock, Owns
  <2>4. QED  BY <2>1, <2>3, BytesAre DEF LocksSet, LocksWritten
<1>3. QED  BY <1>1, <1>2

(***************************************************************************)
(* A pool of free slots shows nothing.                                     *)
(***************************************************************************)
LEMMA FreePool ==
  ASSUME NEW q, q = [i \in 1 .. PoolSize |-> FreeSlot]
  PROVE  PoolInv(q) /\ Decode(q) = {}
<1>1. q \in [1 .. PoolSize -> Slots] /\ \A i \in 1 .. PoolSize : q[i] = FreeSlot
  BY CleanSlots
<1>2. FreeSlot.type = "free" /\ ~IsCompanion(FreeSlot) /\ FreeSlot.type \notin Types
      /\ FreeSlot.type \notin Parameters
  BY CleanSlots, TypeNames DEF IsCompanion
<1>3. PoolInv(q)
  BY <1>1, <1>2 DEF PoolInv
<1>4. \A l : l \notin Decode(q)
  <2>1. \A i \in 1 .. PoolSize, x \in Steps : ~Shows(q, i, x)
    BY <1>1, <1>2 DEF Shows
  <2>2. QED  BY <1>1, <2>1, DecodeIs
<1>5. QED  BY <1>3, <1>4

-----------------------------------------------------------------------------
(* The operations. *)

(***************************************************************************)
(* What the fields of an operation are.                                    *)
(***************************************************************************)
OpNames ==
  {"set_trig", "clear_trig", "set_parameter_lock", "clear_parameter_lock",
   "clear_pattern_plocks", "set_track_length", "set_pattern_kit", "copy_pattern"}

OpTyped(op) ==
  /\ op.op \in OpNames
  /\ op.op \in {"set_trig", "clear_trig", "set_parameter_lock", "clear_parameter_lock",
                "set_track_length"}
       => /\ op.at \in Tracks \X Steps /\ op.at = <<op.at[1], op.at[2]>>
          /\ op.at[1] \in Tracks /\ op.at[2] \in Steps
  /\ op.op = "set_trig"
       => op.velocity \in {0, 1, None} /\ op.condition \in BOOLEAN \cup {None}
  /\ op.op \in {"set_parameter_lock", "clear_parameter_lock"} => op.parameter \in Types
  /\ op.op \in {"set_parameter_lock", "set_track_length"} => op.value \in Nat
  /\ op.op = "set_pattern_kit" => op.value \in Nat \ {0}

LEMMA OpIsTyped == ASSUME NEW op \in Operations PROVE OpTyped(op)
<1>1. CASE op \in [op: {"clear_pattern_plocks", "copy_pattern"}, pattern: Targets]
  BY <1>1 DEF OpTyped, OpNames
<1>2. CASE op \in [op: {"clear_trig"}, pattern: Targets, at: Tracks \X Steps]
  BY <1>2 DEF OpTyped, OpNames
<1>3. CASE op \in [op: {"set_trig"}, pattern: Targets, at: Tracks \X Steps,
                   velocity: {0, 1, None}, condition: BOOLEAN \cup {None}]
  BY <1>3 DEF OpTyped, OpNames
<1>4. CASE op \in [op: {"set_parameter_lock"}, pattern: Targets, at: Tracks \X Steps,
                   parameter: Types, value: Nat]
  BY <1>4 DEF OpTyped, OpNames
<1>5. CASE op \in [op: {"clear_parameter_lock"}, pattern: Targets, at: Tracks \X Steps,
                   parameter: Types]
  BY <1>5 DEF OpTyped, OpNames
<1>6. CASE op \in [op: {"set_track_length"}, pattern: Targets, at: Tracks \X Steps,
                   value: Nat]
  BY <1>6 DEF OpTyped, OpNames
<1>7. CASE op \in [op: {"set_pattern_kit"}, pattern: Targets, value: Nat \ {0}]
  BY <1>7 DEF OpTyped, OpNames
<1>8. QED  BY <1>1, <1>2, <1>3, <1>4, <1>5, <1>6, <1>7 DEF Operations

(***************************************************************************)
(* A Pattern the device can hold.                                          *)
(***************************************************************************)
PatInv(p) ==
  /\ p = [trigs |-> p.trigs, pool |-> p.pool, lengths |-> p.lengths, kit |-> p.kit]
  /\ p.trigs \in [Tracks \X Steps -> Trigs]
  /\ PoolInv(p.pool)
  /\ p.lengths \in [Tracks -> Nat] /\ p.kit \in Nat

TrigAfter(trig, op) ==
  IF op.op = "set_trig"
    THEN [on |-> TRUE,
          velocity |-> IF op.velocity = None THEN trig.velocity ELSE op.velocity,
          condition |-> IF op.condition = None THEN trig.condition ELSE op.condition]
    ELSE [trig EXCEPT !.on = FALSE, !.condition = FALSE]

(***************************************************************************)
(* What an operation makes of a Pattern, part by part.                     *)
(***************************************************************************)
TrigsEdited(p, op, q) ==
  \A k \in Tracks \X Steps :
    q.trigs[k] = IF op.op \in {"set_trig", "clear_trig"} /\ op.at = k
                   THEN TrigAfter(p.trigs[k], op) ELSE p.trigs[k]

RestEdited(p, op, q) ==
  /\ \A t \in Tracks :
       q.lengths[t] = IF op.op = "set_track_length" /\ op.at[1] = t THEN op.value
                      ELSE p.lengths[t]
  /\ q.kit = IF op.op = "set_pattern_kit" THEN op.value - 1 ELSE p.kit

EditedAs(p, op, r) ==
  /\ r.ok \in BOOLEAN /\ PatInv(r.pattern)
  /\ ~r.ok => r.pattern = p
  /\ r.ok => /\ Decode(r.pattern.pool) = Ask(Decode(p.pool), op)
             /\ TrigsEdited(p, op, r.pattern) /\ RestEdited(p, op, r.pattern)

LEMMA FailedIs ==
  ASSUME NEW p, PatInv(p), NEW op, NEW r, r = Failed(p)
  PROVE  EditedAs(p, op, r)
  BY DEF EditedAs, Failed

LEMMA TrigStays ==
  ASSUME NEW trig \in Trigs, NEW op, OpTyped(op), op.op \in {"set_trig", "clear_trig"}
  PROVE  TrigAfter(trig, op) \in Trigs
<1>1. CASE op.op = "set_trig"
  BY <1>1 DEF TrigAfter, OpTyped, Trigs
<1>2. CASE op.op = "clear_trig"
  BY <1>2 DEF TrigAfter, Trigs
<1>3. QED  BY <1>1, <1>2

LEMMA TrigEdit ==
  ASSUME NEW p, PatInv(p), NEW op, OpTyped(op), op.op \in {"set_trig", "clear_trig"},
         NEW trigs, trigs = [p.trigs EXCEPT ![op.at] = TrigAfter(p.trigs[op.at], op)],
         NEW q, q = [p EXCEPT !.trigs = trigs], NEW r, r = Edited(q)
  PROVE  EditedAs(p, op, r)
<1>1. op.at \in Tracks \X Steps /\ p.trigs \in [Tracks \X Steps -> Trigs]
  BY DEF OpTyped, PatInv
<1>2. TrigAfter(p.trigs[op.at], op) \in Trigs
  BY <1>1, TrigStays
<1>3. trigs \in [Tracks \X Steps -> Trigs]
  BY <1>1, <1>2
<1>4. q = [trigs |-> trigs, pool |-> p.pool, lengths |-> p.lengths, kit |-> p.kit]
  BY DEF PatInv
<1>5. PatInv(q)
  BY <1>3, <1>4 DEF PatInv
<1>6. r.ok = TRUE /\ r.pattern = q
  BY DEF Edited
<1>7. TrigsEdited(p, op, q)
  <2>1. q.trigs = trigs
    BY <1>4
  <2>2. \A k \in Tracks \X Steps :
          trigs[k] = IF op.at = k THEN TrigAfter(p.trigs[k], op) ELSE p.trigs[k]
    BY <1>1
  <2>3. QED  BY <2>1, <2>2 DEF TrigsEdited
<1>8. RestEdited(p, op, q) /\ q.pool = p.pool
  BY <1>4 DEF RestEdited
<1>9. Ask(Decode(p.pool), op) = Decode(p.pool)
  BY DEF Ask
<1>10. QED  BY <1>5, <1>6, <1>7, <1>8, <1>9 DEF EditedAs

LEMMA PoolEdit ==
  ASSUME NEW p, PatInv(p), NEW op, op.op \in {"set_parameter_lock", "clear_parameter_lock",
                                              "clear_pattern_plocks"},
         NEW pool, PoolInv(pool), Decode(pool) = Ask(Decode(p.pool), op),
         NEW q, q = [p EXCEPT !.pool = pool], NEW r, r = Edited(q)
  PROVE  EditedAs(p, op, r)
<1>1. q = [trigs |-> p.trigs, pool |-> pool, lengths |-> p.lengths, kit |-> p.kit]
  BY DEF PatInv
<1>2. PatInv(q)
  BY <1>1 DEF PatInv
<1>3. r.ok = TRUE /\ r.pattern = q
  BY DEF Edited
<1>4. TrigsEdited(p, op, q) /\ RestEdited(p, op, q) /\ q.pool = pool
  BY <1>1 DEF TrigsEdited, RestEdited
<1>5. QED  BY <1>2, <1>3, <1>4 DEF EditedAs

LEMMA AskIs ==
  ASSUME NEW locks, NEW op, OpTyped(op),
         op.op \in {"set_parameter_lock", "clear_parameter_lock"}
  PROVE  \A l : l \in Ask(locks, op) <=>
           \/ l \in locks /\ ~IsAt(l, op.at[1], op.at[2], op.parameter)
           \/ /\ op.op = "set_parameter_lock"
              /\ l = Lock(op.at[1], op.at[2], op.parameter,
                          Value(op.parameter, op.value, 0))
<1>1. op.at = <<op.at[1], op.at[2]>>
  BY DEF OpTyped
<1>2. \A l : (<<l.track, l.step>> = op.at /\ l.type = op.parameter)
               <=> IsAt(l, op.at[1], op.at[2], op.parameter)
  BY <1>1 DEF IsAt
<1>3. CASE op.op = "set_parameter_lock"
  BY <1>2, <1>3 DEF Ask
<1>4. CASE op.op = "clear_parameter_lock"
  BY <1>2, <1>4 DEF Ask
<1>5. QED  BY <1>3, <1>4

LEMMA LockEdit ==
  ASSUME NEW p, PatInv(p), NEW op, OpTyped(op), op.op = "set_parameter_lock",
         NEW r, r = SetParameterLock(p, op)
  PROVE  EditedAs(p, op, r)
<1> DEFINE room == op.parameter \in Parameters /\ op.value <= Top
                     /\ HasRoom(p.pool, op.at[1], op.parameter)
           pool == SetByte(p.pool, op.at[1], op.at[2], op.parameter, op.value)
<1>1. CASE ~room
  <2>1. r = Failed(p)
    BY <1>1 DEF SetParameterLock
  <2>2. QED  BY <2>1, FailedIs
<1>2. CASE room
  <2>1. /\ op.at[1] \in Tracks /\ op.at[2] \in Steps /\ op.parameter \in Types
        /\ op.value \in Nat /\ PoolInv(p.pool)
    BY DEF OpTyped, PatInv
  <2>2. op.value \in Bytes /\ InRange(op.value)
    BY <1>2, <2>1, BytesAre, SizeIsNumber DEF InRange
  <2>3. LocksSet(p.pool, pool, op.at[1], op.at[2], op.parameter, op.value)
    BY <1>2, <2>1, <2>2, SetByteSets
  <2>4. r = Edited([p EXCEPT !.pool = pool])
    BY <1>2 DEF SetParameterLock
  <2> HIDE DEF pool
  <2>5. PoolInv(pool)
    BY <2>3 DEF LocksSet
  <2>6. \A l : l \in Decode(pool) <=> l \in Ask(Decode(p.pool), op)
    BY <1>2, <2>2, <2>3, AskIs DEF LocksSet, LocksWritten
  <2>7. Decode(pool) = Ask(Decode(p.pool), op)
    <3>1. Ask(Decode(p.pool), op) = {l \in Ask(Decode(p.pool), op) : TRUE}
      OBVIOUS
    <3>2. QED  BY <2>6
  <2>8. QED  BY <2>4, <2>5, <2>7, PoolEdit
<1>3. QED  BY <1>1, <1>2

LEMMA UnlockEdit ==
  ASSUME NEW p, PatInv(p), NEW op, OpTyped(op), op.op = "clear_parameter_lock",
         NEW r, r = ClearParameterLock(p, op)
  PROVE  EditedAs(p, op, r)
<1> DEFINE pool == ClearByte(p.pool, op.at[1], op.at[2], op.parameter)
<1>1. CASE op.parameter \notin Parameters
  <2>1. r = Failed(p)
    BY <1>1 DEF ClearParameterLock
  <2>2. QED  BY <2>1, FailedIs
<1>2. CASE op.parameter \in Parameters
  <2>1. /\ op.at[1] \in Tracks /\ op.at[2] \in Steps /\ op.parameter \in Types
        /\ PoolInv(p.pool)
    BY DEF OpTyped, PatInv
  <2>2. LocksSet(p.pool, pool, op.at[1], op.at[2], op.parameter, Unset)
    BY <2>1, ClearByteClears
  <2>3. r = Edited([p EXCEPT !.pool = pool])
    BY <1>2 DEF ClearParameterLock
  <2> HIDE DEF pool
  <2>4. PoolInv(pool)
    BY <2>2 DEF LocksSet
  <2>5. \A l : l \in Decode(pool) <=> l \in Ask(Decode(p.pool), op)
    BY <2>2, BytesAre, AskIs DEF LocksSet, LocksWritten
  <2>6. Decode(pool) = Ask(Decode(p.pool), op)
    BY <2>5
  <2>7. QED  BY <2>3, <2>4, <2>6, PoolEdit
<1>3. QED  BY <1>1, <1>2

LEMMA PurgeEdit ==
  ASSUME NEW p, PatInv(p), NEW op, op.op = "clear_pattern_plocks",
         NEW r, r = ClearPatternPlocks(p, op)
  PROVE  EditedAs(p, op, r)
<1> DEFINE pool == [i \in 1 .. PoolSize |-> FreeSlot]
<1>1. PoolInv(pool) /\ Decode(pool) = {}
  BY FreePool
<1>2. Ask(Decode(p.pool), op) = {}
  BY DEF Ask
<1>3. r = Edited([p EXCEPT !.pool = pool])
  BY DEF ClearPatternPlocks
<1> HIDE DEF pool
<1>4. QED  BY <1>1, <1>2, <1>3, PoolEdit

LEMMA RestEdit ==
  ASSUME NEW p, PatInv(p), NEW op, OpTyped(op),
         op.op \in {"set_track_length", "set_pattern_kit"},
         NEW r, r = IF op.op = "set_track_length" THEN SetTrackLength(p, op)
                    ELSE SetPatternKit(p, op)
  PROVE  EditedAs(p, op, r)
<1>1. Ask(Decode(p.pool), op) = Decode(p.pool)
  BY DEF Ask
<1>2. CASE op.op = "set_track_length"
  <2> DEFINE lengths == [p.lengths EXCEPT ![op.at[1]] = op.value]
             q == [p EXCEPT !.lengths = lengths]
  <2>1. op.at[1] \in Tracks /\ op.value \in Nat /\ p.lengths \in [Tracks -> Nat]
    BY <1>2 DEF OpTyped, PatInv
  <2>2. /\ lengths \in [Tracks -> Nat]
        /\ \A t \in Tracks : lengths[t] = IF op.at[1] = t THEN op.value ELSE p.lengths[t]
    BY <2>1
  <2>3. r = Edited(q)
    BY <1>2 DEF SetTrackLength
  <2> HIDE DEF lengths
  <2>4. q = [trigs |-> p.trigs, pool |-> p.pool, lengths |-> lengths, kit |-> p.kit]
    BY DEF PatInv
  <2> HIDE DEF q
  <2>5. PatInv(q)
    BY <2>2, <2>4 DEF PatInv
  <2>6. TrigsEdited(p, op, q) /\ RestEdited(p, op, q) /\ q.pool = p.pool
    BY <1>2, <2>2, <2>4 DEF TrigsEdited, RestEdited
  <2>7. r.ok = TRUE /\ r.pattern = q
    BY <2>3 DEF Edited
  <2>8. QED  BY <1>1, <2>5, <2>6, <2>7 DEF EditedAs
<1>3. CASE op.op = "set_pattern_kit"
  <2> DEFINE kit == op.value - 1
             q == [p EXCEPT !.kit = kit]
  <2>1. kit \in Nat
    BY <1>3 DEF OpTyped
  <2>2. r = Edited(q)
    BY <1>3 DEF SetPatternKit
  <2>3. RestEdited(p, op, [p EXCEPT !.kit = op.value - 1])
    BY <1>3 DEF RestEdited, PatInv
  <2> HIDE DEF kit
  <2>4. q = [trigs |-> p.trigs, pool |-> p.pool, lengths |-> p.lengths, kit |-> kit]
    BY DEF PatInv
  <2>5. RestEdited(p, op, q)
    BY <2>3 DEF kit
  <2> HIDE DEF q
  <2>6. PatInv(q)
    BY <2>1, <2>4 DEF PatInv
  <2>7. TrigsEdited(p, op, q) /\ q.pool = p.pool
    BY <1>3, <2>4 DEF TrigsEdited
  <2>8. r.ok = TRUE /\ r.pattern = q
    BY <2>2 DEF Edited
  <2>9. QED  BY <1>1, <2>5, <2>6, <2>7, <2>8 DEF EditedAs
<1>4. QED  BY <1>2, <1>3

(***************************************************************************)
(* Every operation edits a Pattern as said.                                *)
(***************************************************************************)
LEMMA EditIs ==
  ASSUME NEW p, PatInv(p), NEW op \in Operations
  PROVE  EditedAs(p, op, Edit(p, op))
<1>1. OpTyped(op)
  BY OpIsTyped
<1>2. CASE ~IsWorkBuffer(op) \/ op.op = "copy_pattern"
  <2>1. Edit(p, op) = Failed(p)
    <3>1. CASE ~IsWorkBuffer(op)
      BY <3>1 DEF Edit
    <3>2. CASE IsWorkBuffer(op) /\ op.op = "copy_pattern"
      BY <3>2 DEF Edit
    <3>3. QED  BY <1>2, <3>1, <3>2
  <2>2. QED  BY <2>1, FailedIs
<1>3. CASE IsWorkBuffer(op) /\ op.op \in {"set_trig", "clear_trig"}
  <2> DEFINE trigs == [p.trigs EXCEPT ![op.at] = TrigAfter(p.trigs[op.at], op)]
             q == [p EXCEPT !.trigs = trigs]
  <2>1. Edit(p, op) = Edited(q)
    <3>1. CASE op.op = "set_trig"
      <4>1. Edit(p, op) = SetTrig(p, op)
        BY <1>3, <3>1 DEF Edit
      <4>2. SetTrig(p, op) = Edited(q)
        BY <3>1 DEF SetTrig, TrigAfter
      <4>3. QED  BY <4>1, <4>2
    <3>2. CASE op.op = "clear_trig"
      <4>1. Edit(p, op) = ClearTrig(p, op)
        BY <1>3, <3>2 DEF Edit
      <4>2. ClearTrig(p, op) = Edited(q)
        BY <1>1, <3>2 DEF ClearTrig, TrigAfter, PatInv, OpTyped
      <4>3. QED  BY <4>1, <4>2
    <3>3. QED  BY <1>3, <3>1, <3>2
  <2> HIDE DEF trigs
  <2>2. QED  BY <1>1, <1>3, <2>1, TrigEdit DEF trigs
<1>4. CASE IsWorkBuffer(op) /\ op.op = "set_parameter_lock"
  <2>1. Edit(p, op) = SetParameterLock(p, op)
    BY <1>4 DEF Edit
  <2>2. QED  BY <1>1, <1>4, <2>1, LockEdit
<1>5. CASE IsWorkBuffer(op) /\ op.op = "clear_parameter_lock"
  <2>1. Edit(p, op) = ClearParameterLock(p, op)
    BY <1>5 DEF Edit
  <2>2. QED  BY <1>1, <1>5, <2>1, UnlockEdit
<1>6. CASE IsWorkBuffer(op) /\ op.op = "clear_pattern_plocks"
  <2>1. Edit(p, op) = ClearPatternPlocks(p, op)
    BY <1>6 DEF Edit
  <2>2. QED  BY <1>6, <2>1, PurgeEdit
<1>7. CASE IsWorkBuffer(op) /\ op.op \in {"set_track_length", "set_pattern_kit"}
  <2>1. Edit(p, op) = IF op.op = "set_track_length" THEN SetTrackLength(p, op)
                      ELSE SetPatternKit(p, op)
    BY <1>7 DEF Edit
  <2>2. QED  BY <1>1, <1>7, <2>1, RestEdit
<1>8. QED  BY <1>1, <1>2, <1>3, <1>4, <1>5, <1>6, <1>7 DEF OpTyped, OpNames

-----------------------------------------------------------------------------
(* Operation sets. *)

(***************************************************************************)
(* EditAll and AskAll are recursive functions; f lists what they make of   *)
(* the first operations.                                                   *)
(***************************************************************************)
EditRuns(f, p, ops, last) ==
  f = [n \in 0 .. last |-> IF n = 0 THEN Edited(p) ELSE EditNext(f[n - 1], ops[n])]

LEMMA EditRunsExist ==
  ASSUME NEW p, NEW ops, NEW last \in Nat
  PROVE  \E f : EditRuns(f, p, ops, last)
<1> SUFFICES ASSUME \A f : ~EditRuns(f, p, ops, last)
             PROVE  FALSE
  OBVIOUS
<1> DEFINE T == {n \in Nat : \A f : ~EditRuns(f, p, ops, n)}
<1>1. PICK n \in T : \A m \in T : n <= m
  BY HasFirst
<1>2. n \in Nat /\ \A f : ~EditRuns(f, p, ops, n)
  OBVIOUS
<1>3. n # 0
  <2>1. EditRuns([m \in 0 .. 0 |-> Edited(p)], p, ops, 0)
    BY DEF EditRuns
  <2>2. QED  BY <1>2, <2>1
<1>4. n - 1 \in Nat /\ n - 1 \notin T
  BY <1>1, <1>2, <1>3
<1>5. PICK f : EditRuns(f, p, ops, n - 1)
  BY <1>4
<1> DEFINE g == [m \in 0 .. n |-> IF m = n THEN EditNext(f[n - 1], ops[n]) ELSE f[m]]
<1>6. EditRuns(g, p, ops, n)
  <2>1. \A m \in 0 .. n - 1 : g[m] = f[m]
    BY <1>2
  <2>2. \A m \in 0 .. n - 1 :
          f[m] = IF m = 0 THEN Edited(p) ELSE EditNext(f[m - 1], ops[m])
    BY <1>5 DEF EditRuns
  <2>3. ASSUME NEW m \in 0 .. n
        PROVE  g[m] = IF m = 0 THEN Edited(p) ELSE EditNext(g[m - 1], ops[m])
    <3>1. CASE m = n
      <4>1. g[n] = EditNext(f[n - 1], ops[n]) /\ g[n - 1] = f[n - 1]
        BY <1>2, <1>4, <2>1
      <4>2. QED  BY <1>3, <3>1, <4>1
    <3>2. CASE m = 0
      BY <1>3, <1>4, <2>1, <2>2, <3>2
    <3>3. CASE m \in 1 .. n - 1
      <4>1. m - 1 \in 0 .. n - 1 /\ m \in 0 .. n - 1 /\ m # 0
        BY <1>4, <3>3
      <4>2. QED  BY <2>1, <2>2, <4>1
    <3>4. QED  BY <1>4, <3>1, <3>2, <3>3
  <2>4. g = [m \in 0 .. n |-> g[m]]
    OBVIOUS
  <2> HIDE DEF g
  <2>5. [m \in 0 .. n |-> g[m]] =
          [m \in 0 .. n |-> IF m = 0 THEN Edited(p) ELSE EditNext(g[m - 1], ops[m])]
    BY <2>3
  <2>6. QED  BY <2>4, <2>5 DEF EditRuns
<1> HIDE DEF g
<1>7. QED  BY <1>2, <1>6

LEMMA EditAllIs ==
  ASSUME NEW p, NEW ops, Len(ops) \in Nat
  PROVE  \E f : EditRuns(f, p, ops, Len(ops)) /\ EditAll(p, ops) = f[Len(ops)]
<1> DEFINE f == CHOOSE g : g =
      [n \in 0 .. Len(ops) |-> IF n = 0 THEN Edited(p) ELSE EditNext(g[n - 1], ops[n])]
<1>1. \E g : EditRuns(g, p, ops, Len(ops))
  BY EditRunsExist
<1>2. f = [n \in 0 .. Len(ops) |-> IF n = 0 THEN Edited(p) ELSE EditNext(f[n - 1], ops[n])]
  BY <1>1, Zenon DEF EditRuns
<1>3. EditAll(p, ops) = f[Len(ops)]
  BY DEF EditAll
<1> HIDE DEF f
<1>4. QED  BY <1>2, <1>3 DEF EditRuns

AskRuns(f, locks, ops, last) ==
  f = [n \in 0 .. last |-> IF n = 0 THEN locks ELSE Ask(f[n - 1], ops[n])]

LEMMA AskRunsExist ==
  ASSUME NEW locks, NEW ops, NEW last \in Nat
  PROVE  \E f : AskRuns(f, locks, ops, last)
<1> SUFFICES ASSUME \A f : ~AskRuns(f, locks, ops, last)
             PROVE  FALSE
  OBVIOUS
<1> DEFINE T == {n \in Nat : \A f : ~AskRuns(f, locks, ops, n)}
<1>1. PICK n \in T : \A m \in T : n <= m
  BY HasFirst
<1>2. n \in Nat /\ \A f : ~AskRuns(f, locks, ops, n)
  OBVIOUS
<1>3. n # 0
  <2>1. AskRuns([m \in 0 .. 0 |-> locks], locks, ops, 0)
    BY DEF AskRuns
  <2>2. QED  BY <1>2, <2>1
<1>4. n - 1 \in Nat /\ n - 1 \notin T
  BY <1>1, <1>2, <1>3
<1>5. PICK f : AskRuns(f, locks, ops, n - 1)
  BY <1>4
<1> DEFINE g == [m \in 0 .. n |-> IF m = n THEN Ask(f[n - 1], ops[n]) ELSE f[m]]
<1>6. AskRuns(g, locks, ops, n)
  <2>1. \A m \in 0 .. n - 1 : g[m] = f[m]
    BY <1>2
  <2>2. \A m \in 0 .. n - 1 :
          f[m] = IF m = 0 THEN locks ELSE Ask(f[m - 1], ops[m])
    BY <1>5 DEF AskRuns
  <2>3. ASSUME NEW m \in 0 .. n
        PROVE  g[m] = IF m = 0 THEN locks ELSE Ask(g[m - 1], ops[m])
    <3>1. CASE m = n
      <4>1. g[n] = Ask(f[n - 1], ops[n]) /\ g[n - 1] = f[n - 1]
        BY <1>2, <1>4, <2>1
      <4>2. QED  BY <1>3, <3>1, <4>1
    <3>2. CASE m = 0
      BY <1>3, <1>4, <2>1, <2>2, <3>2
    <3>3. CASE m \in 1 .. n - 1
      <4>1. m - 1 \in 0 .. n - 1 /\ m \in 0 .. n - 1 /\ m # 0
        BY <1>4, <3>3
      <4>2. QED  BY <2>1, <2>2, <4>1
    <3>4. QED  BY <1>4, <3>1, <3>2, <3>3
  <2>4. g = [m \in 0 .. n |-> g[m]]
    OBVIOUS
  <2> HIDE DEF g
  <2>5. [m \in 0 .. n |-> g[m]] =
          [m \in 0 .. n |-> IF m = 0 THEN locks ELSE Ask(g[m - 1], ops[m])]
    BY <2>3
  <2>6. QED  BY <2>4, <2>5 DEF AskRuns
<1> HIDE DEF g
<1>7. QED  BY <1>2, <1>6

LEMMA AskAllIs ==
  ASSUME NEW locks, NEW ops, Len(ops) \in Nat
  PROVE  \E f : AskRuns(f, locks, ops, Len(ops)) /\ AskAll(locks, ops) = f[Len(ops)]
<1> DEFINE f == CHOOSE g : g =
      [n \in 0 .. Len(ops) |-> IF n = 0 THEN locks ELSE Ask(g[n - 1], ops[n])]
<1>1. \E g : AskRuns(g, locks, ops, Len(ops))
  BY AskRunsExist
<1>2. f = [n \in 0 .. Len(ops) |-> IF n = 0 THEN locks ELSE Ask(f[n - 1], ops[n])]
  BY <1>1, Zenon DEF AskRuns
<1>3. AskAll(locks, ops) = f[Len(ops)]
  BY DEF AskAll
<1> HIDE DEF f
<1>4. QED  BY <1>2, <1>3 DEF AskRuns

(***************************************************************************)
(* A list of operations applied one by one.                                *)
(***************************************************************************)
EditsWell(f, p, ops) ==
  /\ f[0] = Edited(p)
  /\ \A n \in 0 .. Len(ops) : f[n].ok \in BOOLEAN /\ PatInv(f[n].pattern)
  /\ \A n \in 1 .. Len(ops) :
       f[n].ok => f[n - 1].ok /\ EditedAs(f[n - 1].pattern, ops[n], f[n])

LEMMA RunEdits ==
  ASSUME NEW p, PatInv(p), NEW ops \in Seq(Operations), NEW f,
         EditRuns(f, p, ops, Len(ops))
  PROVE  EditsWell(f, p, ops)
<1> DEFINE N == Len(ops)
           Typed(r) == r.ok \in BOOLEAN /\ PatInv(r.pattern)
<1>1. N \in Nat /\ \A n \in 1 .. N : ops[n] \in Operations
  OBVIOUS
<1> HIDE DEF N
<1>2. /\ f[0] = Edited(p)
      /\ \A n \in 1 .. N : f[n] = EditNext(f[n - 1], ops[n])
  BY <1>1 DEF EditRuns, N
<1>3. ASSUME NEW n \in 1 .. N, Typed(f[n - 1])
      PROVE  Typed(f[n]) /\ (f[n].ok => /\ f[n - 1].ok
                                        /\ EditedAs(f[n - 1].pattern, ops[n], f[n]))
  <2>1. CASE f[n - 1].ok
    <3>1. f[n] = Edit(f[n - 1].pattern, ops[n])
      BY <1>2, <2>1 DEF EditNext
    <3>2. EditedAs(f[n - 1].pattern, ops[n], f[n])
      BY <1>1, <1>3, <3>1, EditIs
    <3>3. QED  BY <2>1, <3>2 DEF EditedAs
  <2>2. CASE ~f[n - 1].ok
    <3>1. f[n] = f[n - 1]
      BY <1>2, <2>2 DEF EditNext
    <3>2. QED  BY <1>3, <2>2, <3>1
  <2>3. QED  BY <2>1, <2>2
<1>4. \A n \in 0 .. N : Typed(f[n])
  <2> SUFFICES ASSUME NEW last \in 0 .. N, ~Typed(f[last])  PROVE FALSE
    OBVIOUS
  <2> HIDE DEF Typed
  <2> DEFINE T == {n \in Nat : n \in 0 .. N /\ ~Typed(f[n])}
  <2>1. PICK n \in T : \A m \in T : n <= m
    <3>1. last \in T /\ T \in SUBSET Nat
      BY <1>1
    <3>2. QED  BY <3>1, HasFirst
  <2>2. n \in 0 .. N /\ ~Typed(f[n]) /\ n \in Nat
    OBVIOUS
  <2>3. n # 0
    <3>1. Typed(f[0])
      BY <1>2 DEF Edited, Typed
    <3>2. QED  BY <2>2, <3>1
  <2>4. Typed(f[n - 1])
    BY <1>1, <2>1, <2>2, <2>3
  <2>5. n \in 1 .. N
    BY <2>2, <2>3
  <2>6. QED  BY <1>3, <2>2, <2>4, <2>5
<1>5. ASSUME NEW n \in 1 .. N
      PROVE  f[n].ok => f[n - 1].ok /\ EditedAs(f[n - 1].pattern, ops[n], f[n])
  <2>1. Typed(f[n - 1])
    BY <1>1, <1>4
  <2>2. QED  BY <1>3, <2>1
<1>6. QED  BY <1>2, <1>4, <1>5 DEF EditsWell, N

(***************************************************************************)
(* EditAll is such a list.                                                 *)
(***************************************************************************)
LEMMA AllEdited ==
  ASSUME NEW p, PatInv(p), NEW ops \in Seq(Operations)
  PROVE  \E f : EditsWell(f, p, ops) /\ EditRuns(f, p, ops, Len(ops))
                  /\ EditAll(p, ops) = f[Len(ops)]
<1>1. Len(ops) \in Nat
  OBVIOUS
<1>2. PICK f : EditRuns(f, p, ops, Len(ops)) /\ EditAll(p, ops) = f[Len(ops)]
  BY <1>1, EditAllIs
<1>3. EditsWell(f, p, ops)
  BY <1>2, RunEdits
<1>4. QED  BY <1>2, <1>3

(***************************************************************************)
(* When the last operation succeeds, every one before it did.              *)
(***************************************************************************)
LEMMA AllOk ==
  ASSUME NEW p, NEW ops \in Seq(Operations), NEW f, EditsWell(f, p, ops), f[Len(ops)].ok
  PROVE  \A n \in 0 .. Len(ops) : f[n].ok
<1> DEFINE N == Len(ops)
<1>1. N \in Nat
  OBVIOUS
<1> HIDE DEF N
<1>2. \A n \in 1 .. N : f[n].ok => f[n - 1].ok
  BY DEF EditsWell, N
<1> SUFFICES ASSUME NEW bad \in 0 .. N, ~f[bad].ok  PROVE FALSE
  BY DEF N
<1> DEFINE T == {n \in Nat : bad <= n /\ n <= N /\ f[n].ok}
<1>3. PICK n \in T : \A m \in T : n <= m
  <2>1. N \in T /\ T \in SUBSET Nat
    BY <1>1 DEF N
  <2>2. QED  BY <2>1, HasFirst
<1>4. n \in Nat /\ bad <= n /\ n <= N /\ f[n].ok
  OBVIOUS
<1>5. n # bad /\ n \in 1 .. N /\ n - 1 \in Nat /\ bad <= n - 1 /\ n - 1 <= N
  BY <1>1, <1>4
<1>6. f[n - 1].ok
  BY <1>2, <1>4, <1>5
<1>7. n - 1 \in T /\ ~(n <= n - 1)
  BY <1>5, <1>6
<1>8. QED  BY <1>3, <1>7

(***************************************************************************)
(* The pool does to the locks what the operations ask of them.             *)
(***************************************************************************)
LEMMA PoolAsAsked ==
  ASSUME NEW p, PatInv(p), NEW ops \in Seq(Operations), EditAll(p, ops).ok
  PROVE  Decode(EditAll(p, ops).pattern.pool) = AskAll(Decode(p.pool), ops)
<1> DEFINE N == Len(ops)
<1>1. N \in Nat
  OBVIOUS
<1> HIDE DEF N
<1>2. PICK f : EditsWell(f, p, ops) /\ EditAll(p, ops) = f[N]
  BY AllEdited DEF N
<1>3. PICK g : AskRuns(g, Decode(p.pool), ops, N) /\ AskAll(Decode(p.pool), ops) = g[N]
  BY <1>1, AskAllIs DEF N
<1>4. \A n \in 0 .. N : f[n].ok
  BY <1>2, AllOk DEF N
<1>5. /\ g[0] = Decode(p.pool) /\ f[0].pattern = p
      /\ \A n \in 1 .. N : g[n] = Ask(g[n - 1], ops[n])
  BY <1>1, <1>2, <1>3 DEF AskRuns, EditsWell, Edited
<1> DEFINE Same(n) == Decode(f[n].pattern.pool) = g[n]
           T == {n \in Nat : n <= N /\ ~Same(n)}
<1> SUFFICES ASSUME ~Same(N)  PROVE FALSE
  BY <1>2, <1>3
<1> HIDE DEF Same
<1>6. PICK n \in T : \A m \in T : n <= m
  <2>1. N \in T /\ T \in SUBSET Nat
    BY <1>1
  <2>2. QED  BY <2>1, HasFirst
<1>7. n \in 0 .. N /\ ~Same(n)
  OBVIOUS
<1>8. n # 0
  <2>1. Same(0)
    BY <1>5 DEF Same
  <2>2. QED  BY <1>7, <2>1
<1>9. n \in 1 .. N /\ Same(n - 1)
  BY <1>1, <1>6, <1>7, <1>8
<1>10. EditedAs(f[n - 1].pattern, ops[n], f[n])
  BY <1>2, <1>4, <1>9 DEF EditsWell, N
<1>11. f[n].ok
  BY <1>4, <1>7
<1>12. Decode(f[n].pattern.pool) = Ask(Decode(f[n - 1].pattern.pool), ops[n])
  BY <1>10, <1>11 DEF EditedAs
<1>13. QED  BY <1>5, <1>7, <1>9, <1>12 DEF Same

(***************************************************************************)
(* What a list of operations leaves alone.                                 *)
(***************************************************************************)
NamesTrig(ops, k) ==
  \E i \in DOMAIN ops : ops[i].op \in {"set_trig", "clear_trig"} /\ ops[i].at = k

NamesLock(ops, l) ==
  \E i \in DOMAIN ops :
    /\ ops[i].op \in {"set_parameter_lock", "clear_parameter_lock"}
    /\ ops[i].at = <<l.track, l.step>> /\ ops[i].parameter = l.type

Purges(ops) == \E i \in DOMAIN ops : ops[i].op = "clear_pattern_plocks"

LEMMA OtherTrigsStay ==
  ASSUME NEW p, PatInv(p), NEW ops \in Seq(Operations), EditAll(p, ops).ok,
         NEW k \in Tracks \X Steps, ~NamesTrig(ops, k)
  PROVE  EditAll(p, ops).pattern.trigs[k] = p.trigs[k]
<1> DEFINE N == Len(ops)
<1>1. N \in Nat /\ \A n \in 1 .. N : ~(ops[n].op \in {"set_trig", "clear_trig"} /\ ops[n].at = k)
  BY DEF NamesTrig
<1> HIDE DEF N
<1>2. PICK f : EditsWell(f, p, ops) /\ EditAll(p, ops) = f[N]
  BY AllEdited DEF N
<1>3. \A n \in 0 .. N : f[n].ok
  BY <1>2, AllOk DEF N
<1> DEFINE Same(n) == f[n].pattern.trigs[k] = p.trigs[k]
           T == {n \in Nat : n <= N /\ ~Same(n)}
<1> SUFFICES ASSUME ~Same(N)  PROVE FALSE
  BY <1>2
<1> HIDE DEF Same
<1>4. PICK n \in T : \A m \in T : n <= m
  <2>1. N \in T /\ T \in SUBSET Nat
    BY <1>1
  <2>2. QED  BY <2>1, HasFirst
<1>5. n \in 0 .. N /\ ~Same(n)
  OBVIOUS
<1>6. n # 0
  <2>1. Same(0)
    BY <1>2 DEF Same, EditsWell, Edited
  <2>2. QED  BY <1>5, <2>1
<1>7. n \in 1 .. N /\ Same(n - 1)
  BY <1>1, <1>4, <1>5, <1>6
<1>8. EditedAs(f[n - 1].pattern, ops[n], f[n])
  BY <1>2, <1>3, <1>7 DEF EditsWell, N
<1>9. f[n].pattern.trigs[k] = f[n - 1].pattern.trigs[k]
  BY <1>1, <1>3, <1>5, <1>7, <1>8 DEF EditedAs, TrigsEdited
<1>10. QED  BY <1>5, <1>7, <1>9 DEF Same

LEMMA AskOfOthers ==
  ASSUME NEW locks, NEW op \in Operations, op.op # "clear_pattern_plocks", NEW l,
         ~(/\ op.op \in {"set_parameter_lock", "clear_parameter_lock"}
           /\ op.at = <<l.track, l.step>> /\ op.parameter = l.type)
  PROVE  l \in Ask(locks, op) <=> l \in locks
<1>1. OpTyped(op)
  BY OpIsTyped
<1>2. CASE op.op \in {"set_parameter_lock", "clear_parameter_lock"}
  <2>1. op.at = <<op.at[1], op.at[2]>>
    BY <1>1, <1>2 DEF OpTyped
  <2>2. ~IsAt(l, op.at[1], op.at[2], op.parameter)
    BY <1>2, <2>1 DEF IsAt
  <2>3. l # Lock(op.at[1], op.at[2], op.parameter, Value(op.parameter, op.value, 0))
    BY <2>2 DEF IsAt, Lock
  <2>4. QED  BY <1>1, <1>2, <2>2, <2>3, AskIs
<1>3. CASE op.op \notin {"set_parameter_lock", "clear_parameter_lock"}
  BY <1>3 DEF Ask
<1>4. QED  BY <1>2, <1>3

LEMMA OtherLocksStay ==
  ASSUME NEW locks, NEW ops \in Seq(Operations), ~Purges(ops), NEW l, ~NamesLock(ops, l)
  PROVE  l \in AskAll(locks, ops) <=> l \in locks
<1> DEFINE N == Len(ops)
<1>1. /\ N \in Nat
      /\ \A n \in 1 .. N : /\ ops[n] \in Operations /\ ops[n].op # "clear_pattern_plocks"
                           /\ ~(/\ ops[n].op \in {"set_parameter_lock",
                                                  "clear_parameter_lock"}
                                /\ ops[n].at = <<l.track, l.step>>
                                /\ ops[n].parameter = l.type)
  BY DEF NamesLock, Purges
<1> HIDE DEF N
<1>2. PICK g : AskRuns(g, locks, ops, N) /\ AskAll(locks, ops) = g[N]
  BY <1>1, AskAllIs DEF N
<1>3. g[0] = locks /\ \A n \in 1 .. N : g[n] = Ask(g[n - 1], ops[n])
  BY <1>1, <1>2 DEF AskRuns
<1> DEFINE Same(n) == l \in g[n] <=> l \in locks
           T == {n \in Nat : n <= N /\ ~Same(n)}
<1> SUFFICES ASSUME ~Same(N)  PROVE FALSE
  BY <1>2
<1> HIDE DEF Same
<1>4. PICK n \in T : \A m \in T : n <= m
  <2>1. N \in T /\ T \in SUBSET Nat
    BY <1>1
  <2>2. QED  BY <2>1, HasFirst
<1>5. n \in 0 .. N /\ ~Same(n)
  OBVIOUS
<1>6. n # 0
  <2>1. Same(0)
    BY <1>3 DEF Same
  <2>2. QED  BY <1>5, <2>1
<1>7. n \in 1 .. N /\ Same(n - 1)
  BY <1>1, <1>4, <1>5, <1>6
<1>8. l \in Ask(g[n - 1], ops[n]) <=> l \in g[n - 1]
  BY <1>1, <1>7, AskOfOthers
<1>9. QED  BY <1>3, <1>5, <1>7, <1>8 DEF Same

-----------------------------------------------------------------------------
(* The panel. *)

(***************************************************************************)
(* An older writer's compound lock in slot i and its companion behind it.  *)
(***************************************************************************)
Compounded(pool, q, t, s, i, low) ==
  /\ q \in [1 .. PoolSize -> Slots]
  /\ q[i].track = t /\ q[i].type = "depth" /\ q[i].bytes[s] = Top
  /\ \A x \in Steps : x # s => q[i].bytes[x] = Unset
  /\ q[i + 1].type = Companion /\ q[i + 1].bytes[s] = low
  /\ \A j \in 1 .. PoolSize : j \notin {i, i + 1} => q[j] = pool[j]

LEMMA SlotIs ==
  ASSUME NEW track \in Tracks \cup {None}, NEW type \in Types \cup {"free", Companion},
         NEW bytes \in [Steps -> Bytes], NEW slot,
         slot = [track |-> track, type |-> type, bytes |-> bytes]
  PROVE  slot \in Slots
  BY DEF Slots

HoldsOne(bytes, s, byte) ==
  /\ bytes \in [Steps -> Bytes] /\ bytes[s] = byte
  /\ \A x \in Steps : x # s => bytes[x] = Unset

LEMMA OneByte ==
  ASSUME NEW s \in Steps, NEW byte \in Bytes, NEW bytes, bytes = [NoBytes EXCEPT ![s] = byte]
  PROVE  HoldsOne(bytes, s, byte)
  BY CleanSlots DEF NoBytes, HoldsOne

CompoundParts(one, two, t, s, low) ==
  /\ one \in Slots /\ one.track = t /\ one.type = "depth" /\ one.bytes[s] = Top
  /\ \A x \in Steps : x # s => one.bytes[x] = Unset
  /\ two \in Slots /\ two.type = Companion /\ two.bytes[s] = low

LEMMA CompoundPartsAre ==
  ASSUME NEW t \in Tracks, NEW s \in Steps, NEW low \in {0, Top},
         NEW high, high = [NoBytes EXCEPT ![s] = Top],
         NEW rest, rest = [NoBytes EXCEPT ![s] = low],
         NEW one, one = [track |-> t, type |-> "depth", bytes |-> high],
         NEW two, two = [track |-> None, type |-> Companion, bytes |-> rest]
  PROVE  CompoundParts(one, two, t, s, low)
<1>1. Top \in Bytes /\ low \in Bytes
  BY SizeIsNumber DEF Bytes, Unset
<1>2. HoldsOne(high, s, Top) /\ HoldsOne(rest, s, low)
  BY <1>1, OneByte
<1>3. "depth" \in Types \cup {"free", Companion} /\ t \in Tracks \cup {None}
  BY TypeNames
<1>4. one \in Slots /\ two \in Slots
  BY <1>2, <1>3, SlotIs DEF HoldsOne
<1>5. one.track = t /\ one.type = "depth" /\ one.bytes = high
      /\ two.type = Companion /\ two.bytes = rest
  OBVIOUS
<1>6. /\ one.bytes[s] = Top /\ two.bytes[s] = low
      /\ \A x \in Steps : x # s => one.bytes[x] = Unset
  BY <1>2, <1>5 DEF HoldsOne
<1>7. QED  BY <1>4, <1>5, <1>6, Zenon DEF CompoundParts

LEMMA CompoundIs ==
  ASSUME NEW pool, pool \in [1 .. PoolSize -> Slots], NEW t, NEW s, NEW low,
         NEW i \in 1 .. PoolSize - 1, NEW one, NEW two, CompoundParts(one, two, t, s, low),
         NEW q, q = [pool EXCEPT ![i] = one, ![i + 1] = two]
  PROVE  Compounded(pool, q, t, s, i, low)
<1>1. i \in 1 .. PoolSize /\ i + 1 \in 1 .. PoolSize /\ i + 1 # i
  BY SizeIsNumber
<1>2. one \in Slots /\ two \in Slots
  BY DEF CompoundParts
<1>3. /\ q \in [1 .. PoolSize -> Slots] /\ q[i] = one /\ q[i + 1] = two
      /\ \A j \in 1 .. PoolSize : j \notin {i, i + 1} => q[j] = pool[j]
  BY <1>1, <1>2
<1>4. QED  BY <1>3, Zenon DEF CompoundParts, Compounded

LEMMA CompoundLock ==
  ASSUME NEW pool, PoolInv(pool), NEW t \in Tracks, NEW s \in Steps,
         NEW i \in 1 .. PoolSize - 1, NEW low \in {0, Top},
         pool[i] = FreeSlot, pool[i + 1] = FreeSlot, SlotsOf(pool, t, "depth") = {},
         NEW q, Compounded(pool, q, t, s, i, low)
  PROVE  /\ PoolInv(q)
         /\ Decode(q) = Decode(pool) \cup {Lock(t, s, "depth", Value("depth", Top, low))}
<1>1. /\ pool \in [1 .. PoolSize -> Slots]
      /\ \A j \in 1 .. PoolSize : ~Owns(pool[j], t, "depth")
  <2>1. pool \in [1 .. PoolSize -> Slots]
    BY DEF PoolInv
  <2>2. QED  BY <2>1, PoolLen DEF SlotsOf, Owns
<1>2. /\ i \in 1 .. PoolSize /\ i + 1 \in 1 .. PoolSize /\ i + 1 # i
      /\ InRange(Top) /\ low # Unset
  BY SizeIsNumber DEF Unset, InRange
<1>3. /\ q \in [1 .. PoolSize -> Slots]
      /\ q[i].track = t /\ q[i].type = "depth" /\ q[i].bytes[s] = Top
      /\ \A x \in Steps : x # s => q[i].bytes[x] = Unset
      /\ q[i + 1].type = Companion /\ q[i + 1].bytes[s] = low
      /\ \A j \in 1 .. PoolSize : j \notin {i, i + 1} => q[j] = pool[j]
  BY DEF Compounded
<1>6. Len(pool) = PoolSize /\ Len(q) = PoolSize
  BY <1>1, <1>3, PoolLen
<1>7. /\ FreeSlot.type = "free" /\ q[i].type \in Types /\ q[i].type # "free"
      /\ q[i + 1].type \notin Types /\ q[i + 1].type # "free"
      /\ ~IsCompanion(pool[i]) /\ ~IsCompanion(pool[i + 1])
      /\ ~IsCompanion(q[i]) /\ IsCompanion(q[i + 1])
  BY <1>3, CleanSlots, TypeNames DEF IsCompanion
<1>8. PoolInv(q)
  <2>1. \A j \in 1 .. PoolSize : q[j].type \in Types => q[j].track \in Tracks
    BY <1>3, <1>7 DEF PoolInv
  <2>2. \A j \in 1 .. PoolSize : q[j].type = "free" => q[j] = FreeSlot
    BY <1>3, <1>7 DEF PoolInv
  <2>3. ASSUME NEW j \in 1 .. PoolSize, NEW m \in 1 .. PoolSize, q[j].type \in Types,
               Owns(q[m], q[j].track, q[j].type)
        PROVE  j = m
    <3>1. j # i + 1 /\ m # i + 1
      BY <1>3, <1>7, <2>3 DEF Owns
    <3>2. CASE j = i \/ m = i
      BY <1>1, <1>3, <2>3, <3>1, <3>2 DEF Owns
    <3>3. CASE j # i /\ m # i
      BY <1>3, <2>3, <3>1, <3>3 DEF PoolInv, Owns
    <3>4. QED  BY <3>2, <3>3
  <2>4. ASSUME NEW j \in 1 .. PoolSize, j + 1 \in 1 .. PoolSize, q[j].type = "free",
               IsCompanion(q[j + 1])
        PROVE  q[j + 1].bytes = NoBytes
    <3>1. j # i /\ j # i + 1 /\ j + 1 # i
      BY <1>3, <1>7, <2>4
    <3>2. j + 1 # i + 1
      BY <1>2, <3>1
    <3>3. q[j] = pool[j] /\ q[j + 1] = pool[j + 1]
      BY <1>3, <2>4, <3>1, <3>2
    <3>4. QED  BY <2>4, <3>3 DEF PoolInv
  <2>5. QED  BY <1>3, <2>1, <2>2, <2>3, <2>4 DEF PoolInv
<1>9. ASSUME NEW j \in 1 .. PoolSize, j \notin {i, i + 1}, NEW x \in Steps
      PROVE  /\ Shows(q, j, x) <=> Shows(pool, j, x)
             /\ Shown(q, j, x) = Shown(pool, j, x)
  <2>1. q[j] = pool[j]
    BY <1>3, <1>9
  <2>2. LowByte(q, j, x) = LowByte(pool, j, x)
    <3>1. CASE j < PoolSize
      <4>1. j + 1 \in 1 .. PoolSize /\ j + 1 # i + 1
        BY <1>2, <1>9, <3>1, SizeIsNumber
      <4>2. q[j + 1] = pool[j + 1] \/ (~IsCompanion(q[j + 1]) /\ ~IsCompanion(pool[j + 1]))
        BY <1>3, <1>7, <4>1
      <4>3. CASE q[j + 1] = pool[j + 1]
        <5>1. /\ j < Len(q) <=> j < Len(pool)
              /\ q[j].type = pool[j].type
              /\ IsCompanion(q[j + 1]) <=> IsCompanion(pool[j + 1])
              /\ q[j + 1].bytes[x] = pool[j + 1].bytes[x]
          BY <1>6, <2>1, <4>3
        <5>2. QED  BY <5>1 DEF LowByte
      <4>4. CASE ~IsCompanion(q[j + 1]) /\ ~IsCompanion(pool[j + 1])
        BY <4>4 DEF LowByte
      <4>5. QED  BY <4>2, <4>3, <4>4
    <3>2. CASE ~(j < PoolSize)
      BY <1>6, <3>2 DEF LowByte
    <3>3. QED  BY <3>1, <3>2
  <2>3. QED  BY <2>1, <2>2 DEF Shows, Shown
<1>10. /\ Shows(q, i, s) /\ \A x \in Steps : Shows(q, i, x) => x = s
       /\ Shown(q, i, s) = Lock(t, s, "depth", Value("depth", Top, low))
  <2>1. LowByte(q, i, s) = low
    <3>1. i < Len(q)
      BY <1>2, <1>6
    <3>2. QED  BY <1>2, <1>3, <1>7, <3>1 DEF LowByte
  <2>2. "depth" \in Parameters
    BY DEF Parameters
  <2>3. QED  BY <1>2, <1>3, <2>1, <2>2, BytesAre DEF Shows, Shown
<1>11. \A x \in Steps : ~Shows(q, i + 1, x) /\ ~Shows(pool, i, x) /\ ~Shows(pool, i + 1, x)
  BY <1>3, <1>7, TypeNames DEF Shows
<1>12. \A l : l \in Decode(q) <=> l \in Decode(pool)
                                    \/ l = Lock(t, s, "depth", Value("depth", Top, low))
  <2>1. \A l : l \in Decode(pool) <=>
          \E j \in 1 .. PoolSize, x \in Steps : Shows(pool, j, x) /\ l = Shown(pool, j, x)
    BY <1>1, DecodeIs
  <2>2. \A l : l \in Decode(q) <=>
          \E j \in 1 .. PoolSize, x \in Steps : Shows(q, j, x) /\ l = Shown(q, j, x)
    BY <1>3, DecodeIs
  <2>3. ASSUME NEW l, l \in Decode(q)
        PROVE  l \in Decode(pool) \/ l = Lock(t, s, "depth", Value("depth", Top, low))
    <3>1. PICK j \in 1 .. PoolSize, x \in Steps : Shows(q, j, x) /\ l = Shown(q, j, x)
      BY <2>2, <2>3
    <3>2. CASE j \notin {i, i + 1}
      BY <1>9, <2>1, <3>1, <3>2
    <3>3. CASE j \in {i, i + 1}
      BY <1>10, <1>11, <3>1, <3>3
    <3>4. QED  BY <3>2, <3>3
  <2>4. ASSUME NEW l, l \in Decode(pool)  PROVE l \in Decode(q)
    <3>1. PICK j \in 1 .. PoolSize, x \in Steps : Shows(pool, j, x) /\ l = Shown(pool, j, x)
      BY <2>1, <2>4
    <3>2. j \notin {i, i + 1}
      BY <1>11, <3>1
    <3>3. QED  BY <1>9, <2>2, <3>1, <3>2
  <2>5. Lock(t, s, "depth", Value("depth", Top, low)) \in Decode(q)
    BY <1>2, <1>10, <2>2
  <2>6. QED  BY <2>3, <2>4, <2>5
<1>13. QED  BY <1>8, <1>12

Orphaned(pool, q, i, slot) ==
  /\ pool[i] = FreeSlot /\ (i > 1 => pool[i - 1].type # "depth")
  /\ slot.type = Companion /\ slot.bytes = NoBytes
  /\ q \in [1 .. PoolSize -> Slots] /\ q[i] = slot
  /\ \A j \in 1 .. PoolSize : j # i => q[j] = pool[j]

LEMMA OrphanCompanion ==
  ASSUME NEW pool, PoolInv(pool), NEW i \in 1 .. PoolSize, NEW slot, NEW q,
         Orphaned(pool, q, i, slot)
  PROVE  PoolInv(q) /\ Decode(q) = Decode(pool)
<1>1. /\ pool \in [1 .. PoolSize -> Slots] /\ pool[i] = FreeSlot
      /\ i > 1 => pool[i - 1].type # "depth"
  BY DEF PoolInv, Orphaned
<1>2. slot.type = Companion /\ slot.bytes = NoBytes
  BY DEF Orphaned
<1>3. /\ q \in [1 .. PoolSize -> Slots] /\ q[i] = slot
      /\ \A j \in 1 .. PoolSize : j # i => q[j] = pool[j]
  BY DEF Orphaned
<1>4. Len(pool) = PoolSize /\ Len(q) = PoolSize
  BY <1>1, <1>3, PoolLen
<1>5. /\ FreeSlot.type = "free" /\ slot.type \notin Types /\ slot.type # "free"
      /\ slot.type \notin Parameters /\ FreeSlot.type \notin Parameters
  BY <1>2, CleanSlots, TypeNames
<1>6. PoolInv(q)
  <2>1. \A j \in 1 .. PoolSize : q[j].type \in Types => q[j].track \in Tracks
    BY <1>1, <1>3, <1>5 DEF PoolInv
  <2>2. \A j \in 1 .. PoolSize : q[j].type = "free" => q[j] = FreeSlot
    BY <1>1, <1>3, <1>5 DEF PoolInv
  <2>3. \A j, m \in 1 .. PoolSize :
          q[j].type \in Types /\ Owns(q[m], q[j].track, q[j].type) => j = m
    BY <1>1, <1>3, <1>5 DEF PoolInv, Owns
  <2>4. \A j \in 1 .. PoolSize :
          j + 1 \in 1 .. PoolSize /\ q[j].type = "free" /\ IsCompanion(q[j + 1])
            => q[j + 1].bytes = NoBytes
    BY <1>1, <1>2, <1>3, <1>5 DEF PoolInv
  <2>5. QED  BY <1>3, <2>1, <2>2, <2>3, <2>4 DEF PoolInv
<1>7. ASSUME NEW j \in 1 .. PoolSize, NEW x \in Steps
      PROVE  /\ Shows(q, j, x) <=> Shows(pool, j, x)
             /\ Shows(q, j, x) => Shown(q, j, x) = Shown(pool, j, x)
  <2>1. CASE j = i
    BY <1>1, <1>3, <1>5, <2>1 DEF Shows
  <2>2. CASE j # i
    <3>1. q[j] = pool[j]
      BY <1>3, <2>2
    <3>2. LowByte(q, j, x) = LowByte(pool, j, x)
      <4>1. CASE j < PoolSize /\ j + 1 # i
        <5>1. q[j + 1] = pool[j + 1]
          BY <1>3, <4>1, SizeIsNumber
        <5>2. QED  BY <1>4, <3>1, <5>1 DEF LowByte
      <4>2. CASE j < PoolSize /\ j + 1 = i
        <5>1. i > 1 /\ i - 1 = j
          BY <4>2
        <5>2. pool[j].type # "depth"
          BY <1>1, <5>1
        <5>3. QED  BY <3>1, <5>2 DEF LowByte
      <4>3. CASE ~(j < PoolSize)
        BY <1>4, <4>3 DEF LowByte
      <4>4. QED  BY <4>1, <4>2, <4>3
    <3>3. QED  BY <3>1, <3>2 DEF Shows, Shown
  <2>3. QED  BY <2>1, <2>2
<1>8. \A l : l \in Decode(q) <=> l \in Decode(pool)
  <2>1. \A l : l \in Decode(pool) <=>
          \E j \in 1 .. PoolSize, x \in Steps : Shows(pool, j, x) /\ l = Shown(pool, j, x)
    BY <1>1, DecodeIs
  <2>2. \A l : l \in Decode(q) <=>
          \E j \in 1 .. PoolSize, x \in Steps : Shows(q, j, x) /\ l = Shown(q, j, x)
    BY <1>3, DecodeIs
  <2>3. ASSUME NEW l, l \in Decode(q)  PROVE l \in Decode(pool)
    <3>1. PICK j \in 1 .. PoolSize, x \in Steps : Shows(q, j, x) /\ l = Shown(q, j, x)
      BY <2>2, <2>3
    <3>2. QED  BY <1>7, <2>1, <3>1
  <2>4. ASSUME NEW l, l \in Decode(pool)  PROVE l \in Decode(q)
    <3>1. PICK j \in 1 .. PoolSize, x \in Steps : Shows(pool, j, x) /\ l = Shown(pool, j, x)
      BY <2>1, <2>4
    <3>2. QED  BY <1>7, <2>2, <3>1
  <2>5. QED  BY <2>3, <2>4
<1>9. QED  BY <1>6, <1>8

(***************************************************************************)
(* Columns filled with zeros: the slot keeps its track and parameter, the  *)
(* other cells show what they did, and the filled ones show ghosts.        *)
(***************************************************************************)
FilledIn(slot, columns, q) ==
  /\ q \in Slots /\ q.track = slot.track /\ q.type = slot.type
  /\ \A x \in Steps :
       q.bytes[x] = IF x \in columns /\ slot.bytes[x] = Unset THEN 0 ELSE slot.bytes[x]

LEMMA FillIs ==
  ASSUME NEW slot \in Slots, NEW columns
  PROVE  FilledIn(slot, columns, Filled(slot, columns))
<1> DEFINE bytes == [x \in Steps |->
                      IF x \in columns /\ slot.bytes[x] = Unset THEN 0 ELSE slot.bytes[x]]
<1>1. slot = [track |-> slot.track, type |-> slot.type, bytes |-> slot.bytes]
      /\ slot.bytes \in [Steps -> Bytes]
      /\ slot.track \in Tracks \cup {None}
      /\ slot.type \in Types \cup {"free", Companion}
  BY DEF Slots
<1>2. 0 \in Bytes
  BY BytesAre, SizeIsNumber
<1>3. bytes \in [Steps -> Bytes]
      /\ \A x \in Steps : bytes[x] =
           IF x \in columns /\ slot.bytes[x] = Unset THEN 0 ELSE slot.bytes[x]
  BY <1>1, <1>2
<1>4. Filled(slot, columns) = [slot EXCEPT !.bytes = bytes]
  BY DEF Filled
<1> HIDE DEF bytes
<1>5. Filled(slot, columns) = [track |-> slot.track, type |-> slot.type, bytes |-> bytes]
  BY <1>1, <1>4
<1>6. QED  BY <1>1, <1>3, <1>5 DEF Slots, FilledIn

PoolFilled(pool, q, i, columns) ==
  /\ q \in [1 .. PoolSize -> Slots] /\ FilledIn(pool[i], columns, q[i])
  /\ \A j \in 1 .. PoolSize : j # i => q[j] = pool[j]

LEMMA PoolFills ==
  ASSUME NEW pool, PoolInv(pool), NEW i \in 1 .. PoolSize, NEW columns
  PROVE  PoolFilled(pool, [pool EXCEPT ![i] = Filled(pool[i], columns)], i, columns)
<1> DEFINE slot == Filled(pool[i], columns)
<1>1. pool \in [1 .. PoolSize -> Slots] /\ pool[i] \in Slots
  BY DEF PoolInv
<1>2. FilledIn(pool[i], columns, slot)
  BY <1>1, FillIs
<1>3. slot \in Slots
  BY <1>2 DEF FilledIn
<1> HIDE DEF slot
<1> DEFINE q == [pool EXCEPT ![i] = slot]
<1>4. /\ q \in [1 .. PoolSize -> Slots] /\ q[i] = slot
      /\ \A j \in 1 .. PoolSize : j # i => q[j] = pool[j]
  BY <1>1, <1>3
<1> HIDE DEF q
<1>5. PoolFilled(pool, q, i, columns)
  BY <1>2, <1>4 DEF PoolFilled
<1>6. QED  BY <1>5 DEF q, slot

LEMMA FillLocks ==
  ASSUME NEW pool, PoolInv(pool), NEW i \in 1 .. PoolSize, pool[i].type \in Types,
         NEW columns \in SUBSET Steps, NEW q, PoolFilled(pool, q, i, columns)
  PROVE  PoolInv(q) /\ Decode(q) = Decode(pool) \cup Ghosts(pool, i, columns)
<1>1. pool \in [1 .. PoolSize -> Slots] /\ pool[i] \in Slots
  BY DEF PoolInv
<1>3. /\ q \in [1 .. PoolSize -> Slots] /\ FilledIn(pool[i], columns, q[i])
      /\ \A j \in 1 .. PoolSize : j # i => q[j] = pool[j]
  BY DEF PoolFilled
<1>4. Len(pool) = PoolSize /\ Len(q) = PoolSize
  BY <1>1, <1>3, PoolLen
<1>5. /\ \A j \in 1 .. PoolSize : q[j].type = pool[j].type /\ q[j].track = pool[j].track
      /\ q[i].type # "free" /\ ~IsCompanion(q[i]) /\ ~IsCompanion(pool[i])
  <2>1. q[i].type = pool[i].type /\ q[i].track = pool[i].track
    BY <1>3 DEF FilledIn
  <2>2. \A j \in 1 .. PoolSize : q[j].type = pool[j].type /\ q[j].track = pool[j].track
    BY <1>3, <2>1
  <2>3. QED  BY <2>1, <2>2, TypeNames DEF IsCompanion
<1>6. PoolInv(q)
  <2>1. \A j \in 1 .. PoolSize : q[j].type \in Types => q[j].track \in Tracks
    BY <1>5 DEF PoolInv
  <2>2. \A j \in 1 .. PoolSize : q[j].type = "free" => q[j] = FreeSlot
    BY <1>3, <1>5 DEF PoolInv
  <2>3. \A j, m \in 1 .. PoolSize :
          q[j].type \in Types /\ Owns(q[m], q[j].track, q[j].type) => j = m
    BY <1>5 DEF PoolInv, Owns
  <2>4. \A j \in 1 .. PoolSize :
          j + 1 \in 1 .. PoolSize /\ q[j].type = "free" /\ IsCompanion(q[j + 1])
            => q[j + 1].bytes = NoBytes
    <3> SUFFICES ASSUME NEW j \in 1 .. PoolSize, j + 1 \in 1 .. PoolSize,
                        q[j].type = "free", IsCompanion(q[j + 1])
                 PROVE  q[j + 1].bytes = NoBytes
      OBVIOUS
    <3>1. j + 1 # i
      BY <1>5
    <3>2. q[j + 1] = pool[j + 1] /\ pool[j].type = "free"
      BY <1>3, <1>5, <3>1
    <3>3. QED  BY <3>2 DEF PoolInv
  <2>5. QED  BY <1>3, <2>1, <2>2, <2>3, <2>4 DEF PoolInv
<1>7. \A j \in 1 .. PoolSize, x \in Steps : LowByte(q, j, x) = LowByte(pool, j, x)
  <2> SUFFICES ASSUME NEW j \in 1 .. PoolSize, NEW x \in Steps
               PROVE  LowByte(q, j, x) = LowByte(pool, j, x)
    OBVIOUS
  <2>1. CASE j < PoolSize
    <3>1. j + 1 \in 1 .. PoolSize
      BY <2>1, SizeIsNumber
    <3>2. CASE j + 1 = i
      <4>1. ~IsCompanion(q[j + 1]) /\ ~IsCompanion(pool[j + 1])
        BY <1>5, <3>2
      <4>2. QED  BY <4>1 DEF LowByte
    <3>3. CASE j + 1 # i
      <4>1. q[j + 1] = pool[j + 1] /\ q[j].type = pool[j].type
        BY <1>3, <1>5, <3>1, <3>3
      <4>2. QED  BY <1>4, <4>1 DEF LowByte
    <3>4. QED  BY <3>2, <3>3
  <2>2. CASE ~(j < PoolSize)
    BY <1>4, <2>2 DEF LowByte
  <2>3. QED  BY <2>1, <2>2
<1> DEFINE Zeroed(x) == x \in columns /\ pool[i].bytes[x] = Unset
<1>8. ASSUME NEW j \in 1 .. PoolSize, NEW x \in Steps, j # i \/ ~Zeroed(x)
      PROVE  /\ Shows(q, j, x) <=> Shows(pool, j, x)
             /\ Shown(q, j, x) = Shown(pool, j, x)
  <2>1. q[j].bytes[x] = pool[j].bytes[x]
    BY <1>3, <1>8 DEF FilledIn
  <2>2. QED  BY <1>5, <1>7, <2>1 DEF Shows, Shown
<1>9. ASSUME NEW x \in Steps, Zeroed(x)
      PROVE  /\ ~Shows(pool, i, x)
             /\ Shows(q, i, x) <=> pool[i].type \in Parameters
             /\ Shown(q, i, x) = Lock(pool[i].track, x, pool[i].type,
                                     Value(pool[i].type, 0, LowByte(pool, i, x)))
  <2>1. q[i].bytes[x] = 0
    BY <1>3, <1>9 DEF FilledIn
  <2>2. InRange(0) /\ ~InRange(pool[i].bytes[x])
    BY <1>9, BytesAre, SizeIsNumber DEF InRange
  <2>3. QED  BY <1>5, <1>7, <2>1, <2>2 DEF Shows, Shown
<1>10. /\ \A l : l \in Decode(pool) <=>
             \E j \in 1 .. PoolSize, x \in Steps : Shows(pool, j, x) /\ l = Shown(pool, j, x)
       /\ \A l : l \in Decode(q) <=>
             \E j \in 1 .. PoolSize, x \in Steps : Shows(q, j, x) /\ l = Shown(q, j, x)
  <2>1. q \in [1 .. PoolSize -> Slots]
    BY <1>3
  <2>2. QED  BY <1>1, <2>1, DecodeIs
<1>11. \A l : l \in Ghosts(pool, i, columns) <=>
         \E x \in Steps : /\ Zeroed(x) /\ pool[i].type \in Parameters
                          /\ l = Lock(pool[i].track, x, pool[i].type,
                                      Value(pool[i].type, 0, LowByte(pool, i, x)))
  BY DEF Ghosts
<1> HIDE DEF Zeroed
<1>12. ASSUME NEW l, l \in Decode(q)
       PROVE  l \in Decode(pool) \/ l \in Ghosts(pool, i, columns)
  <2>5. \E j \in 1 .. PoolSize, x \in Steps : Shows(q, j, x) /\ l = Shown(q, j, x)
    BY <1>10, <1>12
  <2>1. PICK j \in 1 .. PoolSize, x \in Steps : Shows(q, j, x) /\ l = Shown(q, j, x)
    BY <2>5
  <2>2. CASE j # i \/ ~Zeroed(x)
    BY <1>8, <1>10, <2>1, <2>2
  <2>3. CASE j = i /\ Zeroed(x)
    BY <1>9, <1>11, <2>1, <2>3
  <2>4. QED  BY <2>2, <2>3
<1>13. ASSUME NEW l, l \in Decode(pool)  PROVE l \in Decode(q)
  <2>1. PICK j \in 1 .. PoolSize, x \in Steps : Shows(pool, j, x) /\ l = Shown(pool, j, x)
    BY <1>10, <1>13
  <2>2. j # i \/ ~Zeroed(x)
    BY <1>9, <2>1
  <2>3. QED  BY <1>8, <1>10, <2>1, <2>2
<1>14. ASSUME NEW l, l \in Ghosts(pool, i, columns)  PROVE l \in Decode(q)
  <2>1. PICK x \in Steps : /\ Zeroed(x) /\ pool[i].type \in Parameters
                           /\ l = Lock(pool[i].track, x, pool[i].type,
                                       Value(pool[i].type, 0, LowByte(pool, i, x)))
    BY <1>11, <1>14
  <2>2. Shows(q, i, x) /\ l = Shown(q, i, x)
    BY <1>9, <2>1
  <2>3. QED  BY <1>10, <2>2
<1>15. Decode(q) = Decode(pool) \cup Ghosts(pool, i, columns)
  BY <1>12, <1>13, <1>14
<1>16. QED  BY <1>6, <1>15

(***************************************************************************)
(* A machine parameter is in the pool and no lock of the summary.          *)
(***************************************************************************)
LEMMA SynthLock ==
  ASSUME NEW pool, PoolInv(pool), NEW t \in Tracks, NEW s \in Steps,
         HasRoom(pool, t, "synth"), NEW q, q = SetByte(pool, t, s, "synth", 0)
  PROVE  PoolInv(q) /\ Decode(q) = Decode(pool)
<1>1. 0 \in Bytes /\ "synth" \in Types /\ "synth" \notin Parameters
  BY SizeIsNumber DEF Bytes, Unset, Types, Parameters
<1>2. LocksSet(pool, q, t, s, "synth", 0)
  BY <1>1, SetByteSets
<1>3. \A l : l \in Decode(q) <=> l \in Decode(pool) /\ ~IsAt(l, t, s, "synth")
  BY <1>1, <1>2 DEF LocksSet, LocksWritten
<1>4. pool \in [1 .. PoolSize -> Slots]
  BY DEF PoolInv
<1>5. ASSUME NEW l, l \in Decode(pool)  PROVE ~IsAt(l, t, s, "synth")
  <2>1. PICK i \in 1 .. PoolSize, x \in Steps : Shows(pool, i, x) /\ l = Shown(pool, i, x)
    BY <1>4, <1>5, DecodeIs
  <2>2. QED  BY <1>1, <2>1 DEF Shows, Shown, Lock, IsAt
<1>6. QED  BY <1>2, <1>3, <1>5 DEF LocksSet

-----------------------------------------------------------------------------
(* The state machine. *)

(***************************************************************************)
(* What the summary says of a trig.                                        *)
(***************************************************************************)
Line(p, k) ==
  [track |-> k[1], step |-> k[2], velocity |-> p.trigs[k].velocity,
   condition |-> p.trigs[k].condition, locks |-> LocksFor(p.pool, k[1], k[2])]

(***************************************************************************)
(* Two Patterns with one summary show the same locks on the same trigs.    *)
(***************************************************************************)
LEMMA SummaryShows ==
  ASSUME NEW p, PatInv(p), NEW q, PatInv(q), Summary(p) = Summary(q),
         NEW k \in Tracks \X Steps, p.trigs[k].on
  PROVE  q.trigs[k].on /\ Line(p, k) = Line(q, k)
<1>1. DOMAIN p.trigs = Tracks \X Steps /\ DOMAIN q.trigs = Tracks \X Steps
  BY DEF PatInv
<1>2. /\ Summary(p).trigs = {Line(p, j) : j \in {x \in Tracks \X Steps : p.trigs[x].on}}
      /\ Summary(q).trigs = {Line(q, j) : j \in {x \in Tracks \X Steps : q.trigs[x].on}}
  BY <1>1 DEF Summary, Line
<1>3. Line(p, k) \in {Line(q, j) : j \in {x \in Tracks \X Steps : q.trigs[x].on}}
  BY <1>2
<1>4. PICK j \in Tracks \X Steps : q.trigs[j].on /\ Line(p, k) = Line(q, j)
  BY <1>3
<1>5. k[1] = j[1] /\ k[2] = j[2]
  BY <1>4 DEF Line
<1>6. k = j
  BY <1>5
<1>7. QED  BY <1>4, <1>6

(***************************************************************************)
(* A lock that is shown is on a track and a step.                          *)
(***************************************************************************)
LEMMA ShownOn ==
  ASSUME NEW pool, pool \in [1 .. PoolSize -> Slots], PoolInv(pool), NEW l \in Decode(pool)
  PROVE  <<l.track, l.step>> \in Tracks \X Steps
<1>1. PICK i \in 1 .. PoolSize, x \in Steps : Shows(pool, i, x) /\ l = Shown(pool, i, x)
  BY DecodeIs
<1>2. pool[i].track \in Tracks
  BY <1>1, TypeNames DEF Shows, PoolInv
<1>3. QED  BY <1>1, <1>2 DEF Shown, Lock

(***************************************************************************)
(* The inductive invariant: what was given is what the pool shows, on the  *)
(* trigs that are off too.                                                 *)
(***************************************************************************)
IInv == PatInv(device) /\ given = Decode(device.pool)

LEMMA InitHolds == Init => IInv
<1> SUFFICES ASSUME Init  PROVE IInv
  OBVIOUS
<1> DEFINE trigs == [k \in Tracks \X Steps |->
                      [on |-> FALSE, velocity |-> 0, condition |-> FALSE]]
           pool == [i \in 1 .. PoolSize |-> FreeSlot]
           lengths == [t \in Tracks |-> 0]
<1>1. PoolInv(pool) /\ Decode(pool) = {}
  BY FreePool
<1>2. trigs \in [Tracks \X Steps -> Trigs]
  BY DEF Trigs
<1>3. lengths \in [Tracks -> Nat]
  OBVIOUS
<1>4. device = [trigs |-> trigs, pool |-> pool, lengths |-> lengths, kit |-> 0]
      /\ given = {}
  BY DEF Init
<1> HIDE DEF trigs, pool, lengths
<1>5. QED  BY <1>1, <1>2, <1>3, <1>4 DEF IInv, PatInv

(***************************************************************************)
(* An operation set.                                                       *)
(***************************************************************************)
OutcomeAs(p, o, e) ==
  /\ PatInv(o.pattern) /\ o.ok = e.ok /\ o.sent \in BOOLEAN
  /\ o.sent => e.ok /\ o.pattern = e.pattern
  /\ ~o.sent => /\ o.pattern = p
                /\ e.ok => Summary(p) = Summary(e.pattern)
  /\ e.ok \in BOOLEAN /\ PatInv(e.pattern)

LEMMA OutcomeIs ==
  ASSUME NEW p, PatInv(p), NEW ops \in Seq(Operations)
  PROVE  OutcomeAs(p, Outcome(p, ops), EditAll(p, ops))
<1> DEFINE e == EditAll(p, ops)
<1>1. e.ok \in BOOLEAN /\ PatInv(e.pattern)
  <2>1. PICK f : EditsWell(f, p, ops) /\ e = f[Len(ops)]
    BY AllEdited
  <2>2. Len(ops) \in 0 .. Len(ops)
    OBVIOUS
  <2>3. QED  BY <2>1, <2>2 DEF EditsWell
<1>2. Outcome(p, ops) =
        [ok |-> e.ok, sent |-> e.ok /\ Changed(p, e.pattern),
         pattern |-> IF e.ok /\ Changed(p, e.pattern) THEN e.pattern ELSE p]
  BY DEF Outcome
<1> HIDE DEF e
<1>3. Changed(p, e.pattern) \in BOOLEAN
  BY DEF Changed
<1> DEFINE o == Outcome(p, ops)
<1>4. /\ o.ok = e.ok /\ o.sent = (e.ok /\ Changed(p, e.pattern))
      /\ o.pattern = IF e.ok /\ Changed(p, e.pattern) THEN e.pattern ELSE p
  BY <1>2
<1> HIDE DEF o
<1>6. OutcomeAs(p, o, e)
  <2>1. CASE e.ok /\ Changed(p, e.pattern)
    BY <1>1, <1>4, <2>1 DEF OutcomeAs
  <2>2. CASE ~(e.ok /\ Changed(p, e.pattern))
    BY <1>1, <1>4, <2>2 DEF Changed, OutcomeAs
  <2>3. QED  BY <2>1, <2>2
<1>7. QED  BY <1>6 DEF e, o

(***************************************************************************)
(* A set that was sent leaves what its operations ask of the locks; one    *)
(* that was found converged asks nothing new of the trigs that are on,     *)
(* whose summary is the same.                                              *)
(***************************************************************************)
LEMMA ApplyKeeps ==
  ASSUME IInv, NEW ops \in Sets, Apply(ops)
  PROVE  IInv'
<1> DEFINE outcome == Outcome(device, ops)
           e == EditAll(device, ops)
<1>1. ops \in Seq(Operations) /\ PatInv(device) /\ given = Decode(device.pool)
  BY PatternAssumption DEF IInv
<1>2. /\ device' = outcome.pattern
      /\ given' = IF outcome.ok
                    THEN Promise(ops, outcome.pattern, outcome.sent) ELSE given
  BY DEF Apply
<1>3. /\ PatInv(outcome.pattern) /\ outcome.ok = e.ok
      /\ outcome.sent \in BOOLEAN
      /\ outcome.sent => e.ok /\ outcome.pattern = e.pattern
      /\ ~outcome.sent => /\ outcome.pattern = device
                          /\ e.ok => Summary(device) = Summary(e.pattern)
      /\ e.ok \in BOOLEAN /\ PatInv(e.pattern)
  BY <1>1, OutcomeIs DEF OutcomeAs
<1> HIDE DEF outcome
<1>4. e.ok => Decode(e.pattern.pool) = AskAll(given, ops)
  BY <1>1, PoolAsAsked
<1> HIDE DEF e
<1>5. CASE outcome.sent
  <2>1. \A l : l \in given' <=> l \in AskAll(given, ops)
                                     \/ l \in {m \in given : FALSE}
    BY <1>2, <1>3, <1>5 DEF Promise
  <2>2. given' = AskAll(given, ops)
    BY <2>1
  <2>3. QED  BY <1>2, <1>3, <1>4, <1>5, <2>2 DEF IInv
<1>6. CASE ~outcome.sent /\ e.ok
  <2>1. Summary(device) = Summary(e.pattern) /\ device' = device
    BY <1>2, <1>3, <1>6
  <2>2. \A l : l \in given' <=>
          \/ /\ l \in AskAll(given, ops)
             /\ device.trigs[<<l.track, l.step>>].on \/ l \in given
          \/ l \in given /\ ~device.trigs[<<l.track, l.step>>].on
    BY <1>2, <1>3, <1>6 DEF Promise
  <2>3. ASSUME NEW l, <<l.track, l.step>> \in Tracks \X Steps,
               device.trigs[<<l.track, l.step>>].on
        PROVE  l \in AskAll(given, ops) <=> l \in given
    <3> DEFINE k == <<l.track, l.step>>
    <3>1. Line(device, k) = Line(e.pattern, k)
      BY <1>1, <1>3, <2>1, <2>3, SummaryShows
    <3>2. LocksFor(device.pool, l.track, l.step) = LocksFor(e.pattern.pool, l.track, l.step)
      BY <3>1 DEF Line
    <3>3. /\ l \in LocksFor(device.pool, l.track, l.step) <=> l \in Decode(device.pool)
          /\ l \in LocksFor(e.pattern.pool, l.track, l.step) <=> l \in Decode(e.pattern.pool)
      BY DEF LocksFor
    <3>4. QED  BY <1>1, <1>4, <1>6, <3>2, <3>3
  <2>4. ASSUME NEW l, l \in given \/ l \in AskAll(given, ops)
        PROVE  <<l.track, l.step>> \in Tracks \X Steps
    <3>1. CASE l \in given
      BY <1>1, <3>1, ShownOn DEF PatInv, PoolInv
    <3>2. CASE l \in AskAll(given, ops)
      <4>1. l \in Decode(e.pattern.pool)
        BY <1>4, <1>6, <3>2
      <4>2. QED  BY <1>3, <4>1, ShownOn DEF PatInv, PoolInv
    <3>3. QED  BY <2>4, <3>1, <3>2
  <2>5. given' = given
    BY <2>2, <2>3, <2>4
  <2>6. QED  BY <1>1, <2>1, <2>5 DEF IInv
<1>7. CASE ~outcome.sent /\ ~e.ok
  <2>1. device' = device /\ given' = given
    BY <1>2, <1>3, <1>7
  <2>2. QED  BY <1>1, <2>1 DEF IInv
<1>8. QED  BY <1>3, <1>5, <1>6, <1>7

(***************************************************************************)
(* The panel.                                                              *)
(***************************************************************************)
LEMMA PoolPanel ==
  ASSUME NEW p, PatInv(p), NEW pool, PoolInv(pool), NEW q, q = [p EXCEPT !.pool = pool]
  PROVE  PatInv(q) /\ q.pool = pool
<1>1. q = [trigs |-> p.trigs, pool |-> pool, lengths |-> p.lengths, kit |-> p.kit]
  BY DEF PatInv
<1>2. QED  BY <1>1 DEF PatInv

LEMMA PanelKeeps ==
  ASSUME IInv, Panel
  PROVE  IInv'
<1>1. PatInv(device) /\ PoolInv(device.pool) /\ given = Decode(device.pool)
      /\ device.pool \in [1 .. PoolSize -> Slots]
  BY DEF IInv, PatInv, PoolInv
<1>2. CASE \E k \in Tracks \X Steps :
             device' = [device EXCEPT !.trigs[k].on = ~@] /\ UNCHANGED given
  <2>1. PICK k \in Tracks \X Steps : device' = [device EXCEPT !.trigs[k].on = ~@]
    BY <1>2
  <2> DEFINE trig == [device.trigs[k] EXCEPT !.on = ~@]
             trigs == [device.trigs EXCEPT ![k] = trig]
  <2>2. device.trigs \in [Tracks \X Steps -> Trigs] /\ device.trigs[k] \in Trigs
    BY <1>1 DEF PatInv
  <2>3. trig \in Trigs
    BY <2>2 DEF Trigs
  <2>4. device' = [device EXCEPT !.trigs = trigs]
    BY <2>1
  <2> HIDE DEF trig
  <2>5. trigs \in [Tracks \X Steps -> Trigs]
    BY <2>2, <2>3
  <2> HIDE DEF trigs
  <2>6. device' = [trigs |-> trigs, pool |-> device.pool, lengths |-> device.lengths,
                   kit |-> device.kit]
    BY <1>1, <2>4 DEF PatInv
  <2>7. PatInv(device') /\ device'.pool = device.pool
    BY <1>1, <2>5, <2>6 DEF PatInv
  <2>8. QED  BY <1>1, <1>2, <2>7 DEF IInv
<1>3. CASE \E k \in Tracks \X Steps :
             /\ HasRoom(device.pool, k[1], "synth")
             /\ device' = [device EXCEPT !.pool = SetByte(@, k[1], k[2], "synth", 0)]
             /\ UNCHANGED given
  <2>1. PICK k \in Tracks \X Steps :
          /\ HasRoom(device.pool, k[1], "synth")
          /\ device' = [device EXCEPT !.pool = SetByte(@, k[1], k[2], "synth", 0)]
    BY <1>3
  <2> DEFINE pool == SetByte(device.pool, k[1], k[2], "synth", 0)
  <2>2. k[1] \in Tracks /\ k[2] \in Steps
    OBVIOUS
  <2>3. PoolInv(pool) /\ Decode(pool) = Decode(device.pool)
    BY <1>1, <2>1, <2>2, SynthLock
  <2>4. device' = [device EXCEPT !.pool = pool]
    BY <2>1
  <2> HIDE DEF pool
  <2>5. PatInv(device') /\ device'.pool = pool
    BY <1>1, <2>3, <2>4, PoolPanel
  <2>6. QED  BY <1>1, <1>3, <2>3, <2>5 DEF IInv
<1>4. CASE \E k \in Tracks \X Steps, i \in 1 .. PoolSize - 1, low \in {0, Top} :
             /\ {device.pool[i], device.pool[i + 1]} = {FreeSlot}
             /\ SlotsOf(device.pool, k[1], "depth") = {}
             /\ device' = [device EXCEPT
                  !.pool[i] = [track |-> k[1], type |-> "depth",
                               bytes |-> [NoBytes EXCEPT ![k[2]] = Top]],
                  !.pool[i + 1] = [track |-> None, type |-> Companion,
                                   bytes |-> [NoBytes EXCEPT ![k[2]] = low]]]
             /\ given' = given \cup {Lock(k[1], k[2], "depth", Value("depth", Top, low))}
  <2>1. PICK k \in Tracks \X Steps, i \in 1 .. PoolSize - 1, low \in {0, Top} :
             /\ {device.pool[i], device.pool[i + 1]} = {FreeSlot}
             /\ SlotsOf(device.pool, k[1], "depth") = {}
             /\ device' = [device EXCEPT
                  !.pool[i] = [track |-> k[1], type |-> "depth",
                               bytes |-> [NoBytes EXCEPT ![k[2]] = Top]],
                  !.pool[i + 1] = [track |-> None, type |-> Companion,
                                   bytes |-> [NoBytes EXCEPT ![k[2]] = low]]]
             /\ given' = given \cup {Lock(k[1], k[2], "depth", Value("depth", Top, low))}
    BY <1>4
  <2> DEFINE t == k[1]
             s == k[2]
             high == [NoBytes EXCEPT ![s] = Top]
             rest == [NoBytes EXCEPT ![s] = low]
             one == [track |-> t, type |-> "depth", bytes |-> high]
             two == [track |-> None, type |-> Companion, bytes |-> rest]
             pool == [device.pool EXCEPT ![i] = one, ![i + 1] = two]
  <2>2. t \in Tracks /\ s \in Steps
    OBVIOUS
  <2>4. device.pool[i] = FreeSlot /\ device.pool[i + 1] = FreeSlot
    BY <2>1
  <2>5. given' = given \cup {Lock(t, s, "depth", Value("depth", Top, low))}
    BY <2>1
  <2>6. SlotsOf(device.pool, t, "depth") = {}
    BY <2>1
  <2>7. device' = [device EXCEPT !.pool[i] = one, !.pool[i + 1] = two]
    BY <2>1
  <2>12. /\ high = [NoBytes EXCEPT ![s] = Top] /\ rest = [NoBytes EXCEPT ![s] = low]
        /\ one = [track |-> t, type |-> "depth", bytes |-> high]
        /\ two = [track |-> None, type |-> Companion, bytes |-> rest]
        /\ pool = [device.pool EXCEPT ![i] = one, ![i + 1] = two]
    OBVIOUS
  <2> HIDE DEF t, s, high, rest, one, two, pool
  <2>3. Compounded(device.pool, pool, t, s, i, low)
    <3>1. CompoundParts(one, two, t, s, low)
      BY <2>2, <2>12, CompoundPartsAre
    <3>2. pool = [device.pool EXCEPT ![i] = one, ![i + 1] = two]
      BY <2>12
    <3>3. QED  BY <1>1, <3>1, <3>2, CompoundIs
  <2> USE DEF pool
  <2> HIDE DEF one, two
  <2>8. device' = [device EXCEPT !.pool = pool]
    BY <1>1, <2>7 DEF PatInv
  <2> HIDE DEF pool
  <2>9. /\ PoolInv(pool)
        /\ Decode(pool) = Decode(device.pool) \cup {Lock(t, s, "depth", Value("depth", Top, low))}
    BY <1>1, <2>2, <2>3, <2>4, <2>6, CompoundLock
  <2>10. PatInv(device') /\ device'.pool = pool
    BY <1>1, <2>8, <2>9, PoolPanel
  <2>11. QED  BY <1>1, <2>5, <2>9, <2>10 DEF IInv
<1>5. CASE \E i \in 1 .. PoolSize :
             /\ device.pool[i] = FreeSlot
             /\ i > 1 => device.pool[i - 1].type # "depth"
             /\ device' = [device EXCEPT !.pool[i] =
                  [track |-> None, type |-> Companion, bytes |-> NoBytes]]
             /\ UNCHANGED given
  <2>1. PICK i \in 1 .. PoolSize :
             /\ device.pool[i] = FreeSlot
             /\ i > 1 => device.pool[i - 1].type # "depth"
             /\ device' = [device EXCEPT !.pool[i] =
                  [track |-> None, type |-> Companion, bytes |-> NoBytes]]
    BY <1>5
  <2> DEFINE slot == [track |-> None, type |-> Companion, bytes |-> NoBytes]
             pool == [device.pool EXCEPT ![i] = slot]
  <2>2. slot \in Slots
    BY CleanSlots, SlotIs
  <2>3. slot.type = Companion /\ slot.bytes = NoBytes
    OBVIOUS
  <2>4. device' = [device EXCEPT !.pool = pool]
    BY <2>1
  <2> HIDE DEF slot
  <2>5. pool \in [1 .. PoolSize -> Slots] /\ pool[i] = slot
        /\ \A j \in 1 .. PoolSize : j # i => pool[j] = device.pool[j]
    BY <1>1, <2>2
  <2> HIDE DEF pool
  <2>6. device.pool[i] = FreeSlot /\ (i > 1 => device.pool[i - 1].type # "depth")
    BY <2>1
  <2>10. Orphaned(device.pool, pool, i, slot)
    BY <2>3, <2>5, <2>6 DEF Orphaned
  <2>7. PoolInv(pool) /\ Decode(pool) = Decode(device.pool)
    BY <1>1, <2>10, OrphanCompanion
  <2>8. PatInv(device') /\ device'.pool = pool
    BY <1>1, <2>4, <2>7, PoolPanel
  <2>9. QED  BY <1>1, <1>5, <2>7, <2>8 DEF IInv
<1>6. CASE \E i \in 1 .. PoolSize, columns \in SUBSET Steps :
             /\ device.pool[i].type \in Types
             /\ device' = [device EXCEPT !.pool[i] = Filled(@, columns)]
             /\ given' = given \cup Ghosts(device.pool, i, columns)
  <2>1. PICK i \in 1 .. PoolSize, columns \in SUBSET Steps :
          /\ device.pool[i].type \in Types
          /\ device' = [device EXCEPT !.pool[i] = Filled(@, columns)]
          /\ given' = given \cup Ghosts(device.pool, i, columns)
    BY <1>6
  <2> DEFINE slot == Filled(device.pool[i], columns)
             pool == [device.pool EXCEPT ![i] = slot]
  <2>6. PoolFilled(device.pool, pool, i, columns)
    BY <1>1, PoolFills
  <2>2. PoolInv(pool) /\ Decode(pool) = Decode(device.pool) \cup Ghosts(device.pool, i, columns)
    <3> HIDE DEF pool
    <3>1. QED  BY <1>1, <2>1, <2>6, FillLocks
  <2> HIDE DEF slot
  <2>3. device' = [device EXCEPT !.pool = pool]
    BY <2>1 DEF slot
  <2> HIDE DEF pool
  <2>4. PatInv(device') /\ device'.pool = pool
    BY <1>1, <2>2, <2>3, PoolPanel
  <2>5. QED  BY <1>1, <2>1, <2>2, <2>4 DEF IInv
<1>7. QED  BY <1>2, <1>3, <1>4, <1>5, <1>6 DEF Panel

(***************************************************************************)
(* The invariant holds in every state.                                     *)
(***************************************************************************)
THEOREM Invariance == Spec => []IInv
<1>1. Init => IInv
  BY InitHolds
<1>2. IInv /\ [Next]_vars => IInv'
  <2>1. ASSUME IInv, Next  PROVE IInv'
    BY <2>1, ApplyKeeps, PanelKeeps DEF Next
  <2>2. ASSUME IInv, UNCHANGED vars  PROVE IInv'
    BY <2>2 DEF IInv, vars
  <2>3. QED  BY <2>1, <2>2
<1>3. QED  BY <1>1, <1>2, PTL DEF Spec

(***************************************************************************)
(* No two slots belong to the same track and parameter.                    *)
(***************************************************************************)
LEMMA OneSlotEach ==
  ASSUME NEW pool, PoolInv(pool), NEW t \in Tracks, NEW type \in Types
  PROVE  Cardinality(SlotsOf(pool, t, type)) <= 1
<1> DEFINE own == SlotsOf(pool, t, type)
<1>1. pool \in [1 .. PoolSize -> Slots]
  BY DEF PoolInv
<1>2. own = {i \in 1 .. PoolSize : Owns(pool[i], t, type)}
  BY <1>1, PoolLen DEF SlotsOf, Owns
<1> HIDE DEF own
<1>3. CASE own = {}
  BY <1>3, FS_EmptySet DEF own
<1>4. CASE own # {}
  <2>1. PICK i \in own : TRUE
    BY <1>4
  <2>2. \A j \in own : j = i
    BY <1>2 DEF PoolInv, Owns
  <2>3. own = {i}
    BY <2>1, <2>2
  <2>4. Cardinality({i}) = 1
    BY FS_Singleton
  <2>5. QED  BY <2>3, <2>4 DEF own
<1>5. QED  BY <1>3, <1>4

(***************************************************************************)
(* The Pattern keeps its types, free slots of the pool stay clean, and no  *)
(* two slots belong to one track and parameter, whatever sets and panel    *)
(* changes follow each other.                                              *)
(***************************************************************************)
THEOREM TypeCorrect == Spec => []TypeOK
<1>1. IInv => TypeOK
  <2> SUFFICES ASSUME IInv  PROVE TypeOK
    OBVIOUS
  <2>1. PatInv(device) /\ PoolInv(device.pool)
    BY DEF IInv, PatInv
  <2>2. \A t \in Tracks, type \in Types : Cardinality(SlotsOf(device.pool, t, type)) <= 1
    BY <2>1, OneSlotEach
  <2>3. device.pool \in [1 .. PoolSize -> Slots]
    BY <2>1 DEF PoolInv
  <2>4. \A i \in FreeSlots(device.pool) : device.pool[i] = FreeSlot
    BY <2>1, <2>3, PoolLen DEF PoolInv, FreeSlots
  <2>5. QED  BY <2>1, <2>2, <2>3, <2>4 DEF TypeOK, PatInv
<1>2. QED  BY <1>1, Invariance, PTL

(***************************************************************************)
(* LocksReadBack for any number of tracks, steps, slots and operations:    *)
(* every trig that is on shows exactly the locks that accepted sets and    *)
(* the panel gave it, with the values they gave, and the ghosts of the     *)
(* columns that the device or an older writer filled with zeros; the sets  *)
(* of the daemon make no ghost, next to compound locks, orphaned           *)
(* companions and machine locks of older writers.                          *)
(***************************************************************************)
THEOREM InspectionShowsLocks == Spec => []LocksReadBack
<1>1. IInv => LocksReadBack
  <2> SUFFICES ASSUME IInv, NEW k \in Tracks \X Steps
               PROVE  LocksFor(device.pool, k[1], k[2]) =
                        {l \in given : <<l.track, l.step>> = k}
    BY DEF LocksReadBack
  <2>1. k = <<k[1], k[2]>>
    OBVIOUS
  <2>2. QED  BY <2>1 DEF LocksFor, IInv
<1>2. QED  BY <1>1, Invariance, PTL

(***************************************************************************)
(* OnlyTheNamedChange for any operation sets: a trig that no operation     *)
(* names and, without a purge, a lock that no operation names, are after   *)
(* the set as before, though locks of several steps share slots and a      *)
(* write clears companions.                                                *)
(***************************************************************************)
THEOREM OthersStay == Spec => []OnlyTheNamedChange
<1>1. ASSUME NEW p, PatInv(p), NEW ops \in Seq(Operations), NEW after,
             after = Outcome(p, ops).pattern
      PROVE  /\ \A k \in Tracks \X Steps : after.trigs[k] # p.trigs[k] => NamesTrig(ops, k)
             /\ ~Purges(ops) => \A l : ~NamesLock(ops, l) =>
                                         (l \in Decode(after.pool) <=> l \in Decode(p.pool))
  <2> DEFINE o == Outcome(p, ops)
             e == EditAll(p, ops)
  <2>1. OutcomeAs(p, o, e)
    BY <1>1, OutcomeIs
  <2>2. CASE o.sent
    <3>1. e.ok /\ after = e.pattern
      BY <1>1, <2>1, <2>2 DEF OutcomeAs
    <3>2. Decode(e.pattern.pool) = AskAll(Decode(p.pool), ops)
      BY <1>1, <3>1, PoolAsAsked
    <3>3. \A k \in Tracks \X Steps : after.trigs[k] # p.trigs[k] => NamesTrig(ops, k)
      BY <1>1, <3>1, OtherTrigsStay
    <3>4. ASSUME ~Purges(ops), NEW l, ~NamesLock(ops, l)
          PROVE  l \in Decode(after.pool) <=> l \in Decode(p.pool)
      BY <1>1, <3>1, <3>2, <3>4, OtherLocksStay
    <3>5. QED  BY <3>3, <3>4
  <2>3. CASE ~o.sent
    <3>1. after = p
      BY <1>1, <2>1, <2>3 DEF OutcomeAs
    <3>2. QED  BY <3>1
  <2>4. QED  BY <2>1, <2>2, <2>3 DEF OutcomeAs
<1>2. IInv => OnlyTheNamedChange
  <2> SUFFICES ASSUME IInv  PROVE OnlyTheNamedChange
    OBVIOUS
  <2>1. ASSUME NEW ops \in Sets
        PROVE  LET after == Outcome(device, ops).pattern
                   Others(pool) == {l \in Decode(pool) : ~NamesLock(ops, l)}
               IN /\ \A k \in Tracks \X Steps :
                       after.trigs[k] # device.trigs[k] => NamesTrig(ops, k)
                  /\ ~Purges(ops) => Others(after.pool) = Others(device.pool)
    <3> DEFINE after == Outcome(device, ops).pattern
    <3>1. ops \in Seq(Operations) /\ PatInv(device)
      BY PatternAssumption DEF IInv
    <3> HIDE DEF after
    <3>2. /\ \A k \in Tracks \X Steps : after.trigs[k] # device.trigs[k] => NamesTrig(ops, k)
          /\ ~Purges(ops) => \A l : ~NamesLock(ops, l) =>
                               (l \in Decode(after.pool) <=> l \in Decode(device.pool))
      BY <1>1, <3>1 DEF after
    <3>3. ~Purges(ops) => {l \in Decode(after.pool) : ~NamesLock(ops, l)}
                            = {l \in Decode(device.pool) : ~NamesLock(ops, l)}
      BY <3>2
    <3>4. QED  BY <3>2, <3>3 DEF after
  <2>2. QED  BY <2>1 DEF OnlyTheNamedChange, NamesTrig, NamesLock, Purges
<1>3. QED  BY <1>2, Invariance, PTL

-----------------------------------------------------------------------------
(* A set that is sent again. *)

(***************************************************************************)
(* Every part of b is as in a or as in c.                                  *)
(***************************************************************************)
Mixed(a, b, c) ==
  /\ \A k \in Tracks \X Steps :
       /\ b.trigs[k].on \in {a.trigs[k].on, c.trigs[k].on}
       /\ b.trigs[k].velocity \in {a.trigs[k].velocity, c.trigs[k].velocity}
       /\ b.trigs[k].condition \in {a.trigs[k].condition, c.trigs[k].condition}
  /\ \A l : \/ l \in Decode(b.pool) <=> l \in Decode(a.pool)
            \/ l \in Decode(b.pool) <=> l \in Decode(c.pool)
  /\ \A t \in Tracks : b.lengths[t] \in {a.lengths[t], c.lengths[t]}
  /\ b.kit \in {a.kit, c.kit}

(***************************************************************************)
(* The same of one trig.                                                   *)
(***************************************************************************)
TrigMixed(a, b, c) ==
  /\ b.on \in {a.on, c.on}
  /\ b.velocity \in {a.velocity, c.velocity}
  /\ b.condition \in {a.condition, c.condition}

LEMMA TrigMixes ==
  ASSUME NEW a \in Trigs, NEW b \in Trigs, NEW c \in Trigs, TrigMixed(a, b, c), NEW op
  PROVE  TrigMixed(TrigAfter(a, op), TrigAfter(b, op), c)
<1>1. CASE op.op = "set_trig"
  <2> DEFINE velocity(trig) == IF op.velocity = None THEN trig.velocity ELSE op.velocity
             condition(trig) == IF op.condition = None THEN trig.condition ELSE op.condition
  <2>1. /\ velocity(b) \in {velocity(a), c.velocity}
        /\ condition(b) \in {condition(a), c.condition}
    BY DEF TrigMixed
  <2>2. /\ TrigAfter(a, op) = [on |-> TRUE, velocity |-> velocity(a), condition |-> condition(a)]
        /\ TrigAfter(b, op) = [on |-> TRUE, velocity |-> velocity(b), condition |-> condition(b)]
    BY <1>1 DEF TrigAfter
  <2> HIDE DEF velocity, condition
  <2>3. QED  BY <2>1, <2>2 DEF TrigMixed
<1>2. CASE op.op # "set_trig"
  <2>1. /\ TrigAfter(a, op) = [on |-> FALSE, velocity |-> a.velocity, condition |-> FALSE]
        /\ TrigAfter(b, op) = [on |-> FALSE, velocity |-> b.velocity, condition |-> FALSE]
    BY <1>2 DEF TrigAfter, Trigs
  <2>2. QED  BY <2>1 DEF TrigMixed
<1>3. QED  BY <1>1, <1>2

LEMMA AskMixes ==
  ASSUME NEW A, NEW B, NEW C, NEW op, OpTyped(op), NEW l,
         (l \in B <=> l \in A) \/ (l \in B <=> l \in C)
  PROVE  \/ l \in Ask(B, op) <=> l \in Ask(A, op)
         \/ l \in Ask(B, op) <=> l \in C
<1>1. CASE op.op \in {"set_parameter_lock", "clear_parameter_lock"}
  <2>1. l \in Ask(A, op) <=>
           \/ l \in A /\ ~IsAt(l, op.at[1], op.at[2], op.parameter)
           \/ /\ op.op = "set_parameter_lock"
              /\ l = Lock(op.at[1], op.at[2], op.parameter, Value(op.parameter, op.value, 0))
    BY <1>1, AskIs
  <2>2. l \in Ask(B, op) <=>
           \/ l \in B /\ ~IsAt(l, op.at[1], op.at[2], op.parameter)
           \/ /\ op.op = "set_parameter_lock"
              /\ l = Lock(op.at[1], op.at[2], op.parameter, Value(op.parameter, op.value, 0))
    BY <1>1, AskIs
  <2>3. QED  BY <2>1, <2>2
<1>2. CASE op.op = "clear_pattern_plocks"
  BY <1>2 DEF Ask
<1>3. CASE op.op \notin {"set_parameter_lock", "clear_parameter_lock", "clear_pattern_plocks"}
  BY <1>3 DEF Ask
<1>4. QED  BY <1>1, <1>2, <1>3

(***************************************************************************)
(* An operation sets a part to what it says or leaves it, in both runs.    *)
(***************************************************************************)
LEMMA StepMixes ==
  ASSUME NEW op, OpTyped(op), NEW a, PatInv(a), NEW b, PatInv(b), NEW c, PatInv(c),
         NEW r, EditedAs(a, op, r), r.ok, NEW s, EditedAs(b, op, s), s.ok, Mixed(a, b, c)
  PROVE  Mixed(r.pattern, s.pattern, c)
<1> DEFINE x == r.pattern
           y == s.pattern
<1>1. /\ Decode(x.pool) = Ask(Decode(a.pool), op) /\ Decode(y.pool) = Ask(Decode(b.pool), op)
      /\ TrigsEdited(a, op, x) /\ TrigsEdited(b, op, y)
      /\ RestEdited(a, op, x) /\ RestEdited(b, op, y)
  BY DEF EditedAs
<1> HIDE DEF x, y
<1>2. ASSUME NEW k \in Tracks \X Steps  PROVE TrigMixed(x.trigs[k], y.trigs[k], c.trigs[k])
  <2>1. a.trigs[k] \in Trigs /\ b.trigs[k] \in Trigs /\ c.trigs[k] \in Trigs
    BY DEF PatInv
  <2>2. TrigMixed(a.trigs[k], b.trigs[k], c.trigs[k])
    BY DEF Mixed, TrigMixed
  <2>3. CASE op.op \in {"set_trig", "clear_trig"} /\ op.at = k
    <3>1. x.trigs[k] = TrigAfter(a.trigs[k], op) /\ y.trigs[k] = TrigAfter(b.trigs[k], op)
      BY <1>1, <2>3 DEF TrigsEdited
    <3>2. QED  BY <2>1, <2>2, <3>1, TrigMixes
  <2>4. CASE ~(op.op \in {"set_trig", "clear_trig"} /\ op.at = k)
    <3>1. x.trigs[k] = a.trigs[k] /\ y.trigs[k] = b.trigs[k]
      BY <1>1, <2>4 DEF TrigsEdited
    <3>2. QED  BY <2>2, <3>1
  <2>5. QED  BY <2>3, <2>4
<1>3. ASSUME NEW l
      PROVE  \/ l \in Decode(y.pool) <=> l \in Decode(x.pool)
             \/ l \in Decode(y.pool) <=> l \in Decode(c.pool)
  <2>1. \/ l \in Decode(b.pool) <=> l \in Decode(a.pool)
        \/ l \in Decode(b.pool) <=> l \in Decode(c.pool)
    BY DEF Mixed
  <2>2. \/ l \in Ask(Decode(b.pool), op) <=> l \in Ask(Decode(a.pool), op)
        \/ l \in Ask(Decode(b.pool), op) <=> l \in Decode(c.pool)
    BY <2>1, AskMixes
  <2>3. QED  BY <1>1, <2>2
<1>4. \A t \in Tracks : y.lengths[t] \in {x.lengths[t], c.lengths[t]}
  BY <1>1 DEF RestEdited, Mixed
<1>5. y.kit \in {x.kit, c.kit}
  BY <1>1 DEF RestEdited, Mixed
<1>6. Mixed(x, y, c)
  BY <1>2, <1>3, <1>4, <1>5 DEF Mixed, TrigMixed
<1>7. QED  BY <1>6 DEF x, y

(***************************************************************************)
(* A Pattern mixed from one Pattern has its summary.                       *)
(***************************************************************************)
LEMMA MixedIsSame ==
  ASSUME NEW a, PatInv(a), NEW b, PatInv(b), Mixed(a, b, a)
  PROVE  Summary(a) = Summary(b)
<1>1. /\ a.trigs \in [Tracks \X Steps -> Trigs] /\ b.trigs \in [Tracks \X Steps -> Trigs]
      /\ a.lengths \in [Tracks -> Nat] /\ b.lengths \in [Tracks -> Nat]
  BY DEF PatInv
<1>2. a.trigs = b.trigs
  <2>1. ASSUME NEW k \in Tracks \X Steps  PROVE a.trigs[k] = b.trigs[k]
    <3>1. a.trigs[k] \in Trigs /\ b.trigs[k] \in Trigs
      BY <1>1
    <3>2. /\ a.trigs[k].on = b.trigs[k].on /\ a.trigs[k].velocity = b.trigs[k].velocity
          /\ a.trigs[k].condition = b.trigs[k].condition
      BY DEF Mixed
    <3>3. QED  BY <3>1, <3>2 DEF Trigs
  <2>2. QED  BY <1>1, <2>1
<1>3. a.lengths = b.lengths /\ a.kit = b.kit
  BY <1>1 DEF Mixed
<1>4. \A l : l \in Decode(b.pool) <=> l \in Decode(a.pool)
  BY DEF Mixed
<1>5. Decode(a.pool) = Decode(b.pool)
  BY <1>4
<1>6. \A t, s : LocksFor(a.pool, t, s) = LocksFor(b.pool, t, s)
  BY <1>5 DEF LocksFor
<1>7. QED  BY <1>2, <1>3, <1>6 DEF Summary

(***************************************************************************)
(* A second run over the result of the first, when it succeeds, ends where *)
(* it began: at each operation every part is as in the first run or as in  *)
(* its result.                                                             *)
(***************************************************************************)
LEMMA SecondRunSame ==
  ASSUME NEW p, PatInv(p), NEW ops \in Seq(Operations), EditAll(p, ops).ok,
         NEW c, c = EditAll(p, ops).pattern, EditAll(c, ops).ok
  PROVE  Summary(c) = Summary(EditAll(c, ops).pattern)
<1> DEFINE N == Len(ops)
<1>1. N \in Nat /\ \A n \in 1 .. N : OpTyped(ops[n])
  BY OpIsTyped
<1> HIDE DEF N
<1>2. PICK f : EditsWell(f, p, ops) /\ EditAll(p, ops) = f[N]
  BY AllEdited DEF N
<1>3. PatInv(c) /\ N \in 0 .. N
  BY <1>1, <1>2 DEF EditsWell, N
<1>4. PICK h : EditsWell(h, c, ops) /\ EditAll(c, ops) = h[N]
  BY <1>3, AllEdited DEF N
<1>5. (\A n \in 0 .. N : f[n].ok) /\ (\A n \in 0 .. N : h[n].ok)
  <2>1. \A n \in 0 .. N : f[n].ok
    BY <1>2, AllOk DEF N
  <2>2. \A n \in 0 .. N : h[n].ok
    BY <1>4, AllOk DEF N
  <2>3. QED  BY <2>1, <2>2
<1>6. /\ h[0].pattern = c /\ f[N].pattern = c
      /\ \A n \in 0 .. N : PatInv(f[n].pattern) /\ PatInv(h[n].pattern)
      /\ \A n \in 1 .. N : /\ EditedAs(f[n - 1].pattern, ops[n], f[n])
                           /\ EditedAs(h[n - 1].pattern, ops[n], h[n])
  <2>1. \A n \in 0 .. N : PatInv(f[n].pattern) /\ PatInv(h[n].pattern)
    BY <1>2, <1>4 DEF EditsWell, N
  <2>2. ASSUME NEW n \in 1 .. N
        PROVE  EditedAs(f[n - 1].pattern, ops[n], f[n]) /\ EditedAs(h[n - 1].pattern, ops[n], h[n])
    <3>1. n \in 0 .. N /\ n \in 1 .. Len(ops)
      BY DEF N
    <3>2. QED  BY <1>2, <1>4, <1>5, <3>1 DEF EditsWell
  <2>3. QED  BY <1>2, <1>4, <2>1, <2>2 DEF EditsWell, Edited
<1> DEFINE Mixes(n) == Mixed(f[n].pattern, h[n].pattern, c)
           T == {n \in Nat : n <= N /\ ~Mixes(n)}
<1>7. Mixes(N)
  <2> SUFFICES ASSUME ~Mixes(N)  PROVE FALSE
    OBVIOUS
  <2> HIDE DEF Mixes
  <2>1. PICK n \in T : \A m \in T : n <= m
    <3>1. N \in T /\ T \in SUBSET Nat
      BY <1>1
    <3>2. QED  BY <3>1, HasFirst
  <2>2. n \in 0 .. N /\ ~Mixes(n)
    OBVIOUS
  <2>3. n # 0
    <3>1. Mixed(f[0].pattern, c, c)
      BY DEF Mixed
    <3>2. Mixes(0)
      BY <1>6, <3>1 DEF Mixes
    <3>3. QED  BY <2>2, <3>2
  <2>4. n \in 1 .. N /\ n - 1 \in 0 .. N /\ Mixes(n - 1)
    BY <1>1, <2>1, <2>2, <2>3
  <2>5. Mixed(f[n - 1].pattern, h[n - 1].pattern, c)
    BY <2>4 DEF Mixes
  <2>6. Mixed(f[n].pattern, h[n].pattern, c)
    <3> DEFINE op == ops[n]
               a == f[n - 1].pattern
               b == h[n - 1].pattern
               r == f[n]
               s == h[n]
    <3>1. OpTyped(op) /\ PatInv(a) /\ PatInv(b) /\ r.ok /\ s.ok
      BY <1>1, <1>5, <1>6, <2>2, <2>4
    <3>2. EditedAs(a, op, r) /\ EditedAs(b, op, s)
      BY <1>6, <2>4
    <3>3. Mixed(a, b, c)
      BY <2>5
    <3> HIDE DEF op, a, b, r, s
    <3>4. Mixed(r.pattern, s.pattern, c)
      BY <1>3, <3>1, <3>2, <3>3, StepMixes
    <3>5. QED  BY <3>4 DEF r, s
  <2>7. QED  BY <2>2, <2>6 DEF Mixes
<1>8. Mixed(c, h[N].pattern, c) /\ PatInv(h[N].pattern)
  BY <1>3, <1>6, <1>7
<1>9. QED  BY <1>3, <1>4, <1>8, MixedIsSame

(***************************************************************************)
(* Whether an operation succeeds, and the pool it leaves, depend on the    *)
(* pool alone.                                                             *)
(***************************************************************************)
Succeeds(pool, op) ==
  /\ IsWorkBuffer(op) /\ op.op # "copy_pattern"
  /\ op.op \in {"set_parameter_lock", "clear_parameter_lock"} => op.parameter \in Parameters
  /\ op.op = "set_parameter_lock" => op.value <= Top /\ HasRoom(pool, op.at[1], op.parameter)

PoolAfter(pool, op) ==
  CASE op.op = "set_parameter_lock" ->
         SetByte(pool, op.at[1], op.at[2], op.parameter, op.value)
    [] op.op = "clear_parameter_lock" -> ClearByte(pool, op.at[1], op.at[2], op.parameter)
    [] op.op = "clear_pattern_plocks" -> [i \in 1 .. PoolSize |-> FreeSlot]
    [] OTHER -> pool

PoolRun(pool, op, r) ==
  /\ r.ok \in BOOLEAN
  /\ r.ok <=> Succeeds(pool, op)
  /\ r.ok => r.pattern.pool = PoolAfter(pool, op)

LEMMA PoolRuns ==
  ASSUME NEW p, PatInv(p), NEW op, OpTyped(op), NEW r, r = Edit(p, op)
  PROVE  PoolRun(p.pool, op, r)
<1>1. /\ \A q : Edited(q).ok = TRUE /\ Edited(q).pattern = q
      /\ \A q : Failed(q).ok = FALSE
  BY DEF Edited, Failed
<1>2. p = [trigs |-> p.trigs, pool |-> p.pool, lengths |-> p.lengths, kit |-> p.kit]
  BY DEF PatInv
<1>3. CASE ~IsWorkBuffer(op) \/ op.op = "copy_pattern"
  <2>1. r = Failed(p)
    BY <1>3 DEF Edit
  <2>2. QED  BY <1>1, <1>3, <2>1 DEF PoolRun, Succeeds
<1>4. CASE IsWorkBuffer(op) /\ op.op = "set_parameter_lock"
  <2> DEFINE pool == SetByte(p.pool, op.at[1], op.at[2], op.parameter, op.value)
             q == [p EXCEPT !.pool = pool]
             room == op.parameter \in Parameters /\ op.value <= Top
                       /\ HasRoom(p.pool, op.at[1], op.parameter)
  <2>1. r = IF room THEN Edited(q) ELSE Failed(p)
    BY <1>4 DEF Edit, SetParameterLock
  <2>2. pool = PoolAfter(p.pool, op)
    BY <1>4 DEF PoolAfter
  <2>3. Succeeds(p.pool, op) <=> room
    BY <1>4 DEF Succeeds
  <2> HIDE DEF pool, room
  <2>4. q.pool = pool
    BY <1>2
  <2> HIDE DEF q
  <2>5. QED  BY <1>1, <2>1, <2>2, <2>3, <2>4 DEF PoolRun
<1>5. CASE IsWorkBuffer(op) /\ op.op = "clear_parameter_lock"
  <2> DEFINE pool == ClearByte(p.pool, op.at[1], op.at[2], op.parameter)
             q == [p EXCEPT !.pool = pool]
  <2>1. r = IF op.parameter \in Parameters THEN Edited(q) ELSE Failed(p)
    BY <1>5 DEF Edit, ClearParameterLock
  <2>2. pool = PoolAfter(p.pool, op)
    BY <1>5 DEF PoolAfter
  <2>3. Succeeds(p.pool, op) <=> op.parameter \in Parameters
    BY <1>5 DEF Succeeds
  <2> HIDE DEF pool
  <2>4. q.pool = pool
    BY <1>2
  <2> HIDE DEF q
  <2>5. QED  BY <1>1, <2>1, <2>2, <2>3, <2>4 DEF PoolRun
<1>6. CASE IsWorkBuffer(op) /\ op.op = "clear_pattern_plocks"
  <2> DEFINE pool == [i \in 1 .. PoolSize |-> FreeSlot]
             q == [p EXCEPT !.pool = pool]
  <2>1. r = Edited(q)
    BY <1>6 DEF Edit, ClearPatternPlocks
  <2>2. pool = PoolAfter(p.pool, op)
    BY <1>6 DEF PoolAfter
  <2>3. Succeeds(p.pool, op)
    BY <1>6 DEF Succeeds
  <2> HIDE DEF pool
  <2>4. q.pool = pool
    BY <1>2
  <2> HIDE DEF q
  <2>5. QED  BY <1>1, <2>1, <2>2, <2>3, <2>4 DEF PoolRun
<1>7. CASE IsWorkBuffer(op) /\ op.op \in {"set_trig", "clear_trig", "set_track_length",
                                          "set_pattern_kit"}
  <2>1. Succeeds(p.pool, op) /\ PoolAfter(p.pool, op) = p.pool
    BY <1>7 DEF Succeeds, PoolAfter
  <2>2. CASE op.op = "set_trig"
    <3>1. r = SetTrig(p, op)
      BY <1>7, <2>2 DEF Edit
    <3>2. r.ok = TRUE /\ r.pattern.pool = p.pool
      BY <1>2, <3>1 DEF SetTrig, Edited
    <3>3. QED  BY <2>1, <3>2 DEF PoolRun
  <2>3. CASE op.op = "clear_trig"
    <3>1. r = ClearTrig(p, op)
      BY <1>7, <2>3 DEF Edit
    <3> DEFINE trigs == [p.trigs EXCEPT ![op.at] = TrigAfter(p.trigs[op.at], op)]
    <3>2. r = Edited([p EXCEPT !.trigs = trigs])
      BY <2>3, <3>1 DEF ClearTrig, TrigAfter, PatInv, OpTyped
    <3> HIDE DEF trigs
    <3>4. r.ok = TRUE /\ r.pattern.pool = p.pool
      BY <1>2, <3>2 DEF Edited
    <3>5. QED  BY <2>1, <3>4 DEF PoolRun
  <2>4. CASE op.op = "set_track_length"
    <3>1. r = SetTrackLength(p, op)
      BY <1>7, <2>4 DEF Edit
    <3>2. r.ok = TRUE /\ r.pattern.pool = p.pool
      BY <1>2, <3>1 DEF SetTrackLength, Edited
    <3>3. QED  BY <2>1, <3>2 DEF PoolRun
  <2>5. CASE op.op = "set_pattern_kit"
    <3>1. r = SetPatternKit(p, op)
      BY <1>7, <2>5 DEF Edit
    <3>2. r.ok = TRUE /\ r.pattern.pool = p.pool
      BY <1>2, <3>1 DEF SetPatternKit, Edited
    <3>3. QED  BY <2>1, <3>2 DEF PoolRun
  <2>6. QED  BY <1>7, <2>2, <2>3, <2>4, <2>5
<1>8. QED  BY <1>3, <1>4, <1>5, <1>6, <1>7 DEF OpTyped, OpNames

(***************************************************************************)
(* A parameter keeps its slot until the pool is purged.                    *)
(***************************************************************************)
HasSlot(pool, t, type) == \E i \in 1 .. PoolSize : Owns(pool[i], t, type)

LEMMA SlotIsRoom ==
  ASSUME NEW pool, PoolInv(pool), NEW t, NEW type, HasSlot(pool, t, type)
  PROVE  HasRoom(pool, t, type)
<1>1. pool \in [1 .. PoolSize -> Slots]
  BY DEF PoolInv
<1>2. Len(pool) = PoolSize
  BY <1>1, PoolLen
<1>3. SlotsOf(pool, t, type) # {}
  BY <1>2 DEF HasSlot, SlotsOf, Owns
<1>4. QED  BY <1>3 DEF HasRoom

LEMMA RewriteKeepsSlots ==
  ASSUME NEW pool, NEW q, NEW s \in Steps, NEW t0, NEW type0, NEW byte,
         Rewrites(pool, q, t0, s, type0, byte), NEW t, NEW type \in Types, HasSlot(pool, t, type)
  PROVE  HasSlot(q, t, type)
<1>1. PICK i \in 1 .. PoolSize : Owns(pool[i], t, type)
  BY DEF HasSlot
<1>2. CellRewritten(pool, q, i, s, t0, s, type0, byte)
  BY DEF Rewrites
<1>3. pool[i].type \notin {"free", Companion}
  BY <1>1, TypeNames DEF Owns
<1>4. Owns(q[i], t, type)
  BY <1>1, <1>2, <1>3 DEF CellRewritten, SameCell, Written, Owns
<1>5. QED  BY <1>4 DEF HasSlot

LEMMA SlotsStay ==
  ASSUME NEW pool, PoolInv(pool), NEW op, OpTyped(op), op.op # "clear_pattern_plocks",
         Succeeds(pool, op), NEW t, NEW type \in Types, HasSlot(pool, t, type)
  PROVE  HasSlot(PoolAfter(pool, op), t, type)
<1> DEFINE q == PoolAfter(pool, op)
<1>1. CASE op.op = "set_parameter_lock"
  <2>1. q = SetByte(pool, op.at[1], op.at[2], op.parameter, op.value)
    BY <1>1 DEF PoolAfter
  <2>2. /\ op.at[1] \in Tracks /\ op.at[2] \in Steps /\ op.parameter \in Types
        /\ op.value \in Bytes /\ HasRoom(pool, op.at[1], op.parameter)
    BY <1>1, SizeIsNumber DEF Succeeds, OpTyped, Bytes, Unset
  <2> HIDE DEF q
  <2>3. Rewrites(pool, q, op.at[1], op.at[2], op.parameter, op.value)
    BY <2>1, <2>2, SetByteRewrites
  <2>4. QED  BY <2>2, <2>3, RewriteKeepsSlots DEF q
<1>2. CASE op.op = "clear_parameter_lock"
  <2>1. q = ClearByte(pool, op.at[1], op.at[2], op.parameter)
    BY <1>2 DEF PoolAfter
  <2>2. op.at[1] \in Tracks /\ op.at[2] \in Steps /\ op.parameter \in Types
    BY <1>2 DEF OpTyped
  <2> HIDE DEF q
  <2>3. CASE SlotsOf(pool, op.at[1], op.parameter) = {}
    BY <2>1, <2>3 DEF ClearByte, q
  <2>4. CASE SlotsOf(pool, op.at[1], op.parameter) # {}
    <3>1. /\ q = SetByte(pool, op.at[1], op.at[2], op.parameter, Unset)
          /\ HasRoom(pool, op.at[1], op.parameter)
      BY <2>1, <2>4 DEF ClearByte, HasRoom
    <3>2. Rewrites(pool, q, op.at[1], op.at[2], op.parameter, Unset)
      BY <2>2, <3>1, SetByteRewrites, BytesAre
    <3>3. QED  BY <2>2, <3>2, RewriteKeepsSlots DEF q
  <2>5. QED  BY <2>3, <2>4
<1>3. CASE op.op \notin {"set_parameter_lock", "clear_parameter_lock"}
  <2>1. q = pool
    BY <1>3 DEF PoolAfter
  <2>2. QED  BY <2>1
<1>4. QED  BY <1>1, <1>2, <1>3

(***************************************************************************)
(* A lock that was set has a slot.                                         *)
(***************************************************************************)
LEMMA LockHasSlot ==
  ASSUME NEW pool, PoolInv(pool), NEW op, OpTyped(op), op.op = "set_parameter_lock",
         Succeeds(pool, op)
  PROVE  HasSlot(PoolAfter(pool, op), op.at[1], op.parameter)
<1> DEFINE q == PoolAfter(pool, op)
<1>1. q = SetByte(pool, op.at[1], op.at[2], op.parameter, op.value)
  BY DEF PoolAfter
<1>2. /\ op.at[1] \in Tracks /\ op.at[2] \in Steps /\ op.parameter \in Types
      /\ op.value \in Bytes /\ HasRoom(pool, op.at[1], op.parameter)
  BY SizeIsNumber DEF Succeeds, OpTyped, Bytes, Unset
<1> HIDE DEF q
<1>3. Rewrites(pool, q, op.at[1], op.at[2], op.parameter, op.value)
  BY <1>1, <1>2, SetByteRewrites
<1>4. HasSlot(q, op.at[1], op.parameter)
  BY <1>3 DEF Rewrites, Written, HasSlot
<1>5. QED  BY <1>4 DEF q

(***************************************************************************)
(* What a list of operations says of the pools, one by one.                *)
(***************************************************************************)
PoolsRun(f, ops) ==
  \A n \in 1 .. Len(ops) : f[n - 1].ok => PoolRun(f[n - 1].pattern.pool, ops[n], f[n])

LEMMA PoolsAreRun ==
  ASSUME NEW p, PatInv(p), NEW ops \in Seq(Operations)
  PROVE  \E f : /\ EditsWell(f, p, ops) /\ PoolsRun(f, ops)
                /\ EditAll(p, ops) = f[Len(ops)]
<1>1. PICK f : EditsWell(f, p, ops) /\ EditRuns(f, p, ops, Len(ops))
                 /\ EditAll(p, ops) = f[Len(ops)]
  BY AllEdited
<1>2. ASSUME NEW n \in 1 .. Len(ops), f[n - 1].ok
      PROVE  PoolRun(f[n - 1].pattern.pool, ops[n], f[n])
  <2>1. OpTyped(ops[n]) /\ n - 1 \in 0 .. Len(ops)
    BY OpIsTyped
  <2>2. PatInv(f[n - 1].pattern)
    BY <1>1, <2>1 DEF EditsWell
  <2>3. f[n] = Edit(f[n - 1].pattern, ops[n])
    BY <1>1, <1>2 DEF EditRuns, EditNext
  <2>4. QED  BY <2>1, <2>2, <2>3, PoolRuns
<1>3. QED  BY <1>1, <1>2 DEF PoolsRun

(***************************************************************************)
(* What a lock of the first run took is there when the run ends, unless a  *)
(* purge follows it.                                                       *)
(***************************************************************************)
LEMMA LockLasts ==
  ASSUME NEW p, PatInv(p), NEW ops \in Seq(Operations), ~LocksAndPurges(ops),
         NEW f, EditsWell(f, p, ops), PoolsRun(f, ops), f[Len(ops)].ok,
         NEW i \in 1 .. Len(ops), ops[i].op = "set_parameter_lock"
  PROVE  HasSlot(f[Len(ops)].pattern.pool, ops[i].at[1], ops[i].parameter)
<1> DEFINE N == Len(ops)
           t == ops[i].at[1]
           type == ops[i].parameter
<1>1. /\ N \in Nat /\ i \in 1 .. N /\ \A n \in 1 .. N : OpTyped(ops[n])
      /\ \A n \in 1 .. N : i < n => ops[n].op # "clear_pattern_plocks"
  BY OpIsTyped DEF LocksAndPurges
<1> HIDE DEF N
<1>2. \A n \in 0 .. N : f[n].ok
  BY AllOk DEF N
<1>3. \A n \in 0 .. N : PoolInv(f[n].pattern.pool)
  BY DEF EditsWell, PatInv, N
<1>4. ASSUME NEW n \in 1 .. N
      PROVE  /\ Succeeds(f[n - 1].pattern.pool, ops[n])
             /\ f[n].pattern.pool = PoolAfter(f[n - 1].pattern.pool, ops[n])
  <2>1. PoolRun(f[n - 1].pattern.pool, ops[n], f[n]) /\ f[n].ok
    BY <1>1, <1>2 DEF PoolsRun, N
  <2>2. QED  BY <2>1 DEF PoolRun
<1>5. type \in Types
  BY <1>1 DEF OpTyped
<1>6. HasSlot(f[i].pattern.pool, t, type)
  <2>1. PoolInv(f[i - 1].pattern.pool)
    BY <1>1, <1>3
  <2>2. QED  BY <1>1, <1>4, <2>1, LockHasSlot
<1> HIDE DEF t, type
<1> DEFINE Held(n) == HasSlot(f[n].pattern.pool, t, type)
           T == {n \in Nat : i <= n /\ n <= N /\ ~Held(n)}
<1> SUFFICES ASSUME ~Held(N)  PROVE FALSE
  BY DEF N, t, type
<1> HIDE DEF Held
<1>7. PICK n \in T : \A m \in T : n <= m
  <2>1. N \in T /\ T \in SUBSET Nat
    BY <1>1
  <2>2. QED  BY <2>1, HasFirst
<1>8. n \in Nat /\ i <= n /\ n <= N /\ ~Held(n)
  OBVIOUS
<1>9. n # i
  BY <1>6, <1>8 DEF Held
<1>10. n \in 1 .. N /\ i < n /\ n - 1 \in 0 .. N /\ Held(n - 1)
  BY <1>1, <1>7, <1>8, <1>9
<1>11. HasSlot(PoolAfter(f[n - 1].pattern.pool, ops[n]), t, type)
  <2>1. PoolInv(f[n - 1].pattern.pool)
    BY <1>3, <1>10
  <2>2. HasSlot(f[n - 1].pattern.pool, t, type)
    BY <1>10 DEF Held
  <2>3. /\ OpTyped(ops[n]) /\ ops[n].op # "clear_pattern_plocks"
        /\ Succeeds(f[n - 1].pattern.pool, ops[n])
    BY <1>1, <1>4, <1>10
  <2>4. QED  BY <1>5, <2>1, <2>2, <2>3, SlotsStay
<1>12. QED  BY <1>4, <1>8, <1>10, <1>11 DEF Held

(***************************************************************************)
(* Every operation that succeeded the first time succeeds the second: the  *)
(* pools are equal since a purge, or the slots of the first run's result   *)
(* are there.                                                              *)
(***************************************************************************)
AsRoomy(first, second, last) ==
  second = first \/ \A t, type : type \in Types /\ HasSlot(last, t, type)
                                   => HasSlot(second, t, type)

LEMMA StaysRoomy ==
  ASSUME NEW op, OpTyped(op), NEW first, PoolInv(first), NEW second, PoolInv(second),
         NEW last, AsRoomy(first, second, last), Succeeds(first, op),
         op.op = "set_parameter_lock" => HasSlot(last, op.at[1], op.parameter)
  PROVE  /\ Succeeds(second, op)
         /\ AsRoomy(PoolAfter(first, op), PoolAfter(second, op), last)
<1>1. Succeeds(second, op)
  <2>1. CASE second = first
    BY <2>1
  <2>2. CASE second # first
    <3>1. op.op = "set_parameter_lock" => HasSlot(second, op.at[1], op.parameter)
      BY <2>2 DEF AsRoomy, OpTyped
    <3>2. op.op = "set_parameter_lock" => HasRoom(second, op.at[1], op.parameter)
      BY <3>1, SlotIsRoom
    <3>3. QED  BY <3>2 DEF Succeeds
  <2>3. QED  BY <2>1, <2>2
<1>2. AsRoomy(PoolAfter(first, op), PoolAfter(second, op), last)
  <2>1. CASE second = first
    BY <2>1 DEF AsRoomy
  <2>2. CASE op.op = "clear_pattern_plocks"
    BY <2>2 DEF AsRoomy, PoolAfter
  <2>3. CASE second # first /\ op.op # "clear_pattern_plocks"
    <3>1. ASSUME NEW t, NEW type, type \in Types, HasSlot(last, t, type)
          PROVE  HasSlot(PoolAfter(second, op), t, type)
      <4>1. HasSlot(second, t, type)
        BY <2>3, <3>1 DEF AsRoomy
      <4>2. QED  BY <1>1, <2>3, <3>1, <4>1, SlotsStay
    <3>2. QED  BY <3>1 DEF AsRoomy
  <2>4. QED  BY <2>1, <2>2, <2>3
<1>3. QED  BY <1>1, <1>2

(***************************************************************************)
(* So the second run succeeds whenever the first did.                      *)
(***************************************************************************)
LEMMA SecondRunSucceeds ==
  ASSUME NEW p, PatInv(p), NEW ops \in Seq(Operations), ~LocksAndPurges(ops),
         EditAll(p, ops).ok, NEW c, c = EditAll(p, ops).pattern
  PROVE  EditAll(c, ops).ok
<1> DEFINE N == Len(ops)
<1>1. N \in Nat /\ \A n \in 1 .. N : OpTyped(ops[n])
  BY OpIsTyped
<1> HIDE DEF N
<1>2. PICK f : EditsWell(f, p, ops) /\ PoolsRun(f, ops) /\ EditAll(p, ops) = f[N]
  BY PoolsAreRun DEF N
<1>3. PatInv(c) /\ N \in 0 .. N
  BY <1>1, <1>2 DEF EditsWell, N
<1>4. PICK h : EditsWell(h, c, ops) /\ PoolsRun(h, ops) /\ EditAll(c, ops) = h[N]
  BY <1>3, PoolsAreRun DEF N
<1>5. \A n \in 0 .. N : f[n].ok
  BY <1>2, AllOk DEF N
<1>6. \A n \in 0 .. N : PoolInv(f[n].pattern.pool) /\ PoolInv(h[n].pattern.pool)
  BY <1>2, <1>4 DEF EditsWell, PatInv, N
<1>7. f[N].pattern = c /\ h[0].pattern = c /\ h[0].ok
  BY <1>2, <1>4 DEF EditsWell, Edited
<1> DEFINE Roomy(n) == h[n].ok /\ AsRoomy(f[n].pattern.pool, h[n].pattern.pool, c.pool)
           T == {n \in Nat : n <= N /\ ~Roomy(n)}
<1>8. Roomy(N)
  <2> SUFFICES ASSUME ~Roomy(N)  PROVE FALSE
    OBVIOUS
  <2> HIDE DEF Roomy
  <2>1. PICK n \in T : \A m \in T : n <= m
    <3>1. N \in T /\ T \in SUBSET Nat
      BY <1>1
    <3>2. QED  BY <3>1, HasFirst
  <2>2. n \in 0 .. N /\ ~Roomy(n)
    OBVIOUS
  <2>3. n # 0
    BY <1>7, <2>2 DEF Roomy, AsRoomy
  <2>4. n \in 1 .. N /\ n - 1 \in 0 .. N /\ Roomy(n - 1)
    BY <1>1, <2>1, <2>2, <2>3
  <2> DEFINE op == ops[n]
             first == f[n - 1].pattern.pool
             second == h[n - 1].pattern.pool
  <2>5. /\ h[n - 1].ok /\ AsRoomy(first, second, c.pool)
        /\ PoolInv(first) /\ PoolInv(second) /\ OpTyped(op)
    BY <1>1, <1>6, <2>4 DEF Roomy
  <2>6. PoolRun(first, op, f[n]) /\ f[n].ok
    BY <1>2, <1>5, <2>2, <2>4 DEF PoolsRun, N
  <2>7. PoolRun(second, op, h[n])
    BY <1>4, <2>4, <2>5 DEF PoolsRun, N
  <2>8. op.op = "set_parameter_lock" => HasSlot(c.pool, op.at[1], op.parameter)
    BY <1>2, <1>7, <2>4, LockLasts DEF N
  <2>9. Succeeds(first, op) /\ f[n].pattern.pool = PoolAfter(first, op)
    BY <2>6 DEF PoolRun
  <2> HIDE DEF op, first, second
  <2>10. /\ Succeeds(second, op)
         /\ AsRoomy(PoolAfter(first, op), PoolAfter(second, op), c.pool)
    BY <2>5, <2>8, <2>9, StaysRoomy
  <2>11. h[n].ok /\ h[n].pattern.pool = PoolAfter(second, op)
    BY <2>7, <2>10 DEF PoolRun
  <2>12. QED  BY <2>2, <2>9, <2>10, <2>11 DEF Roomy
<1>9. QED  BY <1>4, <1>8

(***************************************************************************)
(* RepeatConverges for any Pattern and any operation set: a set that was   *)
(* accepted, sent again, sends nothing, and is accepted again unless it    *)
(* purges the pool after it has set a lock.                                *)
(***************************************************************************)
THEOREM SetsConverge == Spec => []RepeatConverges
<1>1. ASSUME NEW p, PatInv(p), NEW ops \in Seq(Operations), NEW first, first = Outcome(p, ops),
             NEW again, again = Outcome(first.pattern, ops), first.ok
      PROVE  ~again.sent /\ (again.ok \/ LocksAndPurges(ops))
  <2> DEFINE e == EditAll(p, ops)
             c == first.pattern
             e2 == EditAll(c, ops)
  <2>1. OutcomeAs(p, first, e)
    BY <1>1, OutcomeIs
  <2>2. PatInv(c)
    BY <2>1 DEF OutcomeAs
  <2>3. OutcomeAs(c, again, e2)
    BY <1>1, <2>2, OutcomeIs
  <2>4. again.sent = (e2.ok /\ Summary(c) # Summary(e2.pattern))
    BY <1>1 DEF Outcome, Changed
  <2>5. CASE ~first.sent
    <3>1. first.pattern = p
      BY <2>1, <2>5 DEF OutcomeAs
    <3>2. again = first
      BY <1>1, <3>1
    <3>3. QED  BY <1>1, <2>5, <3>2
  <2>6. CASE first.sent
    <3>1. e.ok /\ c = e.pattern
      BY <2>1, <2>6 DEF OutcomeAs
    <3>2. e2.ok => Summary(c) = Summary(e2.pattern)
      BY <1>1, <3>1, SecondRunSame
    <3>3. ~LocksAndPurges(ops) => e2.ok
      BY <1>1, <3>1, SecondRunSucceeds
    <3>4. again.ok = e2.ok
      BY <2>3 DEF OutcomeAs
    <3>5. QED  BY <2>4, <3>2, <3>3, <3>4
  <2>7. QED  BY <2>1, <2>5, <2>6 DEF OutcomeAs
<1>2. IInv => RepeatConverges
  <2> SUFFICES ASSUME IInv, NEW ops \in Sets, Outcome(device, ops).ok
               PROVE  /\ ~Outcome(Outcome(device, ops).pattern, ops).sent
                      /\ \/ Outcome(Outcome(device, ops).pattern, ops).ok
                         \/ LocksAndPurges(ops)
    BY DEF RepeatConverges
  <2>1. ops \in Seq(Operations) /\ PatInv(device)
    BY PatternAssumption DEF IInv
  <2>2. QED  BY <1>1, <2>1
<1>3. QED  BY <1>2, Invariance, PTL
=============================================================================
