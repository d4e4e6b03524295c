---------------------------- MODULE PatternEdits ----------------------------
(***************************************************************************)
(* What an operation set does to the Pattern in the work buffer of the     *)
(* hardware: its trigs, its track lengths, its Kit number and its pool of  *)
(* parameter locks.  The operations are applied to a decoded copy, the     *)
(* summaries of the copy before and after decide whether the Pattern is    *)
(* sent, and an inspection shows the summary.  A lock lives in the pool,   *)
(* not on its trig: each claimed slot of the pool belongs to one track and *)
(* one parameter, with one byte per step; older writers left compound      *)
(* locks whose low bytes are in a companion slot.                          *)
(*                                                                         *)
(* One set is applied at a time and its readback succeeds; losing the      *)
(* device on the way is the business of HardwareControl.                   *)
(***************************************************************************)
EXTENDS Naturals, Sequences, FiniteSets

CONSTANTS
  Tracks,    \* tracks of the Pattern
  Steps,     \* trig columns, TRIG_COLUMNS
  PoolSize,  \* slots of the pool, 72
  Top,       \* the highest byte a parameter can hold, 127
  None,      \* an optional field left out
  Sets,      \* operation sets a client may send
  MaxSets,   \* bound on operation sets
  MaxPanel   \* bound on changes at the panel

(***************************************************************************)
(* plock_type: a basic parameter, lfo_depth (once compound), and a machine *)
(* parameter, which no table of the daemon names.                          *)
(***************************************************************************)
Types == {"cutoff", "depth", "synth"}
Parameters == {"cutoff", "depth"}

(***************************************************************************)
(* RytmOperation, those on a Pattern.                                      *)
(***************************************************************************)
Targets == {None, "work buffer", "other"}

Operations ==
  [op: {"clear_pattern_plocks", "copy_pattern"}, pattern: Targets]
    \cup [op: {"clear_trig"}, pattern: Targets, at: Tracks \X Steps]
    \cup [op: {"set_trig"}, pattern: Targets,
          at: Tracks \X Steps, velocity: {0, 1, None},
          condition: BOOLEAN \cup {None}]
    \cup [op: {"set_parameter_lock"}, pattern: Targets,
          at: Tracks \X Steps, parameter: Types, value: Nat]
    \cup [op: {"clear_parameter_lock"}, pattern: Targets,
          at: Tracks \X Steps, parameter: Types]
    \cup [op: {"set_track_length"}, pattern: Targets,
          at: Tracks \X Steps, value: Nat]
    \cup [op: {"set_pattern_kit"}, pattern: Targets,
          value: Nat \ {0}]

ASSUME PatternAssumption ==
  /\ {PoolSize, Top, MaxSets, MaxPanel} \subseteq Nat
  /\ Tracks \subseteq Nat
  /\ None \notin Nat \cup BOOLEAN
  /\ \A ops \in Sets : ops \in Seq(Operations)

VARIABLES
  device,   \* the Pattern in the device's work buffer
  given,    \* the locks that accepted sets, the panel and columns filled with
            \* zeros gave (history)
  spent     \* sets and panel changes so far

vars == <<device, given, spent>>

Unset == Top + 2                 \* 0xFF; Top + 1 stands for stale bytes
Bytes == 0 .. Unset
Companion == "companion"         \* plock_type = track_nr = 128; its track is None

NoBytes == [s \in Steps |-> Unset]

FreeSlot == [track |-> None, type |-> "free", bytes |-> NoBytes]

IsCompanion(slot) == slot.type = Companion

Trigs == [on: BOOLEAN, velocity: {0, 1}, condition: BOOLEAN]

Lock(t, s, type, value) ==
  [track |-> t, step |-> s, type |-> type, value |-> value]

-----------------------------------------------------------------------------

(***************************************************************************)
(* decode_value: stale bytes are dropped.                                  *)
(***************************************************************************)
InRange(msb) == msb <= Top

Value(type, msb, lsb) ==
  IF type = "depth" THEN msb * (Top + 1) + lsb ELSE msb

(***************************************************************************)
(* The low byte of a compound lock is in the slot behind it.               *)
(***************************************************************************)
LowByte(pool, i, s) ==
  IF i < Len(pool) /\ pool[i].type = "depth" /\ IsCompanion(pool[i + 1])
       /\ pool[i + 1].bytes[s] # Unset
    THEN pool[i + 1].bytes[s] ELSE 0

(***************************************************************************)
(* PatternPlocks: the locks of a pool.  Free slots, companions and         *)
(* parameters without a name report nothing.                               *)
(***************************************************************************)
Decode(pool) ==
  UNION {{Lock(pool[i].track, s, pool[i].type,
               Value(pool[i].type, pool[i].bytes[s], LowByte(pool, i, s))) :
            s \in {x \in Steps : InRange(pool[i].bytes[x])}} :
         i \in {j \in 1 .. Len(pool) : pool[j].type \in Parameters}}

LocksFor(pool, t, s) == {l \in Decode(pool) : l.track = t /\ l.step = s}

(***************************************************************************)
(* pattern_summary lists the trigs that are on, with their locks.          *)
(***************************************************************************)
Summary(pattern) ==
  [trigs |-> {[track |-> k[1], step |-> k[2],
               velocity |-> pattern.trigs[k].velocity,
               condition |-> pattern.trigs[k].condition,
               locks |-> LocksFor(pattern.pool, k[1], k[2])] :
                k \in {j \in DOMAIN pattern.trigs : pattern.trigs[j].on}},
   lengths |-> pattern.lengths,
   kit |-> pattern.kit]

-----------------------------------------------------------------------------

(***************************************************************************)
(* The pool as the codec keeps it: a lock goes into the slot of its track  *)
(* and parameter, or claims a free one, filled with the unset byte; it is  *)
(* written as one byte, and the column of a companion is left unset.       *)
(***************************************************************************)
SlotsOf(pool, t, type) ==
  {i \in 1 .. Len(pool) : pool[i].track = t /\ pool[i].type = type}

FreeSlots(pool) == {i \in 1 .. Len(pool) : pool[i].type = "free"}

Lowest(indices) == CHOOSE i \in indices : \A j \in indices : i <= j

Overwrite(pool, own, s, byte) ==
  [i \in 1 .. Len(pool) |->
     IF i \in own THEN [pool[i] EXCEPT !.bytes[s] = byte]
     ELSE IF i - 1 \in own /\ IsCompanion(pool[i])
            THEN [pool[i] EXCEPT !.bytes[s] = Unset]
            ELSE pool[i]]

(***************************************************************************)
(* Bug: the first writer's claim, which filled the other columns with      *)
(* zeros.                                                                  *)
(***************************************************************************)
ClaimZeroFilled(pool, t, s, type, byte) ==
  [pool EXCEPT ![Lowest(FreeSlots(pool))] =
     [track |-> t, type |-> type,
      bytes |-> [x \in Steps |-> IF x = s THEN byte ELSE 0]]]

Claim(pool, t, s, type, byte) ==
  [pool EXCEPT ![Lowest(FreeSlots(pool))] =
     [track |-> t, type |-> type, bytes |-> [NoBytes EXCEPT ![s] = byte]]]

SetByte(pool, t, s, type, byte) ==
  LET own == SlotsOf(pool, t, type)
  IN IF own # {} THEN Overwrite(pool, own, s, byte)
     ELSE Claim(pool, t, s, type, byte)

(***************************************************************************)
(* Bug: a lock is refused when no slot is free, one it has or not.         *)
(***************************************************************************)
HasFreeSlot(pool, t, type) == FreeSlots(pool) # {}

HasRoom(pool, t, type) == SlotsOf(pool, t, type) # {} \/ FreeSlots(pool) # {}

(***************************************************************************)
(* Bug: the slot is freed with the locks of the other steps in it.         *)
(***************************************************************************)
ClearSlot(pool, t, s, type) ==
  [i \in 1 .. Len(pool) |->
     IF i \in SlotsOf(pool, t, type) THEN FreeSlot ELSE pool[i]]

ClearByte(pool, t, s, type) ==
  LET own == SlotsOf(pool, t, type)
  IN IF own = {} THEN pool ELSE SetByte(pool, t, s, type, Unset)

-----------------------------------------------------------------------------

Edited(pattern) == [ok |-> TRUE, pattern |-> pattern]
Failed(pattern) == [ok |-> FALSE, pattern |-> pattern]

(***************************************************************************)
(* work_buffer_pattern_mut: an operation that names a Pattern names the    *)
(* one in the work buffer.                                                 *)
(***************************************************************************)
IsWorkBuffer(op) == op.pattern \in {None, "work buffer"}

(***************************************************************************)
(* set_trig turns the trig on and changes only what it names; clear_trig   *)
(* turns it off and leaves its velocity and its locks.                     *)
(***************************************************************************)
SetTrig(pattern, op) ==
  Edited([pattern EXCEPT !.trigs[op.at] =
    [on |-> TRUE,
     velocity |-> IF op.velocity = None THEN @.velocity ELSE op.velocity,
     condition |-> IF op.condition = None THEN @.condition ELSE op.condition]])

ClearTrig(pattern, op) ==
  Edited([pattern EXCEPT !.trigs[op.at].on = FALSE,
                         !.trigs[op.at].condition = FALSE])

(***************************************************************************)
(* set_parameter_lock and clear_parameter_lock know the parameters of the  *)
(* Sound pages and refuse every other; they do not touch the trig.         *)
(***************************************************************************)
SetParameterLock(pattern, op) ==
  IF op.parameter \in Parameters /\ op.value <= Top
       /\ HasRoom(pattern.pool, op.at[1], op.parameter)
    THEN Edited([pattern EXCEPT !.pool =
           SetByte(@, op.at[1], op.at[2], op.parameter, op.value)])
    ELSE Failed(pattern)

ClearParameterLock(pattern, op) ==
  IF op.parameter \in Parameters
    THEN Edited([pattern EXCEPT !.pool =
           ClearByte(@, op.at[1], op.at[2], op.parameter)])
    ELSE Failed(pattern)

(***************************************************************************)
(* clear_pattern_plocks frees every slot of the pool.                      *)
(***************************************************************************)
ClearPatternPlocks(pattern, op) ==
  Edited([pattern EXCEPT !.pool = [i \in 1 .. PoolSize |-> FreeSlot]])

SetTrackLength(pattern, op) ==
  Edited([pattern EXCEPT !.lengths[op.at[1]] = op.value])

SetPatternKit(pattern, op) == Edited([pattern EXCEPT !.kit = op.value - 1])

(***************************************************************************)
(* apply_persistent_operation, the operations on a Pattern.  copy_pattern  *)
(* is not available in the work buffer.                                    *)
(***************************************************************************)
Edit(pattern, op) ==
  IF ~IsWorkBuffer(op) THEN Failed(pattern)
  ELSE CASE op.op = "set_trig" -> SetTrig(pattern, op)
         [] op.op = "clear_trig" -> ClearTrig(pattern, op)
         [] op.op = "set_parameter_lock" -> SetParameterLock(pattern, op)
         [] op.op = "clear_parameter_lock" -> ClearParameterLock(pattern, op)
         [] op.op = "clear_pattern_plocks" -> ClearPatternPlocks(pattern, op)
         [] op.op = "set_track_length" -> SetTrackLength(pattern, op)
         [] op.op = "set_pattern_kit" -> SetPatternKit(pattern, op)
         [] op.op = "copy_pattern" -> Failed(pattern)

(***************************************************************************)
(* The operations of a set are applied in their order to the copy; the     *)
(* first that fails fails the set, before anything is sent.                *)
(***************************************************************************)
EditNext(r, op) == IF r.ok THEN Edit(r.pattern, op) ELSE r

EditAll(pattern, ops) ==
  LET after[n \in 0 .. Len(ops)] ==
        IF n = 0 THEN Edited(pattern) ELSE EditNext(after[n - 1], ops[n])
  IN after[Len(ops)]

(***************************************************************************)
(* ChangedObjects.pattern: the summary of the copy is not the one from     *)
(* before.                                                                 *)
(***************************************************************************)
Changed(before, after) == Summary(before) # Summary(after)

(***************************************************************************)
(* What a set leaves on the device: the copy when it was sent, and what    *)
(* was there when the set fails or is found converged already.             *)
(***************************************************************************)
Outcome(pattern, ops) ==
  LET edited == EditAll(pattern, ops)
      sent == edited.ok /\ Changed(pattern, edited.pattern)
  IN [ok |-> edited.ok, sent |-> sent,
      pattern |-> IF sent THEN edited.pattern ELSE pattern]

-----------------------------------------------------------------------------

(***************************************************************************)
(* What the operations of a set ask of the locks, whatever the pool does.  *)
(***************************************************************************)
Ask(locks, op) ==
  LET here == {l \in locks : <<l.track, l.step>> = op.at
                                /\ l.type = op.parameter}
  IN CASE op.op = "set_parameter_lock" ->
            (locks \ here) \cup
              {Lock(op.at[1], op.at[2], op.parameter, Value(op.parameter,
                 op.value, 0))}
       [] op.op = "clear_parameter_lock" -> locks \ here
       [] op.op = "clear_pattern_plocks" -> {}
       [] OTHER -> locks

AskAll(locks, ops) ==
  LET after[n \in 0 .. Len(ops)] ==
        IF n = 0 THEN locks ELSE Ask(after[n - 1], ops[n])
  IN after[Len(ops)]

(***************************************************************************)
(* What a set gives: all it asks for when it was sent, and otherwise what  *)
(* it asks for on trigs that are on.                                       *)
(***************************************************************************)
Promise(ops, pattern, sent) ==
  {l \in AskAll(given, ops) :
     sent \/ pattern.trigs[<<l.track, l.step>>].on \/ l \in given}
    \cup {l \in given : ~sent /\ ~pattern.trigs[<<l.track, l.step>>].on}

Spend(what, bound) ==
  /\ spent[what] < bound
  /\ spent' = [spent EXCEPT ![what] = @ + 1]

Init ==
  /\ device =
       [trigs |-> [k \in Tracks \X Steps |->
                    [on |-> FALSE, velocity |-> 0, condition |-> FALSE]],
        pool |-> [i \in 1 .. PoolSize |-> FreeSlot],
        lengths |-> [t \in Tracks |-> 0],
        kit |-> 0]
  /\ given = {}
  /\ spent = [sets |-> 0, panel |-> 0]

(***************************************************************************)
(* A set is refused, found converged, or sent and read back.               *)
(***************************************************************************)
Apply(ops) ==
  /\ Spend("sets", MaxSets)
  /\ LET outcome == Outcome(device, ops)
     IN /\ device' = outcome.pattern
        /\ given' = IF outcome.ok
                      THEN Promise(ops, outcome.pattern, outcome.sent)
                      ELSE given

(***************************************************************************)
(* A device that saves a Pattern, like the first writer of the pool, can   *)
(* fill unset columns of a claimed slot with zeros.  A zero in range is a  *)
(* lock to whoever reads the pool: the ghosts of such columns.             *)
(***************************************************************************)
Filled(slot, columns) ==
  [slot EXCEPT !.bytes = [s \in Steps |->
     IF s \in columns /\ slot.bytes[s] = Unset THEN 0 ELSE slot.bytes[s]]]

Ghosts(pool, i, columns) ==
  {Lock(pool[i].track, s, pool[i].type,
        Value(pool[i].type, 0, LowByte(pool, i, s))) :
     s \in {x \in columns : /\ pool[i].type \in Parameters
                           /\ pool[i].bytes[x] = Unset}}

(***************************************************************************)
(* At the panel a trig is turned on or off, or locked to a machine         *)
(* parameter; an older writer leaves a compound lock with its companion,   *)
(* or the emptied companion without its lock; and columns of a claimed     *)
(* slot are filled with zeros.  What a device held at the start is what    *)
(* these steps leave in the empty Pattern.                                 *)
(***************************************************************************)
Panel ==
  /\ Spend("panel", MaxPanel)
  /\ \/ \E k \in Tracks \X Steps :
          /\ device' = [device EXCEPT !.trigs[k].on = ~@]
          /\ UNCHANGED given
     \/ \E k \in Tracks \X Steps :
          /\ HasRoom(device.pool, k[1], "synth")
          /\ device' = [device EXCEPT
                           !.pool = SetByte(@, k[1], k[2], "synth", 0)]
          /\ UNCHANGED given
     \/ \E k \in Tracks \X Steps, i \in 1 .. PoolSize - 1, low \in {0, Top} :
          /\ {device.pool[i], device.pool[i + 1]} = {FreeSlot}
          /\ SlotsOf(device.pool, k[1], "depth") = {}
          /\ device' = [device EXCEPT
               !.pool[i] = [track |-> k[1], type |-> "depth",
                            bytes |-> [NoBytes EXCEPT ![k[2]] = Top]],
               !.pool[i + 1] = [track |-> None, type |-> Companion,
                                bytes |-> [NoBytes EXCEPT ![k[2]] = low]]]
          /\ given' = given \cup
               {Lock(k[1], k[2], "depth", Value("depth", Top, low))}
     \/ \E i \in 1 .. PoolSize :
          /\ device.pool[i] = FreeSlot
          /\ i > 1 => device.pool[i - 1].type # "depth"
          /\ device' = [device EXCEPT !.pool[i] =
               [track |-> None, type |-> Companion,
                bytes |-> NoBytes]]
          /\ UNCHANGED given
     \/ \E i \in 1 .. PoolSize, columns \in SUBSET Steps :
          /\ device.pool[i].type \in Types
          /\ device' = [device EXCEPT !.pool[i] = Filled(@, columns)]
          /\ given' = given \cup Ghosts(device.pool, i, columns)

Next == (\E ops \in Sets : Apply(ops)) \/ Panel

Spec == Init /\ [][Next]_vars

-----------------------------------------------------------------------------

Slots ==
  [track: Tracks \cup {None}, type: Types \cup {"free", Companion},
   bytes: [Steps -> Bytes]]

(***************************************************************************)
(* Types, and: free slots are clean, and no two slots of the pool belong   *)
(* to the same track and parameter.                                        *)
(***************************************************************************)
TypeOK ==
  /\ device.trigs \in [Tracks \X Steps -> Trigs]
  /\ device.pool \in [1 .. PoolSize -> Slots]
  /\ \A i \in FreeSlots(device.pool) : device.pool[i] = FreeSlot
  /\ \A t \in Tracks, type \in Types :
       Cardinality(SlotsOf(device.pool, t, type)) <= 1
  /\ device.lengths \in [Tracks -> Nat] /\ device.kit \in Nat

(***************************************************************************)
(* An inspection shows, on every trig that is on, exactly the locks that   *)
(* accepted sets and the panel gave it and the ghosts of columns that the  *)
(* device or an older writer filled with zeros, until a set clears them:   *)
(* however sets, clears and purges follow each other.  The sets of the     *)
(* daemon never make a ghost, and never lose or change one they do not     *)
(* name.                                                                   *)
(***************************************************************************)
LocksReadBack ==
  \A k \in Tracks \X Steps :
    device.trigs[k].on =>
      LocksFor(device.pool, k[1], k[2]) =
        {l \in given : <<l.track, l.step>> = k}

(***************************************************************************)
(* A set that is accepted, sent again, changes nothing, whatever the       *)
(* Pattern was: retries and repeated declarations converge.  A set that    *)
(* purges the pool after giving locks may be refused when it is sent       *)
(* again: the locks behind the purge can have filled the pool.             *)
(***************************************************************************)
LocksAndPurges(ops) ==
  \E i, j \in DOMAIN ops : /\ i < j /\ ops[i].op = "set_parameter_lock"
                           /\ ops[j].op = "clear_pattern_plocks"

RepeatConverges ==
  \A ops \in Sets :
    LET first == Outcome(device, ops)
        again == Outcome(first.pattern, ops)
    IN first.ok => ~again.sent /\ (again.ok \/ LocksAndPurges(ops))

(***************************************************************************)
(* A set, refused or accepted, changes no trig that none of its operations *)
(* names, and no lock of another step or parameter than they name: locks   *)
(* of several steps share the slots of the pool.                           *)
(***************************************************************************)
OnlyTheNamedChange ==
  \A ops \in Sets :
    LET after == Outcome(device, ops).pattern
        Purges == \E i \in DOMAIN ops : ops[i].op = "clear_pattern_plocks"
        NamesTrig(k) ==
          \E i \in DOMAIN ops :
            ops[i].op \in {"set_trig", "clear_trig"} /\ ops[i].at = k
        NamesLock(l) ==
          \E i \in DOMAIN ops :
            /\ ops[i].op \in {"set_parameter_lock", "clear_parameter_lock"}
            /\ ops[i].at = <<l.track, l.step>> /\ ops[i].parameter = l.type
        Others(pool) == {l \in Decode(pool) : ~NamesLock(l)}
    IN /\ \A k \in Tracks \X Steps :
            after.trigs[k] # device.trigs[k] => NamesTrig(k)
       /\ ~Purges => Others(after.pool) = Others(device.pool)

(***************************************************************************)
(* The device holds what an accepted set describes: what is skipped as     *)
(* converged already was identical.                                        *)
(***************************************************************************)
AcceptedIsOnDevice ==
  [][\A ops \in Sets :
       Apply(ops) /\ EditAll(device, ops).ok =>
         device' = EditAll(device, ops).pattern]_vars
=============================================================================
