----------------------------- MODULE MockBridge -----------------------------
(***************************************************************************)
(* MockBridgeState: the bridge without a device, against which clients are *)
(* developed.  It keeps Patterns, Kits and a Song in memory, queues        *)
(* operation sets for boundaries of a transport that only moves when it is *)
(* told to, takes snapshots and rolls back to them, and journals what it   *)
(* did.  Every request is handled whole before the next one.               *)
(*                                                                         *)
(* A Pattern is one trig with its velocity and one lock, and one parameter *)
(* of its Kit; the Song is the sequence of its rows.  The other targets of *)
(* the same operations behave alike.  Ids that clients choose are not ones *)
(* that the bridge generates.                                              *)
(***************************************************************************)
EXTENDS Naturals, Sequences, SequencesExt, FiniteSets

CONSTANTS
  Patterns,        \* Pattern slots
  FirstPattern,    \* the Pattern that is active at the start
  Kits,            \* Kit indices an operation may name
  Values,          \* values of parameters, velocities, locks and rows
  Default,         \* the velocity of a trig that none is given for
  None,            \* an optional field left out
  Length,          \* steps of a Pattern, 64
  StepsPerBeat,    \* steps of a beat, 4
  BeatsPerMeasure, \* beats of a measure, 4
  MaxRows,         \* rows of a Song, 64
  Sets,            \* operation sets clients may send: [ops, at]
  Ids,             \* operation set ids clients choose
  SnapshotIds,     \* snapshot ids clients choose
  Advances,        \* numbers of steps a client may ask for
  MaxSteps,        \* bound on steps of the transport
  MaxCommands      \* bound on commands to the transport, Pattern changes and rollbacks

ASSUME MockAssumption ==
  /\ FirstPattern \in Patterns
  /\ Default \in Values /\ None \notin Values
  /\ {Length, StepsPerBeat, BeatsPerMeasure} \subseteq Nat \ {0}
  /\ {MaxRows, MaxSteps, MaxCommands} \subseteq Nat
  /\ Advances \subseteq Nat

VARIABLES
  bridge, \* the fields of MockBridgeState
  failed, \* some set failed when it was applied (history)
  spent   \* steps and commands so far

vars == <<bridge, failed, spent>>

-----------------------------------------------------------------------------

NoTrig == [velocity |-> None, lock |-> None]
EmptyPattern == [trig |-> NoTrig, parameter |-> None]

EmptyContent ==
  [patterns |-> [p \in {FirstPattern} |-> EmptyPattern], kits |-> <<>>, rows |-> <<>>]

(***************************************************************************)
(* insert, of a map.                                                       *)
(***************************************************************************)
Put(map, key, value) ==
  [k \in DOMAIN map \cup {key} |-> IF k = key THEN value ELSE map[k]]

Edited(content) == [ok |-> TRUE, content |-> content]
Failed(content) == [ok |-> FALSE, content |-> content]

(***************************************************************************)
(* ensure_pattern: an operation on a Pattern nobody used creates it.       *)
(***************************************************************************)
Ensure(patterns, p) ==
  IF p \in DOMAIN patterns THEN patterns ELSE Put(patterns, p, EmptyPattern)

Slot(op, active) == IF op.pattern = None THEN active ELSE op.pattern

(***************************************************************************)
(* The operations on trigs and locks: a lock needs its trig and makes it,  *)
(* a cleared trig takes its lock with it.                                  *)
(***************************************************************************)
EditTrig(trig, op) ==
  CASE op.op = "set_trig" ->
         [trig EXCEPT !.velocity =
            IF op.velocity # None THEN op.velocity
            ELSE IF @ # None THEN @ ELSE Default]
    [] op.op = "clear_trig" -> NoTrig
    [] op.op = "set_parameter_lock" ->
         [velocity |-> IF trig.velocity = None THEN Default
                       ELSE trig.velocity,
          lock |-> op.value]
    [] op.op \in {"clear_parameter_lock", "clear_pattern_plocks"} ->
         [trig EXCEPT !.lock = None]

PatternOps ==
  {"set_trig", "clear_trig", "set_parameter_lock", "clear_parameter_lock",
   "clear_pattern_plocks"}

EditPattern(content, op, active) ==
  LET p == Slot(op, active)
  IN Edited([content EXCEPT
       !.patterns = [Ensure(@, p) EXCEPT ![p].trig = EditTrig(@, op)]])

CopyPattern(content, op) ==
  LET patterns == Ensure(content.patterns, op.source)
  IN Edited([content EXCEPT
       !.patterns = Put(patterns, op.target, patterns[op.source])])

(***************************************************************************)
(* kit_container: what is said of a Kit without its index is kept in the   *)
(* active Pattern.                                                         *)
(***************************************************************************)
EditKit(content, op, active) ==
  IF op.kit = None
    THEN Edited([content EXCEPT !.patterns =
           [Ensure(@, active) EXCEPT ![active].parameter = op.value]])
    ELSE Edited([content EXCEPT !.kits = Put(@, op.kit, op.value)])

(***************************************************************************)
(* The operations on the Song name rows, numbered from 0, that must exist  *)
(* when they are applied.                                                  *)
(***************************************************************************)
RowExists(rows, op) ==
  CASE op.op \in {"update_song_row", "remove_song_row"} -> op.row < Len(rows)
    [] op.op = "insert_song_row" -> op.row <= Len(rows)
    [] op.op = "move_song_row" -> {op.row, op.target} \subseteq 0 .. Len(rows) - 1
    [] op.op = "copy_song_row" -> op.row < Len(rows) /\ op.target <= Len(rows)
    [] op.op \in {"replace_song", "clear_song"} -> TRUE

Rows(rows, op) ==
  CASE op.op = "update_song_row" -> [rows EXCEPT ![op.row + 1] = op.value]
    [] op.op = "remove_song_row" -> RemoveAt(rows, op.row + 1)
    [] op.op = "insert_song_row" -> InsertAt(rows, op.row + 1, op.value)
    [] op.op = "move_song_row" ->
         InsertAt(RemoveAt(rows, op.row + 1), op.target + 1, rows[op.row + 1])
    [] op.op = "copy_song_row" -> InsertAt(rows, op.target + 1, rows[op.row + 1])
    [] op.op = "replace_song" -> op.rows
    [] op.op = "clear_song" -> <<>>

(***************************************************************************)
(* validate_mock_song looks at the Song when the row is in it already.     *)
(***************************************************************************)
EditSong(content, op) ==
  IF ~RowExists(content.rows, op) THEN Failed(content)
  ELSE LET rows == Rows(content.rows, op)
       IN [ok |-> Len(rows) <= MaxRows,
           content |-> [content EXCEPT !.rows = rows]]

ApplyOperation(content, op, active) ==
  CASE op.op \in PatternOps -> EditPattern(content, op, active)
    [] op.op = "copy_pattern" -> CopyPattern(content, op)
    [] op.op = "set_kit_parameter" -> EditKit(content, op, active)
    [] OTHER -> EditSong(content, op)

(***************************************************************************)
(* apply_operations edits in place and stops at the first operation that   *)
(* fails: those before it stay.                                            *)
(***************************************************************************)
ApplyOperations(content, ops, active) ==
  FoldLeft(LAMBDA r, op :
             IF r.ok THEN ApplyOperation(r.content, op, active) ELSE r,
           Edited(content), ops)

-----------------------------------------------------------------------------

(***************************************************************************)
(* The events that say how the content came to be.                         *)
(***************************************************************************)
Event(type, id) == [type |-> type, id |-> id]

WithEvent(b, type, id) == [b EXCEPT !.events = Append(@, Event(type, id))]

Revised(b, content) ==
  IF content # b.content THEN b.revision + 1 ELSE b.revision

Applied(b, i, content) ==
  [b EXCEPT !.content = content,
            !.revision = Revised(b, content),
            !.sets[i].status = "applied",
            !.sets[i].resulting = Revised(b, content)]

Settled(b, i, content) ==
  WithEvent(Applied(b, i, content), "applied", b.sets[i].id)

(***************************************************************************)
(* apply_record: the record of a set that fails stays queued.              *)
(***************************************************************************)
ApplyRecord(b, i) ==
  LET r == ApplyOperations(b.content, b.sets[i].ops, b.active)
  IN IF r.ok THEN [ok |-> TRUE, bridge |-> Settled(b, i, r.content)]
     ELSE [ok |-> FALSE, bridge |-> [b EXCEPT !.content = r.content]]

Reject(b, i) ==
  WithEvent([b EXCEPT !.sets[i].status = "rejected"], "rejected", b.sets[i].id)

(***************************************************************************)
(* A set is due at a step it names, or at a boundary the step is.          *)
(***************************************************************************)
IsDue(b, at, boundaries) ==
  IF at.kind = "pattern_step"
    THEN at.epoch = b.epoch /\ at.pattern = b.active /\ at.step = b.step
    ELSE at.kind \in boundaries

(***************************************************************************)
(* Bug: the revision of a set that is due is not looked at again.          *)
(***************************************************************************)
ExpectedWhenQueued(b, i) == b.sets[i].expected <= b.revision

Expected(b, i) == b.sets[i].expected = b.revision

(***************************************************************************)
(* What the loop does at a set: one that is due is applied or, when its    *)
(* revision has passed, rejected; one that fails ends the loop.            *)
(***************************************************************************)
Begun(b) == [ok |-> TRUE, bridge |-> b]

HandleDue(r, i, boundaries) ==
  IF ~r.ok \/ r.bridge.sets[i].status # "queued"
       \/ ~IsDue(r.bridge, r.bridge.sets[i].at, boundaries) THEN r
  ELSE IF Expected(r.bridge, i) THEN ApplyRecord(r.bridge, i)
  ELSE Begun(Reject(r.bridge, i))

(***************************************************************************)
(* Bug: the loop over the sets ends at one that is rejected.               *)
(***************************************************************************)
DueUntilRejected(b, boundaries) ==
  LET Rejected(r) == \E i \in DOMAIN b.sets :
                       r.bridge.sets[i].status # b.sets[i].status
                         /\ r.bridge.sets[i].status = "rejected"
  IN FoldLeft(LAMBDA r, i : IF Rejected(r) THEN r ELSE HandleDue(r, i, boundaries),
              Begun(b), [i \in 1 .. Len(b.sets) |-> i])

(***************************************************************************)
(* apply_due: the sets are looked at in the order they were queued.        *)
(***************************************************************************)
ApplyDue(b, boundaries) ==
  LET after[n \in 0 .. Len(b.sets)] ==
        IF n = 0 THEN Begun(b) ELSE HandleDue(after[n - 1], n, boundaries)
  IN after[Len(b.sets)]

StepsPerMeasure == StepsPerBeat * BeatsPerMeasure

Boundaries(step) ==
  {"next_step"}
    \cup (IF step % StepsPerBeat = 0 THEN {"next_beat"} ELSE {})
    \cup (IF step % StepsPerMeasure = 0 THEN {"next_measure"} ELSE {})
    \cup (IF step = 0 THEN {"next_pattern"} ELSE {})

NextStep(b) == (b.step + 1) % Length

(***************************************************************************)
(* One step of advance_transport.  The measure is computed from the number *)
(* of the step in the Pattern as if it were one in the measure.            *)
(***************************************************************************)
StepOnce(b) ==
  LET next == NextStep(b)
      absolute == b.measure * StepsPerMeasure + b.step + 1
  IN ApplyDue([b EXCEPT !.step = next,
                        !.beat = (next % StepsPerMeasure) \div StepsPerBeat,
                        !.measure = absolute \div StepsPerMeasure],
              Boundaries(next))

(***************************************************************************)
(* A step that fails is the last one.                                      *)
(***************************************************************************)
StepAfter(r) == IF r.ok THEN StepOnce(r.bridge) ELSE r

StepMany(b, n) ==
  LET after[k \in 0 .. n] == IF k = 0 THEN Begun(b) ELSE StepAfter(after[k - 1])
  IN after[n]

-----------------------------------------------------------------------------

Init ==
  /\ bridge = [content |-> EmptyContent, active |-> FirstPattern,
               step |-> 0, beat |-> 0, measure |-> 0, playing |-> TRUE,
               epoch |-> 0, counter |-> 1, revision |-> 0,
               sets |-> <<>>, snapshots |-> <<>>, events |-> <<>>]
  /\ failed = FALSE
  /\ spent = [steps |-> 0, commands |-> 0]

Spend(what, n, bound) ==
  /\ spent[what] + n <= bound
  /\ spent' = [spent EXCEPT ![what] = @ + n]

Known(b, id) == \E i \in DOMAIN b.sets : b.sets[i].id = id

Record(id, set, revision) ==
  [id |-> id, ops |-> set.ops, at |-> set.at, expected |-> revision,
   status |-> "queued", resulting |-> None]

(***************************************************************************)
(* queue: a set whose id is known is answered with its record, or refused  *)
(* when it is another set; a set at another than the current revision is   *)
(* refused.                                                                *)
(***************************************************************************)
Queue(id, set) ==
  /\ ~Known(bridge, id)
  /\ bridge' = [bridge EXCEPT
                  !.sets = Append(@, Record(id, set, bridge.revision))]
  /\ UNCHANGED <<failed, spent>>

(***************************************************************************)
(* apply_now: the set is recorded and applied; when it fails the client is *)
(* told so, and the record stays, queued for the boundary it names.        *)
(***************************************************************************)
ApplyNow(id, set) ==
  LET recorded == [bridge EXCEPT
                     !.sets = Append(@, Record(id, set, bridge.revision))]
      r == ApplyRecord(recorded, Len(recorded.sets))
  IN /\ ~Known(bridge, id)
     /\ bridge' = r.bridge
     /\ failed' = (failed \/ ~r.ok)
     /\ UNCHANGED spent

(***************************************************************************)
(* advance_transport: a set that fails ends it at its step.                *)
(***************************************************************************)
Advance(n) ==
  LET r == StepMany(bridge, n)
  IN /\ Spend("steps", n, MaxSteps)
     /\ bridge' = r.bridge
     /\ failed' = (failed \/ ~r.ok)

(***************************************************************************)
(* set_transport: a start names a new epoch, and leaves the position.      *)
(***************************************************************************)
SetTransport(command) ==
  /\ Spend("commands", 1, MaxCommands)
  /\ bridge' = IF command = "start"
                 THEN [bridge EXCEPT !.playing = TRUE, !.epoch = bridge.counter,
                                     !.counter = @ + 1]
                 ELSE [bridge EXCEPT !.playing = command # "stop"]
  /\ UNCHANGED failed

ChangePattern(p, immediate) ==
  /\ Spend("commands", 1, MaxCommands)
  /\ bridge' = WithEvent([bridge EXCEPT
                            !.content.patterns = Ensure(@, p),
                            !.active = p,
                            !.step = IF immediate THEN 0 ELSE @], "pattern", p)
  /\ UNCHANGED failed

(***************************************************************************)
(* create_snapshot: an id that is known is answered with its summary.      *)
(***************************************************************************)
CreateSnapshot(id) ==
  /\ \A i \in DOMAIN bridge.snapshots : bridge.snapshots[i].id # id
  /\ bridge' = WithEvent([bridge EXCEPT !.snapshots = Append(@,
                   [id |-> id, content |-> bridge.content,
                    active |-> bridge.active, step |-> bridge.step,
                    beat |-> bridge.beat, measure |-> bridge.measure,
                    playing |-> bridge.playing, epoch |-> bridge.epoch])],
                 "snapshot", id)
  /\ UNCHANGED <<failed, spent>>

(***************************************************************************)
(* Bug: the Kits that were named by their index are not restored.          *)
(***************************************************************************)
RestoredWithoutKits(b, s) ==
  [b EXCEPT !.content = [s.content EXCEPT !.kits = b.content.kits],
            !.active = s.active, !.step = s.step, !.beat = s.beat,
            !.measure = s.measure, !.playing = s.playing, !.epoch = s.epoch]

Restored(b, s) ==
  [b EXCEPT !.content = s.content, !.active = s.active, !.step = s.step,
            !.beat = s.beat, !.measure = s.measure, !.playing = s.playing,
            !.epoch = s.epoch]

(***************************************************************************)
(* rollback_snapshot: the content and the transport are restored, under a  *)
(* revision of its own.                                                    *)
(***************************************************************************)
RollbackSnapshot(i) ==
  LET s == bridge.snapshots[i]
      restored == Restored(bridge, s)
  IN /\ Spend("commands", 1, MaxCommands)
     /\ bridge' = WithEvent([restored EXCEPT !.revision = @ + 1],
                            "rollback", s.id)
     /\ UNCHANGED failed

Next ==
  \/ \E id \in Ids, set \in Sets : Queue(id, set)
  \/ \E id \in Ids, set \in Sets : ApplyNow(id, set)
  \/ \E n \in Advances : Advance(n)
  \/ \E command \in {"start", "stop", "continue"} : SetTransport(command)
  \/ \E p \in Patterns, immediate \in BOOLEAN : ChangePattern(p, immediate)
  \/ \E id \in SnapshotIds : CreateSnapshot(id)
  \/ \E i \in DOMAIN bridge.snapshots : RollbackSnapshot(i)

Spec == Init /\ [][Next]_vars

-----------------------------------------------------------------------------

(***************************************************************************)
(* Types, and: the position stays inside the Pattern, and what the         *)
(* transport names as its Pattern exists.                                  *)
(***************************************************************************)
TypeOK ==
  /\ bridge.step \in 0 .. Length - 1
  /\ bridge.beat \in 0 .. BeatsPerMeasure - 1
  /\ {bridge.measure, bridge.revision, bridge.epoch} \subseteq Nat
  /\ bridge.epoch < bridge.counter
  /\ bridge.active \in DOMAIN bridge.content.patterns
  /\ DOMAIN bridge.content.patterns \subseteq Patterns
  /\ DOMAIN bridge.content.kits \subseteq Kits
  /\ \A i \in DOMAIN bridge.sets :
       bridge.sets[i].status \in {"queued", "applied", "rejected"}
  /\ failed \in BOOLEAN

(***************************************************************************)
(* What the journal says, replayed: sets are applied to the Pattern that   *)
(* is active then, a rollback goes back to what the replay had when the    *)
(* snapshot was taken.                                                     *)
(***************************************************************************)
SetOf(sets, id) == sets[CHOOSE i \in DOMAIN sets : sets[i].id = id]

Replayed(r, event, sets) ==
  CASE event.type = "applied" ->
         LET content == ApplyOperations(r.content, SetOf(sets, event.id).ops,
                                        r.active).content
         IN [r EXCEPT !.content = content,
                      !.revision = IF content # r.content THEN @ + 1 ELSE @]
    [] event.type = "pattern" ->
         [r EXCEPT !.content.patterns = Ensure(@, event.id),
                   !.active = event.id]
    [] event.type = "snapshot" ->
         [r EXCEPT !.taken =
            Put(@, event.id, [content |-> r.content, active |-> r.active])]
    [] event.type = "rollback" ->
         [r EXCEPT !.content = r.taken[event.id].content,
                   !.active = r.taken[event.id].active,
                   !.revision = @ + 1]
    [] event.type = "rejected" -> r

Unwritten ==
  [content |-> EmptyContent, active |-> FirstPattern, revision |-> 0, taken |-> <<>>]

Replay(events, sets) ==
  LET after[n \in 0 .. Len(events)] ==
        IF n = 0 THEN Unwritten ELSE Replayed(after[n - 1], events[n], sets)
  IN after[Len(events)]

(***************************************************************************)
(* The journal explains what an inspection shows: replaying its events     *)
(* gives the content, the active Pattern and the revision, however sets,   *)
(* boundaries, Pattern changes and rollbacks follow each other, as long as *)
(* no set has failed: what one did before it failed stays, unannounced.    *)
(***************************************************************************)
JournalExplainsContent ==
  LET replay == Replay(bridge.events, bridge.sets)
  IN ~failed => /\ replay.content = bridge.content
                /\ replay.active = bridge.active
                /\ replay.revision = bridge.revision

(***************************************************************************)
(* Of the sets that were prepared against one revision at most one is      *)
(* applied with a change to the content, and it makes the next revision:   *)
(* not now, and not at a boundary later, whatever other sets, rollbacks    *)
(* and Pattern changes come between.  A set that failed is not among them: *)
(* what it did before it failed is under the revision it found, and        *)
(* another set of that revision is applied on top of it.                   *)
(***************************************************************************)
OneWinnerPerRevision ==
  LET applied == {i \in DOMAIN bridge.sets : bridge.sets[i].status = "applied"}
      Won(i) == bridge.sets[i].resulting # bridge.sets[i].expected
  IN /\ \A i \in applied :
          Won(i) => bridge.sets[i].resulting = bridge.sets[i].expected + 1
     /\ \A i, j \in applied :
          i # j /\ Won(i) /\ Won(j) =>
            bridge.sets[i].expected # bridge.sets[j].expected

(***************************************************************************)
(* A revision names one content: what a client read at a revision is what  *)
(* a set that expects it is applied to.  Only a change of the active       *)
(* Pattern creates an empty one without a new revision.                    *)
(***************************************************************************)
RevisionNamesContent ==
  [][bridge'.content # bridge.content =>
       bridge'.revision > bridge.revision \/ bridge'.active # bridge.active]_vars

(***************************************************************************)
(* The transport leaves no set waiting for the step it stands at: of the   *)
(* sets that were due every one is applied or rejected, whatever became of *)
(* those before it, unless one has failed.                                 *)
(***************************************************************************)
DueSetsSettle ==
  [][spent'.steps # spent.steps /\ ~failed' =>
       \A i \in DOMAIN bridge'.sets :
         bridge'.sets[i].status = "queued" =>
           ~IsDue(bridge', bridge'.sets[i].at, Boundaries(bridge'.step))]_vars
=============================================================================
