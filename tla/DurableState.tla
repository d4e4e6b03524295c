--------------------------- MODULE DurableState ---------------------------
(***************************************************************************)
(* The durable record of the daemon (DurableHardwareState) and the pure    *)
(* operators that compute its next value: retention, drift detection,      *)
(* epoch reconciliation, and the outcomes of operation sets.               *)
(*                                                                         *)
(* Contents are abstracted: an object of the device (the work-buffer       *)
(* pattern, a stored song, a stored kit, ...) holds one of a few Values,   *)
(* and an edit maps the old value of an object to the new one, so that     *)
(* both "set this parameter" and "insert a row" are edits.  Events,        *)
(* labels, timestamps and error texts are left out.                        *)
(***************************************************************************)
EXTENDS Transport, Sequences, FiniteSets

CONSTANTS
  Ids,            \* operation set ids clients use
  Values,         \* contents of a device object
  WorkBuffer,     \* work-buffer objects: what every inspection reads
  StoredSongs,    \* stored songs: read only for operations and snapshots
  StoredKits,     \* stored kits: read only for kit-indexed operations
  PatternObject,  \* the work-buffer pattern
  SlotOf,         \* pattern slot shown by a content of PatternObject
  LengthOf,       \* master length shown by a content of PatternObject
  Edits,          \* edits clients ask for: some objects to [Values -> Values]
  None,           \* nothing observed, no snapshot, no input
  RetainCap       \* MAX_RETAINED_OPERATION_SETS (500 in the code)

Objects == WorkBuffer \cup StoredSongs \cup StoredKits

(***************************************************************************)
(* Snapshots hold the work buffer and the stored songs, never stored kits. *)
(***************************************************************************)
SnapshotObjects == WorkBuffer \cup StoredSongs

ASSUME DeviceAssumption ==
  /\ PatternObject \in WorkBuffer
  /\ SlotOf \in [Values -> Patterns]
  /\ LengthOf \in [Values -> Lengths]
  /\ \A edit \in Edits :
       /\ DOMAIN edit \subseteq Objects
       /\ \A o \in DOMAIN edit : edit[o] \in [Values -> Values]
  /\ RetainCap \in Nat

-----------------------------------------------------------------------------
(* Contents of the device. *)

Device == [Objects -> Values]

Content(d) == [o \in WorkBuffer |-> d[o]]

Edited(d, edit) ==
  [o \in Objects |-> IF o \in DOMAIN edit THEN edit[o][d[o]] ELSE d[o]]

(***************************************************************************)
(* The objects S of the device become what they are in d.                  *)
(***************************************************************************)
Written(device, d, S) == [o \in Objects |-> IF o \in S THEN d[o] ELSE device[o]]

ChangedObjects(want, base) == {o \in Objects : want[o] # base[o]}

-----------------------------------------------------------------------------
(* The durable record. *)

Policies == {"reject", "roll_forward"}

Statuses == {"queued", "applied", "rejected"}

Acks == {"none", "verified", "not_applied", "rollback_verified", "rollback_failed"}

Input == [expected: Nat, edit: Edits, at: ApplyAt, policy: Policies]

(***************************************************************************)
(* changed: the verified write changed the device.                         *)
(***************************************************************************)
OperationSet ==
  [id: Ids, input: Input, status: Statuses, ack: Acks, changed: BOOLEAN,
   target: [epoch: Nat, kind: BoundaryKinds \cup {"immediate"},
            absoluteStep: Nat]]

(***************************************************************************)
(* last_observed_state: the work buffer, and whether the summary carries   *)
(* the "kits" section that only summaries made by a write have.            *)
(***************************************************************************)
Observation == [content: [WorkBuffer -> Values], kits: BOOLEAN]

State ==
  [revision: Nat, idCounter: Nat, transport: TransportState,
   operationSets: Seq(OperationSet),
   lastObserved: Observation \cup {None},
   snapshot: [SnapshotObjects -> Values] \cup {None}]

(***************************************************************************)
(* None is nothing else.                                                   *)
(***************************************************************************)
ASSUME NoneAssumption ==
  /\ None \notin Ids
  /\ None \notin Input
  /\ None \notin Observation
  /\ None \notin [SnapshotObjects -> Values]

EmptyState ==
  [revision |-> 0, idCounter |-> 1, transport |-> NewTransport,
   operationSets |-> <<>>, lastObserved |-> None, snapshot |-> None]

IsTerminal(r) == r.status # "queued"

IdsOf(s) == {s.operationSets[i].id : i \in DOMAIN s.operationSets}

Records(s) == {s.operationSets[i] : i \in DOMAIN s.operationSets}

Queued(s) == {r \in Records(s) : r.status = "queued"}

(***************************************************************************)
(* The elements of a sequence at the given indexes, in their order.        *)
(***************************************************************************)
AtRank(indexes, n) ==
  CHOOSE i \in indexes : Cardinality({j \in indexes : j <= i}) = n

Selected(seq, indexes) ==
  [n \in 1 .. Cardinality(indexes) |-> seq[AtRank(indexes, n)]]

(***************************************************************************)
(* Bug: retention drops the oldest records, queued ones too.               *)
(***************************************************************************)
PrunedByAge(s) ==
  LET length == Len(s.operationSets)
  IN  [s EXCEPT !.operationSets =
         SubSeq(@, IF length > RetainCap THEN length - RetainCap + 1 ELSE 1, length)]

(***************************************************************************)
(* What persist() keeps: every queued record and the newest RetainCap      *)
(* terminal ones.                                                          *)
(***************************************************************************)
Pruned(s) ==
  LET ops == s.operationSets
      newerTerminal(i) == {j \in DOMAIN ops : j > i /\ IsTerminal(ops[j])}
      kept == {i \in DOMAIN ops :
                 IsTerminal(ops[i]) => Cardinality(newerTerminal(i)) < RetainCap}
  IN  [s EXCEPT !.operationSets = Selected(ops, kept)]

-----------------------------------------------------------------------------
(* Observing the device. *)

(***************************************************************************)
(* Bug: a reopened store trusts the device to be what it last saw.         *)
(***************************************************************************)
SeesNoDrift(s, d) == s.lastObserved # None /\ FALSE

(***************************************************************************)
(* The comparison of reconciliation_view(): the whole summary, of which    *)
(* stored songs are masked and a "kits" section is not.                    *)
(***************************************************************************)
SeesDrift(s, d) ==
  /\ s.lastObserved # None
  /\ s.lastObserved.content # Content(d) \/ s.lastObserved.kits

Seen(s, d) ==
  [s EXCEPT !.revision = IF SeesDrift(s, d) THEN @ + 1 ELSE @,
            !.lastObserved = [content |-> Content(d), kits |-> FALSE]]

Slot(d) == SlotOf[d[PatternObject]]

(***************************************************************************)
(* Bug: the length is taken for a zero-based last step.                    *)
(***************************************************************************)
LastStep(d) == LengthOf[d[PatternObject]] - 1

MasterLength(d) == LengthOf[d[PatternObject]]

Observed(s, d) ==
  [Seen(s, d) EXCEPT !.transport = Refreshed(@, Slot(d), MasterLength(d))]

(***************************************************************************)
(* Queued records of an epoch that is over are rejected, or resolved again *)
(* in the new epoch and rejected when that is impossible.                  *)
(***************************************************************************)
Rejected(r, ack) == [r EXCEPT !.status = "rejected", !.ack = ack]

(***************************************************************************)
(* Bugs: records that are settled are reconciled as well; a rolled-forward *)
(* record keeps its old target.                                            *)
(***************************************************************************)
ReconciledAnyRecord(r, t) ==
  IF r.target.epoch = t.epoch THEN r ELSE Rejected(r, "not_applied")

ReconciledInName(r, t) ==
  IF IsTerminal(r) \/ r.target.epoch = t.epoch \/ r.input.policy = "roll_forward"
  THEN r ELSE Rejected(r, "not_applied")

ReconciledRecord(r, t) ==
  LET at == [r.input.at EXCEPT !.epoch = t.epoch]
  IN  IF IsTerminal(r) \/ r.target.epoch = t.epoch THEN r
      ELSE IF r.input.policy = "roll_forward" /\ Resolvable(t, at)
      THEN [r EXCEPT !.target = Resolve(t, at)]
      ELSE Rejected(r, "not_applied")

ReconcileQueuedEpochs(s) ==
  [s EXCEPT !.operationSets =
     [i \in DOMAIN @ |-> ReconciledRecord(@[i], s.transport)]]

(***************************************************************************)
(* A new epoch, named by the id counter.                                   *)
(***************************************************************************)
Reconnected(s, d) ==
  LET seen == Seen(s, d)
  IN  ReconcileQueuedEpochs(
        [seen EXCEPT !.idCounter = @ + 1,
                     !.transport = BeginEpoch(@, seen.idCounter, Slot(d),
                                              MasterLength(d))])

Started(s) ==
  ReconcileQueuedEpochs(
    [s EXCEPT !.idCounter = @ + 1, !.transport = Start(@, s.idCounter)])

Silent(s) == [s EXCEPT !.transport = Playing(@, FALSE)]

-----------------------------------------------------------------------------
(* Outcomes of operation sets. *)

QueuedRecord(s, id, input) ==
  [id |-> id, input |-> input, status |-> "queued", ack |-> "none",
   changed |-> FALSE, target |-> Resolve(s.transport, input.at)]

ImmediateRecord(s, id, input, changed) ==
  [id |-> id, input |-> input, status |-> "applied", ack |-> "verified",
   changed |-> changed,
   target |-> [epoch |-> s.transport.epoch, kind |-> "immediate",
               absoluteStep |-> s.transport.absoluteStep]]

WithRecord(s, r) == [s EXCEPT !.operationSets = Append(@, r)]

(***************************************************************************)
(* Bugs: the revision is not raised; the observation is not kept.          *)
(***************************************************************************)
AcknowledgedInPlace(s, observation, changed) ==
  [s EXCEPT !.lastObserved = observation]

AcknowledgedUnseen(s, observation, changed) ==
  [s EXCEPT !.revision = IF changed THEN @ + 1 ELSE @]

(***************************************************************************)
(* A verified write: one revision if anything changed, and the summary the *)
(* write returned becomes the last observation.                            *)
(***************************************************************************)
Acknowledged(s, observation, changed) ==
  [s EXCEPT !.revision = IF changed THEN @ + 1 ELSE @,
            !.lastObserved = observation]

Applied(r, changed) ==
  [r EXCEPT !.status = "applied", !.ack = "verified", !.changed = changed]

AppliedAt(s, index, changed) ==
  [s EXCEPT !.operationSets[index] = Applied(@, changed)]

RejectedAt(s, index, ack) ==
  [s EXCEPT !.operationSets[index] = Rejected(@, ack)]

(***************************************************************************)
(* The records apply_due_operations() collects, by index.                  *)
(***************************************************************************)
DueIndexes(s) ==
  {i \in DOMAIN s.operationSets :
     /\ s.operationSets[i].status = "queued"
     /\ IsDue(s.operationSets[i].target, s.transport)}

=============================================================================
