-------------------------- MODULE HardwareControl --------------------------
(***************************************************************************)
(* HardwareBridgeState: the single thread of the daemon that serves client *)
(* requests, follows the MIDI clock, applies queued operation sets when    *)
(* they fall due, verifies every write by reading it back, restores the    *)
(* baseline when that fails, and keeps the durable state file.             *)
(*                                                                         *)
(* A handler that talks to the device once is one action.  The write       *)
(* protocol talks to it several times: it is a job of several steps, and   *)
(* between any two of them somebody may turn a knob on the panel, the MIDI *)
(* connection may break, or the daemon may die.  A refused request (an     *)
(* unknown epoch, a stale revision, the replay of a known id) changes      *)
(* nothing and is no action.                                               *)
(***************************************************************************)
EXTENDS DurableState, Functions

CONSTANTS
  Idle,            \* no job
  QueueKinds,      \* the boundaries clients queue for
  BlindClients,    \* do clients send apply_now while disconnected?
  SlowPersists,    \* can saving twice outlast RECONNECT_INTERVAL?
  FailingSaves,    \* can a save fail?
  Rollbacks,       \* do clients take snapshots and roll back to them?
  MaxStep,         \* bound on the steps a target may lie at
  MaxQueued,       \* bound on the operation sets queued at once
  MaxPanelEdits,   \* bound on edits made at the device itself
  MaxFaults,       \* bound on broken or timed-out device calls
  MaxRestarts,     \* bound on crashes and shutdowns
  MaxCommands      \* bound on transport, pattern and scene commands

ASSUME ControlAssumption ==
  /\ QueueKinds \subseteq BoundaryKinds
  /\ BlindClients \in BOOLEAN
  /\ SlowPersists \in BOOLEAN
  /\ FailingSaves \in BOOLEAN
  /\ Rollbacks \in BOOLEAN
  /\ {MaxStep, MaxQueued, MaxPanelEdits, MaxFaults, MaxRestarts, MaxCommands}
       \subseteq Nat

VARIABLES
  device,     \* contents of the device
  session,    \* is there an open MIDI session?
  mem,        \* the durable record in memory
  disk,       \* the durable record in the state file
  saved,      \* did the last save succeed? (history, but for its error)
  job,        \* the write in progress, or Idle
  client,     \* what clients sent and were told, by operation set id
  landed,     \* writes of each set that are on the device (history)
  foreign,    \* has the device changed behind the record? (history)
  epochs,     \* every epoch ever begun (history)
  spent       \* how much of each bound is used up

vars ==
  <<device, session, mem, disk, saved, job, client, landed, foreign, epochs, spent>>

history == <<client, landed, foreign, epochs>>

Budget == [panelEdits |-> MaxPanelEdits, faults |-> MaxFaults,
           restarts |-> MaxRestarts, commands |-> MaxCommands]

Spend(what) ==
  /\ spent[what] < Budget[what]
  /\ spent' = [spent EXCEPT ![what] = @ + 1]

Saved(s) == mem' = Pruned(s) /\ disk' = Pruned(s) /\ saved' = TRUE

(***************************************************************************)
(* persist() prunes what is in memory and then writes the file, which may  *)
(* fail: with the file as it was, or in the last step, the sync of the     *)
(* directory, with the file already replaced.  earlier is what the file    *)
(* may hold then; memory stays ahead of it.                                *)
(***************************************************************************)
PersistFrom(earlier, s) ==
  \/ Saved(s)
  \/ /\ FailingSaves
     /\ mem' = Pruned(s)
     /\ disk' \in earlier \cup {Pruned(s)}
     /\ saved' = FALSE

(***************************************************************************)
(* Bug: the state file is not written.                                     *)
(***************************************************************************)
PersistLater(s) == mem' = Pruned(s) /\ saved' = TRUE /\ UNCHANGED disk

Persist(s) == PersistFrom({disk}, s)

InMemory(s) == mem' = s /\ UNCHANGED <<disk, saved>>

(***************************************************************************)
(* What a client does with an operation set id: it binds it to one input   *)
(* for good and may repeat the request until it is told an outcome.  The   *)
(* answer it got was given after a save that succeeded, or after one that  *)
(* failed; the error of a failed save is no answer.                        *)
(***************************************************************************)
Answers == {"none", "saved", "unsaved"}

Unsent == [input |-> None, answer |-> "none"]

MaySend(id, input) ==
  /\ client[id].input \in {None, input}
  /\ client[id].answer = "none"
  /\ id \notin IdsOf(mem)

Sent(id, input, answer) ==
  client' = [client EXCEPT ![id] = [input |-> input, answer |-> answer]]

AnswerOf(success) == IF success THEN "saved" ELSE "none"

(***************************************************************************)
(* A job writes one operation set (id) or the snapshot to the device.  A   *)
(* due job works through the records at the indexes todo, in ascending     *)
(* order, and index is the current one.  base is the content read before   *)
(* the write, want the wanted one; lost says that a failed call broke the  *)
(* connection.                                                             *)
(***************************************************************************)
Job ==
  [kind: {"apply", "due", "rollback"},
   phase: {"next", "read", "write", "verify", "restore"},
   id: Ids \cup {None}, index: Nat, todo: SUBSET Nat,
   base: Device \cup {None}, want: Device \cup {None}, lost: BOOLEAN]

ASSUME IdleAssumption == Idle \notin Job

NewJob(kind, phase, id, index, todo) ==
  [kind |-> kind, phase |-> phase, id |-> id, index |-> index, todo |-> todo,
   base |-> None, want |-> None, lost |-> FALSE]

(***************************************************************************)
(* After a record a due job goes on with the next index, unless the record *)
(* could not be saved: the error of persist() ends the list, and the next  *)
(* poll makes a new one.                                                   *)
(***************************************************************************)
Rest(j) ==
  IF j.todo = {} THEN Idle ELSE NewJob("due", "next", None, 0, j.todo)

GoOn(j) == job' = IF saved' THEN Rest(j) ELSE Idle

-----------------------------------------------------------------------------

Init ==
  /\ device \in Device
  /\ session = FALSE
  /\ mem = EmptyState
  /\ disk = EmptyState
  /\ saved = TRUE
  /\ job = Idle
  /\ client = [id \in Ids |-> Unsent]
  /\ landed = [id \in Ids |-> 0]
  /\ foreign = FALSE
  /\ epochs = <<>>
  /\ spent = [what \in DOMAIN Budget |-> 0]

-----------------------------------------------------------------------------
(* The connection. *)

Begun(s) == epochs' = Append(epochs, s.transport.epoch)

Reconnect ==
  /\ job = Idle
  /\ ~session
  /\ LET s == Reconnected(mem, device)
     IN  Persist(s) /\ Begun(s)
  /\ session' = TRUE
  /\ foreign' = FALSE
  /\ UNCHANGED <<device, job, client, landed, spent>>

(***************************************************************************)
(* A device call outside a write fails: mark_disconnected().               *)
(***************************************************************************)
LoseSession ==
  /\ job = Idle
  /\ session
  /\ Spend("faults")
  /\ session' = FALSE
  /\ Persist(Silent(mem))
  /\ UNCHANGED <<device, job, history>>

(***************************************************************************)
(* The process ends and starts again from the state file: killed at any    *)
(* moment, or shut down between two requests (a shutdown that cannot save  *)
(* is no more than a crash).  A job whose index is out of bounds has no    *)
(* step of its own left: the panic ends the process.                       *)
(***************************************************************************)
Crash ==
  /\ Spend("restarts")
  /\ mem' = disk
  /\ saved' = TRUE
  /\ UNCHANGED disk

Shutdown ==
  /\ job = Idle
  /\ Spend("restarts")
  /\ Saved(Silent(mem))

Restart ==
  /\ Crash \/ Shutdown
  /\ session' = FALSE
  /\ job' = Idle
  /\ UNCHANGED <<device, history>>

-----------------------------------------------------------------------------
(* Somebody works at the device. *)

PanelEdit ==
  /\ Spend("panelEdits")
  /\ \E o \in Objects : \E v \in Values \ {device[o]} :
       /\ device' = [device EXCEPT ![o] = v]
       /\ foreign' = (foreign \/ o \in WorkBuffer)
  /\ UNCHANGED <<session, mem, disk, saved, job, client, landed, epochs>>

-----------------------------------------------------------------------------
(* Requests that only read the device. *)

(***************************************************************************)
(* inspect_state, inspect_kit, reconcile, ...                              *)
(***************************************************************************)
Inspect ==
  /\ job = Idle
  /\ session
  /\ Persist(Observed(mem, device))
  /\ foreign' = FALSE
  /\ UNCHANGED <<device, session, job, client, landed, epochs, spent>>

CreateSnapshot ==
  /\ Rollbacks
  /\ job = Idle
  /\ session
  /\ mem.snapshot = None
  /\ Persist([mem EXCEPT !.snapshot = [o \in SnapshotObjects |-> device[o]]])
  /\ UNCHANGED <<device, session, job, history, spent>>

(***************************************************************************)
(* What only adds an event saves the record as it is: a sample request     *)
(* while the transport stands, or the report of a lost connection, which   *)
(* every attempt to reconnect repeats until it is saved.  After a save     *)
(* that succeeded this would bring no more than the clock into the file.   *)
(***************************************************************************)
SaveAgain ==
  /\ job = Idle
  /\ ~saved
  /\ ~session \/ ~mem.transport.playing
  /\ Persist(mem)
  /\ UNCHANGED <<device, session, job, history, spent>>

-----------------------------------------------------------------------------
(* Transport, pattern and scene commands. *)

StartTransport ==
  /\ job = Idle
  /\ session
  /\ Spend("commands")
  /\ LET s == Started(mem)
     IN  /\ Begun(s)
         /\ \/ InMemory(s)    \* sent by a client
            \/ Persist(s)     \* observed on the MIDI input
  /\ UNCHANGED <<device, session, job, client, landed, foreign>>

StopOrContinue ==
  /\ job = Idle
  /\ session
  /\ Spend("commands")
  /\ \E playing \in BOOLEAN \ {mem.transport.playing} :
       LET s == [mem EXCEPT !.transport = Playing(@, playing)]
       IN  InMemory(s) \/ Persist(s)
  /\ UNCHANGED <<device, session, job, history>>

RequestPattern ==
  /\ job = Idle
  /\ session
  /\ Spend("commands")
  /\ \E pattern \in Patterns, immediate \in BOOLEAN :
       InMemory([mem EXCEPT !.transport = ChangePattern(@, pattern, immediate)])
  /\ UNCHANGED <<device, session, job, history>>

(***************************************************************************)
(* The active scene itself is masked from every comparison, but the whole  *)
(* readback becomes the last observation, without a revision.              *)
(***************************************************************************)
SetActiveScene ==
  /\ job = Idle
  /\ session
  /\ Spend("commands")
  /\ InMemory([mem EXCEPT !.lastObserved =
                 [content |-> Content(device), kits |-> FALSE]])
  /\ foreign' = FALSE
  /\ UNCHANGED <<device, session, job, client, landed, epochs>>

-----------------------------------------------------------------------------
(* Operation sets. *)

Queue ==
  /\ job = Idle
  /\ session
  /\ mem.transport.playing
  /\ Cardinality(Queued(mem)) < MaxQueued
  /\ \E id \in Ids, edit \in Edits, kind \in QueueKinds, policy \in Policies :
       LET at == [kind |-> kind, epoch |-> mem.transport.epoch,
                  pattern |-> mem.transport.pattern, step |-> 0]
           input == [expected |-> mem.revision, edit |-> edit,
                     at |-> at, policy |-> policy]
       IN  /\ MaySend(id, input)
           /\ ResolvedStep(mem.transport, at) <= MaxStep
           /\ Persist(WithRecord(mem, QueuedRecord(mem, id, input)))
           /\ Sent(id, input, AnswerOf(saved'))
  /\ UNCHANGED <<device, session, job, landed, foreign, epochs, spent>>

(***************************************************************************)
(* A request repeated under a known id is answered from memory, before     *)
(* everything else and without a save.  Only a client whose first answer   *)
(* was the error of a failed save still waits for this one.                *)
(***************************************************************************)
Replay ==
  /\ FailingSaves
  /\ job = Idle
  /\ \E id \in IdsOf(mem) :
       /\ client[id].answer = "none"
       /\ Sent(id, client[id].input, IF saved THEN "saved" ELSE "unsaved")
  /\ UNCHANGED <<device, session, mem, disk, saved, job, landed, foreign, epochs, spent>>

(***************************************************************************)
(* operations.apply_now checks the revision here, before the device is     *)
(* read.                                                                   *)
(***************************************************************************)
ApplyNow ==
  /\ job = Idle
  /\ session \/ BlindClients
  /\ \E id \in Ids, edit \in Edits :
       LET input == [expected |-> mem.revision, edit |-> edit,
                     at |-> [kind |-> "next_step", epoch |-> 0,
                             pattern |-> DefaultPattern, step |-> 0],
                     policy |-> "reject"]
       IN  /\ MaySend(id, input)
           /\ Sent(id, input, "none")
           /\ job' = NewJob("apply", "read", id, 0, {})
  /\ UNCHANGED <<device, session, mem, disk, saved, landed, foreign, epochs, spent>>

RollbackSnapshot ==
  /\ Rollbacks
  /\ job = Idle
  /\ session \/ BlindClients
  /\ mem.snapshot # None
  /\ job' = NewJob("rollback", "read", None, 0, {})
  /\ UNCHANGED <<device, session, mem, disk, saved, history, spent>>

(***************************************************************************)
(* One poll of the daemon: perhaps a MIDI clock, then the scan for records *)
(* that are due.                                                           *)
(***************************************************************************)
Poll ==
  /\ job = Idle
  /\ session
  /\ \E t \in {mem.transport, Tick(mem.transport)} :
       LET s == [mem EXCEPT !.transport = t]
           due == DueIndexes(s)
       IN  /\ t # mem.transport \/ due # {}
           /\ t.absoluteStep <= MaxStep
           /\ InMemory(s)
           /\ job' = IF due = {} THEN Idle
                     ELSE NewJob("due", "next", None, 0, due)
  /\ UNCHANGED <<device, session, history, spent>>

-----------------------------------------------------------------------------
(* The steps of a job. *)

(***************************************************************************)
(* Bugs: a record from an old revision counts as current; the index just   *)
(* visited stays in the list.                                              *)
(***************************************************************************)
IsFromTheFuture(record) == record.input.expected > mem.revision

StillAll(j) == j.todo

IsStale(record) == record.input.expected # mem.revision

First(indexes) == CHOOSE i \in indexes : \A k \in indexes : i <= k

Remaining(j) == j.todo \ {First(j.todo)}

(***************************************************************************)
(* A record of the due list: a stale one is rejected without any I/O.      *)
(***************************************************************************)
NextDue ==
  /\ job # Idle
  /\ job.phase = "next"
  /\ LET index == First(job.todo)
         rest == [job EXCEPT !.todo = Remaining(job)]
         record == mem.operationSets[index]
     IN  /\ index \in DOMAIN mem.operationSets
         /\ \/ /\ IsStale(record)
               /\ Persist(RejectedAt(mem, index, "not_applied"))
               /\ GoOn(rest)
            \/ /\ ~IsStale(record)
               /\ job' = NewJob("due", "read", record.id, index, rest.todo)
               /\ UNCHANGED <<mem, disk, saved>>
  /\ UNCHANGED <<device, session, history, spent>>

(***************************************************************************)
(* The verified end of a job on state s, which is already in the file when *)
(* the job has just opened its session.                                    *)
(***************************************************************************)
Settle(s, j, observation) ==
  LET changed == ChangedObjects(j.want, j.base) # {}
      acked == Acknowledged(s, observation, changed)
      input == client[j.id].input
  IN  /\ j.kind = "due" => j.index \in DOMAIN s.operationSets
      /\ PersistFrom({IF session THEN disk ELSE s},
           CASE j.kind = "apply" ->
                  WithRecord(acked, ImmediateRecord(acked, j.id, input, changed))
             [] j.kind = "due" -> AppliedAt(acked, j.index, changed)
             [] j.kind = "rollback" -> acked)
      /\ IF j.kind = "apply" THEN Sent(j.id, input, AnswerOf(saved')) ELSE UNCHANGED client
      /\ foreign' = FALSE
      /\ GoOn(j)

(***************************************************************************)
(* The end of a job that failed, with the connection lost or kept.  Only a *)
(* queued record is marked; a client learns of it from the response.  The  *)
(* loss is saved for itself, and nobody asks whether that succeeded.       *)
(***************************************************************************)
Fail(j, lost, ack) ==
  LET s == IF lost THEN Pruned(Silent(mem)) ELSE mem
  IN  /\ session' = (session /\ ~lost)
      /\ \/ /\ j.kind = "due"
            /\ j.index \in DOMAIN s.operationSets
            /\ PersistFrom(IF lost THEN {disk, s} ELSE {disk}, RejectedAt(s, j.index, ack))
         \/ /\ j.kind # "due"
            /\ IF lost THEN Persist(s) ELSE UNCHANGED <<mem, disk, saved>>
      /\ GoOn(j)

(***************************************************************************)
(* What the job wants to see on the device.                                *)
(***************************************************************************)
Wanted(j) ==
  CASE j.kind = "apply" -> Edited(device, client[j.id].input.edit)
    [] j.kind = "due" -> Edited(device, mem.operationSets[j.index].input.edit)
    [] j.kind = "rollback" ->
         [o \in Objects |->
            IF o \in SnapshotObjects THEN mem.snapshot[o] ELSE device[o]]

(***************************************************************************)
(* with_session() opens a missing session before the read.  Between two    *)
(* records of a due list RECONNECT_INTERVAL forbids it, unless saving the  *)
(* state took longer.  Nothing to write settles at once, and its summary   *)
(* is the canonical one of a write.                                        *)
(***************************************************************************)
Capture ==
  /\ job # Idle
  /\ job.phase = "read"
  /\ session \/ job.kind # "due" \/ SlowPersists
  /\ LET s == IF session THEN mem ELSE Pruned(Reconnected(mem, device))
         j == [job EXCEPT !.base = device, !.want = Wanted(job)]
     IN  /\ IF session THEN UNCHANGED epochs ELSE Begun(s)
         /\ \/ /\ j.want = j.base
               /\ Settle(s, j, [content |-> Content(device),
                                kits |-> j.kind # "rollback"])
            \/ /\ j.want # j.base
               /\ job' = [j EXCEPT !.phase = "write"]
               /\ IF session THEN UNCHANGED <<mem, disk, saved, foreign>>
                  ELSE Saved(s) /\ foreign' = FALSE
               /\ UNCHANGED client
  /\ session' = TRUE
  /\ UNCHANGED <<device, landed, spent>>

(***************************************************************************)
(* The new session is there but could not be saved: with_session() gives   *)
(* up, and a due record is rejected, which is saved in its turn.           *)
(***************************************************************************)
CaptureUnsaved ==
  /\ job # Idle
  /\ job.phase = "read"
  /\ ~session
  /\ job.kind # "due" \/ SlowPersists
  /\ FailingSaves
  /\ LET s == Pruned(Reconnected(mem, device))
     IN  /\ Begun(s)
         /\ \/ /\ job.kind = "due"
               /\ job.index \in DOMAIN s.operationSets
               /\ PersistFrom({disk, s}, RejectedAt(s, job.index, "not_applied"))
            \/ /\ job.kind # "due"
               /\ mem' = s
               /\ disk' \in {disk, s}
               /\ saved' = FALSE
         /\ GoOn(job)
  /\ session' = TRUE
  /\ foreign' = FALSE
  /\ UNCHANGED <<device, client, landed, spent>>

(***************************************************************************)
(* The read fails: a broken call, no session to be had, or, with the       *)
(* session intact, operations that do not fit what was read.               *)
(***************************************************************************)
CaptureFails ==
  /\ job # Idle
  /\ job.phase = "read"
  /\ IF session THEN Spend("faults") ELSE UNCHANGED spent
  /\ \E lost \in {FALSE, session} : Fail(job, lost, "not_applied")
  /\ UNCHANGED <<device, history>>

(***************************************************************************)
(* Objects are sent in a fixed order, stored kits last: what is sent when  *)
(* the sending of S breaks off.                                            *)
(***************************************************************************)
SentBefore(S) ==
  {P \in SUBSET S : P \cap StoredKits # {} => S \ StoredKits \subseteq P}

Write ==
  /\ job # Idle
  /\ job.phase = "write"
  /\ device' = Written(device, job.want, ChangedObjects(job.want, job.base))
  /\ landed' = IF job.id = None THEN landed ELSE [landed EXCEPT ![job.id] = @ + 1]
  /\ job' = [job EXCEPT !.phase = "verify"]
  /\ UNCHANGED <<session, mem, disk, saved, client, foreign, epochs, spent>>

(***************************************************************************)
(* A write that fails is followed by the restoration of the baseline; the  *)
(* restoration of a snapshot is not.                                       *)
(***************************************************************************)
Unverified(lost) ==
  IF job.kind = "rollback"
  THEN Fail(job, lost, "none")
  ELSE /\ job' = [job EXCEPT !.phase = "restore", !.lost = lost]
       /\ UNCHANGED <<session, mem, disk, saved>>

WriteFails ==
  /\ job # Idle
  /\ job.phase = "write"
  /\ Spend("faults")
  /\ \E P \in SentBefore(ChangedObjects(job.want, job.base)) :
       /\ P # ChangedObjects(job.want, job.base)
       /\ device' = Written(device, job.want, P)
       /\ foreign' = (foreign \/ (job.kind = "rollback" /\ P # {}))
  /\ Unverified(TRUE)
  /\ UNCHANGED <<client, landed, epochs>>

(***************************************************************************)
(* The readback: only the changed objects are compared.                    *)
(***************************************************************************)
Matches(d) ==
  \A o \in ChangedObjects(job.want, job.base) : device[o] = d[o]

WritesKits == ChangedObjects(job.want, job.base) \cap StoredKits # {}

Verify ==
  /\ job # Idle
  /\ job.phase = "verify"
  /\ \/ /\ Matches(job.want)
        /\ Settle(mem, job, [content |-> Content(device), kits |-> WritesKits])
        /\ UNCHANGED session
     \/ /\ ~Matches(job.want)
        /\ Unverified(FALSE)
        /\ foreign' = (foreign \/ job.kind = "rollback")
        /\ UNCHANGED client
  /\ UNCHANGED <<device, landed, epochs, spent>>

(***************************************************************************)
(* The readback breaks off, or cannot be decoded.                          *)
(***************************************************************************)
VerifyFails ==
  /\ job # Idle
  /\ job.phase = "verify"
  /\ Spend("faults")
  /\ \E lost \in BOOLEAN : Unverified(lost)
  /\ foreign' = (foreign \/ job.kind = "rollback")
  /\ UNCHANGED <<device, client, landed, epochs>>

(***************************************************************************)
(* One write less of this set is on the device, if there was one: the      *)
(* whole baseline was sent again, whether or not it could be read back.    *)
(***************************************************************************)
Undone(id) == [landed EXCEPT ![id] = IF @ > 0 THEN @ - 1 ELSE 0]

(***************************************************************************)
(* The baseline is sent and read back, without or with a broken call (the  *)
(* last one may be the readback of a complete restoration).  The summary   *)
(* kept with the baseline has no section for stored kits, so the           *)
(* comparison fails when one of them was written.                          *)
(***************************************************************************)
Restore ==
  /\ job # Idle
  /\ job.phase = "restore"
  /\ device' = Written(device, job.base, ChangedObjects(job.want, job.base))
  /\ landed' = Undone(job.id)
  /\ Fail(job, job.lost, IF WritesKits THEN "rollback_failed" ELSE "rollback_verified")
  /\ UNCHANGED <<client, foreign, epochs, spent>>

RestoreFails ==
  /\ job # Idle
  /\ job.phase = "restore"
  /\ Spend("faults")
  /\ \E P \in SentBefore(ChangedObjects(job.want, job.base)) :
       /\ device' = Written(device, job.base, P)
       /\ landed' = IF P = ChangedObjects(job.want, job.base)
                    THEN Undone(job.id) ELSE landed
  /\ foreign' = TRUE
  /\ Fail(job, TRUE, "rollback_failed")
  /\ UNCHANGED <<client, epochs>>

-----------------------------------------------------------------------------

Client ==
  \/ Inspect \/ CreateSnapshot \/ RollbackSnapshot \/ Queue \/ ApplyNow \/ Replay
  \/ StartTransport \/ StopOrContinue \/ RequestPattern \/ SetActiveScene

DaemonStep ==
  \/ NextDue \/ Capture \/ Write \/ Verify \/ Restore

Trouble ==
  \/ LoseSession \/ CaptureFails \/ CaptureUnsaved \/ WriteFails \/ VerifyFails
  \/ RestoreFails \/ Restart \/ PanelEdit \/ SaveAgain

Next == Client \/ Reconnect \/ Poll \/ DaemonStep \/ Trouble

Spec == Init /\ [][Next]_vars

-----------------------------------------------------------------------------
(* Type invariant. *)
TypeOK ==
  /\ device \in Device
  /\ session \in BOOLEAN
  /\ {mem, disk} \subseteq State
  /\ saved \in BOOLEAN
  /\ job \in Job \cup {Idle}
  /\ landed \in [Ids -> Nat]

(***************************************************************************)
(* A revision is spent once: of all operation sets prepared against one    *)
(* revision at most one has changed the device and been acknowledged,      *)
(* whether it was queued or applied at once.                               *)
(***************************************************************************)
OneWinnerPerRevision ==
  \A r1, r2 \in Records(mem) \cup Records(disk) :
    r1.changed /\ r2.changed /\ r1.input.expected = r2.input.expected =>
      r1.id = r2.id

(***************************************************************************)
(* Queued work is never stranded: while the daemon is connected and idle   *)
(* every queued record waits for a step still to come of the current       *)
(* epoch.  (A save that fails ends a due list, and what is left of it      *)
(* waits for the next poll.)                                               *)
(***************************************************************************)
QueuedWorkIsAhead ==
  session /\ job = Idle =>
    \A r \in Queued(mem) :
      /\ r.target.epoch = mem.transport.epoch
      /\ mem.transport.absoluteStep < r.target.absoluteStep

(***************************************************************************)
(* The last observation is the device: while connected and idle, unless    *)
(* somebody changed the device at the panel or a restoration failed since  *)
(* the daemon last looked.                                                 *)
(***************************************************************************)
LastObservedIsDevice ==
  session /\ job = Idle /\ ~foreign =>
    /\ mem.lastObserved # None
    /\ mem.lastObserved.content = Content(device)

(***************************************************************************)
(* What a crash may take back.  After a save that succeeded the revision,  *)
(* the outcomes that reached the device and every set a repeated request   *)
(* would be answered about are in the state file; and whatever fails later *)
(* the sets clients were answered about at such a time stay in it, unless  *)
(* retention drops them.                                                   *)
(***************************************************************************)
OutcomesAreDurable ==
  /\ saved =>
       /\ disk.revision = mem.revision
       /\ disk.lastObserved = None => mem.lastObserved = None
       /\ \A r \in Records(mem) : r.status = "applied" => r \in Records(disk)
       /\ IdsOf(mem) \subseteq IdsOf(disk)
  /\ \A id \in Ids : client[id].answer = "saved" =>
       id \in IdsOf(disk) \/ Len(disk.operationSets) >= RetainCap

(***************************************************************************)
(* What ARCHITECTURE.md says of queued work, and of every answer: it is    *)
(* persisted before it is acknowledged.                                    *)
(***************************************************************************)
PersistedBeforeAcknowledged ==
  \A id \in Ids : client[id].answer # "none" =>
    id \in IdsOf(disk) \/ Len(disk.operationSets) >= RetainCap

(***************************************************************************)
(* What ARCHITECTURE.md says of stale work: it is rejected before it is    *)
(* dispatched.  No write is started for an operation set prepared against  *)
(* a revision that is over.                                                *)
(***************************************************************************)
StaleWorkIsNotDispatched ==
  job # Idle /\ job.phase = "write" /\ job.id # None =>
    client[job.id].input.expected = mem.revision

(***************************************************************************)
(* The indexes a due job has yet to visit are those of queued records that *)
(* are due.  Nothing keeps it so when retention drops records or a session *)
(* is opened while the list is worked through.                             *)
(***************************************************************************)
DueListIsCurrent ==
  job # Idle => job.todo \subseteq DueIndexes(mem)

(***************************************************************************)
(* An operation set reaches the device once, however often the request is  *)
(* repeated and wherever the daemon dies: a write that is not restored is  *)
(* never written again.                                                    *)
(***************************************************************************)
WrittenOnce == \A id \in Ids : landed[id] <= 1

(***************************************************************************)
(* Every epoch ever begun has a name of its own, so a stale one cannot be  *)
(* taken for the current one.                                              *)
(***************************************************************************)
EpochsAreFresh == IsInjective(epochs)

(***************************************************************************)
(* The indexes of a due list keep their meaning while it is worked         *)
(* through: no session is opened in between, and there are no more sets    *)
(* than retention keeps.  Otherwise the list may settle, one at a time,    *)
(* records that are not due or are settled already; the properties below   *)
(* allow it that and nothing else.                                         *)
(***************************************************************************)
ListsStayCurrent ==
  ~SlowPersists /\ IsFiniteSet(Ids) /\ Cardinality(Ids) <= RetainCap

OneByStaleList(records) ==
  /\ ~ListsStayCurrent
  /\ job # Idle /\ job.kind = "due"
  /\ \E r \in records : records = {r}

(***************************************************************************)
(* The outcome of an operation set is final, in memory and in the file:    *)
(* records keep it until retention drops them.  Only a restart may take a  *)
(* rejection back that was not saved yet.                                  *)
(***************************************************************************)
Reopened(s, t) ==
  {r \in Records(s) : IsTerminal(r) /\ r \notin Records(t) /\ r.id \in IdsOf(t)}

FinalButForStaleLists(s, t) ==
  Reopened(s, t) # {} => OneByStaleList(Reopened(s, t))

OutcomesAreFinal ==
  [][/\ FinalButForStaleLists(disk, disk')
     /\ FinalButForStaleLists(mem, mem') \/ mem' = disk]_vars

(***************************************************************************)
(* A queued set is applied on exactly the step it was resolved to, of its  *)
(* own epoch, and against the revision it was prepared for.                *)
(***************************************************************************)
AppliedWhenDue ==
  [][\A r \in Queued(mem), q \in Records(mem') :
       r.id = q.id /\ q.status = "applied" =>
         /\ r.target.epoch = mem'.transport.epoch
         /\ r.target.absoluteStep = mem'.transport.absoluteStep
         /\ r.input.expected = mem.revision]_vars

(***************************************************************************)
(* Pending work stays pending: until its boundary is reached or its epoch  *)
(* ends, nothing settles, moves or drops a queued record, whatever         *)
(* retention drops around it.                                              *)
(***************************************************************************)
Disturbed ==
  {r \in Queued(mem) :
     /\ r.target.epoch = mem'.transport.epoch
     /\ ~IsDue(r.target, mem'.transport)
     /\ r \notin Records(mem')}

PendingWorkStays ==
  [][Disturbed # {} => OneByStaleList(Disturbed)]_vars

(***************************************************************************)
(* The work buffer is not seen to change without a new revision, so that   *)
(* work prepared against the old content is rejected as stale.             *)
(***************************************************************************)
ChangeRaisesRevision ==
  [][mem.lastObserved # None /\ mem'.lastObserved.content # mem.lastObserved.content
       => mem'.revision > mem.revision]_vars

(***************************************************************************)
(* A failed write is reported as not restored only if the baseline is not  *)
(* on the device, or the connection broke and nobody can tell.             *)
(***************************************************************************)
FailedRestoreIsReal ==
  [][\A r \in Queued(mem), q \in Records(mem') :
       r.id = q.id /\ q.ack = "rollback_failed" /\ session' =>
         \E o \in ChangedObjects(job.want, job.base) : device'[o] # job.base[o]]_vars

-----------------------------------------------------------------------------
(***************************************************************************)
(* Fairness.  The main loop polls after every request it serves, so a      *)
(* stream of requests cannot starve the poll (strong fairness); the poll   *)
(* reopens a missing session every second, and MIDI clocks keep coming     *)
(* while the transport plays.  A write in progress takes its next step, or *)
(* gives up when there is no session.                                      *)
(***************************************************************************)
FairSpec ==
  Spec /\ SF_vars(Poll) /\ SF_vars(Reconnect) /\ WF_vars(DaemonStep)
       /\ WF_vars(CaptureFails /\ ~session)

IsQueued(id) == \E r \in Queued(mem) : r.id = id

(***************************************************************************)
(* Once the connection stays up and the transport keeps playing, every     *)
(* queued operation set is settled: applied or rejected.                   *)
(***************************************************************************)
QueuedIsSettled ==
  <>[](session /\ mem.transport.playing) =>
    \A id \in Ids : IsQueued(id) ~> ~IsQueued(id)

(***************************************************************************)
(* What all this promises about the state file: it is an OperationLedger.  *)
(***************************************************************************)
RecordOf(s, id) == CHOOSE r \in Records(s) : r.id = id

StatusIn(s, id) == IF id \in IdsOf(s) THEN RecordOf(s, id).status ELSE "unknown"

ExpectedIn(s, id) ==
  IF StatusIn(s, id) = "queued" THEN RecordOf(s, id).input.expected ELSE 0

Ledger == INSTANCE OperationLedger WITH
  revision <- disk.revision,
  status   <- [id \in Ids |-> StatusIn(disk, id)],
  expected <- [id \in Ids |-> ExpectedIn(disk, id)]

IsLedger == Ledger!Spec

=============================================================================
