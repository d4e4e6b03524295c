# TLA+ verification of analog-rytm-agent-bridge

The bridge lets agents work on an Analog Rytm drum machine: a Rust daemon
(`src/daemon`) owns the one MIDI connection to the device, and a TypeScript
service (`src/src`) talks to the daemon over JSON-RPC and offers the same
operations over MCP. The heart of it is the daemon's hardware path: operation
sets that are queued for a musical boundary, written to the device at the right
step, read back, restored when the readback is wrong, and remembered across
disconnects and crashes. Around it are the RPC connection, the two audio
recorders, the sample service, the parameter locks of a Pattern, and a mock of the
whole bridge against which clients are developed. All of these are modelled.

Everything below runs in this directory: `tlc -config X.cfg M` for a run of
`PROJECT.json`, `tlapm M_proofs.tla` for the proofs about a module `M`. `PROJECT.json`
maps each definition to the lines it models.

## 1. Inventory

| component | state | operations | hard behaviour |
|---|---|---|---|
| transport clock (`hardware_scheduler.rs:74-248`) | epoch, playing, pattern and length, step, beat, measure, absolute step, MIDI clock | `begin_epoch`, `start`, `tick`, `resolve`, `is_due`; `change_pattern` and observations change it from outside | a boundary is turned into an absolute step once and compared with a clock that is stopped, restarted, rewound and re-measured meanwhile; unsigned arithmetic on the pattern length |
| durable state (`hardware_scheduler.rs:278-563`) | revision, id counter, transport, operation sets, last observation, snapshots, events | `load`, `persist`, `prune`, `next_id`, `append_event` | retention drops records other code holds indexes of; a save that fails with memory already ahead, or with the file already replaced; crash between change and save; ids handed out before they are saved |
| hardware control (`hardware_control.rs`) | the session, the durable state, pending note-offs, performance amounts, generated clock | `queue`, `apply_now`, `rollback_snapshot`, `create_snapshot`, `inspect_*`, `reconcile`, `set_transport`, `change_pattern`, `set_active_scene`, `poll` (reconnect, observed MIDI, generated clock, due operations), `shutdown` | one thread, but every device call may lose the connection or reconnect in the middle of a handler; the device has a panel; work prepared against an old revision |
| write protocol (`hardware.rs:86-833`) | captured objects, baseline, changed objects | capture, apply, send, read back and verify, restore and verify | partial sends, failed restorations, comparison of summaries made in different ways |
| SysEx session (`hardware.rs:126-231`) | two channels filled by a MIDI callback | `send`, `request`, `drain_midi_events` | answers carry no request id: a late one can be taken for the next |
| RPC server (`rpc.rs`) | replay cache of 1024 responses, event cursor | `handle_request`, `poll_messages`, `serve_stdio` | repeated request ids, eviction, events interleaved with responses, death between two messages |
| mock bridge (`state.rs`) | Patterns, Kits, Song, revision, operation sets, snapshots, transport, events | the same operations without a device | several sets due at one boundary, one rejected or failing; rollback between queued sets |
| sample service (`samples.rs`) | registry of managed samples and its file; the +Drive and the RAM slots are on the device | upload, resolve, clear, validate assignments, inspect | an external tool that fails, is killed or reports what it did not do; somebody at the device between two calls; a registry write that fails |
| audio recorder (`audio.rs`), Overbridge capture (`overbridge.rs`) | active recording, bounded queue between callback and writer, completed ids | start, stop, capture | overflow, writer that ends first, stop while starting, metadata failure |
| parameter locks (`plocks.rs`, `hardware.rs:925-2153`) | the pool of 72 slots in a Pattern | set, clear, purge, decode, compare summaries | slots shared by steps, companions of compound locks, a full pool, what the summary does not list |
| daemon client (`RustDaemonClient.ts`) | child process, pending requests, timers | start, request, timeout, close | late answer, exit with requests pending, restart during a restart |
| agent service and journal (`RytmAgentService.ts`, `EventJournal.ts`) | operation sets, snapshots, journal file and cursor | queue, apply, advance, roll back, append, page | awaits between reading and writing a map |
| MCP adapter, pattern generator, offline tools | none that survives a call | pure translations, generation, analysis | numeric only |

How they interact: an MCP call becomes a service call, the service sends one
JSON-RPC request to the daemon, `serve_stdio` handles one request at a time and
polls between requests. A request handler and the poll share the scheduler
state and the session; no two handlers run at once. What runs beside them is the
device with its panel and the MIDI callback threads, and, in the recorder, the
audio callback and the writer.

What makes each part correct, in a line: the *clock* fires a boundary at the
musical moment it names; the *durable state* never takes back what a client was
told after it was saved, and keeps pending work; the *control* writes only what was prepared for the
current revision, one winner per revision, and keeps its picture of the device
true; the *write protocol* leaves the device on the wanted state or on the
baseline and says which; *sessions and RPC* answer each request once with its own
answer; *recorder, samples, journal* lose nothing they have acknowledged.
`PROJECT.json` lists the hazards behind this line by line.

## 2. Plan

Order, most important first. Modules marked * exist.

1. `Transport`*, `TransportClock`*, `TransportClock_proofs`*: the clock.
2. `DurableState`*, `HardwareControl`* (composes the clock, the durable state and
   the write protocol), `OperationLedger`* (the abstract specification it
   implements), `MCHardwareControl`*, `HardwareControl_proofs`*.
3. `RpcServer`*, `RpcServer_proofs`*: daemon and client over the pipes of the child
   process.
4. `CaptureStream`* (callback, queue, writer), composed into `AudioRecorder`* and
   `OverbridgeCapture`*, each with its `_proofs`*; `OverbridgeSelection`*.
5. `SampleService`*, `SampleService_proofs`*, with the queued assignments of the hardware control.
6. `PatternEdits`*, `PatternEdits_proofs`*: operations on a Pattern, the lock pool,
   what is sent.
7. `MockBridge`*, `MockBridge_proofs`*.

Left, in this order:

8. `DurableStore`: the steps of `persist()` and the state lock; retention of the
   event stream and of snapshots.
9. `NoteOffs` (triggers), `ServiceJournal` (the TypeScript service).

## 3. What is modelled

### Transport and TransportClock

`Transport` holds one operator per method of `HardwareTransportState` and
`BoundaryTarget`: `BeginEpoch`, `Start`, `Tick`, `BoundariesAt` (what `tick`
returns), `Resolve`, `IsDue`, and the two changes made from outside,
`ChangePattern` and `Refreshed`. An epoch name `epoch-7` is its number 7. Tempo
and clock source are left out because no condition reads them. 6 clocks per
step, 4 steps per beat and 4 beats per measure are constants with assumptions.

`TransportClock` moves one transport with all of these against one waiting
boundary: boundaries do not influence each other or the clock. `missed`
and `steady` are history: has a boundary of that kind gone by unused, and did
anybody change pattern, length or position since the request.

### DurableState, HardwareControl, OperationLedger

`DurableState` is the record in the state file with the operators that compute
its next value; `HardwareControl` is the daemon around two copies of it, `mem`
and `disk`, the `device`, the `session`, and the `job` of the write protocol.

* **Device.** An object (the work-buffer pattern, a stored Song, a stored kit)
  holds one of a few values; an edit is a function on values, so that "set" and
  "insert a row" differ as they should. `WorkBuffer`, `StoredSongs` and
  `StoredKits` follow what the summaries contain: inspections see the work
  buffer, drift detection masks the stored Songs, only a write's summary has a
  `kits` section.
* **Handlers.** A handler that touches the device once is one action
  (`Inspect`, `CreateSnapshot`, `SetActiveScene`, `Queue`, `StartTransport`, ...).
  `apply_now`, due sets and rollbacks are jobs with the steps read, write,
  verify, restore. Between two steps the panel may be used, a call may fail, the
  daemon may die. While a job runs no other handler does: the daemon has one
  thread. `InMemory` and `Persist` say which handlers save.
* **Saving.** `persist()` prunes the memory and writes the file; it may fail, and its
  error goes to whoever asked (`hardware_scheduler.rs:434-477`). Memory then stays
  ahead: the revision is already raised (`hardware_control.rs:313`) and the record
  already in the list (`:335`). `PersistFrom` is a save with its failure: the file is as
  it was, or already replaced (the sync of the directory comes last), and `saved` is
  FALSE. A handler that saves twice (a call broke, or a session was opened, before the
  outcome is saved) may leave any of the states in the file. A failed save
  ends a due list (`GoOn`), gives up a new session (`CaptureUnsaved`), and leaves the client
  with an error for what was done. What only adds an event saves the record as it is
  (`SaveAgain`).
* **Due lists.** `Poll` collects indexes as `apply_due_operations` does, and
  `NextDue` looks each index up when its turn comes, lowest first (`job.todo` is the
  set of those left). An index out of bounds, then or when the record is settled,
  has no step except `Restart`: in the code it is a panic.
* **Clients.** A client binds an id to one input and may repeat a request until
  it has an answer (`client`). A known id is answered from memory without a save
  (`Replay`), so that after a failed save a client may have an answer of what is not in
  the file; `client` tells the two kinds of answers apart. Refused requests change
  nothing and are no actions.
* **History.** `saved` says whether the last save succeeded, `landed` counts the unrestored writes of a set, `foreign` says
  that the device changed behind the record, `epochs` lists the epochs begun.
* **Environment switches.** `BlindClients` (apply_now or rollback is sent while
  disconnected), `SlowPersists` (saving twice takes longer than the one second
  of `RECONNECT_INTERVAL`; a comment in `trigger_track` speaks of 0.5 to 0.9 s
  for one), `FailingSaves` and `Rollbacks`. `SlowPersists` is TRUE in
  `HardwareRetention`, `FailingSaves` in `HardwareLiveness`, and the first three in
  the configuration `HardwareSaves`; section 4 says what each allows.

`OperationLedger` is what all this promises about the file: a set is accepted
against the current revision, waits, and is applied or rejected once and for
all; it is applied only at the revision it was accepted for. The refinement
maps `disk` to it, and is checked as `IsLedger`.

### RpcServer

The daemon process and its client in one module, with the two pipes between them.
`HandleLine` is one turn of `serve_stdio`: a request is looked up by its id
(`Remembered`), replayed or refused as a conflict (`Replay`), or executed and
cached (`Execute`, `Cached`); then the journal is drained behind the response
(`Drained`, `Outgoing`). `WriteOrDie` writes the messages one by one and may end the
process before any of them; `Poll` is what happens between two lines, `Shutdown`
the end of stdin, `Crash` any other end. A request is abstracted to what it leaves
in the journal (`EffectOf`): nothing, an event that is saved, or an event kept in
memory only, as `trigger_track` does. Executions and events have numbers of their
own, so that two of them are never confused.

The client half is `RustDaemonClient`: `Spawn`, `Request`, `Timeout`, `Receive`,
`EndStdin`, and the two ways in which it learns of the end of a child, the exit code
(`NoticeExit`) and the "close" event (`Close`), which may come after the next child
was started. Such a late "close" lets go of the new child, which goes on owning
the MIDI port; the model keeps the state and starts no third process beside it.

### CaptureStream, AudioRecorder, OverbridgeCapture, OverbridgeSelection

`CaptureStream` is what both recorders run beside the server thread: the audio
callback (`Callback`, which neither waits nor fails), the bounded queue, and the
writer thread. A block is the number of the callback and how many of its frames were
taken; the empty block is the finish marker. `AudioRecorder` and
`OverbridgeCapture` EXTEND it and share its variables.

In `AudioRecorder` stopping is a sequence of steps as in `stop_internal` (drain
notices, pause, send the marker, join, rename the WAV, write the sidecar, publish
it), between which the callback and the writer go on, a file operation may fail or
the process may die. `Occupied` is the check of the four file names. A recording of a
given duration is completed when its length is within a tolerance of it
(`LongEnough`; 5 % or 50 ms in the code, `audio.rs:648`, a number of frames here). In
`OverbridgeCapture` one request runs to its end (`Proceed`); the writer finalizes stem
after stem at the marker, and `recording.json` is written last. `Known` looks in
memory, then in the directory. Both leave the mock signal out.

`OverbridgeSelection` is pure: the device and configuration the inventory names
(`SelectedDeviceSummary`) and the ones a capture opens (`SelectOverbridgeInput`), each
with its own score as in the code. `MCOverbridgeCapture` extends both modules.

### SampleService

One elektroid-cli call is one step (`Look`, `Send`, `Readback`, `Fetch`, `Load`,
`Clear`, `Confirm`, ...), and between two calls somebody else may change the device
(`Panel`). `RunCli` has the three ways a changing call can end: done and said so; done
and failed (killed at the deadline); reported done and not done. A sample's content
stands for the digests made of it. `touched` is history: the places somebody else
changed since the daemon read them; no program could answer for those. `unsaved`, too, is
history: the samples whose registration could not be written; an upload repeated by a
client finds them in memory and answers their id as already present (`Match`). `Due` is
the second validation of an assignment when its boundary comes
(`hardware_control.rs:1311`).

### PatternEdits

The Pattern of the work buffer: trigs, track lengths, Kit number, and the pool of
lock slots. `Edit` and `EditAll` are `apply_persistent_operation(s)` on the decoded
copy; `Decode` is `PatternPlocks::from_pool_value`; `Summary` is `pattern_summary`;
`Changed` compares the summaries, and `Outcome` says what the device holds afterwards.
How the codec library stores a lock byte (`SetByte`, `ClearByte`) is modelled from
the use made of it and marked external. Three kinds of parameter stand for the
table: a plain one, the one that was compound in older files, and a machine
parameter no table names.

The columns of a claimed slot that hold no lock are 0xFF when this daemon claims it. A
device that saves a Pattern, like the first version of the writer, may fill them with 0x00
(`plocks.rs:22-26`, `hardware.rs:1057-1061`, and a test of the decoding), and a zero in range
is a lock to whoever reads the pool: a ghost. `Panel` fills any unset columns of any
claimed slot so (`Filled`, `Ghosts`), in any state; the Pattern a device holds at the
start is one that such steps, and those of the older writers, make of the empty one.
`given` is history: the locks accepted sets gave, and the ghosts. So `LocksReadBack` does not
say that an inspection shows no ghost, which would be false, but that the daemon makes none,
and neither loses nor changes one that no operation names.

### MockBridge

Each request of `MockBridgeState` is one action; `Advance` repeats `StepOnce` for the
steps asked for, and `StepOnce` has `ApplyDue` go through the sets. As in the code,
`ApplyOperations` edits in place and stops at the first operation that fails, and
what it did before stays. A Pattern is one trig with velocity and lock and one Kit
parameter; a Song is its rows. The measure is computed as the code does, which is
too fast for Patterns longer than a measure; only a display field depends on it.

### Abstractions to know

The reads of several objects are one step, and so are the sends of a restoration
and its readback; partial sends are kept (`WriteFails`, `RestoreFails`). Saving is
one step, which ends with the old or the new file in place; temporary files left
behind are left out. A queue request while disconnected is left
out (it is `Reconnect` followed by a refusal, since the epoch it names is over).
One snapshot is kept. Each module names its own in its head; refused requests that
change nothing are no actions.

## 4. Runs

| run | question | instance |
|---|---|---|
| TransportClock | does a boundary fire when it should? | 2 clocks per step, 2 steps per beat, 2 beats per measure, 2 patterns, lengths 1 to 3, 2 epochs, 9 steps; 405 000 states |
| HardwareControl | revisions, queued work, exact steps, the daemon's picture of the device | 2 sets that always change the pattern, 1 panel edit, 1 fault, 1 command, nothing pruned, saves succeed; 562 000 |
| HardwareRestart | is a set written once, are outcomes final, the abstract ledger | 2 sets with inserting edits, 2 faults, 1 crash or shutdown, 1 command; 80 000 |
| HardwareRetention | pending work and outcomes when indexes shift under a due list | 3 sets, 1 settled record kept, 2 queued at a time, a stored kit, sessions opened inside a due list, 1 fault, 1 restart; 141 000 |
| HardwareLiveness | what failing saves leave in the file; is queued work settled? | 1 set, two kinds of boundary, any save may fail, clients send while disconnected, 1 fault, 2 commands; 148 000 |
| RpcServer | at most once while remembered, events once and in order, every promise settled | 2 ids, 2 payloads, a cache of 1, 3 inputs, 2 processes; 338 000 |
| AudioRecorder | what is published agrees with what was played; a stop returns | 2 ids, a queue of 2 blocks of 2 frames, targets of 3 and 5 frames, 1 stream fault, 1 file fault, 1 crash, tolerance of 1 frame; 931 000 |
| OverbridgeCapture | stems against metadata, replay for good; the device inspected is the one opened | 1 id with 2 declarations, 2 stems, 2 stream faults, 1 file fault, 2 crashes, 4 requests; 38 000. Every pair of configurations over 3 rates, 3 channel counts, 3 formats |
| SampleService | nothing replaced or cleared that was not seen as free or named; answers were so | 2 paths, 2 contents, 2 slots, 4 requests, 1 each of panel change, CLI fault, failed save, restart; 1 475 000 |
| PatternEdits | locks read back (and no ghosts but the device's), repeated sets converge, nothing unnamed changes | 1 track of 2 steps, a pool of 3 slots, 2 sets out of the operations and pairs of them, 1 panel change; 9 000 |
| MockBridge | the journal explains the content, one winner, nothing left at a boundary | 2 Patterns of 4 steps, 2 sets out of 11, 1 snapshot, 4 steps, 1 command; 532 000 |

Two sets are enough for everything that is about pairs (one winner, due lists,
reconnect between two records); retention needs a third to push one out. One
fault reaches restoration, because a failed verification leads to it whatever failed;
a second one breaks the restoration off, or its last readback when the baseline is
already back, which is why `HardwareRestart` has two. `MaxStep` 2 with 2 steps per beat puts two sets on the same step with
two steps before it at which they can be queued; `MaxValue` is the smallest number of contents
that tells "old", "new" and "new twice" apart. Lengths change with the content,
so that an observation really shortens the pattern. Symmetry permutes set ids
only, and the liveness run uses none. Deadlock is checked in the hardware runs but `HardwareRetention`: there a due list
may hold an index that is out of bounds, on which the daemon panics
(`hardware_control.rs:1255`), and when the restarts are spent it stays down. With two
commands instead of one, `HardwareControl` has 6.6 million states and holds too.
Failing saves multiply the states, because file and memory part. `OutcomesAreDurable` is
about the file, which a crash leaves as it is, so that `HardwareLiveness` can do without
one; `HardwareSaves.cfg` checks it on two sets with a crash, and with sessions opened inside a
due list (1.3 million states, holds).

`OutcomesAreFinal` and `PendingWorkStays` make one exception, `OneByStaleList`: with more
sets than retention keeps, or with sessions opened inside a due list, the indexes of the
list may come to name other records (`StaleDueIndex`), and the list then settles one it should
not, before its time or again. What they claim is that this is all: no step of
pruning, reconciliation, failure or crash touches pending work or an outcome otherwise, and
the list touches one record at a time.

For the other modules: a cache of one response already evicts, and three inputs are
a request, its repetition and something between them. A queue of two blocks can
be full with the marker outside; a target of 3 frames cuts a block of 2, and 5 needs
more blocks than the queue holds. A pool of three slots can be full with a
companion in it. The fourth sample request is the one that meets what three
others (upload, load, queue) have left behind. `PatternEdits` quantifies its
properties over all sets in every state, so that its two sets only have to reach the
states. Four steps of two beats let every kind of boundary come twice or coincide.
Deadlock is not checked where all budgets (requests, faults, steps) may be spent and
nobody has to act: `CHECK_DEADLOCK FALSE` in those configurations.

Fairness (`FairSpec`). `serve_stdio` (`rpc.rs:706-753`) polls after each request,
so requests cannot starve the poll: strong fairness of `Poll` and, because the
poll tries it every second, of `Reconnect`. A handler runs to its end: weak
fairness of the job's steps, and of the failure of a read without session. MIDI
clocks come while the transport plays. Nothing is assumed of clients, faults or
restarts, and `QueuedIsSettled` is only about behaviours in which the connection
stays up and the transport playing from some time on. Saves may go on failing: a
record that could not be saved is settled in memory all the same, and no client
waits for more.

In `RpcServer` weak fairness of `HandleLine` (the daemon reads on while it lives) and
of `Receive` and `Close` (the runtime delivers lines and the end of a child): with
these every request settles without its timeout. In `AudioRecorder` weak fairness of
the server thread inside a stop (`Finalize`; its wait has a deadline) and of the
writer thread. The device owes nothing. The other modules have safety and action
properties only and state no fairness.

`TypeOK` of the modules whose runs do not list it holds in the same instances (add
`INVARIANT TypeOK` to the configuration).

### What the code does not do

The run `PlockNotSent` expects a violation. `apply_persistent_operations` sends the
Pattern when its summary changed, and the summary lists only trigs that are on and
the locks the tables name. A lock set on a trig that is off, or a purge of slots no
listed trig shows, is therefore taken for converged, answered as verified, and never
sent, although a comment calls the purge "the only path that retires slot debris"
(`hardware.rs:1057`). When the trig is turned on later the lock is not there.

Twelve more behaviours have a configuration here, beside the runs of `PROJECT.json`;
TLC finds each of them with `tlc -config X.cfg M`, M being the MC module of the
component. Most check a sentence of the documents or a comment.

* `TransportClockRewind`: an immediate pattern change sets the absolute step
  back inside the epoch; work for "the next step" then waits a long time.
* `StaleDueIndex` (`DueListIsCurrent`): pruning during a due list shifts the indexes still
  in it.
* `ReconnectInRequest` (`StaleWorkIsNotDispatched`): `apply_now` checks the revision before
  the reconnect that raises it, although `ARCHITECTURE.md:99` says "Stale expected
  revision rejects before dispatch".
* `UnsavedAnswer` (`PersistedBeforeAcknowledged`): the request for a set whose save failed,
  repeated, is answered from memory as queued or applied; `ARCHITECTURE.md:91` says
  that the scheduler "persists the intent before acknowledgement".
* `SampleRestart` (`ReturnedIdsAreKnown`): an upload whose registry write failed is
  answered as already present when repeated, from a registry that is only in memory,
  and a restarted daemon does not know the id; `HARDWARE_SETUP.md:257` says "Sample
  registry state also survives daemon restart".
* `MockFailedSet` (`RevisionNamesContent`): a set that fails behind its first operation leaves
  the content changed under the old revision (`state.rs:1287` returns before `:1297`), and
  another set prepared at that revision is then applied over it. `ARCHITECTURE.md:15`
  speaks of "revision-checked transactions".
* `SwallowedDrift`: a scene readback becomes the last observation without a new
  revision.
* `KitRestore`: the restoration of a stored kit is always reported as failed.
* `SongRowTwice`: a crash between write and save, and a row of a stored Song is
  inserted twice. For the work buffer drift detection prevents it
  (`HardwareRestart`), except after a rollback that was written but whose
  readback could not be decoded: the device then holds a content the record does
  not know, and a later crash can bring it back to the recorded one unseen. That
  is why `HardwareRestart` has no rollbacks.
* `EpochReuse`: a crash after a transport start gives its epoch name to another.
* `EventCursorReuse`: an event is pushed with its cursor before it is in the state
  file (`trigger_track` never saves); after a crash the cursor names another event,
  although `DAEMON_RPC.md` calls it "the durable journal cursor for the event".
* `CaptureReplay`: `audio.capture_pattern` repeated under a completed id is answered
  with an error, since the stop behind the replayed start finds nothing active;
  `AUDIO_CAPTURE.md` calls the repetition idempotent.

Some more are in the models without a configuration of their own. With `SlowPersists = TRUE`
and one fault, a reconnect between two records of a due list rejects the second,
and the loop then applies it (the exception in `OutcomesAreFinal`). And after a set that
changes nothing, the `kits` section of its summary makes the next look at an
unchanged device raise the revision (`SeesDrift`). In `RpcServer` a late "close"
orphans a running daemon. In `MockBridge` a set that fails at a boundary stays queued
with its first operations applied, and keeps the sets behind it waiting, which is why
`JournalExplainsContent` and `DueSetsSettle` are about behaviours in which none failed, and
`OneWinnerPerRevision` about sets that were applied. In `SampleService` a slot is
identified by the path it shows, so a file replaced on the +Drive is assigned under
the old id.

## 5. Proofs

Eight modules, each beside the one it is about. A lemma about an operator that two of
them need (`Transport` in the clock and the hardware control, `CaptureStream` in the two
recorders) is stated in both. No theorem bounds the number of requests, faults or
crashes: the `Max...` constants are any numbers. The theorems rest on the `ASSUME`s of
the models, which TLC evaluates in every run: `ClockAssumption`, `BoundAssumption`,
`DeviceAssumption`, `ControlAssumption`, `RpcAssumption`, `StreamAssumption`,
`RecorderAssumption`, `CaptureAssumption`, `SelectionAssumption`, `SampleAssumption`,
`PatternAssumption` and `MockAssumption` say of which kind the constants are;
`IdleAssumption` and the `NoneAssumption` of `DurableState`, `AudioRecorder`,
`OverbridgeCapture` and `SampleService` say that the value for "nothing" is none of the
values it stands beside.

Where the code loops (over operations, over queued sets, over transport steps, over the
events of a journal), the model has a recursive function and the proofs a way round
induction, which the prover lacks: the values the loop takes are listed by a function
that exists up to every length (`...Exist`), since otherwise there were a first length
without one; and a fact about the loop holds at every index, since otherwise there were
a first exception (`HasFirst`).

### Clock

`TransportClock_proofs`, for all positive clock divisions, all sets of patterns and all
lengths up to `MaxLength`:

* `TypeCorrect`: in particular the step stays inside the pattern. By itself it is
  inductive: each method folds or rewinds the step whenever it changes the
  length.
* `BoundariesNeverMissed`: needs the type invariant (`IInv` is both), `ResolvesAhead`
  for what is queued or reconciled, and that a tick moves by at most one step.
* `ResolutionIsStable` and `FirstBoundaryFires`: the invariant `SInv` adds that the
  target of an undisturbed boundary is what `resolve` would answer now and that no
  boundary of its kind has gone by. The step is `TickAgreesWithResolve`: a clock finds
  the transport at the boundary exactly when it reaches the resolved step. For beats
  and measures that rests on `NextMultipleReached`.

### Hardware control

`HardwareControl_proofs` has four parts: what the operators of the durable record
compute (retention, reconciliation, settling), the control thread, the schedule, and
that sets reach the device once.

The second part builds its invariant concern by concern, each part on those before it:

* `TypeCorrect` from `TypeInv` and `JobInv` (which phases a job of each kind may be in,
  and that from the first write on there is a session).
* `ObservationIsDevice` from `ObservedInv`. While a job writes, device and record
  disagree; what holds then is that they disagree only in objects the job writes and
  that the job's base is what was observed, so that verification and restoration
  bring them together again.
* `OutcomesSurviveCrashes` from `SyncInv`, without any assumption about saves or retention:
  after a save that succeeded the file has every set that memory has, though memory may
  be ahead in records it reconciled; and a set a client was answered about at such a time
  is in the file, or the file is full.
* `RevisionsAreSpentOnce` from `BindInv`, `IndexInv` and `WinnerInv`: records that changed the
  device are of revisions that are over, no two of the same, and none of the one
  a job is about to spend. It holds under any retention, but for `~SlowPersists` (a
  session opened inside a due list raises the revision and moves the records) and
  `~FailingSaves`: the invariant takes memory and file to agree on the records that changed
  the device. Without the latter TLC found no violation in five million states, and no
  proof is claimed.

The third part is about queued records and outcomes, while saves succeed: a save that fails
ends a due list and leaves what is due for the next poll, and a crash takes back what was
never saved.
`QueuedWorkWaits`, `AppliesWhenDue` and `FileIsLedger`, the refinement of `OperationLedger`,
assume `ListsStayCurrent`: no session is opened inside a due list, and there are no more
sets than `RetainCap` (500 in the code); beyond that the indexes of a due list go stale, as
`StaleDueIndex.cfg` shows. `FileIsLedger` needs `~BlindClients` too, since the ledger accepts a
set only at the current revision. `NamesInv` (an epoch name is given once, and what only
memory knows was resolved in an epoch the file does not know), `PlanInv` (the records a due
job has left are due now, all other queued ones are ahead) and `SessionInv` make up the
invariant with the second part's. A step then does one of five things to the
records: nothing (`Quiet`), add one (`Adds`), settle one (`Marks`), begin an epoch
(`Rolls`) or lose what was not saved (`Crashed`); `AppliesWhenDue` and the simulation are
proved per class instead of per handler.

`OutcomesStay` and `PendingWorkRemains` assume neither: they hold under any retention and with
sessions opened inside due lists, where they allow the one record a stale index names.
`Spares(I, s)` says that `s` keeps every record but those with an id in `I`: what is settled
stays as it is or is dropped, and what waits for a boundary still to come of the current
epoch stays. Every step spares all records but at most one, that one only while a due list
is worked through, and leaves the file as it was or as memory is then (`Gentle`). When
lists stay current, a step other than a crash is one of the five above, and spares all
(`FineSpares`); so there is no exception (`NextSpares`, `SparedButOne`).

The fourth part is `WritesLandOnce`, that `WrittenOnce` always holds. Its invariant,
beside the second part's, is about a set that is on the device (`OnceInv`): its
revision is over; or there is no session, and the next one will find the device
changed and end the revision; or the job that wrote it is still there to verify
or restore it. A write starts only in the current revision (`StaleInv`), so it is
none of these. To carry this through a crash, `BaselineIsSeen` has the job's base in memory and
file alike, and `BusyInv` that what is written differs from it where an
inspection looks. The hypotheses name what this takes: sets change the work buffer only
(`EditsAreSeen`; see `SongRowTwice`), nobody edits at the panel and no snapshot is rolled
back to (`SoleWriter`: an unseen change and the write that covers it can add up to what
was last observed), clients send only to a connected daemon, no session is opened inside a
due list, and saves succeed. With any of them but `~SlowPersists` dropped TLC finds a set
written twice (change the constant in `HardwareRestart.cfg`).

### RPC server

`RpcServer_proofs`, for every size of the cache, any payloads and any number of
requests, polls and processes:

* `AtMostOnceWhileRemembered`: the cache is the tail of what was executed, and all of it
  while there is room (`TailInv`), so that a request missing from the cache was last
  executed more than `Limit` requests ago (`ExecuteKeeps`).
* `EventsOnceInOrder` and `AnswersComeFirst`: `OutputInv` adds to the two properties that
  behind any event the running process pushed, all cursors up to its own are pushed
  too, and that its own is the end of the journal. That a process may die between two messages is
  why the properties are of what was written and the invariant of what is still owed.

### Captures

The lemmas both recorders need: `ChainInv` says that as long as no
block was dropped, file and queue hold the callbacks 1, 2, 3, ... without a gap; and
`FlowInv` that while there is a writer, what the callback counted as accepted is what
is in the file and in the queue. The number of frames of a file is a recursive
function; that it adds up block by block (`FramesOfMore`) is proved by a least
counterexample, since induction by the library's theorems is out of reach.

* `AudioRecorder_proofs`: `SidecarsAreTrue`, `GapsAreReported`, `PublishedFilesStay`. `RecorderInv`
  says that the id being recorded has no finished file, and that from the renaming on
  the writer is gone, so that the counters the sidecar is made of are those of the
  file.
* `OverbridgeCapture_proofs`: `StemsMatch`, `ReplaysForGood`,
  `CompletedCapturesAreGapless`. Why the stems are as long as the callback's counter says,
  though the counter is read by another thread, is `StemInv`: the marker is sent after
  the stream is dropped and is therefore the last block, so that whoever meets it
  has written all there was (`MarkerIsLast`). `BookInv` says that memory and every first
  answer agree with the directory, and `StepInv` that a running capture has a directory
  without metadata; with these a repetition finds what was told, also after a crash.
* `SelectionsAgree`, about the operators of `OverbridgeSelection`: for every sequence of
  devices with any configurations, the search of the inventory and that of the capture
  choose the same device, configuration and rate. The two scores are equal although one
  asks whether a rate is supported and the other which rate would be opened
  (`ScoresAgree`), and the first device of the larger set of candidates is one of the
  smaller. The hypothesis is the case in which the code differs by design: a matching
  device that cannot be read ends the capture's search with an error, unless an available one comes
  first. TLC checks the same of two devices (`SummaryNamesOpened`), which is then
  `InspectionNamesOpened`.

### Samples

`SampleService_proofs` proves all five properties of the run `SampleService`, and
`TypeOK`, for any paths, contents and slots and any number of requests, panel
changes, failing calls, failing writes and restarts (`SampleAssumption`: slots are
numbers, so that a set of them has a first; `NoneAssumption`: `None` is none of the
values it stands beside):

* `IInv` is `TypeInv` (types, and which request each step belongs to) and `ViewInv`:
  for every step at which the daemon is about to write, clear, load, assign or
  answer, what its last read showed of the place still holds unless the place is in
  `touched`. The properties are about one step and say nothing of what came before,
  so by themselves they are no consequence of one step; `ViewInv` carries the read
  to the call.
* `ReplacesNothing`, `ClearsTheNamed`, `AssignsNamed` and `AnswersTrue` then follow from
  the one action that can change the place (`DeviceSteps`); steps of others are
  told apart by their budgets (`DaemonSteps`).
* `IdsSurvive` needs `IdsOK`: answered ids, but for those whose registration could not be
  written, are in the file and the ids of the file in memory. The second half is what keeps the first when `Register` writes its
  memory over the file.

### Pattern edits

`PatternEdits_proofs` proves the three invariants of the run and `TypeCorrect`, for any
numbers of tracks, steps and slots, any operation sets and any changes at the panel. The
inductive invariant is short: the Pattern has its types (`PatInv`) and what the inspection
owes is what the whole pool decodes to, `given = Decode(device.pool)`, also on trigs that
are off. Of the pool, `PoolInv` adds that no two slots belong to one track and parameter,
that free slots are clean and that a companion behind a free slot is clean too: otherwise
claiming the slot for a compound lock would adopt a low byte nobody gave.

* `InspectionShowsLocks`: the pool is taken cell by cell (a slot at a step). Every way of
  writing a byte (into the slot a lock has, with the companion behind it, or into a
  claimed one) rewrites the cells of one track, step and parameter and leaves what all
  others show (`CellRewritten`), so that the locks change as asked (`RewritesLocks`), operation
  by operation (`PoolAsAsked`). Zeros in unset columns of a claimed slot add the ghosts of
  those columns and disturb no other lock (`FillLocks`): a column that is not unset keeps its
  byte, and a slot keeps its companion.
* `OthersStay`: no operation of the set touches what none of them names.
* `SetsConverge`: in a second run over the result of the first, every part of the Pattern
  is at each operation what it was there in the first run or what the first run ended with
  (`Mixed`); at the end that is the same, so there is nothing to send. And it is accepted,
  since a lock once set keeps its slot until a purge (`LockLasts`, `StaysRoomy`).

The proof corrected the model twice. `RepeatConverges` once said that a repeated set is always
accepted; that is false of a set that gives a lock, purges, and then fills the pool: with two
tracks and a pool of two slots, `lock(0, cutoff)`, purge, `lock(0, depth)`, `lock(1, cutoff)` is
accepted, and sent again it finds no room for its first lock and is refused, which changes nothing.
The instances of the run had no such set. The property now says so. And `Edit` had two
alternatives for a `copy_pattern` that names another Pattern, of which the prover may not
choose one.

### Mock bridge

`MockBridge_proofs` proves the three properties of the run, for any operation sets,
snapshots, Pattern lengths and numbers of requests. `IInv` is

* `BookInv`, the types, and `Named`: an id names one set, and the journal speaks only of
  sets and snapshots that are there;
* `WinInv`: the revision of a set that was applied with a change is over, and no two that
  changed the content were prepared for the same one. That is `OneWinnerPerRevision`; a set that
  failed is not counted, though it may have changed the content (`MockFailedSet.cfg`);
* `Explained`: the journal, read again, gives content, active Pattern and revision, and what
  it remembers under the name of a snapshot is what the snapshot holds. Without the second
  half a rollback could not be replayed. It is claimed while no set has failed.

Each is carried through the loop over the sets that are due and the loop over the steps of
`advance_transport`. `DueSetsAreSettled` has its own loop invariant (`LoopInv`): nothing among
the sets handled so far is due, and settling a later one makes no earlier one due. It says nothing of
behaviours in which a set failed, and section 4 says why.

### Left to TLC

* Liveness (`QueuedIsSettled`, `EveryRequestSettles`, `StopReturns`): fairness and `ENABLED` are
  out of the prover's reach. With these exceptions every property of a passing run is the
  statement of a theorem.
* Behaviours a theorem's hypotheses exclude: failing saves, for every theorem of
  `HardwareControl_proofs` that names `FailingSaves`; outdated due lists or `SlowPersists`,
  for `WritesLandOnce`, `RevisionsAreSpentOnce`, `QueuedWorkWaits`, `AppliesWhenDue` and
  `FileIsLedger`; blind clients, for the first and the last of these. `OutcomesStay` and
  `PendingWorkRemains` cover any retention and `SlowPersists`, and
  `OutcomesSurviveCrashes` any failing save.

## 6. Not modelled

* Live parameters, performance macros, triggers and their note-offs: real-time
  sends that leave no durable state (`NoteOffs` in the plan). `validate` and `propose`
  change nothing.
* The operations on Kits, Sounds, Global and Song in the hardware path are edits of
  object values in `HardwareControl`; only Pattern operations are spelt out.
* The SysEx session: which answers an instrument sends late or twice is not in
  the repository, and a model would be of a guessed device.
* The steps of `persist()` and the state lock, retention of events and snapshots.
* The TypeScript service and its journal (`ServiceJournal` in the plan), the search
  for foreign daemons and the signals of `terminate()`.
* Envelope validation and parameter parsing; the MCP adapter, a stateless
  translation; the generator, pure functions of a seed with floating-point weights;
  the offline tools, floating-point batch programs; the verification scripts,
  which are tests.

`PROJECT.json` gives the status and reason for every component.
