--------------------------- MODULE SampleService ---------------------------
(***************************************************************************)
(* SampleService in hardware mode, and the sample assignments of the       *)
(* operation sets HardwareControl applies.  The +Drive and the sample RAM  *)
(* are read and written through one elektroid-cli process per call;        *)
(* between two calls somebody at the panel, or another tool, may change    *)
(* the same device.  A call may fail before or after its effect (the CLI   *)
(* is killed after a timeout), and one that reports success may have done  *)
(* nothing.                                                                *)
(*                                                                         *)
(* A WAV is known by its content; the digest of the local file, the        *)
(* canonical digest of the device's copy and the device's checksum are all *)
(* functions of it.  registry.ram_slots is written and never read in       *)
(* hardware mode and is left out, as are the directories and the staging   *)
(* files.                                                                  *)
(***************************************************************************)
EXTENDS Naturals, FiniteSets

CONSTANTS
  Paths,            \* +Drive paths
  Contents,         \* contents of sample files
  Slots,            \* RAM slots, RAM_SLOT_MIN .. RAM_SLOT_MAX
  None,             \* nothing there
  MaxRequests,      \* bound on requests
  MaxPanel,         \* bound on changes at the panel
  MaxCliFaults,     \* bound on elektroid-cli calls that go wrong
  MaxPersistFaults, \* bound on failures of persist
  MaxCrashes        \* bound on daemon restarts

ASSUME SampleAssumption ==
  /\ Slots \subseteq Nat
  /\ {MaxRequests, MaxPanel, MaxCliFaults, MaxPersistFaults, MaxCrashes}
       \subseteq Nat

VARIABLES
  drive,    \* the content of each +Drive path
  ram,      \* what each RAM slot holds
  assigned, \* the slot the track's Sound plays
  samples,  \* registry.samples
  file,     \* sample-state.json
  step,     \* what the daemon is doing
  request,  \* for which request
  found,    \* what its last device read decided
  queued,   \* assignments waiting for their boundary
  touched,  \* paths and slots others changed since the daemon read them (history)
  answer,   \* the last answer
  answered, \* the samples uploads returned, new or already present (history)
  unsaved,  \* the samples refused because their record was not written (history)
  spent     \* how much of each bound is used up

device == <<drive, ram, assigned>>
registry == <<samples, file>>
answers == <<answered, unsaved>>
history == <<touched, answers>>
vars == <<device, registry, step, request, found, queued, history, answer,
          spent>>

(***************************************************************************)
(* ManagedSample; stable_sample_id makes an id of all but the source.      *)
(***************************************************************************)
Samples == [path: Paths, source: Contents, checksum: Contents,
            canonical: Contents]

Requests ==
  [op: {"upload"}, path: Paths, content: Contents]
    \cup [op: {"resolve"}, sample: Samples, slot: Slots \cup {None}]
    \cup [op: {"clear", "apply", "queue"}, sample: Samples, slot: Slots]
    \cup [op: {"inspect"}]

(***************************************************************************)
(* None is none of the values it stands for the absence of.                *)
(***************************************************************************)
ASSUME NoneAssumption ==
  None \notin Contents \cup Slots \cup Samples \cup Requests
                \cup [path: Paths, content: Contents]

Spend(what, bound) ==
  /\ spent[what] < bound
  /\ spent' = [spent EXCEPT ![what] = @ + 1]

Init ==
  /\ drive = [p \in Paths |-> None]
  /\ ram = [s \in Slots |-> None]
  /\ assigned = None
  /\ samples = {}
  /\ file = {}
  /\ step = "idle"
  /\ request = None
  /\ found = None
  /\ queued = {}
  /\ touched = {}
  /\ answer = None
  /\ answered = {}
  /\ unsaved = {}
  /\ spent = [requests |-> 0, panel |-> 0, cli |-> 0, persists |-> 0,
              crashes |-> 0]

-----------------------------------------------------------------------------

(***************************************************************************)
(* The handler returns: Ok with a status, or an error.                     *)
(***************************************************************************)
Return(a) ==
  /\ answer' = a
  /\ step' = "idle"
  /\ request' = None
  /\ found' = None

Refuse == Return([status |-> "refused"])

(***************************************************************************)
(* A request arrives.  upload, resolve_ram and clear_ram are refused while *)
(* the transport plays, before anything else; that refusal is left out.    *)
(* upload looks for the same declaration; resolve_ram, clear_ram and       *)
(* validate_assignments refuse an id the registry does not know.           *)
(***************************************************************************)
Begin(r) ==
  /\ step = "idle"
  /\ Spend("requests", MaxRequests)
  /\ r.op \notin {"upload", "inspect"} => r.sample \in samples
  /\ request' = r
  /\ answer' = None
  /\ IF r.op = "upload"
       THEN LET same == {m \in samples : m.path = r.path /\ m.source = r.content}
            IN \/ /\ same = {}
                  /\ step' = "look"
                  /\ found' = None
               \/ \E m \in same : step' = "match" /\ found' = m
       ELSE step' = "read" /\ found' = None
  /\ UNCHANGED <<device, registry, queued, history>>

(***************************************************************************)
(* A call of elektroid-cli fails, or is killed at its deadline, without an *)
(* effect on the device.                                                   *)
(***************************************************************************)
CliFails ==
  /\ step \notin {"idle", "register", "record", "assign", "due"}
  /\ Spend("cli", MaxCliFaults)
  /\ Refuse
  /\ UNCHANGED <<device, registry, queued, history>>

(***************************************************************************)
(* A changing call: the device does it and says so; or it does it and the  *)
(* call fails; or it is reported done and was not.                         *)
(***************************************************************************)
RunCli(effect, next, unchanged) ==
  \/ effect /\ step' = next /\ UNCHANGED <<answer, request, found, spent>>
  \/ effect /\ Refuse /\ Spend("cli", MaxCliFaults)
  \/ /\ unchanged
     /\ step' = next
     /\ Spend("cli", MaxCliFaults)
     /\ UNCHANGED <<answer, request, found>>

-----------------------------------------------------------------------------

(***************************************************************************)
(* upload.  device_entry_matches: the listing still shows the name with    *)
(* the checksum and the size of the managed sample; its id is returned,    *)
(* whether the registry it is found in was ever written or not.            *)
(***************************************************************************)
Match ==
  /\ step = "match"
  /\ touched' = touched \ {found.path}
  /\ IF drive[found.path] = found.checksum
       THEN /\ answered' = answered \cup {found}
            /\ Return([status |-> "already-present", sample |-> found])
       ELSE /\ step' = "look"
            /\ found' = None
            /\ UNCHANGED <<request, answer, answered>>
  /\ UNCHANGED <<device, registry, queued, unsaved, spent>>

(***************************************************************************)
(* Bug: only the registry is asked whether the path is taken.              *)
(***************************************************************************)
FreeInRegistry(p) == \A m \in samples : m.path # p

(***************************************************************************)
(* upload_hardware refuses a name the destination already shows.           *)
(***************************************************************************)
FreeName(p) == drive[p] = None

Look ==
  /\ step = "look"
  /\ touched' = touched \ {request.path}
  /\ IF FreeName(request.path)
       THEN step' = "send" /\ UNCHANGED <<request, found, answer>>
       ELSE Refuse
  /\ UNCHANGED <<device, registry, queued, answers, spent>>

Send ==
  /\ step = "send"
  /\ RunCli(drive' = [drive EXCEPT ![request.path] = request.content],
            "readback", drive' = drive)
  /\ UNCHANGED <<ram, assigned, registry, queued, history>>

Readback ==
  /\ step = "readback"
  /\ touched' = touched \ {request.path}
  /\ IF drive[request.path] = None
       THEN Refuse
       ELSE /\ step' = "fetch"
            /\ found' = [checksum |-> drive[request.path]]
            /\ UNCHANGED <<request, answer>>
  /\ UNCHANGED <<device, registry, queued, answers, spent>>

(***************************************************************************)
(* The device's copy is downloaded and digested: the sample is identified  *)
(* by what came back, not by what was sent.                                *)
(***************************************************************************)
Fetch ==
  /\ step = "fetch"
  /\ IF drive[request.path] = None
       THEN Refuse
       ELSE /\ step' = "register"
            /\ found' = [path |-> request.path, source |-> request.content,
                         checksum |-> found.checksum,
                         canonical |-> drive[request.path]]
            /\ UNCHANGED <<request, answer>>
  /\ UNCHANGED <<device, registry, queued, history, spent>>

(***************************************************************************)
(* A sample replaces one of the same id, which the source is no part of.   *)
(***************************************************************************)
SameId(m, n) ==
  /\ m.path = n.path
  /\ m.checksum = n.checksum
  /\ m.canonical = n.canonical

(***************************************************************************)
(* Bug: a failure to write the registry is ignored.                        *)
(***************************************************************************)
PersistOrForget(known, acknowledged, reply) ==
  /\ samples' = known
  /\ \/ file' = known /\ UNCHANGED spent
     \/ UNCHANGED file /\ Spend("persists", MaxPersistFaults)
  /\ answered' = answered \cup acknowledged
  /\ UNCHANGED unsaved
  /\ Return(reply)

(***************************************************************************)
(* persist: the whole registry is written beside the old file and renamed  *)
(* over it; when that fails the memory keeps what the file lacks.          *)
(***************************************************************************)
Persist(known, acknowledged, reply) ==
  /\ samples' = known
  /\ \/ /\ file' = known
        /\ answered' = answered \cup acknowledged
        /\ unsaved' = {m \in unsaved : \A n \in known : ~SameId(m, n)}
        /\ Return(reply)
        /\ UNCHANGED spent
     \/ /\ UNCHANGED <<file, answered>>
        /\ unsaved' = unsaved \cup acknowledged
        /\ Refuse
        /\ Spend("persists", MaxPersistFaults)

Register ==
  /\ step = "register"
  /\ Persist({m \in samples : ~SameId(m, found)} \cup {found}, {found},
             [status |-> "uploaded-and-verified", sample |-> found])
  /\ UNCHANGED <<device, queued, touched>>

-----------------------------------------------------------------------------

(***************************************************************************)
(* The RAM inventory as a request reads it.                                *)
(***************************************************************************)
Holds(slot, path) == ram[slot] # None /\ ram[slot].path = path

Empty(slot) == ram[slot] = None

(***************************************************************************)
(* The slot resolve_ram finds the sample in, if any.                       *)
(***************************************************************************)
Loaded(sample) == {slot \in Slots : Holds(slot, sample.path)}

First(slots) == CHOOSE slot \in slots : \A other \in slots : slot <= other

Inspect ==
  /\ step = "read" /\ request.op = "inspect"
  /\ step' = "record"
  /\ found' = [status |-> "inspected"]
  /\ touched' = touched \ Slots
  /\ UNCHANGED <<device, registry, request, queued, answers, answer, spent>>

(***************************************************************************)
(* resolve_ram: already loaded; or into the requested slot or the first    *)
(* free one, which must be empty.                                          *)
(***************************************************************************)
Resolve ==
  LET loaded == Loaded(request.sample)
      free == {slot \in Slots : Empty(slot)}
      wanted == IF request.slot = None THEN free ELSE {request.slot} \cap free
  IN /\ step = "read" /\ request.op = "resolve"
     /\ touched' = touched \ Slots
     /\ \/ /\ loaded # {} /\ request.slot \in {None, First(loaded)}
           /\ step' = "record"
           /\ found' = [status |-> "already-resolved", slot |-> First(loaded)]
           /\ UNCHANGED <<request, answer>>
        \/ /\ loaded = {} /\ wanted # {}
           /\ step' = "load"
           /\ found' = [status |-> "loaded-and-verified", slot |-> First(wanted)]
           /\ UNCHANGED <<request, answer>>
        \/ /\ IF loaded = {} THEN wanted = {}
              ELSE request.slot \notin {None, First(loaded)}
           /\ Refuse
     /\ UNCHANGED <<device, registry, queued, answers, spent>>

Load ==
  /\ step = "load"
  /\ IF drive[request.sample.path] = None
       THEN Refuse /\ UNCHANGED <<ram, spent>>
       ELSE RunCli(ram' = [ram EXCEPT ![found.slot] =
                     [path |-> request.sample.path,
                      content |-> drive[request.sample.path]]],
                   "confirm", ram' = ram)
  /\ UNCHANGED <<drive, assigned, registry, queued, history>>

(***************************************************************************)
(* Bug: what the CLI reports is believed.                                  *)
(***************************************************************************)
Believed(r, slot) == TRUE

(***************************************************************************)
(* The readback after ram:cp must show the path in the slot, and after     *)
(* ram:cl an empty slot.                                                   *)
(***************************************************************************)
Verified(r, slot) ==
  IF r.op = "resolve" THEN Holds(slot, r.sample.path) ELSE Empty(slot)

Confirm ==
  /\ step = "confirm"
  /\ touched' = touched \ Slots
  /\ IF Verified(request, found.slot)
       THEN step' = "record" /\ UNCHANGED <<request, found, answer>>
       ELSE Refuse
  /\ UNCHANGED <<device, registry, queued, answers, spent>>

Record ==
  /\ step = "record"
  /\ Persist(samples, {}, found)
  /\ UNCHANGED <<device, queued, touched>>

(***************************************************************************)
(* Bug: whether a track plays the slot is not looked at.                   *)
(***************************************************************************)
ClearableIfNamed(sample, slot) == Holds(slot, sample.path)

(***************************************************************************)
(* clear_ram clears only the named sample, and only when no track plays    *)
(* the slot.                                                               *)
(***************************************************************************)
Clearable(sample, slot) == assigned # slot /\ Holds(slot, sample.path)

CheckClear ==
  /\ step = "read" /\ request.op = "clear"
  /\ touched' = touched \ Slots
  /\ \/ /\ Empty(request.slot)
        /\ step' = "record"
        /\ found' = [status |-> "already-empty", slot |-> request.slot]
        /\ UNCHANGED <<request, answer>>
     \/ /\ ~Empty(request.slot) /\ Clearable(request.sample, request.slot)
        /\ step' = "clear"
        /\ found' = [status |-> "cleared-and-verified", slot |-> request.slot]
        /\ UNCHANGED <<request, answer>>
     \/ /\ ~Empty(request.slot) /\ ~Clearable(request.sample, request.slot)
        /\ Refuse
  /\ UNCHANGED <<device, registry, queued, answers, spent>>

Clear ==
  /\ step = "clear"
  /\ RunCli(ram' = [ram EXCEPT ![found.slot] = None], "confirm", ram' = ram)
  /\ UNCHANGED <<drive, assigned, registry, queued, history>>

-----------------------------------------------------------------------------

(***************************************************************************)
(* validate_assignments: the slot shows the path of the managed sample.    *)
(* It runs when a set is queued, when it is applied at once, and again     *)
(* when it is due.                                                         *)
(***************************************************************************)
Valid(sample, slot) == sample \in samples /\ Holds(slot, sample.path)

Validate ==
  /\ step = "read" /\ request.op \in {"apply", "queue"}
  /\ touched' = touched \ Slots
  /\ \/ /\ ~Valid(request.sample, request.slot)
        /\ Refuse
        /\ UNCHANGED queued
     \/ /\ Valid(request.sample, request.slot) /\ request.op = "apply"
        /\ step' = "assign"
        /\ UNCHANGED <<request, found, answer, queued>>
     \/ /\ Valid(request.sample, request.slot) /\ request.op = "queue"
        /\ queued' = queued \cup {[sample |-> request.sample,
                                   slot |-> request.slot]}
        /\ Return([status |-> "queued"])
  /\ UNCHANGED <<device, registry, answers, spent>>

(***************************************************************************)
(* Bug: what held when the set was queued is not checked again.            *)
(***************************************************************************)
ValidWhenQueued(sample, slot) == sample \in samples

(***************************************************************************)
(* The boundary of a queued set is reached: it is validated again and      *)
(* applied, or rejected.                                                   *)
(***************************************************************************)
ValidWhenDue(sample, slot) == Valid(sample, slot)

Due ==
  /\ step = "idle"
  /\ \E q \in queued :
       /\ queued' = queued \ {q}
       /\ IF ValidWhenDue(q.sample, q.slot)
            THEN /\ step' = "assign"
                 /\ request' = [op |-> "apply", sample |-> q.sample,
                                slot |-> q.slot]
                 /\ UNCHANGED answer
            ELSE Refuse
  /\ touched' = touched \ Slots
  /\ UNCHANGED <<device, registry, found, answers, spent>>

(***************************************************************************)
(* The Sound with its new sample number is written.                        *)
(***************************************************************************)
Assign ==
  /\ step = "assign"
  /\ assigned' = request.slot
  /\ Return([status |-> "assigned", slot |-> request.slot])
  /\ UNCHANGED <<drive, ram, registry, queued, history, spent>>

-----------------------------------------------------------------------------

(***************************************************************************)
(* Somebody at the panel, or another tool, changes the device: a +Drive    *)
(* file is removed or written, a slot is loaded or emptied, the Sound is   *)
(* given another slot, the power is cycled.                                *)
(***************************************************************************)
Panel ==
  /\ Spend("panel", MaxPanel)
  /\ \/ \E p \in Paths, c \in Contents \cup {None} :
          /\ drive' = [drive EXCEPT ![p] = c]
          /\ touched' = touched \cup {p}
          /\ UNCHANGED <<ram, assigned>>
     \/ \E s \in Slots, p \in Paths :
          /\ drive[p] # None
          /\ ram' = [ram EXCEPT ![s] = [path |-> p, content |-> drive[p]]]
          /\ touched' = touched \cup {s}
          /\ UNCHANGED <<drive, assigned>>
     \/ \E s \in Slots :
          /\ assigned' = s
          /\ touched' = touched \cup {s}
          /\ UNCHANGED <<drive, ram>>
     \/ /\ ram' = [s \in Slots |-> None]
        /\ touched' = touched \cup Slots
        /\ UNCHANGED <<drive, assigned>>
  /\ UNCHANGED <<registry, step, request, found, queued, answers, answer>>

LoadRegistry == file

(***************************************************************************)
(* The daemon dies and is started again: load_registry, and the queued     *)
(* sets from the scheduler's file.                                         *)
(***************************************************************************)
Crash ==
  /\ Spend("crashes", MaxCrashes)
  /\ samples' = LoadRegistry
  /\ Return(None)
  /\ UNCHANGED <<device, file, queued, history>>

Upload == Match \/ Look \/ Send \/ Readback \/ Fetch \/ Register
ResolveRam == Resolve \/ Load
ClearRam == CheckClear \/ Clear
Assignments == Validate \/ Due \/ Assign

Daemon ==
  \/ \E r \in Requests : Begin(r)
  \/ CliFails
  \/ Upload
  \/ Inspect
  \/ ResolveRam
  \/ ClearRam
  \/ Confirm
  \/ Record
  \/ Assignments

Next == Daemon \/ Panel \/ Crash

Spec == Init /\ [][Next]_vars

-----------------------------------------------------------------------------

Steps ==
  {"idle", "match", "look", "send", "readback", "fetch", "register", "read",
   "load", "confirm", "clear", "record", "assign"}

TypeOK ==
  /\ drive \in [Paths -> Contents \cup {None}]
  /\ ram \in [Slots -> [path: Paths, content: Contents] \cup {None}]
  /\ assigned \in Slots \cup {None}
  /\ samples \subseteq Samples
  /\ file \subseteq Samples
  /\ \A m, n \in samples : SameId(m, n) => m = n
  /\ \A m \in file : \E n \in samples : SameId(m, n)
  /\ step \in Steps
  /\ request \in Requests \cup {None}
  /\ step = "idle" <=> request = None
  /\ queued \subseteq [sample: Samples, slot: Slots]
  /\ touched \subseteq Paths \cup Slots
  /\ {answered, unsaved} \subseteq SUBSET Samples

ByDaemon == spent'.panel = spent.panel /\ spent'.crashes = spent.crashes

(***************************************************************************)
(* The daemon writes over nothing: a +Drive file it creates had a free     *)
(* name, and a slot it loads was empty and the sample in no other slot,    *)
(* unless somebody else changed the place after the daemon last read it.   *)
(***************************************************************************)
NothingReplaced ==
  [][ByDaemon =>
       /\ \A p \in Paths \ touched : drive'[p] # drive[p] => drive[p] = None
       /\ \A s \in Slots \ touched : ram'[s] # ram[s] /\ ram'[s] # None =>
            \A other \in Slots \ touched :
              \/ ram[other] = None
              \/ other # s /\ ram[other].path # ram'[s].path]_device

(***************************************************************************)
(* The daemon empties a RAM slot only of the sample the client named, and  *)
(* never one the track plays, with the same exception.                     *)
(***************************************************************************)
ClearsOnlyTheNamed ==
  [][ByDaemon =>
       \A s \in Slots \ touched : ram[s] # None /\ ram'[s] = None =>
         assigned # s /\ ram[s].path = request.sample.path]_device

(***************************************************************************)
(* The Sound is given a slot only while that slot holds the path of the    *)
(* sample the operation names, however long the set waited for its         *)
(* boundary, with the same exception.                                      *)
(***************************************************************************)
AssignsTheNamed ==
  [][ByDaemon =>
       \A s \in Slots \ touched :
         step = "assign" /\ assigned' = s => Holds(s, request.sample.path)]_vars

(***************************************************************************)
(* What an answer says of the RAM was so when the daemon last looked:      *)
(* loaded and resolved slots hold the sample, cleared ones are empty,      *)
(* though the CLI reports success for calls that did nothing.              *)
(***************************************************************************)
AnswersWereTrue ==
  [][ByDaemon /\ request # None /\ answer' # None
       /\ "slot" \in DOMAIN answer' /\ answer'.slot \notin touched =>
       /\ request.op = "resolve" => Holds(answer'.slot, request.sample.path)
       /\ request.op = "clear" => ram[answer'.slot] = None]_vars

(***************************************************************************)
(* An id an upload returned, as new or as already present, is known to     *)
(* every later daemon, whatever writes of the registry fail before and     *)
(* after; but for one whose own upload was refused because its record      *)
(* could not be written, until a later write carries it: a repeated upload *)
(* finds it in memory and returns it.                                      *)
(***************************************************************************)
RegisteredIdsSurvive ==
  \A m \in answered \ unsaved : \E n \in file : SameId(m, n)

(***************************************************************************)
(* What HARDWARE_SETUP.md says of restarts: registry state survives them,  *)
(* so the daemon knows every id an upload returned.                        *)
(***************************************************************************)
ReturnedIdsAreKnown == \A m \in answered : \E n \in samples : SameId(m, n)
=============================================================================
