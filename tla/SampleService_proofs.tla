------------------------ MODULE SampleService_proofs ------------------------
(***************************************************************************)
(* What holds of the sample service for every set of paths, contents and   *)
(* slots, and for any number of requests, panel changes, failing calls and *)
(* restarts.                                                               *)
(***************************************************************************)
EXTENDS SampleService, WellFoundedInduction, TLAPS

(***************************************************************************)
(* A nonempty set of slots has a first one, which resolve_ram takes.       *)
(***************************************************************************)
LEMMA FirstIsOne ==
  ASSUME NEW slots \in SUBSET Slots, slots # {}
  PROVE  First(slots) \in slots
<1>1. \E s \in slots : \A t \in slots : ~ (<<t, s>> \in OpToRel(<, Nat))
  BY WFMin, NatLessThanWellFounded, SampleAssumption, Zenon
<1>2. PICK s \in slots : \A t \in slots : ~ (<<t, s>> \in OpToRel(<, Nat))
  BY <1>1
<1>3. slots \subseteq Nat
  BY SampleAssumption
<1>4. \A t \in slots : ~ (t < s)
  BY <1>2, <1>3, Zenon DEF OpToRel
<1>5. \A t \in slots : s <= t
  BY <1>3, <1>4
<1>6. QED  BY <1>5 DEF First

-----------------------------------------------------------------------------
(***************************************************************************)
(* The inductive invariant: the types; which request a step belongs to and *)
(* what the last read has decided; and that what was read still holds when *)
(* the daemon acts on it.  The ids of the registry have one of their own.  *)
(***************************************************************************)
SpentOK == spent \in [requests: Nat, panel: Nat, cli: Nat, persists: Nat,
                      crashes: Nat]

DeviceOK ==
  /\ drive \in [Paths -> Contents \cup {None}]
  /\ ram \in [Slots -> [path: Paths, content: Contents] \cup {None}]
  /\ assigned \in Slots \cup {None}
  /\ touched \subseteq Paths \cup Slots

Uploads == [op: {"upload"}, path: Paths, content: Contents]
Resolves == [op: {"resolve"}, sample: Samples, slot: Slots \cup {None}]
Clears == [op: {"clear"}, sample: Samples, slot: Slots]
Applies == [op: {"apply"}, sample: Samples, slot: Slots]
Inspections == [op: {"inspect"}]

(***************************************************************************)
(* Which request a step belongs to, and what the last read has decided.    *)
(***************************************************************************)
UploadOK ==
  /\ step \in {"match", "look", "send", "readback", "fetch", "register"} =>
       request \in Uploads
  /\ step = "match" => found \in Samples
  /\ step = "fetch" => found \in [checksum: Contents]
  /\ step = "register" => found \in Samples

RequestOK ==
  /\ step \in Steps
  /\ request \in Requests \cup {None}
  /\ step = "idle" <=> request = None
  /\ step = "read" => request \in Requests
  /\ step = "load" => request \in Resolves
  /\ step = "clear" => request \in Clears
  /\ step = "confirm" => request \in Resolves \cup Clears
  /\ step = "record" => request \in Resolves \cup Clears \cup Inspections
  /\ step = "assign" => request \in Applies
  /\ step \in {"load", "clear", "confirm"} => found.slot \in Slots
  /\ step = "record" /\ "slot" \in DOMAIN found => found.slot \in Slots
  /\ request \in Resolves \cup Clears => answer = None

RegistryOK ==
  /\ samples \subseteq Samples
  /\ file \subseteq Samples
  /\ answered \subseteq Samples
  /\ unsaved \subseteq Samples
  /\ queued \subseteq [sample: Samples, slot: Slots]

TypeInv == SpentOK /\ DeviceOK /\ UploadOK /\ RequestOK /\ RegistryOK

(***************************************************************************)
(* What the daemon last read of a place still holds when it acts on it,    *)
(* unless others changed the place.                                        *)
(***************************************************************************)
SendOK ==
  step = "send" /\ request.path \notin touched => FreeName(request.path)

LoadOK ==
  step = "load" =>
    /\ found.slot \notin touched => Empty(found.slot)
    /\ \A s \in Slots \ touched : ~Holds(s, request.sample.path)

ClearOK ==
  step = "clear" /\ found.slot \notin touched =>
    Clearable(request.sample, found.slot)

AssignOK ==
  step = "assign" /\ request.slot \notin touched =>
    Holds(request.slot, request.sample.path)

RecordOK ==
  step = "record" /\ "slot" \in DOMAIN found /\ found.slot \notin touched =>
    /\ request \in Resolves => Holds(found.slot, request.sample.path)
    /\ request \in Clears => Empty(found.slot)

ViewInv == SendOK /\ LoadOK /\ ClearOK /\ AssignOK /\ RecordOK

IInv == TypeInv /\ ViewInv

-----------------------------------------------------------------------------
(***************************************************************************)
(* Every step keeps the types and the daemon's place in its request.       *)
(***************************************************************************)
LEMMA TypeStep == TypeInv /\ [Next]_vars => TypeInv'
<1> SUFFICES ASSUME TypeInv, [Next]_vars
             PROVE  TypeInv'
  OBVIOUS
<1> USE NoneAssumption
    DEF TypeInv, SpentOK, DeviceOK, UploadOK, RequestOK, RegistryOK, Requests,
        Uploads, Resolves, Clears, Applies, Inspections, Samples, Steps,
        device, registry, answers, history, vars
<1>1. CASE \E r \in Requests : Begin(r)
  BY <1>1 DEF Begin, Spend
<1>2. CASE CliFails
  BY <1>2 DEF CliFails, Refuse, Spend, Return
<1>3. CASE Match
  BY <1>3 DEF Match, Return
<1>4. CASE Look
  BY <1>4 DEF Look, Refuse, Return
<1>5. CASE Send
  BY <1>5 DEF Send, RunCli, Refuse, Spend, Return
<1>6. CASE Readback
  BY <1>6 DEF Readback, Refuse, Return
<1>7. CASE Fetch
  BY <1>7 DEF Fetch, Refuse, Return
<1>8. CASE Register
  BY <1>8 DEF Register, Persist, Return, Refuse, Spend
<1>9. CASE Inspect
  BY <1>9 DEF Inspect
<1>10. CASE Resolve
  <2>1. Loaded(request.sample) # {} =>
          First(Loaded(request.sample)) \in Slots
    BY FirstIsOne DEF Loaded
  <2>2. RequestOK'
    BY <1>10, <2>1, FirstIsOne DEF Resolve, Refuse, Return
  <2>3. SpentOK' /\ DeviceOK' /\ UploadOK' /\ RegistryOK'
    BY <1>10 DEF Resolve, Refuse, Return
  <2>4. QED  BY <2>2, <2>3
<1>11. CASE Load
  BY <1>11 DEF Load, Refuse, RunCli, Spend, Return
<1>12. CASE Confirm
  BY <1>12 DEF Confirm, Refuse, Return
<1>13. CASE Record
  BY <1>13 DEF Record, Persist, Return, Refuse, Spend
<1>14. CASE CheckClear
  BY <1>14 DEF CheckClear, Refuse, Return
<1>15. CASE Clear
  BY <1>15 DEF Clear, RunCli, Refuse, Spend, Return
<1>16. CASE Validate
  BY <1>16 DEF Validate, Return, Refuse
<1>17. CASE Due
  BY <1>17 DEF Due, Refuse, Return
<1>18. CASE Assign
  BY <1>18 DEF Assign, Return
<1>19. CASE Panel
  BY <1>19 DEF Panel, Spend
<1>20. CASE Crash
  BY <1>20 DEF Crash, Return, Spend, LoadRegistry
<1>21. CASE UNCHANGED vars
  BY <1>21
<1>22. QED
  BY <1>1, <1>2, <1>3, <1>4, <1>5, <1>6, <1>7, <1>8, <1>9, <1>10, <1>11, <1>12,
      <1>13, <1>14, <1>15, <1>16, <1>17, <1>18, <1>19, <1>20, <1>21
      DEF Next, Daemon, Upload, ResolveRam, ClearRam, Assignments

(***************************************************************************)
(* What the daemon read stays true until it acts, or the place is touched. *)
(***************************************************************************)
LEMMA ViewStep == TypeInv /\ ViewInv /\ [Next]_vars => ViewInv'
<1> SUFFICES ASSUME TypeInv, ViewInv, [Next]_vars
             PROVE  ViewInv'
  OBVIOUS
<1> USE NoneAssumption
    DEF TypeInv, DeviceOK, UploadOK, RequestOK, ViewInv, SendOK, LoadOK,
        ClearOK, AssignOK, RecordOK, Requests, Uploads, Resolves, Clears,
        Applies, Inspections, Samples, device, registry, answers, history, vars, Holds,
        Empty
<1>1. CASE \E r \in Requests : Begin(r)
  BY <1>1 DEF Begin, Spend
<1>2. CASE CliFails
  BY <1>2 DEF CliFails, Refuse, Spend, Return
<1>3. CASE Match
  BY <1>3 DEF Match, Return
<1>4. CASE Look
  BY <1>4 DEF Look, Refuse, FreeName, Return
<1>5. CASE Send
  BY <1>5 DEF Send, RunCli, Refuse, Spend, Return, FreeName
<1>6. CASE Readback
  BY <1>6 DEF Readback, Refuse, Return
<1>7. CASE Fetch
  BY <1>7 DEF Fetch, Refuse, Return
<1>8. CASE Register
  BY <1>8 DEF Register, Persist, Return, Refuse, Spend
<1>9. CASE Inspect
  BY <1>9 DEF Inspect
<1>10. CASE Resolve
  BY <1>10, FirstIsOne DEF Resolve, Refuse, Loaded, Return
<1>11. CASE Load
  BY <1>11 DEF Load, Refuse, RunCli, Spend, Return
<1>12. CASE Confirm
  BY <1>12 DEF Confirm, Refuse, Verified, Return
<1>13. CASE Record
  BY <1>13 DEF Record, Persist, Return, Refuse, Spend
<1>14. CASE CheckClear
  BY <1>14 DEF CheckClear, Refuse, Clearable, Return
<1>15. CASE Clear
  BY <1>15 DEF Clear, RunCli, Refuse, Spend, Return, Clearable
<1>16. CASE Validate
  BY <1>16 DEF Validate, Return, Refuse, Valid
<1>17. CASE Due
  BY <1>17 DEF Due, Refuse, ValidWhenDue, Valid, Return
<1>18. CASE Assign
  BY <1>18 DEF Assign, Return
<1>19. CASE Panel
  BY <1>19 DEF Panel, Spend, FreeName, Clearable
<1>20. CASE Crash
  BY <1>20 DEF Crash, Return, Spend, LoadRegistry
<1>21. CASE UNCHANGED vars
  BY <1>21 DEF FreeName, Clearable
<1>22. QED
  BY <1>1, <1>2, <1>3, <1>4, <1>5, <1>6, <1>7, <1>8, <1>9, <1>10, <1>11, <1>12,
      <1>13, <1>14, <1>15, <1>16, <1>17, <1>18, <1>19, <1>20, <1>21
      DEF Next, Daemon, Upload, ResolveRam, ClearRam, Assignments

-----------------------------------------------------------------------------
(***************************************************************************)
(* The daemon starts with nothing read and nothing to do.                  *)
(***************************************************************************)
LEMMA InitInv == Init => IInv
  BY NoneAssumption
     DEF Init, IInv, TypeInv, ViewInv, SpentOK, DeviceOK, UploadOK, RequestOK,
         RegistryOK, SendOK, LoadOK, ClearOK, AssignOK, RecordOK, Steps,
         Uploads, Resolves, Clears, Requests

(***************************************************************************)
(* The inductive invariant holds in every reachable state.                 *)
(***************************************************************************)
LEMMA Invariant == Spec => []IInv
<1>1. Init => IInv
  BY InitInv
<1>2. IInv /\ [Next]_vars => IInv'
  BY TypeStep, ViewStep DEF IInv
<1>3. QED  BY <1>1, <1>2, PTL DEF Spec

(***************************************************************************)
(* The registry: an id names one sample, in memory and in the file; memory *)
(* knows the ids of the file, and the file those of memory and those that  *)
(* were returned, but for samples that were refused because their record   *)
(* could not be written.  A sample found by its declaration is known.      *)
(***************************************************************************)
IdsOK ==
  /\ \A m, n \in samples : SameId(m, n) => m = n
  /\ \A m, n \in file : SameId(m, n) => m = n
  /\ \A m \in file : \E n \in samples : SameId(m, n)
  /\ \A m \in samples \ unsaved : \E n \in file : SameId(m, n)
  /\ RegisteredIdsSurvive

FoundIsKnown == step = "match" => found \in samples

(***************************************************************************)
(* What the registry keeps when a record joins it, or none does.           *)
(***************************************************************************)
LEMMA PersistIds ==
  ASSUME IdsOK, NEW known, NEW new, NEW reply, Persist(known, new, reply),
         new \subseteq known, known \subseteq samples \cup new,
         \A m, n \in known : SameId(m, n) => m = n,
         \A m \in samples : \E n \in known : SameId(m, n)
  PROVE  IdsOK'
<1>1. \A m \in file : \E n \in known : SameId(m, n)
  BY DEF IdsOK, SameId
<1>2. samples' = known
  BY DEF Persist
<1>3. CASE /\ file' = known /\ answered' = answered \cup new
           /\ unsaved' = {m \in unsaved : \A n \in known : ~SameId(m, n)}
  <2>1. ASSUME NEW m \in answered' \ unsaved'
        PROVE  \E n \in known : SameId(m, n)
    <3>1. CASE m \in new
      BY <3>1 DEF SameId
    <3>2. CASE m \in answered \ unsaved
      BY <1>1, <3>2 DEF IdsOK, RegisteredIdsSurvive, SameId
    <3>3. CASE m \in unsaved
      BY <1>3, <2>1, <3>3
    <3>4. QED  BY <1>3, <2>1, <3>1, <3>2, <3>3
  <2>2. QED
    BY <1>2, <1>3, <2>1 DEF IdsOK, RegisteredIdsSurvive, SameId
<1>4. CASE UNCHANGED <<file, answered>> /\ unsaved' = unsaved \cup new
  BY <1>1, <1>2, <1>4 DEF IdsOK, RegisteredIdsSurvive, SameId
<1>5. QED  BY <1>3, <1>4 DEF Persist

(***************************************************************************)
(* Every step keeps the ids; only persist, a restart and a repeated upload *)
(* could lose one.                                                         *)
(***************************************************************************)
LEMMA IdsStep ==
  FoundIsKnown /\ IdsOK /\ [Next]_vars => FoundIsKnown' /\ IdsOK'
<1> SUFFICES ASSUME FoundIsKnown, IdsOK, [Next]_vars
             PROVE  FoundIsKnown' /\ IdsOK'
  OBVIOUS
<1>1. FoundIsKnown'
  BY DEF FoundIsKnown, Next, Daemon, Upload, ResolveRam, ClearRam, Assignments,
     Begin, CliFails, Match, Look, Send, Readback, Fetch, Register, Inspect,
     Resolve, Load, Confirm, Record, CheckClear, Clear, Validate, Due, Assign,
     Panel, Crash, Persist, RunCli, Refuse, Return, registry, vars
<1>2. ASSUME UNCHANGED <<registry, answers>>
      PROVE  IdsOK'
  BY <1>2 DEF IdsOK, RegisteredIdsSurvive, SameId, registry, answers
<1>3. CASE Register
  <2> DEFINE known == {m \in samples : ~SameId(m, found)} \cup {found}
  <2>1. \A m, n \in known : SameId(m, n) => m = n
    BY DEF IdsOK, SameId
  <2>2. \A m \in samples : \E n \in known : SameId(m, n)
    BY DEF SameId
  <2>3. PICK reply : Persist(known, {found}, reply)
    BY <1>3 DEF Register
  <2>4. {found} \subseteq known /\ known \subseteq samples \cup {found}
    OBVIOUS
  <2> HIDE DEF known
  <2>5. QED  BY <1>1, <2>1, <2>2, <2>3, <2>4, PersistIds
<1>4. CASE Record
  <2>1. Persist(samples, {}, found)
    BY <1>4 DEF Record
  <2>2. \A m \in samples : \E n \in samples : SameId(m, n)
    BY DEF SameId
  <2>3. \A m, n \in samples : SameId(m, n) => m = n
    BY DEF IdsOK
  <2>4. QED  BY <1>1, <2>1, <2>2, <2>3, PersistIds
<1>5. CASE Match
  <2>1. found \in samples /\ UNCHANGED <<registry, unsaved>>
    BY <1>5 DEF Match, FoundIsKnown
  <2>2. answered' \subseteq answered \cup {found}
    BY <1>5 DEF Match
  <2>3. QED
    BY <1>1, <2>1, <2>2 DEF IdsOK, RegisteredIdsSurvive, SameId, registry
<1>6. CASE Crash
  BY <1>1, <1>6
     DEF Crash, LoadRegistry, IdsOK, RegisteredIdsSurvive, SameId, history, answers
<1>7. CASE UNCHANGED <<registry, answers>>
  BY <1>1, <1>2, <1>7
<1>8. QED
  BY <1>3, <1>4, <1>5, <1>6, <1>7
     DEF Next, Daemon, Upload, ResolveRam, ClearRam, Assignments, Begin,
         CliFails, Look, Send, Readback, Fetch, Inspect, Resolve, Load,
         Confirm, CheckClear, Clear, Validate, Due, Assign, Panel, registry,
         history, answers, vars

(***************************************************************************)
(* The registry keeps its ids through failing writes and restarts.         *)
(***************************************************************************)
LEMMA IdsInvariant == Spec => []IdsOK
<1>1. Init => FoundIsKnown /\ IdsOK
  BY DEF Init, FoundIsKnown, IdsOK, RegisteredIdsSurvive
<1>2. QED  BY <1>1, IdsStep, PTL DEF Spec

-----------------------------------------------------------------------------
(***************************************************************************)
(* Type correctness.  An id names at most one sample, and a restarted      *)
(* daemon knows no sample the dying one did not.                           *)
(***************************************************************************)
THEOREM TypeCorrect == Spec => []TypeOK
<1>1. IInv /\ IdsOK => TypeOK
  BY DEF IInv, TypeInv, DeviceOK, RequestOK, RegistryOK, IdsOK, TypeOK
<1>2. QED  BY <1>1, Invariant, IdsInvariant, PTL

(***************************************************************************)
(* An id an upload returned, as new or as already present, is never lost:  *)
(* every later daemon knows it, whatever writes of the registry failed     *)
(* before and after.  The one exception is a sample whose own upload was   *)
(* refused because its record could not be written, as long as no later    *)
(* write carries it: the code returns it from memory.                      *)
(***************************************************************************)
THEOREM IdsSurvive == Spec => []RegisteredIdsSurvive
<1>1. IdsOK => RegisteredIdsSurvive
  BY DEF IdsOK
<1>2. QED  BY <1>1, IdsInvariant, PTL

(***************************************************************************)
(* A step of the daemon is none of the panel's, and no restart.            *)
(***************************************************************************)
LEMMA DaemonSteps ==
  ASSUME TypeInv, [Next]_vars, ByDaemon
  PROVE  Daemon \/ UNCHANGED vars
<1>1. ~Panel
  BY DEF Panel, Spend, TypeInv, SpentOK, ByDaemon
<1>2. ~Crash
  BY DEF Crash, Spend, TypeInv, SpentOK, ByDaemon
<1>3. QED  BY <1>1, <1>2 DEF Next

(***************************************************************************)
(* Of the daemon's steps only Send writes the +Drive, only Load and Clear  *)
(* the RAM, and only Assign the Sound.                                     *)
(***************************************************************************)
LEMMA DeviceSteps ==
  ASSUME TypeInv, [Next]_vars, ByDaemon
  PROVE  /\ drive' = drive \/ Send
         /\ ram' = ram \/ Load \/ Clear
         /\ assigned' = assigned \/ Assign
  BY DaemonSteps
     DEF Daemon, Upload, ResolveRam, ClearRam, Assignments, Begin, CliFails,
         Match, Look, Send, Readback, Fetch, Register, Inspect, Resolve, Load,
         Confirm, Record, CheckClear, Clear, Validate, Due, Assign, device,
         vars

(***************************************************************************)
(* Unless others interfere between its last look and its call, the daemon  *)
(* replaces no +Drive file and no loaded RAM slot, and loads no sample     *)
(* twice.                                                                  *)
(***************************************************************************)
THEOREM ReplacesNothing == Spec => NothingReplaced
<1> DEFINE Kept ==
      ByDaemon =>
       /\ \A p \in Paths \ touched : drive'[p] # drive[p] => drive[p] = None
       /\ \A s \in Slots \ touched : ram'[s] # ram[s] /\ ram'[s] # None =>
            \A other \in Slots \ touched :
              \/ ram[other] = None
              \/ other # s /\ ram[other].path # ram'[s].path
<1>1. IInv /\ [Next]_vars => [Kept]_device
  <2> SUFFICES ASSUME IInv, [Next]_vars, ByDaemon
               PROVE  Kept
    OBVIOUS
  <2>1. ASSUME NEW p \in Paths \ touched, drive'[p] # drive[p]
        PROVE  drive[p] = None
    <3>1. Send
      BY <2>1, DeviceSteps DEF IInv
    <3>2. p = request.path
      BY <2>1, <3>1 DEF Send, RunCli, IInv, TypeInv, DeviceOK
    <3>3. QED
      BY <2>1, <3>1, <3>2 DEF Send, IInv, ViewInv, SendOK, FreeName
  <2>2. ASSUME NEW s \in Slots \ touched, ram'[s] # ram[s], ram'[s] # None,
               NEW other \in Slots \ touched
        PROVE  \/ ram[other] = None
               \/ other # s /\ ram[other].path # ram'[s].path
    <3>1. ram' = ram \/ Load \/ Clear
      BY DeviceSteps DEF IInv
    <3>2. ~Clear
      BY <2>2 DEF Clear, RunCli, IInv, TypeInv, DeviceOK
    <3>3. Load
      BY <2>2, <3>1, <3>2
    <3>4. s = found.slot /\ ram'[s].path = request.sample.path
      BY <2>2, <3>3 DEF Load, RunCli, Refuse, IInv, TypeInv, DeviceOK
    <3>5. Empty(s) /\ ~Holds(other, request.sample.path)
      BY <2>2, <3>3, <3>4 DEF Load, IInv, ViewInv, LoadOK
    <3>6. QED  BY <3>4, <3>5 DEF Empty, Holds
  <2>3. QED  BY <2>1, <2>2
<1>2. QED  BY <1>1, Invariant, PTL DEF Spec, NothingReplaced

(***************************************************************************)
(* Under the same condition it empties a slot only of the sample named,    *)
(* and none that the track plays.                                          *)
(***************************************************************************)
THEOREM ClearsTheNamed == Spec => ClearsOnlyTheNamed
<1> DEFINE Named ==
      ByDaemon =>
       \A s \in Slots \ touched : ram[s] # None /\ ram'[s] = None =>
         assigned # s /\ ram[s].path = request.sample.path
<1>1. IInv /\ [Next]_vars => [Named]_device
  <2> SUFFICES ASSUME IInv, [Next]_vars, ByDaemon,
                      NEW s \in Slots \ touched, ram[s] # None, ram'[s] = None
               PROVE  assigned # s /\ ram[s].path = request.sample.path
    OBVIOUS
  <2>1. ram' = ram \/ Load \/ Clear
    BY DeviceSteps DEF IInv
  <2>2. ~Load
    BY NoneAssumption
       DEF Load, RunCli, Refuse, IInv, TypeInv, DeviceOK, RequestOK, Resolves,
           Samples
  <2>3. Clear
    BY <2>1, <2>2
  <2>4. s = found.slot
    BY <2>3 DEF Clear, RunCli, IInv, TypeInv, DeviceOK
  <2>5. QED
    BY <2>3, <2>4 DEF Clear, IInv, ViewInv, ClearOK, Clearable, Holds
<1>2. QED  BY <1>1, Invariant, PTL DEF Spec, ClearsOnlyTheNamed

(***************************************************************************)
(* Under the same condition the Sound is given a slot only while it holds  *)
(* the sample the operation names, though the set waited for a boundary.   *)
(***************************************************************************)
THEOREM AssignsNamed == Spec => AssignsTheNamed
<1> DEFINE Named ==
      ByDaemon =>
       \A s \in Slots \ touched :
         step = "assign" /\ assigned' = s => Holds(s, request.sample.path)
<1>1. IInv /\ [Next]_vars => [Named]_vars
  <2> SUFFICES ASSUME IInv, [Next]_vars, ByDaemon, vars' # vars,
                      NEW s \in Slots \ touched,
                      step = "assign", assigned' = s
               PROVE  Holds(s, request.sample.path)
    OBVIOUS
  <2>1. Daemon
    BY DaemonSteps DEF IInv
  <2>2. Assign
    BY <2>1
       DEF Daemon, Upload, ResolveRam, ClearRam, Assignments, Begin, CliFails,
           Match, Look, Send, Readback, Fetch, Register, Inspect, Resolve,
           Load, Confirm, Record, CheckClear, Clear, Validate, Due
  <2>3. QED  BY <2>2 DEF Assign, IInv, ViewInv, AssignOK
<1>2. QED  BY <1>1, Invariant, PTL DEF Spec, AssignsTheNamed

(***************************************************************************)
(* What an answer says of a slot was so when the daemon last looked, even  *)
(* when calls report success and have done nothing.                        *)
(***************************************************************************)
THEOREM AnswersTrue == Spec => AnswersWereTrue
<1> DEFINE Told ==
      ByDaemon /\ request # None /\ answer' # None
       /\ "slot" \in DOMAIN answer' /\ answer'.slot \notin touched =>
       /\ request.op = "resolve" => Holds(answer'.slot, request.sample.path)
       /\ request.op = "clear" => ram[answer'.slot] = None
<1>1. IInv /\ [Next]_vars => [Told]_vars
  <2> SUFFICES ASSUME IInv, [Next]_vars, ByDaemon, vars' # vars,
                      request.op \in {"resolve", "clear"},
                      request # None, answer' # None,
                      "slot" \in DOMAIN answer', answer'.slot \notin touched
               PROVE  /\ request.op = "resolve" =>
                           Holds(answer'.slot, request.sample.path)
                      /\ request.op = "clear" => ram[answer'.slot] = None
    OBVIOUS
  <2>1. request \in Resolves \cup Clears /\ answer = None
    BY DEF IInv, TypeInv, RequestOK, Requests, Resolves, Clears
  <2>2. Daemon
    BY DaemonSteps DEF IInv
  <2>3. Record /\ answer' = found
    BY <2>1, <2>2
       DEF Daemon, Upload, ResolveRam, ClearRam, Assignments, Begin, CliFails,
           Match, Look, Send, Readback, Fetch, Register, Inspect, Resolve,
           Load, Confirm, Record, CheckClear, Clear, Validate, Due, Assign,
           Return, Refuse, RunCli, Persist, IInv, TypeInv, UploadOK, RequestOK,
           Uploads, Resolves, Clears, Applies
  <2>4. QED
    BY <2>1, <2>3
       DEF Record, IInv, ViewInv, RecordOK, Empty, Resolves, Clears
<1>2. QED  BY <1>1, Invariant, PTL DEF Spec, AnswersWereTrue
=============================================================================
