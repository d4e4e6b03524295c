--------------------------- MODULE TransportClock ---------------------------
(***************************************************************************)
(* The transport as a state machine: everything that moves it (MIDI clock, *)
(* transport messages, pattern changes, observations, reconnects) against  *)
(* one boundary a client is waiting for.  The question is whether the      *)
(* absolute step a boundary was resolved to is the musical moment that was *)
(* asked for when the clock gets there.                                    *)
(*                                                                         *)
(* One waiting boundary is enough: boundaries never influence each other   *)
(* or the transport.                                                       *)
(***************************************************************************)
EXTENDS Transport

CONSTANTS
  NoBoundary,   \* nothing waits, nothing fired
  MaxEpoch,     \* bound on the epochs begun
  MaxStep       \* bound on the absolute step

ASSUME BoundAssumption == MaxEpoch \in Nat /\ MaxStep \in Nat

VARIABLES
  transport,   \* the scheduler's transport record
  idCounter,   \* number of the next epoch
  waiting,     \* the queued boundary, or NoBoundary
  fired        \* the boundary the last step made due, or NoBoundary

vars == <<transport, idCounter, waiting, fired>>

Policies == {"reject", "roll_forward"}

(***************************************************************************)
(* at and policy are the client's, target the daemon's.  The rest is       *)
(* history: missed says that a boundary of that kind went by unused,        *)
(* steady that neither the pattern, its length nor the position was        *)
(* changed under the request.                                              *)
(***************************************************************************)
Waiting ==
  [at: ApplyAt, policy: Policies, target: BoundaryTarget,
   missed: BOOLEAN, steady: BOOLEAN]

Fired == [boundary: Waiting, transport: TransportState]

Enqueued(t, at, policy) ==
  [at |-> at, policy |-> policy, target |-> Resolve(t, at),
   missed |-> FALSE, steady |-> TRUE]

(***************************************************************************)
(* Is the transport, on the step it just moved to, at the boundary asked   *)
(* for?                                                                    *)
(***************************************************************************)
AtBoundary(t, at) ==
  IF at.kind = "pattern_step"
  THEN t.pattern = at.pattern /\ t.step = at.step
  ELSE at.kind \in BoundariesAt(t)

(***************************************************************************)
(* A new epoch settles what waits on the old one: reject it, or resolve    *)
(* the same boundary again and reject it when that fails.                  *)
(***************************************************************************)
Reconciled(w, t) ==
  IF w = NoBoundary \/ w.policy = "reject" THEN NoBoundary
  ELSE LET at == [w.at EXCEPT !.epoch = t.epoch]
       IN  IF Resolvable(t, at) THEN Enqueued(t, at, w.policy) ELSE NoBoundary

Disturbed(w) ==
  IF w = NoBoundary THEN w ELSE [w EXCEPT !.steady = FALSE]

-----------------------------------------------------------------------------

Init ==
  /\ transport = NewTransport
  /\ idCounter = 1
  /\ waiting = NoBoundary
  /\ fired = NoBoundary

NewEpoch(t) ==
  /\ idCounter <= MaxEpoch
  /\ transport' = t
  /\ idCounter' = idCounter + 1
  /\ waiting' = Reconciled(waiting, t)
  /\ fired' = NoBoundary

Reconnect ==
  \E pattern \in Patterns, length \in Lengths :
    NewEpoch(BeginEpoch(transport, idCounter, pattern, length))

StartTransport == NewEpoch(Start(transport, idCounter))

StopOrContinue ==
  \E playing \in BOOLEAN :
    /\ transport' = Playing(transport, playing)
    /\ fired' = NoBoundary
    /\ UNCHANGED <<idCounter, waiting>>

(***************************************************************************)
(* A MIDI clock, and the due check that follows it at once.                *)
(***************************************************************************)
MidiClock ==
  /\ transport.playing
  /\ transport.absoluteStep < MaxStep
  /\ LET t == Tick(transport)
     IN /\ transport' = t
        /\ \/ /\ waiting = NoBoundary
              /\ waiting' = NoBoundary
              /\ fired' = NoBoundary
           \/ /\ waiting # NoBoundary
              /\ IsDue(waiting.target, t)
              /\ waiting' = NoBoundary
              /\ fired' = [boundary |-> waiting, transport |-> t]
           \/ /\ waiting # NoBoundary
              /\ ~IsDue(waiting.target, t)
              /\ waiting' =
                   IF StepsNow(transport) /\ AtBoundary(t, waiting.at)
                   THEN [waiting EXCEPT !.missed = TRUE] ELSE waiting
              /\ fired' = NoBoundary
  /\ UNCHANGED idCounter

RequestPattern ==
  \E pattern \in Patterns, immediate \in BOOLEAN :
    /\ transport' = ChangePattern(transport, pattern, immediate)
    /\ waiting' = Disturbed(waiting)
    /\ fired' = NoBoundary
    /\ UNCHANGED idCounter

Observe ==
  \E pattern \in Patterns, length \in Lengths :
    LET t == Refreshed(transport, pattern, length)
    IN /\ transport' = t
       /\ waiting' = IF t = transport THEN waiting ELSE Disturbed(waiting)
       /\ fired' = NoBoundary
       /\ UNCHANGED idCounter

(***************************************************************************)
(* A client queues work at a boundary of the current epoch.  A request the *)
(* daemon cannot resolve changes nothing.                                  *)
(***************************************************************************)
Enqueue ==
  /\ transport.playing
  /\ waiting = NoBoundary
  /\ \E kind \in BoundaryKinds, pattern \in Patterns,
        step \in 0..(MaxLength - 1), policy \in Policies :
       LET at == [kind |-> kind, epoch |-> transport.epoch,
                  pattern |-> pattern, step |-> step]
       IN /\ kind # "pattern_step" => pattern = DefaultPattern /\ step = 0
          /\ Resolvable(transport, at)
          /\ waiting' = Enqueued(transport, at, policy)
  /\ fired' = NoBoundary
  /\ UNCHANGED <<transport, idCounter>>

Next ==
  \/ Reconnect \/ StartTransport \/ StopOrContinue \/ MidiClock
  \/ RequestPattern \/ Observe \/ Enqueue

Spec == Init /\ [][Next]_vars

-----------------------------------------------------------------------------
(* Type invariant: above all, the step stays inside the pattern, so that   *)
(* the u8 subtraction patternLength - step of resolve() cannot underflow.  *)
TypeOK ==
  /\ transport \in TransportState
  /\ transport.step < transport.patternLength
  /\ idCounter \in Nat
  /\ waiting \in Waiting \cup {NoBoundary}
  /\ fired \in Fired \cup {NoBoundary}

(***************************************************************************)
(* A waiting boundary belongs to the current epoch and lies ahead, and one *)
(* that fell due did so on exactly its step: no clock, reconnect, restart  *)
(* of the transport or pattern change makes the scheduler pass a target    *)
(* by or strand it in an epoch that is over.                               *)
(***************************************************************************)
NeverMissed ==
  /\ waiting # NoBoundary =>
       /\ waiting.target.epoch = transport.epoch
       /\ transport.absoluteStep < waiting.target.absoluteStep
  /\ fired # NoBoundary =>
       /\ fired.transport.epoch = fired.boundary.target.epoch
       /\ fired.transport.absoluteStep = fired.boundary.target.absoluteStep

(***************************************************************************)
(* Resolution is stable: as long as pattern, length and position are left  *)
(* alone, resolving the waiting request again at any later clock gives the *)
(* step it was given when it was queued (resolve() against tick()).        *)
(***************************************************************************)
StableResolution ==
  waiting # NoBoundary /\ waiting.steady =>
    /\ Resolvable(transport, waiting.at)
    /\ waiting.target = Resolve(transport, waiting.at)

(***************************************************************************)
(* The musical meaning: a boundary left alone fires at the moment it names *)
(* and at the first such moment, for the boundaries that tick() reports    *)
(* and for the steps of a pattern.                                         *)
(***************************************************************************)
FiresAtFirstBoundary ==
  fired # NoBoundary /\ fired.boundary.steady =>
    /\ AtBoundary(fired.transport, fired.boundary.at)
    /\ ~fired.boundary.missed

(***************************************************************************)
(* What the documents say of next_step, whatever else the client does:     *)
(* work queued for the next step is applied on the next step.  An          *)
(* immediate pattern change rewinds the absolute step inside the epoch and *)
(* so moves the target away again.                                         *)
(***************************************************************************)
NextStepIsNext ==
  fired # NoBoundary /\ fired.boundary.at.kind = "next_step" =>
    ~fired.boundary.missed

=============================================================================
