----------------------- MODULE TransportClock_proofs -----------------------
(***************************************************************************)
(* What holds of the transport clock for every number of clocks per step,  *)
(* steps per beat and beats per measure, every set of patterns and every   *)
(* pattern length up to MaxLength.                                         *)
(***************************************************************************)
EXTENDS TransportClock, TLAPS

-----------------------------------------------------------------------------
(***************************************************************************)
(* Arithmetic of the clock: remainders, quotients and next multiples.      *)
(***************************************************************************)
LEMMA DivisionFacts ==
  ASSUME NEW a \in Nat, NEW n \in Nat \ {0}
  PROVE  /\ a % n \in Nat
         /\ a % n < n
         /\ a \div n \in Nat
         /\ a = n * (a \div n) + (a % n)
<1>1. a \div n \in Nat
  OBVIOUS
<1>2. a = n * (a \div n) + (a % n)
  OBVIOUS
<1>3. a % n \in Nat
  OBVIOUS
<1>4. a % n < n
  OBVIOUS
<1>5. QED BY <1>1, <1>2, <1>3, <1>4

(***************************************************************************)
(* The measure is a positive number of steps.                              *)
(***************************************************************************)
LEMMA MeasurePositive == StepsPerMeasure \in Nat \ {0}
  BY ClockAssumption DEF StepsPerMeasure

(***************************************************************************)
(* next_multiple() lies ahead of the current step.                         *)
(***************************************************************************)
LEMMA NextMultipleAhead ==
  ASSUME NEW a \in Nat, NEW n \in Nat \ {0}
  PROVE  /\ NextMultiple(a, n) \in Nat
         /\ a < NextMultiple(a, n)
  BY DivisionFacts DEF NextMultiple

(***************************************************************************)
(* A pattern length is a positive number, so % patternLength is defined.   *)
(***************************************************************************)
LEMMA LengthsPositive == \A n \in Lengths : n \in Nat \ {0}
  BY ClockAssumption DEF Lengths

-----------------------------------------------------------------------------
(* The methods of the transport keep its type and its step in range.       *)

TransportOK(t) == t \in TransportState /\ t.step < t.patternLength

(***************************************************************************)
(* HardwareTransportState::new() starts inside the default pattern.        *)
(***************************************************************************)
LEMMA NewTransportOK == TransportOK(NewTransport)
  BY ClockAssumption DEF TransportOK, NewTransport, TransportState, Lengths

(***************************************************************************)
(* Setting all counters to zero keeps the type and lands on step 0.        *)
(***************************************************************************)
LEMMA RewoundOK ==
  ASSUME NEW t \in TransportState, TransportOK(t)
  PROVE  Rewound(t) \in TransportState /\ Rewound(t).step = 0
  BY DEF Rewound, TransportState

(***************************************************************************)
(* begin_epoch() lands on step 0 of whatever pattern the device reports.   *)
(***************************************************************************)
LEMMA BeginEpochOK ==
  ASSUME NEW t \in TransportState, TransportOK(t), NEW e \in Nat, NEW p \in Patterns,
         NEW n \in Lengths
  PROVE  TransportOK(BeginEpoch(t, e, p, n))
<1> DEFINE r == Rewound(t)
<1>1. r \in TransportState /\ r.step = 0
  BY RewoundOK
<1>2. BeginEpoch(t, e, p, n) =
        [r EXCEPT !.epoch = e, !.playing = FALSE,
                  !.pattern = p, !.patternLength = n]
  BY DEF BeginEpoch
<1> HIDE DEF r
<1>3. [r EXCEPT !.epoch = e, !.playing = FALSE,
                !.pattern = p, !.patternLength = n] \in TransportState
  BY <1>1 DEF TransportState
<1>4. BeginEpoch(t, e, p, n).step = 0 /\ BeginEpoch(t, e, p, n).patternLength = n
  BY <1>1, <1>2 DEF TransportState
<1>5. QED
  BY <1>2, <1>3, <1>4, LengthsPositive DEF TransportOK

(***************************************************************************)
(* start() lands on step 0 of the current pattern.                         *)
(***************************************************************************)
LEMMA StartOK ==
  ASSUME NEW t \in TransportState, TransportOK(t), NEW e \in Nat
  PROVE  TransportOK(Start(t, e))
<1> DEFINE r == Rewound(t)
<1>1. r \in TransportState /\ r.step = 0
  BY RewoundOK
<1>2. Start(t, e) = [r EXCEPT !.epoch = e, !.playing = TRUE]
  BY DEF Start
<1> HIDE DEF r
<1>3. [r EXCEPT !.epoch = e, !.playing = TRUE] \in TransportState
  BY <1>1 DEF TransportState
<1>4. Start(t, e).step = 0 /\ Start(t, e).patternLength \in Lengths
  BY <1>1, <1>2 DEF TransportState
<1>5. QED
  BY <1>2, <1>3, <1>4, LengthsPositive DEF TransportOK

(***************************************************************************)
(* Setting the playing flag, as set_transport() does for stop and          *)
(* continue, leaves the position where it was.                             *)
(***************************************************************************)
LEMMA PlayingOK ==
  ASSUME NEW t \in TransportState, TransportOK(t), NEW b \in BOOLEAN
  PROVE  TransportOK(Playing(t, b))
  BY DEF TransportOK, Playing, TransportState

(***************************************************************************)
(* change_pattern() keeps the step inside the length it leaves in place.   *)
(***************************************************************************)
LEMMA ChangePatternOK ==
  ASSUME NEW t \in TransportState, TransportOK(t), NEW p \in Patterns, NEW b \in BOOLEAN
  PROVE  TransportOK(ChangePattern(t, p, b))
<1>1. ChangePattern(t, p, b) \in TransportState
  BY DEF ChangePattern, TransportState
<1>2. /\ ChangePattern(t, p, b).step \in {0, t.step}
      /\ ChangePattern(t, p, b).patternLength = t.patternLength
  BY DEF ChangePattern, TransportState
<1>3. QED
  BY <1>1, <1>2, LengthsPositive DEF TransportOK, TransportState

(***************************************************************************)
(* refresh_transport_from_summary() folds the step into the new length.    *)
(***************************************************************************)
LEMMA RefreshedOK ==
  ASSUME NEW t \in TransportState, TransportOK(t), NEW p \in Patterns, NEW n \in Lengths
  PROVE  TransportOK(Refreshed(t, p, n))
<1>1. t.step % n \in Nat /\ t.step % n < n
  BY DivisionFacts, LengthsPositive DEF TransportOK, TransportState
<1>2. QED
  BY <1>1 DEF TransportOK, Refreshed, TransportState

(***************************************************************************)
(* tick() keeps the step inside the pattern, stays in its epoch and moves  *)
(* the absolute step by at most one.                                       *)
(***************************************************************************)
LEMMA TickOK ==
  ASSUME NEW t \in TransportState, TransportOK(t)
  PROVE  /\ TransportOK(Tick(t))
         /\ Tick(t).epoch = t.epoch
         /\ Tick(t).absoluteStep \in {t.absoluteStep, t.absoluteStep + 1}
<1> DEFINE abs == t.absoluteStep + 1
<1>1. CASE ~t.playing
  BY <1>1 DEF Tick, TransportOK, TransportState
<1>2. CASE t.playing /\ ~StepsNow(t)
  BY <1>2 DEF Tick, TransportOK, TransportState
<1>3. CASE t.playing /\ StepsNow(t)
  <2>1. /\ (t.step + 1) % t.patternLength \in Nat
        /\ (t.step + 1) % t.patternLength < t.patternLength
    BY DivisionFacts, LengthsPositive DEF TransportOK, TransportState
  <2>2. (abs \div StepsPerBeat) % BeatsPerMeasure \in Nat
    BY DivisionFacts, ClockAssumption DEF TransportOK, TransportState
  <2>3. abs \div StepsPerMeasure \in Nat
    BY DivisionFacts, MeasurePositive DEF TransportOK, TransportState
  <2>4. Tick(t) =
          [epoch |-> t.epoch, playing |-> t.playing, pattern |-> t.pattern,
           patternLength |-> t.patternLength,
           step |-> (t.step + 1) % t.patternLength,
           beat |-> (abs \div StepsPerBeat) % BeatsPerMeasure,
           measure |-> abs \div StepsPerMeasure,
           absoluteStep |-> abs, midiClock |-> t.midiClock + 1]
    BY <1>3 DEF Tick, TransportState
  <2>5. Tick(t) \in TransportState
    BY <2>1, <2>2, <2>3, <2>4 DEF TransportState
  <2>6. /\ Tick(t).step = (t.step + 1) % t.patternLength
        /\ Tick(t).patternLength = t.patternLength
        /\ Tick(t).epoch = t.epoch
        /\ Tick(t).absoluteStep = abs
    BY <2>4 DEF TransportState
  <2>7. QED
    BY <2>1, <2>5, <2>6 DEF TransportOK
<1>4. QED BY <1>1, <1>2, <1>3

(***************************************************************************)
(* resolve() always answers with a step still to come, for every kind of   *)
(* boundary: the pattern distance never is zero or negative.               *)
(***************************************************************************)
THEOREM ResolvesAhead ==
  ASSUME NEW t \in TransportState, TransportOK(t), NEW at \in ApplyAt, Resolvable(t, at)
  PROVE  /\ Resolve(t, at) \in BoundaryTarget
         /\ Resolve(t, at).epoch = t.epoch
         /\ t.absoluteStep < Resolve(t, at).absoluteStep
<1>1. t.absoluteStep \in Nat /\ t.step \in Nat /\ t.patternLength \in Nat
      /\ t.step < t.patternLength /\ t.epoch \in Nat
  BY LengthsPositive DEF TransportOK, TransportState
<1>2. ResolvedStep(t, at) \in Nat /\ t.absoluteStep < ResolvedStep(t, at)
  <2>1. CASE at.kind = "next_step"
    BY <1>1, <2>1 DEF ResolvedStep
  <2>2. CASE at.kind = "next_beat"
    BY <1>1, <2>2, NextMultipleAhead, ClockAssumption DEF ResolvedStep
  <2>3. CASE at.kind = "next_measure"
    BY <1>1, <2>3, NextMultipleAhead, MeasurePositive DEF ResolvedStep
  <2>4. CASE at.kind = "next_pattern"
    BY <1>1, <2>4 DEF ResolvedStep
  <2>5. CASE at.kind = "pattern_step"
    <3>1. at.step \in Nat /\ at.step < t.patternLength
      BY <2>5 DEF Resolvable, ApplyAt
    <3>2. PatternDistance(t, at.step) \in Nat \ {0}
      BY <1>1, <3>1 DEF PatternDistance
    <3>3. QED
      BY <1>1, <2>5, <3>2 DEF ResolvedStep
  <2>6. QED
    BY <2>1, <2>2, <2>3, <2>4, <2>5 DEF ApplyAt, BoundaryKinds
<1>3. QED
  BY <1>1, <1>2 DEF Resolve, BoundaryTarget, ApplyAt

-----------------------------------------------------------------------------
(* A boundary lies ahead of a transport in its own epoch. *)

Ahead(w, t) ==
  w # NoBoundary =>
    w.target.epoch = t.epoch /\ t.absoluteStep < w.target.absoluteStep

(***************************************************************************)
(* Queueing at the current position, or again after an epoch change, gives *)
(* a boundary ahead.                                                       *)
(***************************************************************************)
LEMMA EnqueuedAhead ==
  ASSUME NEW t \in TransportState, TransportOK(t),
         NEW at \in ApplyAt, Resolvable(t, at), NEW p \in Policies
  PROVE  /\ Enqueued(t, at, p) \in Waiting
         /\ Ahead(Enqueued(t, at, p), t)
<1>1. /\ Resolve(t, at) \in BoundaryTarget
      /\ Resolve(t, at).epoch = t.epoch
      /\ t.absoluteStep < Resolve(t, at).absoluteStep
  BY ResolvesAhead
<1>2. QED
  BY <1>1 DEF Enqueued, Waiting, Ahead

(***************************************************************************)
(* What reconcile_queued_epochs() keeps waiting lies ahead in the new      *)
(* epoch, whatever was waiting in the old one.                             *)
(***************************************************************************)
LEMMA ReconciledAhead ==
  ASSUME NEW t \in TransportState, TransportOK(t),
         NEW w \in Waiting \cup {NoBoundary}
  PROVE  /\ Reconciled(w, t) \in Waiting \cup {NoBoundary}
         /\ Ahead(Reconciled(w, t), t)
<1> DEFINE at == [w.at EXCEPT !.epoch = t.epoch]
<1>1. CASE w = NoBoundary \/ w.policy = "reject"
  BY <1>1 DEF Reconciled, Ahead
<1>2. CASE ~(w = NoBoundary \/ w.policy = "reject")
  <2>1. w \in Waiting
    BY <1>2
  <2>2. w.at \in ApplyAt /\ w.policy \in Policies
    BY <2>1 DEF Waiting
  <2>3. at \in ApplyAt
    BY <2>2 DEF ApplyAt, TransportState
  <2>4. CASE Resolvable(t, at)
    <3>1. Reconciled(w, t) = Enqueued(t, at, w.policy)
      BY <1>2, <2>4 DEF Reconciled
    <3>2. QED
      BY <2>2, <2>3, <2>4, <3>1, EnqueuedAhead
  <2>5. CASE ~Resolvable(t, at)
    BY <1>2, <2>5 DEF Reconciled, Ahead
  <2>6. QED BY <2>4, <2>5
<1>3. QED BY <1>1, <1>2

(***************************************************************************)
(* Marking a boundary as disturbed leaves its target alone.                *)
(***************************************************************************)
LEMMA DisturbedAhead ==
  ASSUME NEW w \in Waiting \cup {NoBoundary}, NEW t, Ahead(w, t)
  PROVE  Disturbed(w) \in Waiting \cup {NoBoundary} /\ Ahead(Disturbed(w), t)
<1>1. CASE w = NoBoundary
  BY <1>1 DEF Disturbed
<1>2. CASE w # NoBoundary
  <2>1. w \in Waiting
    BY <1>2
  <2>2. Disturbed(w) = [w EXCEPT !.steady = FALSE]
    BY <1>2 DEF Disturbed
  <2>3. Disturbed(w) \in Waiting /\ Disturbed(w).target = w.target
    BY <2>1, <2>2 DEF Waiting
  <2>4. QED BY <1>2, <2>3 DEF Ahead
<1>3. QED BY <1>1, <1>2

-----------------------------------------------------------------------------
(* The inductive invariant is the type invariant and NeverMissed together: *)
(* each clock needs the target ahead to keep it ahead or fire on it.       *)

IInv == TypeOK /\ NeverMissed

(***************************************************************************)
(* An empty store satisfies the inductive invariant.                       *)
(***************************************************************************)
LEMMA InitIInv == Init => IInv
<1> SUFFICES ASSUME Init PROVE IInv
  OBVIOUS
<1>1. TransportOK(transport)
  BY NewTransportOK DEF Init
<1>2. QED
  BY <1>1 DEF Init, IInv, TypeOK, NeverMissed, TransportOK

(***************************************************************************)
(* Every clock, transport message, pattern change, observation, reconnect  *)
(* and request keeps the inductive invariant.                              *)
(***************************************************************************)
LEMMA NextIInv == IInv /\ [Next]_vars => IInv'
<1> SUFFICES ASSUME IInv, [Next]_vars PROVE IInv'
  OBVIOUS
<1> USE DEF IInv
<1>1. /\ transport \in TransportState /\ TransportOK(transport)
      /\ idCounter \in Nat
      /\ waiting \in Waiting \cup {NoBoundary}
      /\ Ahead(waiting, transport)
  BY DEF TypeOK, NeverMissed, TransportOK, Ahead
<1>2. ASSUME TransportOK(transport'), idCounter' \in Nat,
             waiting' \in Waiting \cup {NoBoundary},
             Ahead(waiting', transport'), fired' = NoBoundary
      PROVE  IInv'
  BY <1>2 DEF TypeOK, NeverMissed, TransportOK, Ahead
<1>3. ASSUME NEW t, TransportOK(t), NewEpoch(t)
      PROVE  IInv'
  <2>1. t \in TransportState
    BY <1>3 DEF TransportOK
  <2>2. /\ waiting' \in Waiting \cup {NoBoundary}
        /\ Ahead(waiting', transport')
    BY <1>1, <1>3, <2>1, ReconciledAhead DEF NewEpoch
  <2>3. QED
    BY <1>1, <1>2, <1>3, <2>2 DEF NewEpoch
<1>4. CASE Reconnect
  BY <1>1, <1>3, <1>4, BeginEpochOK DEF Reconnect
<1>5. CASE StartTransport
  BY <1>1, <1>3, <1>5, StartOK DEF StartTransport
<1>6. CASE StopOrContinue
  <2>1. PICK b \in BOOLEAN : /\ transport' = Playing(transport, b)
                             /\ fired' = NoBoundary
                             /\ UNCHANGED <<idCounter, waiting>>
    BY <1>6 DEF StopOrContinue
  <2>2. TransportOK(transport')
    BY <1>1, <2>1, PlayingOK
  <2>3. /\ transport'.epoch = transport.epoch
        /\ transport'.absoluteStep = transport.absoluteStep
    BY <1>1, <2>1 DEF Playing, TransportState
  <2>4. QED
    BY <1>1, <1>2, <2>1, <2>2, <2>3 DEF Ahead
<1>7. CASE MidiClock
  <2>1. /\ transport' = Tick(transport) /\ idCounter' = idCounter
        /\ TransportOK(transport')
        /\ transport'.epoch = transport.epoch
        /\ transport'.absoluteStep \in
              {transport.absoluteStep, transport.absoluteStep + 1}
    BY <1>1, <1>7, TickOK DEF MidiClock
  <2>2. transport.absoluteStep \in Nat /\ transport'.absoluteStep \in Nat
    BY <1>1, <2>1 DEF TransportOK, TransportState
  <2>3. CASE waiting = NoBoundary
    BY <1>2, <1>7, <2>1, <2>3, <1>1 DEF MidiClock, Ahead
  <2>4. CASE waiting # NoBoundary /\ IsDue(waiting.target, transport')
    <3>1. /\ waiting' = NoBoundary
          /\ fired' = [boundary |-> waiting, transport |-> transport']
      BY <1>7, <2>1, <2>4 DEF MidiClock
    <3>2. waiting \in Waiting /\ waiting.target.absoluteStep \in Nat
      BY <1>1, <2>4 DEF Waiting, BoundaryTarget
    <3>3. transport'.absoluteStep = waiting.target.absoluteStep
      BY <1>1, <2>1, <2>2, <2>4, <3>2 DEF IsDue, Ahead
    <3>4. transport'.epoch = waiting.target.epoch
      BY <1>1, <2>1, <2>4 DEF Ahead
    <3>5. fired' \in Fired
      BY <2>1, <3>1, <3>2 DEF Fired, TransportOK
    <3>6. QED
      BY <1>1, <2>1, <3>1, <3>3, <3>4, <3>5 DEF TypeOK, NeverMissed, TransportOK
  <2>5. CASE waiting # NoBoundary /\ ~IsDue(waiting.target, transport')
    <3>1. /\ waiting' \in {waiting, [waiting EXCEPT !.missed = TRUE]}
          /\ fired' = NoBoundary
      BY <1>7, <2>1, <2>5 DEF MidiClock
    <3>2. waiting \in Waiting /\ waiting.target.absoluteStep \in Nat
      BY <1>1, <2>5 DEF Waiting, BoundaryTarget
    <3>3. waiting' \in Waiting /\ waiting'.target = waiting.target
      BY <3>1, <3>2 DEF Waiting
    <3>4. Ahead(waiting', transport')
      BY <1>1, <2>1, <2>2, <2>5, <3>2, <3>3 DEF Ahead, IsDue
    <3>5. QED
      BY <1>1, <1>2, <2>1, <3>1, <3>3, <3>4
  <2>6. QED BY <2>3, <2>4, <2>5
<1>8. CASE RequestPattern
  <2>1. PICK p \in Patterns, b \in BOOLEAN :
          transport' = ChangePattern(transport, p, b)
    BY <1>8 DEF RequestPattern
  <2>2. TransportOK(transport')
    BY <1>1, <2>1, ChangePatternOK
  <2>3. /\ transport'.epoch = transport.epoch
        /\ transport'.absoluteStep \in {0, transport.absoluteStep}
    BY <1>1, <2>1 DEF ChangePattern, TransportState
  <2>4. transport.absoluteStep \in Nat
    BY <1>1 DEF TransportState
  <2>5. waiting # NoBoundary => waiting.target.absoluteStep \in Nat
    BY <1>1 DEF Waiting, BoundaryTarget
  <2>6. Ahead(waiting, transport')
    BY <1>1, <2>3, <2>4, <2>5 DEF Ahead
  <2>7. QED
    BY <1>1, <1>2, <1>8, <2>2, <2>6, DisturbedAhead DEF RequestPattern
<1>9. CASE Observe
  <2>1. PICK p \in Patterns, n \in Lengths :
          /\ transport' = Refreshed(transport, p, n)
          /\ waiting' \in {waiting, Disturbed(waiting)}
          /\ fired' = NoBoundary /\ idCounter' = idCounter
    BY <1>9 DEF Observe
  <2>2. TransportOK(transport')
    BY <1>1, <2>1, RefreshedOK
  <2>3. /\ transport'.epoch = transport.epoch
        /\ transport'.absoluteStep = transport.absoluteStep
    BY <1>1, <2>1 DEF Refreshed, TransportState
  <2>4. Ahead(waiting, transport')
    BY <1>1, <2>3 DEF Ahead
  <2>5. QED
    BY <1>1, <1>2, <2>1, <2>2, <2>4, DisturbedAhead
<1>10. CASE Enqueue
  <2>1. /\ transport' = transport /\ idCounter' = idCounter
        /\ fired' = NoBoundary
    BY <1>10 DEF Enqueue
  <2>2. PICK kind \in BoundaryKinds, p \in Patterns,
             step \in 0..(MaxLength - 1), policy \in Policies :
          LET at == [kind |-> kind, epoch |-> transport.epoch,
                     pattern |-> p, step |-> step]
          IN  Resolvable(transport, at) /\ waiting' = Enqueued(transport, at, policy)
    BY <1>10 DEF Enqueue
  <2> DEFINE at == [kind |-> kind, epoch |-> transport.epoch,
                    pattern |-> p, step |-> step]
  <2>3. transport.epoch \in Nat
    BY <1>1 DEF TransportState
  <2>4. step \in Nat
    BY ClockAssumption
  <2>5. at \in ApplyAt
    BY <2>3, <2>4 DEF ApplyAt
  <2>6. waiting' \in Waiting /\ Ahead(waiting', transport)
    BY <1>1, <2>2, <2>5, EnqueuedAhead
  <2>7. QED
    BY <1>1, <1>2, <2>1, <2>6
<1>11. CASE UNCHANGED vars
  BY <1>11 DEF vars, TypeOK, NeverMissed
<1>12. QED
  BY <1>4, <1>5, <1>6, <1>7, <1>8, <1>9, <1>10, <1>11 DEF Next

(***************************************************************************)
(* The inductive invariant holds of every state of every behaviour.        *)
(***************************************************************************)
LEMMA Invariance == Spec => []IInv
  BY InitIInv, NextIInv, PTL DEF Spec

(***************************************************************************)
(* The transport always has its type and its step inside the pattern: the  *)
(* u8 subtraction in resolve() never underflows.                           *)
(***************************************************************************)
THEOREM TypeCorrect == Spec => []TypeOK
<1>1. IInv => TypeOK
  BY DEF IInv
<1>2. QED
  BY <1>1, Invariance, PTL

(***************************************************************************)
(* Every waiting boundary is of the current epoch and ahead, and fires on  *)
(* exactly its absolute step.                                              *)
(***************************************************************************)
THEOREM BoundariesNeverMissed == Spec => []NeverMissed
<1>1. IInv => NeverMissed
  BY DEF IInv
<1>2. QED
  BY <1>1, Invariance, PTL

-----------------------------------------------------------------------------
(* resolve() against tick(): the step a boundary resolves to is the first  *)
(* step at which tick() finds the transport at that boundary.              *)

(***************************************************************************)
(* next_multiple() against tick()'s modulo: moving one step on reaches the *)
(* next multiple exactly when the new step is a multiple, and leaves it    *)
(* where it was otherwise.                                                 *)
(***************************************************************************)
LEMMA NextMultipleReached ==
  ASSUME NEW a \in Nat, NEW n \in Nat \ {0}
  PROVE  /\ (a + 1) % n = 0 <=> a + 1 = NextMultiple(a, n)
         /\ a + 1 # NextMultiple(a, n) =>
              NextMultiple(a + 1, n) = NextMultiple(a, n)
<1> DEFINE q == a \div n
           r == a % n
<1>1. q \in Nat /\ r \in Nat /\ r < n /\ a = n * q + r
  BY DivisionFacts
<1> HIDE DEF q, r
<1>2. NextMultiple(a, n) = n * q + n
  BY <1>1 DEF NextMultiple, q
<1>3. CASE r = n - 1
  <2>1. a + 1 = n * (q + 1)
    BY <1>1, <1>3
  <2>2. (a + 1) % n = 0
    BY <1>1, <2>1
  <2>3. QED BY <1>1, <1>2, <2>1, <2>2
<1>4. CASE r # n - 1
  <2>1. a + 1 = n * q + (r + 1) /\ r + 1 \in Nat /\ r + 1 < n
    BY <1>1, <1>4
  <2>2. (a + 1) \div n = q /\ (a + 1) % n = r + 1
    BY <1>1, <2>1
  <2>3. QED BY <1>1, <1>2, <2>1, <2>2 DEF NextMultiple
<1>5. QED BY <1>3, <1>4

(***************************************************************************)
(* The position tick() moves to.                                           *)
(***************************************************************************)
LEMMA TickPosition ==
  ASSUME NEW t \in TransportState, TransportOK(t)
  PROVE  /\ Tick(t).pattern = t.pattern
         /\ Tick(t).patternLength = t.patternLength
         /\ StepsNow(t) =>
              /\ Tick(t).absoluteStep = t.absoluteStep + 1
              /\ Tick(t).step = IF t.step + 1 = t.patternLength
                                THEN 0 ELSE t.step + 1
         /\ ~StepsNow(t) =>
              /\ Tick(t).absoluteStep = t.absoluteStep
              /\ Tick(t).step = t.step
<1>1. CASE ~t.playing
  BY <1>1 DEF Tick, StepsNow, TransportState
<1>2. CASE t.playing /\ ~StepsNow(t)
  BY <1>2 DEF Tick, TransportState
<1>3. CASE t.playing /\ StepsNow(t)
  <2>1. /\ Tick(t).pattern = t.pattern
        /\ Tick(t).patternLength = t.patternLength
        /\ Tick(t).absoluteStep = t.absoluteStep + 1
        /\ Tick(t).step = (t.step + 1) % t.patternLength
    BY <1>3 DEF Tick, TransportState
  <2>2. /\ t.step \in Nat /\ t.patternLength \in Nat \ {0}
        /\ t.step < t.patternLength
    BY LengthsPositive DEF TransportOK, TransportState
  <2>3. (t.step + 1) % t.patternLength =
          IF t.step + 1 = t.patternLength THEN 0 ELSE t.step + 1
    BY <2>2
  <2>4. QED BY <1>3, <2>1, <2>3
<1>4. QED BY <1>1, <1>2, <1>3

(***************************************************************************)
(* One clock of agreement: when a clock steps, the transport is at the     *)
(* boundary exactly when it reached the resolved step, and otherwise the   *)
(* boundary still resolves to that step.                                   *)
(***************************************************************************)
THEOREM TickAgreesWithResolve ==
  ASSUME NEW t \in TransportState, TransportOK(t),
         NEW at \in ApplyAt, Resolvable(t, at)
  PROVE  /\ StepsNow(t) =>
              (AtBoundary(Tick(t), at) <=>
                 Tick(t).absoluteStep = ResolvedStep(t, at))
         /\ Tick(t).absoluteStep # ResolvedStep(t, at) =>
              ResolvedStep(Tick(t), at) = ResolvedStep(t, at)
<1> DEFINE a == t.absoluteStep
           u == Tick(t)
<1>1. /\ a \in Nat /\ t.step \in Nat /\ t.patternLength \in Nat \ {0}
      /\ t.step < t.patternLength
  BY LengthsPositive DEF TransportOK, TransportState
<1>2. /\ u.pattern = t.pattern /\ u.patternLength = t.patternLength
      /\ StepsNow(t) =>
           /\ u.absoluteStep = a + 1
           /\ u.step = IF t.step + 1 = t.patternLength
                       THEN 0 ELSE t.step + 1
      /\ ~StepsNow(t) => u.absoluteStep = a /\ u.step = t.step
  BY TickPosition
<1> HIDE DEF u
<1>3. CASE ~StepsNow(t)
  BY <1>2, <1>3 DEF ResolvedStep, PatternDistance, u
<1>4. CASE StepsNow(t)
  <2>1. CASE at.kind = "next_step"
    BY <1>1, <1>2, <1>4, <2>1 DEF ResolvedStep, AtBoundary, BoundariesAt, u
  <2>2. CASE at.kind = "next_beat"
    <3>1. ResolvedStep(t, at) = NextMultiple(a, StepsPerBeat)
      BY <2>2 DEF ResolvedStep
    <3>2. ResolvedStep(u, at) = NextMultiple(u.absoluteStep, StepsPerBeat)
      BY <2>2 DEF ResolvedStep
    <3>3. AtBoundary(u, at) <=> u.absoluteStep % StepsPerBeat = 0
      BY <2>2 DEF AtBoundary, BoundariesAt
    <3>4. QED
      BY <1>1, <1>2, <1>4, <3>1, <3>2, <3>3, NextMultipleReached,
         ClockAssumption DEF u
  <2>3. CASE at.kind = "next_measure"
    <3>1. ResolvedStep(t, at) = NextMultiple(a, StepsPerMeasure)
      BY <2>3 DEF ResolvedStep
    <3>2. ResolvedStep(u, at) = NextMultiple(u.absoluteStep, StepsPerMeasure)
      BY <2>3 DEF ResolvedStep
    <3>3. AtBoundary(u, at) <=> u.absoluteStep % StepsPerMeasure = 0
      BY <2>3 DEF AtBoundary, BoundariesAt
    <3>4. QED
      BY <1>1, <1>2, <1>4, <3>1, <3>2, <3>3, NextMultipleReached,
         MeasurePositive DEF u
  <2>4. CASE at.kind = "next_pattern"
    <3>1. ResolvedStep(t, at) = a + (t.patternLength - t.step)
      BY <2>4 DEF ResolvedStep
    <3>2. ResolvedStep(u, at) = u.absoluteStep + (u.patternLength - u.step)
      BY <2>4 DEF ResolvedStep
    <3>3. AtBoundary(u, at) <=> u.step = 0
      BY <2>4 DEF AtBoundary, BoundariesAt
    <3>4. QED
      BY <1>1, <1>2, <1>4, <3>1, <3>2, <3>3 DEF u
  <2>5. CASE at.kind = "pattern_step"
    <3>1. at.step \in Nat /\ at.step < t.patternLength /\ at.pattern = t.pattern
      BY <2>5 DEF Resolvable, ApplyAt
    <3>2. ResolvedStep(t, at) = a + PatternDistance(t, at.step)
      BY <2>5 DEF ResolvedStep
    <3>3. ResolvedStep(u, at) = u.absoluteStep + PatternDistance(u, at.step)
      BY <2>5 DEF ResolvedStep
    <3>4. AtBoundary(u, at) <=> u.step = at.step
      BY <1>2, <2>5, <3>1 DEF AtBoundary
    <3>5. CASE at.step > t.step
      BY <1>1, <1>2, <1>4, <3>1, <3>2, <3>3, <3>4, <3>5
         DEF PatternDistance, u
    <3>6. CASE ~(at.step > t.step)
      BY <1>1, <1>2, <1>4, <3>1, <3>2, <3>3, <3>4, <3>6
         DEF PatternDistance, u
    <3>7. QED BY <3>5, <3>6
  <2>6. QED
    BY <2>1, <2>2, <2>3, <2>4, <2>5 DEF ApplyAt, BoundaryKinds
<1>5. QED BY <1>3, <1>4

-----------------------------------------------------------------------------
(* The two musical properties need the agreement of resolve() and tick()   *)
(* at every step of a wait: the target stays what resolve() would answer   *)
(* now, and no boundary of that kind has gone by.                          *)

Settled(w, t) ==
  w # NoBoundary /\ w.steady =>
    /\ Resolvable(t, w.at)
    /\ w.target = Resolve(t, w.at)
    /\ ~w.missed

SInv == Settled(waiting, transport) /\ FiresAtFirstBoundary

(***************************************************************************)
(* A boundary that was just resolved is settled.                           *)
(***************************************************************************)
LEMMA EnqueuedSettled ==
  ASSUME NEW t, NEW at, Resolvable(t, at), NEW p
  PROVE  Settled(Enqueued(t, at, p), t)
  BY DEF Settled, Enqueued

(***************************************************************************)
(* reconcile_queued_epochs() resolves what it keeps on the new transport.  *)
(***************************************************************************)
LEMMA ReconciledSettled ==
  ASSUME NEW t, NEW w
  PROVE  Settled(Reconciled(w, t), t)
<1> DEFINE at == [w.at EXCEPT !.epoch = t.epoch]
<1>1. CASE w = NoBoundary \/ w.policy = "reject"
  BY <1>1 DEF Reconciled, Settled
<1>2. CASE ~(w = NoBoundary \/ w.policy = "reject") /\ Resolvable(t, at)
  BY <1>2, EnqueuedSettled DEF Reconciled
<1>3. CASE ~(w = NoBoundary \/ w.policy = "reject") /\ ~Resolvable(t, at)
  BY <1>3 DEF Reconciled, Settled
<1>4. QED BY <1>1, <1>2, <1>3

(***************************************************************************)
(* A disturbed boundary promises nothing about its musical moment.         *)
(***************************************************************************)
LEMMA DisturbedSettled ==
  ASSUME NEW w \in Waiting \cup {NoBoundary}, NEW t
  PROVE  Settled(Disturbed(w), t)
<1>1. CASE w = NoBoundary
  BY <1>1 DEF Disturbed, Settled
<1>2. CASE w # NoBoundary
  <2>1. w \in Waiting /\ Disturbed(w) = [w EXCEPT !.steady = FALSE]
    BY <1>2 DEF Disturbed
  <2>2. ~Disturbed(w).steady
    BY <2>1 DEF Waiting
  <2>3. QED BY <2>2 DEF Settled
<1>3. QED BY <1>1, <1>2

(***************************************************************************)
(* One clock under a settled boundary: on the target the transport is at   *)
(* the boundary, before it the boundary has not come by and is settled     *)
(* still.                                                                  *)
(***************************************************************************)
LEMMA TickSettled ==
  ASSUME NEW t \in TransportState, TransportOK(t),
         NEW w \in Waiting, w # NoBoundary, w.steady,
         Settled(w, t), Ahead(w, t)
  PROVE  /\ IsDue(w.target, Tick(t)) => AtBoundary(Tick(t), w.at)
         /\ ~IsDue(w.target, Tick(t)) =>
              /\ ~(StepsNow(t) /\ AtBoundary(Tick(t), w.at))
              /\ Settled(w, Tick(t))
<1> DEFINE u == Tick(t)
<1>1. /\ w.at \in ApplyAt /\ Resolvable(t, w.at) /\ ~w.missed
      /\ w.target = Resolve(t, w.at)
  BY DEF Settled, Waiting
<1>2. /\ w.target.epoch = t.epoch
      /\ w.target.kind = w.at.kind
      /\ w.target.absoluteStep = ResolvedStep(t, w.at)
  BY <1>1 DEF Resolve
<1>3. /\ u.pattern = t.pattern /\ u.patternLength = t.patternLength
      /\ StepsNow(t) => u.absoluteStep = t.absoluteStep + 1
      /\ ~StepsNow(t) => u.absoluteStep = t.absoluteStep
  BY TickPosition
<1>4. u.epoch = t.epoch
  BY TickOK
<1>5. /\ StepsNow(t) =>
           (AtBoundary(u, w.at) <=> u.absoluteStep = ResolvedStep(t, w.at))
      /\ u.absoluteStep # ResolvedStep(t, w.at) =>
           ResolvedStep(u, w.at) = ResolvedStep(t, w.at)
  BY <1>1, TickAgreesWithResolve
<1>6. t.absoluteStep \in Nat /\ w.target.absoluteStep \in Nat
  BY DEF TransportState, Waiting, BoundaryTarget
<1>7. t.absoluteStep < w.target.absoluteStep
  BY DEF Ahead
<1> HIDE DEF u
<1>8. IsDue(w.target, u) <=> u.absoluteStep = w.target.absoluteStep
  BY <1>2, <1>3, <1>4, <1>6, <1>7 DEF IsDue
<1>9. ASSUME IsDue(w.target, u) PROVE AtBoundary(u, w.at)
  <2>1. StepsNow(t)
    BY <1>3, <1>6, <1>7, <1>8, <1>9
  <2>2. QED BY <1>2, <1>5, <1>8, <1>9, <2>1
<1>10. ASSUME ~IsDue(w.target, u)
       PROVE  ~(StepsNow(t) /\ AtBoundary(u, w.at)) /\ Settled(w, u)
  <2>1. ResolvedStep(u, w.at) = ResolvedStep(t, w.at)
    BY <1>2, <1>5, <1>8, <1>10
  <2>2. Resolvable(u, w.at)
    BY <1>1, <1>3, <1>4 DEF Resolvable
  <2>3. Resolve(u, w.at) = Resolve(t, w.at)
    BY <1>4, <2>1 DEF Resolve
  <2>4. QED
    BY <1>1, <1>2, <1>5, <1>8, <1>10, <2>2, <2>3 DEF Settled
<1>11. QED BY <1>9, <1>10 DEF u

(***************************************************************************)
(* Every step keeps a boundary that nobody disturbed settled, and fires it *)
(* only at its first moment.                                               *)
(***************************************************************************)
LEMMA NextSInv == IInv /\ SInv /\ [Next]_vars => SInv'
<1> SUFFICES ASSUME IInv, SInv, [Next]_vars PROVE SInv'
  OBVIOUS
<1>1. /\ transport \in TransportState /\ TransportOK(transport)
      /\ waiting \in Waiting \cup {NoBoundary}
      /\ Ahead(waiting, transport) /\ Settled(waiting, transport)
  BY DEF IInv, SInv, TypeOK, NeverMissed, TransportOK, Ahead
<1>2. ASSUME Settled(waiting', transport'), fired' = NoBoundary PROVE SInv'
  BY <1>2 DEF SInv, Settled, FiresAtFirstBoundary
<1>3. CASE Reconnect \/ StartTransport
  <2>1. PICK t : NewEpoch(t)
    BY <1>3 DEF Reconnect, StartTransport
  <2>2. QED BY <1>2, <2>1, ReconciledSettled DEF NewEpoch
<1>4. CASE StopOrContinue
  <2>1. PICK b \in BOOLEAN : transport' = Playing(transport, b)
    BY <1>4 DEF StopOrContinue
  <2>2. /\ transport'.epoch = transport.epoch
        /\ transport'.pattern = transport.pattern
        /\ transport'.patternLength = transport.patternLength
        /\ transport'.step = transport.step
        /\ transport'.absoluteStep = transport.absoluteStep
    BY <1>1, <2>1 DEF Playing, TransportState
  <2>3. \A at : /\ Resolvable(transport, at) => Resolvable(transport', at)
                /\ ResolvedStep(transport', at) = ResolvedStep(transport, at)
    BY <2>2 DEF Resolvable, ResolvedStep, PatternDistance
  <2>4. Settled(waiting, transport')
    BY <1>1, <2>2, <2>3 DEF Settled, Resolve
  <2>5. QED BY <1>2, <1>4, <2>4 DEF StopOrContinue
<1>5. CASE MidiClock
  <2>1. transport' = Tick(transport)
    BY <1>5 DEF MidiClock
  <2>2. CASE waiting = NoBoundary
    BY <1>2, <1>5, <2>2 DEF MidiClock, Settled
  <2>3. CASE waiting # NoBoundary /\ IsDue(waiting.target, transport')
    <3>1. /\ waiting' = NoBoundary
          /\ fired' = [boundary |-> waiting, transport |-> transport']
      BY <1>5, <2>1, <2>3 DEF MidiClock
    <3>2. waiting.steady => AtBoundary(transport', waiting.at) /\ ~waiting.missed
      BY <1>1, <2>1, <2>3, TickSettled DEF Settled
    <3>3. QED BY <3>1, <3>2 DEF SInv, Settled, FiresAtFirstBoundary
  <2>4. CASE waiting # NoBoundary /\ ~IsDue(waiting.target, transport')
    <3>1. /\ waiting' = IF StepsNow(transport) /\ AtBoundary(transport', waiting.at)
                        THEN [waiting EXCEPT !.missed = TRUE] ELSE waiting
          /\ fired' = NoBoundary
      BY <1>5, <2>1, <2>4 DEF MidiClock
    <3>2. waiting \in Waiting
      BY <1>1, <2>4
    <3>3. CASE waiting.steady
      BY <1>1, <1>2, <2>1, <2>4, <3>1, <3>2, <3>3, TickSettled
    <3>4. CASE ~waiting.steady
      <4>1. ~waiting'.steady
        BY <3>1, <3>2, <3>4 DEF Waiting
      <4>2. QED BY <1>2, <3>1, <4>1 DEF Settled
    <3>5. QED BY <3>3, <3>4
  <2>5. QED BY <2>2, <2>3, <2>4
<1>6. CASE RequestPattern
  BY <1>1, <1>2, <1>6, DisturbedSettled DEF RequestPattern
<1>7. CASE Observe
  <2>1. PICK p \in Patterns, n \in Lengths :
          /\ transport' = Refreshed(transport, p, n)
          /\ waiting' = IF transport' = transport
                        THEN waiting ELSE Disturbed(waiting)
          /\ fired' = NoBoundary
    BY <1>7 DEF Observe
  <2>2. Settled(waiting', transport')
    BY <1>1, <2>1, DisturbedSettled
  <2>3. QED BY <1>2, <2>1, <2>2
<1>8. CASE Enqueue
  <2>1. PICK at, policy : /\ Resolvable(transport, at)
                          /\ waiting' = Enqueued(transport, at, policy)
                          /\ fired' = NoBoundary /\ transport' = transport
    BY <1>8 DEF Enqueue
  <2>2. QED BY <1>2, <2>1, EnqueuedSettled
<1>9. CASE UNCHANGED vars
  BY <1>9 DEF vars, SInv, Settled, FiresAtFirstBoundary
<1>10. QED
  BY <1>3, <1>4, <1>5, <1>6, <1>7, <1>8, <1>9 DEF Next

(***************************************************************************)
(* Both parts hold of every state of every behaviour.                      *)
(***************************************************************************)
LEMMA SettledInvariance == Spec => []SInv
<1>1. Init => SInv
  BY DEF Init, SInv, Settled, FiresAtFirstBoundary
<1>2. QED
  BY <1>1, InitIInv, NextIInv, NextSInv, PTL DEF Spec

(***************************************************************************)
(* Resolution is stable: while nobody disturbs the request, resolve()      *)
(* would answer at every clock the step it answered when the work was      *)
(* queued.                                                                 *)
(***************************************************************************)
THEOREM ResolutionIsStable == Spec => []StableResolution
<1>1. SInv => StableResolution
  BY DEF SInv, Settled, StableResolution
<1>2. QED
  BY <1>1, SettledInvariance, PTL

(***************************************************************************)
(* An undisturbed boundary fires at the musical moment it names, and at    *)
(* the first such moment after it was queued.                              *)
(***************************************************************************)
THEOREM FirstBoundaryFires == Spec => []FiresAtFirstBoundary
<1>1. SInv => FiresAtFirstBoundary
  BY DEF SInv
<1>2. QED
  BY <1>1, SettledInvariance, PTL

=============================================================================
