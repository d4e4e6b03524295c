----------------------------- MODULE Transport -----------------------------
(***************************************************************************)
(* The transport clock of the hardware scheduler: the record the daemon    *)
(* keeps about the sequencer's position (HardwareTransportState) and what  *)
(* every method of it computes.  The operators are pure: TransportClock    *)
(* makes a state machine of them, HardwareControl applies them to the      *)
(* transport inside the durable state.                                     *)
(*                                                                         *)
(* Tempo, clock source and MIDI channels are left out: no condition of the *)
(* scheduler reads them.  An epoch name ("epoch-7") is its number.         *)
(***************************************************************************)
EXTENDS Integers

CONSTANTS
  ClocksPerStep,     \* MIDI clocks per sequencer step (6 in the code)
  StepsPerBeat,      \* steps per beat (4 in the code)
  BeatsPerMeasure,   \* beats per measure (4 in the code)
  Patterns,          \* pattern slots ("A01", ...)
  MaxLength,         \* longest pattern the device reports (a u8)
  DefaultPattern,    \* pattern and length of an empty store
  DefaultLength      \* ("A01" and 64 in the code)

ASSUME ClockAssumption ==
  /\ ClocksPerStep \in Nat \ {0}
  /\ StepsPerBeat \in Nat \ {0}
  /\ BeatsPerMeasure \in Nat \ {0}
  /\ MaxLength \in 1..255
  /\ DefaultPattern \in Patterns
  /\ DefaultLength \in 1..MaxLength

StepsPerMeasure == StepsPerBeat * BeatsPerMeasure

Lengths == 1..MaxLength

BoundaryKinds ==
  {"next_step", "next_beat", "next_measure", "next_pattern", "pattern_step"}

(***************************************************************************)
(* beat and measure are only reported; epoch 0 is the "uninitialized"      *)
(* epoch of an empty store.                                                *)
(***************************************************************************)
TransportState ==
  [epoch: Nat, playing: BOOLEAN, pattern: Patterns, patternLength: Lengths,
   step: Nat, beat: Nat, measure: Nat, absoluteStep: Nat, midiClock: Nat]

(***************************************************************************)
(* A boundary as a client asks for it.  pattern and step are read only for *)
(* a pattern_step.                                                         *)
(***************************************************************************)
ApplyAt == [kind: BoundaryKinds, epoch: Nat, pattern: Patterns, step: Nat]

BoundaryTarget == [epoch: Nat, kind: BoundaryKinds, absoluteStep: Nat]

NewTransport ==
  [epoch |-> 0, playing |-> FALSE,
   pattern |-> DefaultPattern, patternLength |-> DefaultLength,
   step |-> 0, beat |-> 0, measure |-> 0, absoluteStep |-> 0, midiClock |-> 0]

-----------------------------------------------------------------------------

Rewound(t) ==
  [t EXCEPT !.step = 0, !.beat = 0, !.measure = 0,
            !.absoluteStep = 0, !.midiClock = 0]

BeginEpoch(t, epoch, pattern, length) ==
  [Rewound(t) EXCEPT !.epoch = epoch, !.playing = FALSE,
                     !.pattern = pattern, !.patternLength = length]

Start(t, epoch) == [Rewound(t) EXCEPT !.epoch = epoch, !.playing = TRUE]

Playing(t, playing) == [t EXCEPT !.playing = playing]

(***************************************************************************)
(* One MIDI clock: nothing while stopped, and only every ClocksPerStep-th  *)
(* clock moves the position.                                               *)
(***************************************************************************)
StepsNow(t) == t.playing /\ (t.midiClock + 1) % ClocksPerStep = 0

Tick(t) ==
  IF ~t.playing THEN t
  ELSE LET abs == t.absoluteStep + 1
           counted == [t EXCEPT !.midiClock = @ + 1]
       IN  IF ~StepsNow(t) THEN counted
           ELSE [counted EXCEPT
                   !.absoluteStep = abs,
                   !.step    = (@ + 1) % t.patternLength,
                   !.beat    = (abs \div StepsPerBeat) % BeatsPerMeasure,
                   !.measure = abs \div StepsPerMeasure]

(***************************************************************************)
(* The boundaries tick() reports for the step it just moved to.            *)
(***************************************************************************)
BoundariesAt(t) ==
  {"next_step"}
    \cup {k \in {"next_beat"}    : t.absoluteStep % StepsPerBeat = 0}
    \cup {k \in {"next_measure"} : t.absoluteStep % StepsPerMeasure = 0}
    \cup {k \in {"next_pattern"} : t.step = 0}

(***************************************************************************)
(* A program change sent by a client.  An immediate one rewinds step,      *)
(* absolute step and clock, but neither beat and measure nor the epoch,    *)
(* and the length stays the old pattern's until the next observation.      *)
(***************************************************************************)
ChangePattern(t, pattern, immediate) ==
  IF immediate
  THEN [t EXCEPT !.pattern = pattern, !.step = 0, !.absoluteStep = 0,
                 !.midiClock = 0]
  ELSE [t EXCEPT !.pattern = pattern]

(***************************************************************************)
(* Bug: the step is not folded into the new pattern length.                *)
(***************************************************************************)
RefreshedUnfolded(t, pattern, length) ==
  [t EXCEPT !.pattern = pattern, !.patternLength = length]

(***************************************************************************)
(* What an observation of the device changes: pattern and length follow    *)
(* the device and the step is folded into the new length.                  *)
(***************************************************************************)
Refreshed(t, pattern, length) ==
  [t EXCEPT !.pattern = pattern, !.patternLength = length,
            !.step = @ % length]

-----------------------------------------------------------------------------
(* Boundaries to absolute steps.                                           *)

(***************************************************************************)
(* Bugs: a size ahead instead of the next multiple of it; a distance that  *)
(* forgets the current step; a due check one step late or early.           *)
(***************************************************************************)
OneSizeAhead(current, size) == current + size

DistanceFromPatternStart(t, step) ==
  IF step > t.step THEN step - t.step ELSE t.patternLength + step

DueTooLate(target, t) ==
  target.epoch = t.epoch /\ t.absoluteStep > target.absoluteStep

DueTooEarly(target, t) ==
  target.epoch = t.epoch /\ t.absoluteStep + 1 >= target.absoluteStep

NextMultiple(current, size) == (current \div size + 1) * size

(***************************************************************************)
(* Steps from the current step of the pattern to the requested one: the    *)
(* full length when the transport is on that very step.                    *)
(***************************************************************************)
PatternDistance(t, step) ==
  IF step > t.step THEN step - t.step ELSE t.patternLength - t.step + step

Resolvable(t, at) ==
  /\ at.epoch = t.epoch
  /\ at.kind = "pattern_step" =>
       at.pattern = t.pattern /\ at.step < t.patternLength

ResolvedStep(t, at) ==
  CASE at.kind = "next_step"    -> t.absoluteStep + 1
    [] at.kind = "next_beat"    -> NextMultiple(t.absoluteStep, StepsPerBeat)
    [] at.kind = "next_measure" -> NextMultiple(t.absoluteStep, StepsPerMeasure)
    [] at.kind = "next_pattern" -> t.absoluteStep + (t.patternLength - t.step)
    [] at.kind = "pattern_step" -> t.absoluteStep + PatternDistance(t, at.step)

Resolve(t, at) ==
  [epoch |-> t.epoch, kind |-> at.kind, absoluteStep |-> ResolvedStep(t, at)]

IsDue(target, t) ==
  target.epoch = t.epoch /\ t.absoluteStep >= target.absoluteStep

=============================================================================
