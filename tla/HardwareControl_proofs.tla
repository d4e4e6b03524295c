----------------------- MODULE HardwareControl_proofs -----------------------
(***************************************************************************)
(* What holds of the daemon's control thread for any contents, edits,      *)
(* operation set ids and boundaries, and any number of requests, edits at  *)
(* the panel, broken calls and restarts.                                   *)
(*                                                                         *)
(* The inductive invariant is a conjunction of parts, each about one       *)
(* concern; a part rests on those before it.                               *)
(***************************************************************************)
EXTENDS HardwareControl, FunctionTheorems, FiniteSetTheorems, WellFoundedInduction,
        TLAPS

-----------------------------------------------------------------------------
(***************************************************************************)
(* The clock's methods, as the control thread calls them on its durable    *)
(* transport: the lemmas of TransportClock_proofs, whose state machine is  *)
(* another than the one here.                                              *)
(***************************************************************************)

(***************************************************************************)
(* Arithmetic of the clock: remainders, quotients and next multiples.      *)
(***************************************************************************)
LEMMA DivisionFacts ==
  ASSUME NEW a \in Nat, NEW n \in Nat \ {0}
  PROVE  /\ a % n \in Nat
         /\ a % n < n
         /\ a \div n \in Nat
         /\ a = n * (a \div n) + (a % n)
<1>1. a \div n \in Nat
  OBVIOUS
<1>2. a = n * (a \div n) + (a % n)
  OBVIOUS
<1>3. a % n \in Nat
  OBVIOUS
<1>4. a % n < n
  OBVIOUS
<1>5. QED BY <1>1, <1>2, <1>3, <1>4

(***************************************************************************)
(* The measure is a positive number of steps.                              *)
(***************************************************************************)
LEMMA MeasurePositive == StepsPerMeasure \in Nat \ {0}
  BY ClockAssumption DEF StepsPerMeasure

(***************************************************************************)
(* next_multiple() lies ahead of the current step.                         *)
(***************************************************************************)
LEMMA NextMultipleAhead ==
  ASSUME NEW a \in Nat, NEW n \in Nat \ {0}
  PROVE  /\ NextMultiple(a, n) \in Nat
         /\ a < NextMultiple(a, n)
  BY DivisionFacts DEF NextMultiple

(***************************************************************************)
(* A pattern length is a positive number, so % patternLength is defined.   *)
(***************************************************************************)
LEMMA LengthsPositive == \A n \in Lengths : n \in Nat \ {0}
  BY ClockAssumption DEF Lengths

-----------------------------------------------------------------------------
(* The methods of the transport keep its type and its step in range.       *)

TransportOK(t) == t \in TransportState /\ t.step < t.patternLength

(***************************************************************************)
(* HardwareTransportState::new() starts inside the default pattern.        *)
(***************************************************************************)
LEMMA NewTransportOK == TransportOK(NewTransport)
  BY ClockAssumption DEF TransportOK, NewTransport, TransportState, Lengths

(***************************************************************************)
(* Setting all counters to zero keeps the type and lands on step 0.        *)
(***************************************************************************)
LEMMA RewoundOK ==
  ASSUME NEW t \in TransportState, TransportOK(t)
  PROVE  Rewound(t) \in TransportState /\ Rewound(t).step = 0
  BY DEF Rewound, TransportState

(***************************************************************************)
(* begin_epoch() lands on step 0 of whatever pattern the device reports.   *)
(***************************************************************************)
LEMMA BeginEpochOK ==
  ASSUME NEW t \in TransportState, TransportOK(t), NEW e \in Nat, NEW p \in Patterns,
         NEW n \in Lengths
  PROVE  TransportOK(BeginEpoch(t, e, p, n))
<1> DEFINE r == Rewound(t)
<1>1. r \in TransportState /\ r.step = 0
  BY RewoundOK
<1>2. BeginEpoch(t, e, p, n) =
        [r EXCEPT !.epoch = e, !.playing = FALSE,
                  !.pattern = p, !.patternLength = n]
  BY DEF BeginEpoch
<1> HIDE DEF r
<1>3. [r EXCEPT !.epoch = e, !.playing = FALSE,
                !.pattern = p, !.patternLength = n] \in TransportState
  BY <1>1 DEF TransportState
<1>4. BeginEpoch(t, e, p, n).step = 0 /\ BeginEpoch(t, e, p, n).patternLength = n
  BY <1>1, <1>2 DEF TransportState
<1>5. QED
  BY <1>2, <1>3, <1>4, LengthsPositive DEF TransportOK

(***************************************************************************)
(* start() lands on step 0 of the current pattern.                         *)
(***************************************************************************)
LEMMA StartOK ==
  ASSUME NEW t \in TransportState, TransportOK(t), NEW e \in Nat
  PROVE  TransportOK(Start(t, e))
<1> DEFINE r == Rewound(t)
<1>1. r \in TransportState /\ r.step = 0
  BY RewoundOK
<1>2. Start(t, e) = [r EXCEPT !.epoch = e, !.playing = TRUE]
  BY DEF Start
<1> HIDE DEF r
<1>3. [r EXCEPT !.epoch = e, !.playing = TRUE] \in TransportState
  BY <1>1 DEF TransportState
<1>4. Start(t, e).step = 0 /\ Start(t, e).patternLength \in Lengths
  BY <1>1, <1>2 DEF TransportState
<1>5. QED
  BY <1>2, <1>3, <1>4, LengthsPositive DEF TransportOK

(***************************************************************************)
(* Setting the playing flag, as set_transport() does for stop and          *)
(* continue, leaves the position where it was.                             *)
(***************************************************************************)
LEMMA PlayingOK ==
  ASSUME NEW t \in TransportState, TransportOK(t), NEW b \in BOOLEAN
  PROVE  TransportOK(Playing(t, b))
  BY DEF TransportOK, Playing, TransportState

(***************************************************************************)
(* change_pattern() keeps the step inside the length it leaves in place.   *)
(***************************************************************************)
LEMMA ChangePatternOK ==
  ASSUME NEW t \in TransportState, TransportOK(t), NEW p \in Patterns, NEW b \in BOOLEAN
  PROVE  TransportOK(ChangePattern(t, p, b))
<1>1. ChangePattern(t, p, b) \in TransportState
  BY DEF ChangePattern, TransportState
<1>2. /\ ChangePattern(t, p, b).step \in {0, t.step}
      /\ ChangePattern(t, p, b).patternLength = t.patternLength
  BY DEF ChangePattern, TransportState
<1>3. QED
  BY <1>1, <1>2, LengthsPositive DEF TransportOK, TransportState

(***************************************************************************)
(* refresh_transport_from_summary() folds the step into the new length.    *)
(***************************************************************************)
LEMMA RefreshedOK ==
  ASSUME NEW t \in TransportState, TransportOK(t), NEW p \in Patterns, NEW n \in Lengths
  PROVE  TransportOK(Refreshed(t, p, n))
<1>1. t.step % n \in Nat /\ t.step % n < n
  BY DivisionFacts, LengthsPositive DEF TransportOK, TransportState
<1>2. QED
  BY <1>1 DEF TransportOK, Refreshed, TransportState

(***************************************************************************)
(* tick() keeps the step inside the pattern, stays in its epoch and moves  *)
(* the absolute step by at most one.                                       *)
(***************************************************************************)
LEMMA TickOK ==
  ASSUME NEW t \in TransportState, TransportOK(t)
  PROVE  /\ TransportOK(Tick(t))
         /\ Tick(t).epoch = t.epoch
         /\ Tick(t).absoluteStep \in {t.absoluteStep, t.absoluteStep + 1}
<1> DEFINE abs == t.absoluteStep + 1
<1>1. CASE ~t.playing
  BY <1>1 DEF Tick, TransportOK, TransportState
<1>2. CASE t.playing /\ ~StepsNow(t)
  BY <1>2 DEF Tick, TransportOK, TransportState
<1>3. CASE t.playing /\ StepsNow(t)
  <2>1. /\ (t.step + 1) % t.patternLength \in Nat
        /\ (t.step + 1) % t.patternLength < t.patternLength
    BY DivisionFacts, LengthsPositive DEF TransportOK, TransportState
  <2>2. (abs \div StepsPerBeat) % BeatsPerMeasure \in Nat
    BY DivisionFacts, ClockAssumption DEF TransportOK, TransportState
  <2>3. abs \div StepsPerMeasure \in Nat
    BY DivisionFacts, MeasurePositive DEF TransportOK, TransportState
  <2>4. Tick(t) =
          [epoch |-> t.epoch, playing |-> t.playing, pattern |-> t.pattern,
           patternLength |-> t.patternLength,
           step |-> (t.step + 1) % t.patternLength,
           beat |-> (abs \div StepsPerBeat) % BeatsPerMeasure,
           measure |-> abs \div StepsPerMeasure,
           absoluteStep |-> abs, midiClock |-> t.midiClock + 1]
    BY <1>3 DEF Tick, TransportState
  <2>5. Tick(t) \in TransportState
    BY <2>1, <2>2, <2>3, <2>4 DEF TransportState
  <2>6. /\ Tick(t).step = (t.step + 1) % t.patternLength
        /\ Tick(t).patternLength = t.patternLength
        /\ Tick(t).epoch = t.epoch
        /\ Tick(t).absoluteStep = abs
    BY <2>4 DEF TransportState
  <2>7. QED
    BY <2>1, <2>5, <2>6 DEF TransportOK
<1>4. QED BY <1>1, <1>2, <1>3

(***************************************************************************)
(* resolve() always answers with a step still to come, for every kind of   *)
(* boundary: the pattern distance never is zero or negative.               *)
(***************************************************************************)
LEMMA ResolvesAhead ==
  ASSUME NEW t \in TransportState, TransportOK(t), NEW at \in ApplyAt, Resolvable(t, at)
  PROVE  /\ Resolve(t, at) \in BoundaryTarget
         /\ Resolve(t, at).epoch = t.epoch
         /\ t.absoluteStep < Resolve(t, at).absoluteStep
<1>1. t.absoluteStep \in Nat /\ t.step \in Nat /\ t.patternLength \in Nat
      /\ t.step < t.patternLength /\ t.epoch \in Nat
  BY LengthsPositive DEF TransportOK, TransportState
<1>2. ResolvedStep(t, at) \in Nat /\ t.absoluteStep < ResolvedStep(t, at)
  <2>1. CASE at.kind = "next_step"
    BY <1>1, <2>1 DEF ResolvedStep
  <2>2. CASE at.kind = "next_beat"
    BY <1>1, <2>2, NextMultipleAhead, ClockAssumption DEF ResolvedStep
  <2>3. CASE at.kind = "next_measure"
    BY <1>1, <2>3, NextMultipleAhead, MeasurePositive DEF ResolvedStep
  <2>4. CASE at.kind = "next_pattern"
    BY <1>1, <2>4 DEF ResolvedStep
  <2>5. CASE at.kind = "pattern_step"
    <3>1. at.step \in Nat /\ at.step < t.patternLength
      BY <2>5 DEF Resolvable, ApplyAt
    <3>2. PatternDistance(t, at.step) \in Nat \ {0}
      BY <1>1, <3>1 DEF PatternDistance
    <3>3. QED
      BY <1>1, <2>5, <3>2 DEF ResolvedStep
  <2>6. QED
    BY <2>1, <2>2, <2>3, <2>4, <2>5 DEF ApplyAt, BoundaryKinds
<1>3. QED
  BY <1>1, <1>2 DEF Resolve, BoundaryTarget, ApplyAt

-----------------------------------------------------------------------------
(***************************************************************************)
(* FIRST PART, the operators of the durable record: retention keeps every  *)
(* queued record and forgets only when RetainCap records remain;           *)
(* reconciliation, observation and settling keep the ids and the types.    *)
(***************************************************************************)

(***************************************************************************)
(* A nonempty set of naturals has a least element.                         *)
(***************************************************************************)
LEMMA LeastNatural ==
  ASSUME NEW S \in SUBSET Nat, S # {}
  PROVE  \E x \in S : \A y \in S : x <= y
<1>1. PICK x \in S : \A y \in S : ~ (<<y, x>> \in OpToRel(<, Nat))
  BY WFMin, NatLessThanWellFounded, Zenon
<1>2. \A y \in S : ~ (y < x)
  BY <1>1, Zenon DEF OpToRel
<1>3. QED  BY <1>2

(***************************************************************************)
(* A nonempty set of indexes has a greatest one.                           *)
(***************************************************************************)
LEMMA GreatestIndex ==
  ASSUME NEW n \in Nat, NEW S \in SUBSET (1 .. n), S # {}
  PROVE  \E x \in S : \A y \in S : y <= x
<1> DEFINE T == {n - x : x \in S}
<1>1. T \in SUBSET Nat /\ T # {}
  OBVIOUS
<1>2. PICK t \in T : \A u \in T : t <= u
  BY <1>1, LeastNatural
<1>3. PICK x \in S : t = n - x
  BY <1>2
<1>4. \A y \in S : n - x <= n - y
  BY <1>2, <1>3
<1>5. QED  BY <1>4

(***************************************************************************)
(* How many indexes a sequence has.                                        *)
(***************************************************************************)
LEMMA IndexCount ==
  ASSUME NEW n \in Nat
  PROVE  IsFiniteSet(1 .. n) /\ Cardinality(1 .. n) = n
<1>1. Cardinality(1 .. n) = IF 1 > n THEN 0 ELSE n - 1 + 1
  BY FS_Interval
<1>2. QED  BY <1>1, FS_Interval

(***************************************************************************)
(* A function from 1..n is a sequence.                                     *)
(***************************************************************************)
LEMMA IsASeq ==
  ASSUME NEW T, NEW n \in Nat, NEW f, f = [i \in 1 .. n |-> f[i]],
         \A i \in 1 .. n : f[i] \in T
  PROVE  f \in Seq(T) /\ Len(f) = n
  OBVIOUS

-----------------------------------------------------------------------------
(* Selecting elements of a sequence. *)

Rank(indexes, i) == Cardinality({j \in indexes : j <= i})

(***************************************************************************)
(* A set of indexes is finite, and every index has a rank in it.           *)
(***************************************************************************)
LEMMA RankOK ==
  ASSUME NEW n \in Nat, NEW K \in SUBSET (1 .. n)
  PROVE  /\ IsFiniteSet(K)
         /\ Cardinality(K) \in 0 .. n
         /\ \A i \in K : Rank(K, i) \in 1 .. Cardinality(K)
         /\ \A i, k \in K : i < k => Rank(K, i) < Rank(K, k)
<1>1. IsFiniteSet(1 .. n) /\ Cardinality(1 .. n) = n
  BY IndexCount
<1>2. IsFiniteSet(K) /\ Cardinality(K) \in 0 .. n
  <2>1. IsFiniteSet(K) /\ Cardinality(K) <= Cardinality(1 .. n)
    BY <1>1, FS_Subset
  <2>2. Cardinality(K) \in Nat
    BY <2>1, FS_CardinalityType
  <2>3. QED  BY <1>1, <2>1, <2>2
<1>3. ASSUME NEW i \in K
      PROVE  /\ IsFiniteSet({j \in K : j <= i})
             /\ Rank(K, i) \in 1 .. Cardinality(K)
  <2> DEFINE L == {j \in K : j <= i}
  <2>1. IsFiniteSet(L) /\ Cardinality(L) <= Cardinality(K)
    BY <1>2, FS_Subset
  <2>2. L # {}
    BY <1>3
  <2>3. Cardinality(L) \in Nat /\ Cardinality(L) # 0
    BY <2>1, <2>2, FS_CardinalityType, FS_EmptySet
  <2>4. QED  BY <1>2, <2>1, <2>3 DEF Rank
<1>4. ASSUME NEW i \in K, NEW k \in K, i < k
      PROVE  Rank(K, i) < Rank(K, k)
  <2> DEFINE L == {j \in K : j <= i}
             M == {j \in K : j <= k}
  <2>1. IsFiniteSet(M) /\ L \in SUBSET M
    <3>1. \A j \in K : j \in Int
      OBVIOUS
    <3>2. \A j \in L : j \in M
      BY <1>4, <3>1
    <3>3. QED  BY <1>3, <3>2
  <2>2. k \in M /\ k \notin L
    BY <1>4
  <2>3. Cardinality(L) <= Cardinality(M) /\ Cardinality(L) # Cardinality(M)
    BY <2>1, <2>2, FS_Subset
  <2>4. Cardinality(L) \in Nat /\ Cardinality(M) \in Nat
    BY <1>3, FS_CardinalityType
  <2>5. QED  BY <2>3, <2>4 DEF Rank
<1>5. QED  BY <1>2, <1>3, <1>4

(***************************************************************************)
(* Ranks number the indexes from 1 without a gap, so AtRank finds one for  *)
(* each number, and every index at its rank.                               *)
(***************************************************************************)
LEMMA AtRankOK ==
  ASSUME NEW n \in Nat, NEW K \in SUBSET (1 .. n)
  PROVE  /\ \A m \in 1 .. Cardinality(K) :
              AtRank(K, m) \in K /\ Rank(K, AtRank(K, m)) = m
         /\ \A i \in K : AtRank(K, Rank(K, i)) = i
<1> DEFINE r == [i \in K |-> Rank(K, i)]
           N == 1 .. Cardinality(K)
<1>1. /\ IsFiniteSet(K) /\ Cardinality(K) \in Nat
      /\ \A i \in K : Rank(K, i) \in N
  BY RankOK
<1>2. \A i, k \in K : Rank(K, i) = Rank(K, k) => i = k
  <2> SUFFICES ASSUME NEW i \in K, NEW k \in K, i # k
               PROVE  Rank(K, i) # Rank(K, k)
    OBVIOUS
  <2>1. Rank(K, i) < Rank(K, k) \/ Rank(K, k) < Rank(K, i)
    <3>1. i < k \/ k < i
      OBVIOUS
    <3>2. QED  BY <3>1, RankOK
  <2>2. Rank(K, i) \in Int /\ Rank(K, k) \in Int
    BY <1>1
  <2>3. QED  BY <2>1, <2>2
<1>3. r \in Injection(K, N)
  <2>1. r \in [K -> N]
    BY <1>1
  <2>2. \A i, k \in K : r[i] = r[k] => i = k
    BY <1>2
  <2>3. QED  BY <2>1, <2>2 DEF Injection, IsInjective
<1>4. IsFiniteSet(N) /\ Cardinality(N) = Cardinality(K)
  BY <1>1, IndexCount
<1>5. r \in Surjection(K, N)
  BY <1>3, <1>4, FS_Injection
<1>6. \A m \in N : \E i \in K : Rank(K, i) = m
  BY <1>5 DEF Surjection
<1>7. ASSUME NEW m \in N
      PROVE  AtRank(K, m) \in K /\ Rank(K, AtRank(K, m)) = m
  BY <1>6 DEF AtRank, Rank
<1>8. \A i \in K : AtRank(K, Rank(K, i)) = i
  BY <1>1, <1>2, <1>7
<1>9. QED  BY <1>7, <1>8

(***************************************************************************)
(* Selected() keeps the elements at the indexes, and nothing else.         *)
(***************************************************************************)
LEMMA SelectedOK ==
  ASSUME NEW T, NEW seq \in Seq(T), NEW K \in SUBSET (DOMAIN seq)
  PROVE  /\ Selected(seq, K) \in Seq(T)
         /\ Cardinality(K) \in Nat /\ Len(Selected(seq, K)) = Cardinality(K)
         /\ \A m \in 1 .. Cardinality(K) :
              AtRank(K, m) \in K /\ Selected(seq, K)[m] = seq[AtRank(K, m)]
         /\ \A i \in K : \E m \in 1 .. Cardinality(K) :
              Selected(seq, K)[m] = seq[i]
         /\ \A l, m \in 1 .. Cardinality(K) :
              AtRank(K, l) = AtRank(K, m) => l = m
<1>1. Len(seq) \in Nat /\ K \in SUBSET (1 .. Len(seq))
  OBVIOUS
<1>2. /\ Cardinality(K) \in Nat
      /\ \A i \in K : Rank(K, i) \in 1 .. Cardinality(K)
  BY <1>1, RankOK
<1>3. /\ \A m \in 1 .. Cardinality(K) :
           AtRank(K, m) \in K /\ Rank(K, AtRank(K, m)) = m
      /\ \A i \in K : AtRank(K, Rank(K, i)) = i
  BY <1>1, AtRankOK
<1>4. \A m \in 1 .. Cardinality(K) : Selected(seq, K)[m] = seq[AtRank(K, m)]
  BY DEF Selected
<1>5. \A m \in 1 .. Cardinality(K) : Selected(seq, K)[m] \in T
  BY <1>3, <1>4
<1>6. Selected(seq, K) \in Seq(T) /\ Len(Selected(seq, K)) = Cardinality(K)
  BY <1>2, <1>5 DEF Selected
<1>7. QED  BY <1>2, <1>3, <1>4, <1>6

(***************************************************************************)
(* Selecting every index changes nothing.                                  *)
(***************************************************************************)
LEMMA SelectedAll ==
  ASSUME NEW T, NEW seq \in Seq(T)
  PROVE  Selected(seq, DOMAIN seq) = seq
<1> DEFINE n == Len(seq)
<1>1. n \in Nat /\ DOMAIN seq = 1 .. n
  OBVIOUS
<1> HIDE DEF n
<1>2. \A m \in Nat : Cardinality(1 .. m) = m
  BY IndexCount
<1>3. ASSUME NEW m \in 1 .. n
      PROVE  AtRank(1 .. n, m) = m
  <2>1. m \in Nat /\ {j \in 1 .. n : j <= m} = 1 .. m
    BY <1>1
  <2>2. Cardinality({j \in 1 .. n : j <= m}) = m
    BY <1>2, <2>1
  <2>3. Rank(1 .. n, m) = m
    BY <2>2 DEF Rank
  <2>4. QED  BY <1>1, <2>3, AtRankOK
<1>4. seq = [m \in 1 .. n |-> seq[m]]
  BY <1>1
<1>5. QED  BY <1>1, <1>2, <1>3, <1>4 DEF Selected

-----------------------------------------------------------------------------
(* Retention. *)

UniqueIds(s) ==
  \A i, k \in DOMAIN s.operationSets :
    s.operationSets[i].id = s.operationSets[k].id => i = k

NewerTerminal(s, i) ==
  {k \in DOMAIN s.operationSets : k > i /\ IsTerminal(s.operationSets[k])}

Kept(s) ==
  {i \in DOMAIN s.operationSets :
     IsTerminal(s.operationSets[i]) => Cardinality(NewerTerminal(s, i)) < RetainCap}

(***************************************************************************)
(* persist() drops records and changes nothing else.                       *)
(***************************************************************************)
LEMMA PrunedSelects ==
  ASSUME NEW s \in State
  PROVE  /\ Pruned(s) = [s EXCEPT !.operationSets = Selected(s.operationSets, Kept(s))]
         /\ Kept(s) \in SUBSET (DOMAIN s.operationSets)
  BY DEF Pruned, Kept, NewerTerminal

(***************************************************************************)
(* What retention leaves: a durable record with the same revision, clock   *)
(* and observation, with no record that was not there, every queued record *)
(* and no id twice.                                                        *)
(***************************************************************************)
LEMMA PrunedOK ==
  ASSUME NEW s \in State
  PROVE  /\ Pruned(s) \in State
         /\ Pruned(s).revision = s.revision
         /\ Pruned(s).idCounter = s.idCounter
         /\ Pruned(s).transport = s.transport
         /\ Pruned(s).lastObserved = s.lastObserved
         /\ Pruned(s).snapshot = s.snapshot
         /\ Records(Pruned(s)) \subseteq Records(s)
         /\ IdsOf(Pruned(s)) \subseteq IdsOf(s)
         /\ Queued(s) \subseteq Records(Pruned(s))
         /\ UniqueIds(s) => UniqueIds(Pruned(s))
<1> DEFINE ops == s.operationSets
           K == Kept(s)
           new == Selected(ops, K)
<1>1. ops \in Seq(OperationSet) /\ K \in SUBSET (DOMAIN ops)
  BY PrunedSelects DEF State
<1>2. /\ new \in Seq(OperationSet)
      /\ Cardinality(K) \in Nat /\ Len(new) = Cardinality(K)
      /\ \A m \in 1 .. Cardinality(K) :
           AtRank(K, m) \in K /\ new[m] = ops[AtRank(K, m)]
      /\ \A i \in K : \E m \in 1 .. Cardinality(K) : new[m] = ops[i]
      /\ \A l, m \in 1 .. Cardinality(K) : AtRank(K, l) = AtRank(K, m) => l = m
  BY <1>1, SelectedOK
<1>3. Pruned(s) = [s EXCEPT !.operationSets = new]
  BY PrunedSelects
<1> HIDE DEF new
<1>4. DOMAIN new = 1 .. Cardinality(K)
  BY <1>2
<1>5. Pruned(s) \in State /\ Pruned(s).operationSets = new
  BY <1>2, <1>3 DEF State
<1>6. /\ Pruned(s).revision = s.revision
      /\ Pruned(s).idCounter = s.idCounter
      /\ Pruned(s).transport = s.transport
      /\ Pruned(s).lastObserved = s.lastObserved
      /\ Pruned(s).snapshot = s.snapshot
  BY <1>3 DEF State
<1>7. /\ Records(Pruned(s)) \subseteq Records(s)
      /\ IdsOf(Pruned(s)) \subseteq IdsOf(s)
  BY <1>1, <1>2, <1>4, <1>5 DEF Records, IdsOf
<1>8. ASSUME NEW r \in Queued(s)
      PROVE  r \in Records(Pruned(s))
  <2>1. PICK i \in DOMAIN ops : r = ops[i] /\ ops[i].status = "queued"
    BY DEF Queued, Records
  <2>2. i \in K
    BY <2>1 DEF Kept, IsTerminal
  <2>3. QED  BY <1>2, <1>4, <1>5, <2>1, <2>2 DEF Records
<1>9. ASSUME UniqueIds(s)
      PROVE  UniqueIds(Pruned(s))
  <2>1. SUFFICES ASSUME NEW l \in 1 .. Cardinality(K), NEW m \in 1 .. Cardinality(K),
                        new[l].id = new[m].id
                 PROVE  l = m
    BY <1>4, <1>5 DEF UniqueIds
  <2> DEFINE i == AtRank(K, l)
             k == AtRank(K, m)
  <2>2. /\ i \in DOMAIN ops /\ k \in DOMAIN ops
        /\ new[l] = ops[i] /\ new[m] = ops[k]
    BY <1>1, <1>2
  <2> HIDE DEF i, k
  <2>3. i = k
    BY <1>9, <2>1, <2>2 DEF UniqueIds
  <2>4. QED  BY <1>2, <2>3 DEF i, k
<1>10. QED  BY <1>5, <1>6, <1>7, <1>8, <1>9

(***************************************************************************)
(* Retention forgets nothing unless RetainCap records remain.              *)
(***************************************************************************)
LEMMA PrunedForgets ==
  ASSUME NEW s \in State
  PROVE  Pruned(s) = s \/ Len(Pruned(s).operationSets) >= RetainCap
<1> DEFINE ops == s.operationSets
           K == Kept(s)
<1>1. /\ ops \in Seq(OperationSet) /\ Len(ops) \in Nat
      /\ DOMAIN ops = 1 .. Len(ops) /\ K \in SUBSET (1 .. Len(ops))
      /\ RetainCap \in Nat
  BY PrunedSelects, DeviceAssumption DEF State
<1>2. CASE K = DOMAIN ops
  BY <1>1, <1>2, PrunedSelects, SelectedAll DEF State
<1>3. CASE K # DOMAIN ops
  <2> DEFINE D == (DOMAIN ops) \ K
  <2>1. D \in SUBSET (1 .. Len(ops)) /\ D # {}
    BY <1>1, <1>3
  <2>2. PICK d \in D : \A i \in D : i <= d
    BY <1>1, <2>1, GreatestIndex
  <2>3. NewerTerminal(s, d) \in SUBSET K
    BY <1>1, <2>1, <2>2 DEF NewerTerminal
  <2>4. ~ (Cardinality(NewerTerminal(s, d)) < RetainCap)
    BY <2>2 DEF Kept
  <2>5. IsFiniteSet(K) /\ Cardinality(K) \in Nat
    BY <1>1, RankOK
  <2>6. Cardinality(NewerTerminal(s, d)) <= Cardinality(K)
        /\ Cardinality(NewerTerminal(s, d)) \in Nat
    BY <2>3, <2>5, FS_Subset, FS_CardinalityType
  <2>7. Cardinality(K) >= RetainCap
    BY <1>1, <2>4, <2>5, <2>6
  <2>8. Pruned(s).operationSets = Selected(ops, K)
    BY PrunedSelects DEF State
  <2>9. Len(Selected(ops, K)) = Cardinality(K)
    BY <1>1, SelectedOK
  <2>10. QED  BY <2>7, <2>8, <2>9
<1>4. QED  BY <1>2, <1>3

(***************************************************************************)
(* As long as no more sets were sent than retention keeps, it drops none.  *)
(***************************************************************************)
LEMMA PrunedSame ==
  ASSUME NEW s \in State, UniqueIds(s),
         IsFiniteSet(Ids), Cardinality(Ids) <= RetainCap
  PROVE  Pruned(s) = s
<1> DEFINE ops == s.operationSets
           K == Kept(s)
           idAt == [i \in 1 .. Len(ops) |-> ops[i].id]
<1>1. /\ ops \in Seq(OperationSet) /\ Len(ops) \in Nat
      /\ DOMAIN ops = 1 .. Len(ops) /\ K \in SUBSET (1 .. Len(ops))
      /\ RetainCap \in Nat
  BY PrunedSelects, DeviceAssumption DEF State
<1>2. IsFiniteSet(1 .. Len(ops)) /\ Cardinality(1 .. Len(ops)) = Len(ops)
  BY <1>1, IndexCount
<1>3. Len(ops) <= Cardinality(Ids)
  <2>1. \A i \in 1 .. Len(ops) : ops[i].id \in Ids
    <3>1. \A i \in 1 .. Len(ops) : ops[i] \in OperationSet
      BY <1>1
    <3>2. QED  BY <3>1 DEF OperationSet
  <2>2. idAt \in Injection(1 .. Len(ops), Ids)
    BY <1>1, <2>1 DEF UniqueIds, Injection, IsInjective
  <2>3. QED  BY <1>2, <2>2, FS_Injection
<1>4. ASSUME NEW i \in 1 .. Len(ops)
      PROVE  Cardinality(NewerTerminal(s, i)) < RetainCap
  <2>1. NewerTerminal(s, i) \in SUBSET (1 .. Len(ops))
        /\ i \notin NewerTerminal(s, i)
    BY <1>1 DEF NewerTerminal
  <2>2. IsFiniteSet(NewerTerminal(s, i))
        /\ Cardinality(NewerTerminal(s, i)) <= Len(ops)
        /\ Cardinality(NewerTerminal(s, i)) # Len(ops)
    BY <1>2, <2>1, FS_Subset
  <2>3. Cardinality(NewerTerminal(s, i)) \in Nat /\ Cardinality(Ids) \in Nat
    BY <2>2, FS_CardinalityType
  <2>4. QED  BY <1>1, <1>3, <2>2, <2>3
<1>5. K = DOMAIN ops
  BY <1>1, <1>4 DEF Kept
<1>6. QED  BY <1>1, <1>5, PrunedSelects, SelectedAll DEF State

-----------------------------------------------------------------------------
(* Observation and reconciliation. *)

StateOK(s) == s \in State /\ TransportOK(s.transport)

(***************************************************************************)
(* Record q is what r may become without being applied: the same set, with *)
(* its outcome if it has one.                                              *)
(***************************************************************************)
SameSet(r, q) ==
  /\ q.id = r.id
  /\ q.input = r.input
  /\ q.changed = r.changed
  /\ IsTerminal(r) => q = r
  /\ q.status = "applied" => q = r

KeepsSets(s, t) ==
  /\ DOMAIN t.operationSets = DOMAIN s.operationSets
  /\ \A i \in DOMAIN s.operationSets : SameSet(s.operationSets[i], t.operationSets[i])

(***************************************************************************)
(* A queued record waits for a step of the current epoch still to come.    *)
(***************************************************************************)
Ahead(r, t) == r.target.epoch = t.epoch /\ t.absoluteStep < r.target.absoluteStep

AllAhead(s) ==
  \A i \in DOMAIN s.operationSets :
    s.operationSets[i].status = "queued" => Ahead(s.operationSets[i], s.transport)

(***************************************************************************)
(* Epochs are named by the id counter, so the next one has a new name.     *)
(***************************************************************************)
NamesBelow(s) ==
  /\ s.transport.epoch < s.idCounter
  /\ \A i \in DOMAIN s.operationSets : s.operationSets[i].target.epoch < s.idCounter

(***************************************************************************)
(* The empty store is a durable record in which all this holds.            *)
(***************************************************************************)
LEMMA EmptyStateOK ==
  /\ StateOK(EmptyState)
  /\ UniqueIds(EmptyState)
  /\ NamesBelow(EmptyState)
  /\ EmptyState.operationSets = <<>> /\ EmptyState.revision = 0
  /\ EmptyState.lastObserved = None
<1>1. TransportOK(NewTransport) /\ NewTransport \in TransportState
  BY NewTransportOK DEF TransportOK
<1>2. NewTransport.epoch = 0
  BY DEF NewTransport
<1>3. QED
  BY <1>1, <1>2 DEF StateOK, UniqueIds, NamesBelow, EmptyState, State

(***************************************************************************)
(* What a content of the device shows is in range.                         *)
(***************************************************************************)
LEMMA ShownOK ==
  ASSUME NEW d \in Device
  PROVE  /\ Content(d) \in [WorkBuffer -> Values]
         /\ Slot(d) \in Patterns
         /\ MasterLength(d) \in Lengths
         /\ [content |-> Content(d), kits |-> FALSE] \in Observation
         /\ [content |-> Content(d), kits |-> FALSE] # None
<1>1. PatternObject \in Objects /\ WorkBuffer \subseteq Objects
  BY DeviceAssumption DEF Objects
<1>2. Content(d) \in [WorkBuffer -> Values]
  BY <1>1 DEF Content, Device
<1>3. d[PatternObject] \in Values
  BY <1>1 DEF Device
<1>4. Slot(d) \in Patterns /\ MasterLength(d) \in Lengths
  BY <1>3, DeviceAssumption DEF Slot, MasterLength
<1>5. [content |-> Content(d), kits |-> FALSE] \in Observation
  BY <1>2 DEF Observation
<1>6. QED  BY <1>2, <1>4, <1>5, NoneAssumption

(***************************************************************************)
(* The revision of an observation grows by at most one.                    *)
(***************************************************************************)
LEMMA SeenOK ==
  ASSUME NEW s, StateOK(s), NEW d \in Device
  PROVE  LET t == Seen(s, d)
         IN  /\ StateOK(t)
             /\ t.operationSets = s.operationSets /\ t.transport = s.transport
             /\ t.idCounter = s.idCounter /\ t.snapshot = s.snapshot
             /\ t.revision \in {s.revision, s.revision + 1}
             /\ t.lastObserved = [content |-> Content(d), kits |-> FALSE]
<1>1. [content |-> Content(d), kits |-> FALSE] \in Observation
  BY ShownOK
<1> DEFINE revision == IF SeesDrift(s, d) THEN s.revision + 1 ELSE s.revision
<1>2. revision \in {s.revision, s.revision + 1} /\ revision \in Nat
  BY DEF StateOK, State
<1>3. Seen(s, d) = [s EXCEPT !.revision = revision,
                             !.lastObserved = [content |-> Content(d), kits |-> FALSE]]
  BY DEF Seen, StateOK, State
<1> HIDE DEF revision
<1>4. Seen(s, d) \in State
  BY <1>1, <1>2, <1>3 DEF StateOK, State
<1>5. QED  BY <1>2, <1>3, <1>4 DEF StateOK, State

(***************************************************************************)
(* An inspection keeps every operation set and the clock's place in its    *)
(* epoch.                                                                  *)
(***************************************************************************)
LEMMA ObservedOK ==
  ASSUME NEW s, StateOK(s), NEW d \in Device
  PROVE  LET t == Observed(s, d)
         IN  /\ StateOK(t)
             /\ t.operationSets = s.operationSets
             /\ t.idCounter = s.idCounter /\ t.snapshot = s.snapshot
             /\ t.revision \in {s.revision, s.revision + 1}
             /\ t.lastObserved = [content |-> Content(d), kits |-> FALSE]
             /\ t.transport.epoch = s.transport.epoch
             /\ t.transport.absoluteStep = s.transport.absoluteStep
<1> DEFINE u == Seen(s, d)
           v == Refreshed(u.transport, Slot(d), MasterLength(d))
<1>1. /\ StateOK(u)
      /\ u.operationSets = s.operationSets /\ u.transport = s.transport
      /\ u.idCounter = s.idCounter /\ u.snapshot = s.snapshot
      /\ u.revision \in {s.revision, s.revision + 1}
      /\ u.lastObserved = [content |-> Content(d), kits |-> FALSE]
  BY SeenOK
<1>2. Observed(s, d) = [u EXCEPT !.transport = v]
  BY DEF Observed, StateOK, State
<1>3. TransportOK(v) /\ v \in TransportState
  BY <1>1, ShownOK, RefreshedOK DEF StateOK, TransportOK
<1>4. v.epoch = u.transport.epoch /\ v.absoluteStep = u.transport.absoluteStep
  BY <1>1 DEF Refreshed, StateOK, TransportOK, TransportState
<1> HIDE DEF u, v
<1>5. QED  BY <1>1, <1>2, <1>3, <1>4 DEF StateOK, State

(***************************************************************************)
(* A record that is reconciled with a clock is the same set; if it is      *)
(* still queued it waits in the clock's epoch.                             *)
(***************************************************************************)
LEMMA ReconciledRecordOK ==
  ASSUME NEW r \in OperationSet, NEW t \in TransportState, TransportOK(t)
  PROVE  LET q == ReconciledRecord(r, t)
         IN  /\ q \in OperationSet
             /\ SameSet(r, q)
             /\ q.status = "queued" => (q = r /\ r.target.epoch = t.epoch) \/ Ahead(q, t)
             /\ q.target.epoch \in {r.target.epoch, t.epoch}
<1> DEFINE at == [r.input.at EXCEPT !.epoch = t.epoch]
           q == ReconciledRecord(r, t)
<1>1. CASE IsTerminal(r) \/ r.target.epoch = t.epoch
  BY <1>1 DEF ReconciledRecord, SameSet, IsTerminal
<1>2. CASE /\ ~ IsTerminal(r) /\ r.target.epoch # t.epoch
           /\ r.input.policy = "roll_forward" /\ Resolvable(t, at)
  <2>1. at \in ApplyAt
    BY DEF OperationSet, Input, ApplyAt, TransportState
  <2>2. /\ Resolve(t, at) \in BoundaryTarget
        /\ Resolve(t, at).epoch = t.epoch
        /\ t.absoluteStep < Resolve(t, at).absoluteStep
    BY <1>2, <2>1, ResolvesAhead
  <2>3. q = [r EXCEPT !.target = Resolve(t, at)]
    BY <1>2 DEF ReconciledRecord
  <2> HIDE DEF q, at
  <2>4. QED
    BY <1>2, <2>2, <2>3
    DEF SameSet, IsTerminal, Ahead, OperationSet, BoundaryTarget, q
<1>3. CASE /\ ~ IsTerminal(r) /\ r.target.epoch # t.epoch
           /\ ~ (r.input.policy = "roll_forward" /\ Resolvable(t, at))
  <2>1. q = [r EXCEPT !.status = "rejected", !.ack = "not_applied"]
    BY <1>3 DEF ReconciledRecord, Rejected
  <2> HIDE DEF q, at
  <2>2. QED
    BY <1>3, <2>1 DEF SameSet, IsTerminal, OperationSet, Statuses, Acks, q
<1>4. QED  BY <1>1, <1>2, <1>3

(***************************************************************************)
(* Reconciliation keeps every set; what is still queued was in the epoch   *)
(* of the clock before, or waits ahead in it.                              *)
(***************************************************************************)
LEMMA ReconcileOK ==
  ASSUME NEW s, StateOK(s)
  PROVE  LET t == ReconcileQueuedEpochs(s)
         IN  /\ StateOK(t)
             /\ t.revision = s.revision /\ t.idCounter = s.idCounter
             /\ t.transport = s.transport /\ t.snapshot = s.snapshot
             /\ t.lastObserved = s.lastObserved
             /\ KeepsSets(s, t)
             /\ Len(t.operationSets) = Len(s.operationSets)
             /\ \A i \in DOMAIN s.operationSets :
                  LET r == s.operationSets[i]
                      q == t.operationSets[i]
                  IN  /\ q.status = "queued" =>
                           (q = r /\ r.target.epoch = s.transport.epoch)
                             \/ Ahead(q, s.transport)
                      /\ q.target.epoch \in {r.target.epoch, s.transport.epoch}
<1> DEFINE ops == s.operationSets
           new == [i \in DOMAIN ops |-> ReconciledRecord(ops[i], s.transport)]
           t == ReconcileQueuedEpochs(s)
<1>1. /\ ops \in Seq(OperationSet) /\ DOMAIN ops = 1 .. Len(ops)
      /\ Len(ops) \in Nat
      /\ s.transport \in TransportState /\ TransportOK(s.transport)
  BY DEF StateOK, State
<1>2. \A i \in DOMAIN ops :
        /\ new[i] \in OperationSet
        /\ SameSet(ops[i], new[i])
        /\ new[i].status = "queued" =>
             (new[i] = ops[i] /\ ops[i].target.epoch = s.transport.epoch)
               \/ Ahead(new[i], s.transport)
        /\ new[i].target.epoch \in {ops[i].target.epoch, s.transport.epoch}
  BY <1>1, ReconciledRecordOK
<1>3. t = [s EXCEPT !.operationSets = new]
  BY DEF ReconcileQueuedEpochs, StateOK, State
<1>4. DOMAIN new = DOMAIN ops /\ new = [i \in 1 .. Len(ops) |-> new[i]]
  BY <1>1
<1> HIDE DEF new
<1>5. new \in Seq(OperationSet) /\ Len(new) = Len(ops)
  BY <1>1, <1>2, <1>4, IsASeq
<1>6. t \in State /\ t.operationSets = new
  BY <1>3, <1>5 DEF StateOK, State
<1>7. /\ t.revision = s.revision /\ t.idCounter = s.idCounter
      /\ t.transport = s.transport /\ t.snapshot = s.snapshot
      /\ t.lastObserved = s.lastObserved
  BY <1>3 DEF StateOK, State
<1> HIDE DEF t
<1>8. QED
  BY <1>1, <1>2, <1>4, <1>5, <1>6, <1>7 DEF StateOK, KeepsSets, t

(***************************************************************************)
(* A clock in an epoch with a new name leaves no record where it was.      *)
(***************************************************************************)
LEMMA BeginAll ==
  ASSUME NEW s, StateOK(s), NamesBelow(s), NEW v,
         v \in State, TransportOK(v.transport),
         v.operationSets = s.operationSets,
         v.transport.epoch = s.idCounter, v.idCounter = s.idCounter + 1
  PROVE  LET t == ReconcileQueuedEpochs(v)
         IN  /\ AllAhead(t)
             /\ NamesBelow(t)
             /\ KeepsSets(s, t)
             /\ Len(t.operationSets) = Len(s.operationSets)
             /\ UniqueIds(s) => UniqueIds(t)
<1> DEFINE t == ReconcileQueuedEpochs(v)
           ops == s.operationSets
           new == t.operationSets
<1>1. /\ t.idCounter = s.idCounter + 1 /\ t.transport = v.transport
      /\ KeepsSets(v, t) /\ KeepsSets(s, t) /\ Len(new) = Len(ops)
      /\ DOMAIN new = DOMAIN ops
      /\ \A i \in DOMAIN ops :
           /\ new[i].status = "queued" =>
                ops[i].target.epoch = s.idCounter \/ Ahead(new[i], v.transport)
           /\ new[i].target.epoch \in {ops[i].target.epoch, s.idCounter}
  BY ReconcileOK DEF StateOK, KeepsSets
<1>2. /\ s.idCounter \in Nat
      /\ \A i \in DOMAIN ops : /\ ops[i].target.epoch \in Nat
                               /\ ops[i].target.epoch < s.idCounter
  <2>1. ops \in Seq(OperationSet) /\ s.idCounter \in Nat
    BY DEF StateOK, State
  <2>2. \A i \in DOMAIN ops : ops[i] \in OperationSet
    BY <2>1
  <2>3. QED  BY <2>1, <2>2 DEF NamesBelow, OperationSet
<1> HIDE DEF t
<1>3. AllAhead(t)
  BY <1>1, <1>2 DEF AllAhead
<1>4. NamesBelow(t)
  <2>1. ASSUME NEW i \in DOMAIN new  PROVE  new[i].target.epoch < t.idCounter
    <3>1. /\ i \in DOMAIN ops
          /\ new[i].target.epoch \in {ops[i].target.epoch, s.idCounter}
      BY <1>1, <2>1
    <3>2. ops[i].target.epoch \in Nat /\ ops[i].target.epoch < s.idCounter
      BY <1>2, <3>1
    <3>3. QED  BY <1>1, <1>2, <3>1, <3>2
  <2>2. t.transport.epoch < t.idCounter
    BY <1>1, <1>2
  <2>3. QED  BY <2>1, <2>2 DEF NamesBelow
<1>5. UniqueIds(s) => UniqueIds(t)
  BY <1>1 DEF UniqueIds, KeepsSets, SameSet
<1>6. QED  BY <1>1, <1>3, <1>4, <1>5 DEF t

(***************************************************************************)
(* A new connection begins an epoch that no record waits in, so all that   *)
(* stays queued is resolved anew and lies ahead.                           *)
(***************************************************************************)
LEMMA ReconnectedOK ==
  ASSUME NEW s, StateOK(s), NEW d \in Device
  PROVE  LET t == Reconnected(s, d)
         IN  /\ StateOK(t)
             /\ t.revision \in {s.revision, s.revision + 1}
             /\ t.lastObserved = [content |-> Content(d), kits |-> FALSE]
             /\ t.snapshot = s.snapshot
             /\ KeepsSets(s, t)
             /\ Len(t.operationSets) = Len(s.operationSets)
             /\ NamesBelow(s) => AllAhead(t) /\ NamesBelow(t)
             /\ UniqueIds(s) => UniqueIds(t)
<1> DEFINE u == Seen(s, d)
           w == BeginEpoch(u.transport, u.idCounter, Slot(d), MasterLength(d))
           v == [u EXCEPT !.idCounter = u.idCounter + 1, !.transport = w]
           t == Reconnected(s, d)
<1>1. /\ StateOK(u)
      /\ u.operationSets = s.operationSets /\ u.transport = s.transport
      /\ u.idCounter = s.idCounter /\ u.snapshot = s.snapshot
      /\ u.revision \in {s.revision, s.revision + 1}
      /\ u.lastObserved = [content |-> Content(d), kits |-> FALSE]
  BY SeenOK
<1>2. u \in State /\ u.idCounter \in Nat
  BY <1>1 DEF StateOK, State
<1>3. TransportOK(w) /\ w \in TransportState
  BY <1>1, <1>2, ShownOK, BeginEpochOK DEF StateOK, TransportOK
<1>4. w.epoch = s.idCounter
  BY <1>1, <1>2 DEF BeginEpoch, Rewound, StateOK, TransportOK, TransportState
<1>5. t = ReconcileQueuedEpochs(v)
  BY <1>2 DEF Reconnected, State
<1> HIDE DEF u, w
<1>6. /\ v \in State /\ v.transport = w /\ v.idCounter = s.idCounter + 1
      /\ v.operationSets = s.operationSets /\ v.snapshot = s.snapshot
      /\ v.revision = u.revision /\ v.lastObserved = u.lastObserved
  <2>1. u.idCounter + 1 \in Nat
    BY <1>2
  <2>2. v \in State
    BY <1>2, <1>3, <2>1 DEF State
  <2>3. QED  BY <1>1, <1>2, <2>2 DEF State
<1> HIDE DEF v
<1>7. StateOK(v)
  BY <1>3, <1>6 DEF StateOK
<1>8. /\ StateOK(t)
      /\ t.revision = v.revision /\ t.snapshot = v.snapshot
      /\ t.lastObserved = v.lastObserved
      /\ KeepsSets(v, t)
      /\ Len(t.operationSets) = Len(v.operationSets)
  BY <1>5, <1>7, ReconcileOK
<1>9. NamesBelow(s) => AllAhead(t) /\ NamesBelow(t)
  BY <1>3, <1>4, <1>5, <1>6, BeginAll
<1>10. KeepsSets(s, t) /\ (UniqueIds(s) => UniqueIds(t))
  BY <1>6, <1>8 DEF KeepsSets, UniqueIds, SameSet
<1> HIDE DEF t
<1>11. QED  BY <1>1, <1>6, <1>8, <1>9, <1>10 DEF t

(***************************************************************************)
(* So does the start of the transport.                                     *)
(***************************************************************************)
LEMMA StartedOK ==
  ASSUME NEW s, StateOK(s)
  PROVE  LET t == Started(s)
         IN  /\ StateOK(t)
             /\ t.revision = s.revision /\ t.snapshot = s.snapshot
             /\ t.lastObserved = s.lastObserved
             /\ KeepsSets(s, t)
             /\ Len(t.operationSets) = Len(s.operationSets)
             /\ NamesBelow(s) => AllAhead(t) /\ NamesBelow(t)
             /\ UniqueIds(s) => UniqueIds(t)
<1> DEFINE w == Start(s.transport, s.idCounter)
           v == [s EXCEPT !.idCounter = s.idCounter + 1, !.transport = w]
           t == Started(s)
<1>1. s \in State /\ s.idCounter \in Nat
  BY DEF StateOK, State
<1>2. TransportOK(w) /\ w \in TransportState
  BY <1>1, StartOK DEF StateOK, TransportOK
<1>3. w.epoch = s.idCounter
  BY <1>1 DEF Start, Rewound, StateOK, TransportOK, TransportState
<1>4. t = ReconcileQueuedEpochs(v)
  BY <1>1 DEF Started, State
<1> HIDE DEF w
<1>5. /\ v \in State /\ v.transport = w /\ v.idCounter = s.idCounter + 1
      /\ v.operationSets = s.operationSets /\ v.snapshot = s.snapshot
      /\ v.revision = s.revision /\ v.lastObserved = s.lastObserved
  <2>1. s.idCounter + 1 \in Nat
    BY <1>1
  <2>2. v \in State
    BY <1>1, <1>2, <2>1 DEF State
  <2>3. QED  BY <1>1, <2>2 DEF State
<1> HIDE DEF v
<1>6. StateOK(v)
  BY <1>2, <1>5 DEF StateOK
<1>7. /\ StateOK(t)
      /\ t.revision = v.revision /\ t.snapshot = v.snapshot
      /\ t.lastObserved = v.lastObserved
      /\ KeepsSets(v, t)
      /\ Len(t.operationSets) = Len(v.operationSets)
  BY <1>4, <1>6, ReconcileOK
<1>8. NamesBelow(s) => AllAhead(t) /\ NamesBelow(t)
  BY <1>2, <1>3, <1>4, <1>5, BeginAll
<1>9. KeepsSets(s, t) /\ (UniqueIds(s) => UniqueIds(t))
  BY <1>5, <1>7 DEF KeepsSets, UniqueIds, SameSet
<1> HIDE DEF t
<1>10. QED  BY <1>5, <1>7, <1>8, <1>9 DEF t

-----------------------------------------------------------------------------
(* Clock commands, and the outcomes of operation sets. *)

SameButTransport(s, t) ==
  /\ t.revision = s.revision /\ t.idCounter = s.idCounter
  /\ t.operationSets = s.operationSets
  /\ t.lastObserved = s.lastObserved /\ t.snapshot = s.snapshot

SameButSets(s, t) ==
  /\ t.revision = s.revision /\ t.idCounter = s.idCounter
  /\ t.transport = s.transport
  /\ t.lastObserved = s.lastObserved /\ t.snapshot = s.snapshot

(***************************************************************************)
(* A clock command changes the clock and nothing else.                     *)
(***************************************************************************)
LEMMA MovedOK ==
  ASSUME NEW s, StateOK(s), NEW t \in TransportState, TransportOK(t)
  PROVE  LET u == [s EXCEPT !.transport = t]
         IN  StateOK(u) /\ u.transport = t /\ SameButTransport(s, u)
  BY DEF StateOK, State, SameButTransport

(***************************************************************************)
(* Losing the connection stops the clock where it is.                      *)
(***************************************************************************)
LEMMA SilentOK ==
  ASSUME NEW s, StateOK(s)
  PROVE  /\ StateOK(Silent(s)) /\ SameButTransport(s, Silent(s))
         /\ Silent(s).transport.epoch = s.transport.epoch
         /\ Silent(s).transport.absoluteStep = s.transport.absoluteStep
<1> DEFINE t == Playing(s.transport, FALSE)
<1>1. s.transport \in TransportState /\ TransportOK(s.transport)
  BY DEF StateOK, TransportOK
<1>2. /\ TransportOK(t) /\ t \in TransportState
      /\ t.epoch = s.transport.epoch /\ t.absoluteStep = s.transport.absoluteStep
  BY <1>1, PlayingOK DEF TransportOK, Playing, TransportState
<1>3. Silent(s) = [s EXCEPT !.transport = t]
  BY DEF Silent, StateOK, State
<1> HIDE DEF t
<1>4. QED  BY <1>2, <1>3, MovedOK

(***************************************************************************)
(* A verified write raises the revision by one if anything changed.        *)
(***************************************************************************)
LEMMA AcknowledgedOK ==
  ASSUME NEW s, StateOK(s), NEW o \in Observation, NEW changed \in BOOLEAN
  PROVE  LET t == Acknowledged(s, o, changed)
         IN  /\ StateOK(t)
             /\ t.revision = IF changed THEN s.revision + 1 ELSE s.revision
             /\ t.lastObserved = o
             /\ t.operationSets = s.operationSets /\ t.transport = s.transport
             /\ t.idCounter = s.idCounter /\ t.snapshot = s.snapshot
<1> DEFINE revision == IF changed THEN s.revision + 1 ELSE s.revision
<1>1. revision \in Nat
  BY DEF StateOK, State
<1>2. Acknowledged(s, o, changed) =
        [s EXCEPT !.revision = revision, !.lastObserved = o]
  BY DEF Acknowledged, StateOK, State
<1> HIDE DEF revision
<1>3. Acknowledged(s, o, changed) \in State
  BY <1>1, <1>2 DEF StateOK, State
<1>4. QED  BY <1>2, <1>3 DEF StateOK, State, revision

(***************************************************************************)
(* The record at an index is replaced; the others stay.                    *)
(***************************************************************************)
LEMMA ReplacedOK ==
  ASSUME NEW s, StateOK(s), NEW i \in DOMAIN s.operationSets, NEW r \in OperationSet
  PROVE  LET t == [s EXCEPT !.operationSets = [@ EXCEPT ![i] = r]]
         IN  /\ StateOK(t) /\ SameButSets(s, t)
             /\ DOMAIN t.operationSets = DOMAIN s.operationSets
             /\ Len(t.operationSets) = Len(s.operationSets)
             /\ t.operationSets[i] = r
             /\ \A k \in DOMAIN s.operationSets \ {i} :
                  t.operationSets[k] = s.operationSets[k]
<1> DEFINE ops == s.operationSets
           new == [ops EXCEPT ![i] = r]
<1>1. ops \in Seq(OperationSet)
  BY DEF StateOK, State
<1>2. /\ new \in Seq(OperationSet) /\ Len(new) = Len(ops)
      /\ DOMAIN new = DOMAIN ops /\ new[i] = r
      /\ \A k \in DOMAIN ops \ {i} : new[k] = ops[k]
  BY <1>1
<1>3. [s EXCEPT !.operationSets = [@ EXCEPT ![i] = r]] =
        [s EXCEPT !.operationSets = new]
  BY DEF StateOK, State
<1> HIDE DEF new
<1>4. QED  BY <1>2, <1>3 DEF StateOK, State, SameButSets

(***************************************************************************)
(* A rejection marks one record.                                           *)
(***************************************************************************)
LEMMA RejectedAtOK ==
  ASSUME NEW s, StateOK(s), NEW i \in DOMAIN s.operationSets, NEW ack \in Acks
  PROVE  LET t == RejectedAt(s, i, ack)
             q == t.operationSets[i]
             r == s.operationSets[i]
         IN  /\ StateOK(t) /\ SameButSets(s, t)
             /\ DOMAIN t.operationSets = DOMAIN s.operationSets
             /\ Len(t.operationSets) = Len(s.operationSets)
             /\ q.id = r.id /\ q.input = r.input /\ q.changed = r.changed
             /\ q.target = r.target /\ q.status = "rejected"
             /\ \A k \in DOMAIN s.operationSets \ {i} :
                  t.operationSets[k] = s.operationSets[k]
<1> DEFINE r == s.operationSets[i]
           q == Rejected(r, ack)
           t == RejectedAt(s, i, ack)
<1>1. r \in OperationSet
  <2>1. s.operationSets \in Seq(OperationSet)
    BY DEF StateOK, State
  <2>2. QED  BY <2>1
<1>2. /\ q \in OperationSet
      /\ q.id = r.id /\ q.input = r.input /\ q.changed = r.changed
      /\ q.target = r.target /\ q.status = "rejected"
  BY <1>1 DEF Rejected, OperationSet, Statuses
<1>3. t = [s EXCEPT !.operationSets = [@ EXCEPT ![i] = q]]
  BY DEF RejectedAt, StateOK, State
<1> HIDE DEF q, t
<1>4. /\ StateOK(t) /\ SameButSets(s, t)
      /\ DOMAIN t.operationSets = DOMAIN s.operationSets
      /\ Len(t.operationSets) = Len(s.operationSets)
      /\ t.operationSets[i] = q
      /\ \A k \in DOMAIN s.operationSets \ {i} :
           t.operationSets[k] = s.operationSets[k]
  BY <1>2, <1>3, ReplacedOK
<1>5. QED  BY <1>2, <1>4 DEF t

(***************************************************************************)
(* So does a verified application.                                         *)
(***************************************************************************)
LEMMA AppliedAtOK ==
  ASSUME NEW s, StateOK(s), NEW i \in DOMAIN s.operationSets, NEW changed \in BOOLEAN
  PROVE  LET t == AppliedAt(s, i, changed)
             q == t.operationSets[i]
             r == s.operationSets[i]
         IN  /\ StateOK(t) /\ SameButSets(s, t)
             /\ DOMAIN t.operationSets = DOMAIN s.operationSets
             /\ Len(t.operationSets) = Len(s.operationSets)
             /\ q.id = r.id /\ q.input = r.input /\ q.changed = changed
             /\ q.target = r.target /\ q.status = "applied"
             /\ \A k \in DOMAIN s.operationSets \ {i} :
                  t.operationSets[k] = s.operationSets[k]
<1> DEFINE r == s.operationSets[i]
           q == [r EXCEPT !.status = "applied", !.ack = "verified", !.changed = changed]
           t == AppliedAt(s, i, changed)
<1>1. r \in OperationSet
  <2>1. s.operationSets \in Seq(OperationSet)
    BY DEF StateOK, State
  <2>2. QED  BY <2>1
<1>2. /\ q \in OperationSet
      /\ q.id = r.id /\ q.input = r.input /\ q.changed = changed
      /\ q.target = r.target /\ q.status = "applied"
  BY <1>1 DEF OperationSet, Statuses, Acks
<1>3. t = [s EXCEPT !.operationSets = [@ EXCEPT ![i] = q]]
  BY DEF AppliedAt, Applied
<1> HIDE DEF q, t
<1>4. /\ StateOK(t) /\ SameButSets(s, t)
      /\ DOMAIN t.operationSets = DOMAIN s.operationSets
      /\ Len(t.operationSets) = Len(s.operationSets)
      /\ t.operationSets[i] = q
      /\ \A k \in DOMAIN s.operationSets \ {i} :
           t.operationSets[k] = s.operationSets[k]
  BY <1>2, <1>3, ReplacedOK
<1>5. QED  BY <1>2, <1>4 DEF t

(***************************************************************************)
(* A new record comes last, and the ids stay unique if its id is new.      *)
(***************************************************************************)
LEMMA WithRecordOK ==
  ASSUME NEW s, StateOK(s), NEW r \in OperationSet
  PROVE  LET t == WithRecord(s, r)
             n == Len(s.operationSets) + 1
         IN  /\ StateOK(t) /\ SameButSets(s, t)
             /\ Len(s.operationSets) \in Nat /\ Len(t.operationSets) = n
             /\ DOMAIN s.operationSets = 1 .. (n - 1)
             /\ DOMAIN t.operationSets = 1 .. n
             /\ t.operationSets[n] = r
             /\ \A k \in DOMAIN s.operationSets :
                  t.operationSets[k] = s.operationSets[k]
             /\ UniqueIds(s) /\ r.id \notin IdsOf(s) => UniqueIds(t)
<1> DEFINE ops == s.operationSets
           new == Append(ops, r)
           n == Len(ops) + 1
           t == WithRecord(s, r)
<1>1. ops \in Seq(OperationSet)
  BY DEF StateOK, State
<1>2. /\ new \in Seq(OperationSet) /\ Len(new) = n /\ Len(ops) \in Nat
      /\ DOMAIN ops = 1 .. (n - 1) /\ DOMAIN new = 1 .. n /\ new[n] = r
      /\ \A k \in DOMAIN ops : new[k] = ops[k]
  BY <1>1
<1>3. t = [s EXCEPT !.operationSets = new]
  BY DEF WithRecord, StateOK, State
<1> HIDE DEF new
<1>4. StateOK(t) /\ SameButSets(s, t) /\ t.operationSets = new
  BY <1>2, <1>3 DEF StateOK, State, SameButSets
<1> HIDE DEF t
<1>5. ASSUME UniqueIds(s), r.id \notin IdsOf(s)
      PROVE  UniqueIds(t)
  <2>1. \A k \in 1 .. (n - 1) : ops[k].id # r.id
    BY <1>2, <1>5 DEF IdsOf
  <2>2. \A k \in 1 .. n : k \in 1 .. (n - 1) \/ k = n
    BY <1>2
  <2>3. QED  BY <1>2, <1>4, <1>5, <2>1, <2>2 DEF UniqueIds
<1>6. QED  BY <1>2, <1>4, <1>5 DEF t

(***************************************************************************)
(* The ids and records of an extended state.                               *)
(***************************************************************************)
LEMMA WithRecordIds ==
  ASSUME NEW s, StateOK(s), NEW r \in OperationSet
  PROVE  /\ IdsOf(WithRecord(s, r)) = IdsOf(s) \cup {r.id}
         /\ Records(WithRecord(s, r)) = Records(s) \cup {r}
<1> DEFINE t == WithRecord(s, r)
           n == Len(s.operationSets) + 1
<1>1. /\ Len(s.operationSets) \in Nat
      /\ DOMAIN s.operationSets = 1 .. (n - 1)
      /\ DOMAIN t.operationSets = 1 .. n
      /\ t.operationSets[n] = r
      /\ \A k \in DOMAIN s.operationSets : t.operationSets[k] = s.operationSets[k]
  BY WithRecordOK
<1> HIDE DEF t
<1>2. DOMAIN t.operationSets = DOMAIN s.operationSets \cup {n}
  BY <1>1
<1> HIDE DEF n
<1>3. IdsOf(t) = IdsOf(s) \cup {r.id}
  <2>1. /\ \A x \in IdsOf(t) : x \in IdsOf(s) \cup {r.id}
        /\ \A x \in IdsOf(s) \cup {r.id} : x \in IdsOf(t)
    BY <1>1, <1>2 DEF IdsOf
  <2>2. QED  BY <2>1
<1>4. Records(t) = Records(s) \cup {r}
  <2>1. /\ \A x \in Records(t) : x \in Records(s) \cup {r}
        /\ \A x \in Records(s) \cup {r} : x \in Records(t)
    BY <1>1, <1>2 DEF Records
  <2>2. QED  BY <2>1
<1>5. QED  BY <1>3, <1>4 DEF t

(***************************************************************************)
(* The records that are appended are operation sets; a queued one lies     *)
(* ahead.                                                                  *)
(***************************************************************************)
LEMMA NewRecordsOK ==
  ASSUME NEW s, StateOK(s), NEW id \in Ids, NEW input \in Input
  PROVE  /\ \A changed \in BOOLEAN :
              ImmediateRecord(s, id, input, changed) \in OperationSet
         /\ Resolvable(s.transport, input.at) =>
              /\ QueuedRecord(s, id, input) \in OperationSet
              /\ Ahead(QueuedRecord(s, id, input), s.transport)
<1>1. s.transport \in TransportState /\ TransportOK(s.transport)
  BY DEF StateOK, TransportOK
<1>2. s.transport.epoch \in Nat /\ s.transport.absoluteStep \in Nat
  BY <1>1 DEF TransportState
<1>3. input.at \in ApplyAt
  BY DEF Input
<1>4. ASSUME NEW changed \in BOOLEAN
      PROVE  ImmediateRecord(s, id, input, changed) \in OperationSet
  BY <1>2 DEF ImmediateRecord, OperationSet, Statuses, Acks
<1>5. ASSUME Resolvable(s.transport, input.at)
      PROVE  /\ QueuedRecord(s, id, input) \in OperationSet
             /\ Ahead(QueuedRecord(s, id, input), s.transport)
  <2>1. /\ Resolve(s.transport, input.at) \in BoundaryTarget
        /\ Resolve(s.transport, input.at).epoch = s.transport.epoch
        /\ s.transport.absoluteStep < Resolve(s.transport, input.at).absoluteStep
    BY <1>1, <1>3, <1>5, ResolvesAhead
  <2>2. QED
    BY <2>1 DEF QueuedRecord, OperationSet, Statuses, Acks, Ahead, BoundaryTarget
<1>6. QED  BY <1>4, <1>5

-----------------------------------------------------------------------------
(* Changes that keep every set. *)

(***************************************************************************)
(* Keeping every set is reflexive and transitive, and keeps ids and        *)
(* lengths.                                                                *)
(***************************************************************************)
LEMMA KeepsSetsSame ==
  ASSUME NEW s, NEW t, t.operationSets = s.operationSets
  PROVE  KeepsSets(s, t)
  BY DEF KeepsSets, SameSet

LEMMA KeepsSetsTrans ==
  ASSUME NEW s, NEW t, NEW u, KeepsSets(s, t), KeepsSets(t, u)
  PROVE  KeepsSets(s, u)
<1>1. \A i \in DOMAIN s.operationSets :
        SameSet(s.operationSets[i], u.operationSets[i])
  <2> SUFFICES ASSUME NEW i \in DOMAIN s.operationSets
               PROVE  SameSet(s.operationSets[i], u.operationSets[i])
    OBVIOUS
  <2>1. /\ SameSet(s.operationSets[i], t.operationSets[i])
        /\ SameSet(t.operationSets[i], u.operationSets[i])
    BY DEF KeepsSets
  <2>2. QED  BY <2>1 DEF SameSet, IsTerminal
<1>2. QED  BY <1>1 DEF KeepsSets

LEMMA KeepsSetsIds ==
  ASSUME NEW s, StateOK(s), NEW t, StateOK(t), KeepsSets(s, t)
  PROVE  /\ IdsOf(t) = IdsOf(s)
         /\ Len(s.operationSets) \in Nat
         /\ Len(t.operationSets) = Len(s.operationSets)
         /\ UniqueIds(s) <=> UniqueIds(t)
<1>1. /\ DOMAIN t.operationSets = DOMAIN s.operationSets
      /\ \A i \in DOMAIN s.operationSets :
           t.operationSets[i].id = s.operationSets[i].id
  BY DEF KeepsSets, SameSet
<1>2. /\ s.operationSets \in Seq(OperationSet) /\ t.operationSets \in Seq(OperationSet)
  BY DEF StateOK, State
<1> DEFINE m == Len(s.operationSets)
           n == Len(t.operationSets)
<1>3. m \in Nat /\ n \in Nat /\ 1 .. n = 1 .. m
  BY <1>1, <1>2
<1>4. n = m
  <2> HIDE DEF m, n
  <2>1. (n # 0 => n \in 1 .. m) /\ (m # 0 => m \in 1 .. n)
    BY <1>3
  <2>2. QED  BY <1>3, <2>1
<1>5. QED  BY <1>1, <1>3, <1>4 DEF IdsOf, UniqueIds

-----------------------------------------------------------------------------
(***************************************************************************)
(* SECOND PART, the control thread: its inductive invariant, and what      *)
(* follows from it.                                                        *)
(***************************************************************************)

Clients == [Ids -> [input: Input \cup {None}, answer: Answers]]

TypeInv ==
  /\ device \in Device
  /\ session \in BOOLEAN
  /\ StateOK(mem) /\ StateOK(disk)
  /\ saved \in BOOLEAN
  /\ ~FailingSaves => saved
  /\ job \in Job \cup {Idle}
  /\ client \in Clients
  /\ landed \in [Ids -> Nat]

(***************************************************************************)
(* Phases and kinds of a job.  From the first write on there is a session. *)
(***************************************************************************)
JobInv ==
  job # Idle =>
    /\ job.phase = "next" => job.kind = "due" /\ job.todo # {}
    /\ job.kind # "due" => job.todo = {}
    /\ job.kind = "apply" => job.id \in Ids /\ client[job.id].input \in Input
    /\ job.kind = "rollback" => job.id = None /\ job.phase # "restore"
    /\ job.kind = "rollback" /\ job.phase = "read" => mem.snapshot # None
    /\ job.kind = "due" /\ job.phase # "next" => job.id \in Ids
    /\ job.kind = "due" /\ job.phase = "next" => job.id = None
    /\ job.kind = "due" /\ job.phase = "read" =>
         /\ job.index \in DOMAIN mem.operationSets
         /\ mem.operationSets[job.index].id = job.id
    /\ job.phase \in {"write", "verify", "restore"} =>
         session /\ {job.base, job.want} \subseteq Device

(***************************************************************************)
(* The work buffer is what was last observed, or, between a write and its  *)
(* verification or restoration, differs from it only in objects the job    *)
(* writes.                                                                 *)
(***************************************************************************)
Writing == job # Idle /\ job.phase \in {"verify", "restore"}

ObservedInv ==
  /\ session => mem.lastObserved # None
  /\ session /\ ~foreign /\ ~Writing => mem.lastObserved.content = Content(device)
  /\ ~foreign /\ job # Idle /\ job.phase = "write" => Content(job.base) = Content(device)
  /\ ~foreign /\ Writing =>
       /\ mem.lastObserved.content = Content(job.base)
       /\ \A o \in WorkBuffer \ ChangedObjects(job.want, job.base) :
            device[o] = job.base[o]

(***************************************************************************)
(* After a save that succeeded the state file holds every set that memory  *)
(* holds; memory may have reconciled records that are still queued in the  *)
(* file.  A set that a client was answered about after such a save is      *)
(* known to memory and file alike.                                         *)
(***************************************************************************)
Keeps(s) ==
  \A id \in Ids : client[id].answer = "saved" =>
    id \in IdsOf(s) \/ Len(s.operationSets) >= RetainCap

SyncInv ==
  /\ saved =>
       /\ disk.revision = mem.revision
       /\ disk.lastObserved = None => mem.lastObserved = None
       /\ KeepsSets(disk, mem)
  /\ Keeps(mem) /\ Keeps(disk)

(***************************************************************************)
(* A record holds what its client sent, and no set has two records.        *)
(***************************************************************************)
BoundTo(s) == \A r \in Records(s) : client[r.id].input = r.input

BindInv ==
  /\ UniqueIds(mem)
  /\ BoundTo(mem)
  /\ job # Idle /\ job.kind = "apply" => job.id \notin IdsOf(mem)

(***************************************************************************)
(* The current record of a due job stays at its index.                     *)
(***************************************************************************)
IndexInv ==
  job # Idle /\ job.kind = "due" /\ job.phase # "next" =>
    /\ job.index \in DOMAIN mem.operationSets
    /\ mem.operationSets[job.index].id = job.id

(***************************************************************************)
(* Changed records are of revisions that are over, no two of the same; and *)
(* of none that a job is about to spend.                                   *)
(***************************************************************************)
WinnerInv ==
  /\ \A r \in Records(mem) : r.changed => r.input.expected < mem.revision
  /\ \A r, q \in Records(mem) :
       r.changed /\ q.changed /\ r.input.expected = q.input.expected => r.id = q.id
  /\ job # Idle /\ job.id \in Ids =>
       /\ client[job.id].input.expected <= mem.revision
       /\ \A r \in Records(mem) : r.changed =>
            r.input.expected # client[job.id].input.expected

StaleInv ==
  job # Idle /\ job.id \in Ids /\ job.phase \in {"read", "write"} =>
    /\ client[job.id].input.expected = mem.revision
    /\ job.kind = "apply" => session

-----------------------------------------------------------------------------
(* Parts of the handlers. *)

(***************************************************************************)
(* A list of indexes that is not empty has a first one.                    *)
(***************************************************************************)
LEMMA FirstOK ==
  ASSUME NEW S \in SUBSET Nat, S # {}
  PROVE  First(S) \in S
<1>1. \E i \in S : \A k \in S : i <= k
  BY LeastNatural
<1>2. QED  BY <1>1 DEF First

(***************************************************************************)
(* Saving keeps the type of the record, in memory and in the file.         *)
(***************************************************************************)
LEMMA PersistFromOK ==
  ASSUME NEW E, NEW s, StateOK(s), \A e \in E : StateOK(e), PersistFrom(E, s)
  PROVE  /\ StateOK(mem') /\ StateOK(disk')
         /\ mem' = Pruned(s) /\ disk' \in E \cup {mem'}
         /\ saved' \in BOOLEAN /\ (saved' => disk' = mem') /\ (~FailingSaves => saved')
         /\ mem'.snapshot = s.snapshot /\ mem'.lastObserved = s.lastObserved
         /\ mem'.revision = s.revision /\ mem'.transport = s.transport
         /\ mem'.idCounter = s.idCounter
<1>1. s \in State /\ TransportOK(s.transport)
  BY DEF StateOK
<1>2. /\ Pruned(s) \in State /\ Pruned(s).transport = s.transport
      /\ Pruned(s).snapshot = s.snapshot /\ Pruned(s).lastObserved = s.lastObserved
      /\ Pruned(s).revision = s.revision /\ Pruned(s).idCounter = s.idCounter
  BY <1>1, PrunedOK
<1>3. /\ mem' = Pruned(s) /\ disk' \in E \cup {Pruned(s)}
      /\ saved' \in BOOLEAN /\ (saved' => disk' = Pruned(s)) /\ (~FailingSaves => saved')
  BY DEF PersistFrom, Saved
<1>4. StateOK(Pruned(s))
  BY <1>1, <1>2 DEF StateOK
<1>5. QED  BY <1>2, <1>3, <1>4

LEMMA PersistOK ==
  ASSUME NEW s, StateOK(s), StateOK(disk), Persist(s)
  PROVE  /\ StateOK(mem') /\ StateOK(disk')
         /\ mem' = Pruned(s) /\ disk' \in {disk, mem'}
         /\ saved' \in BOOLEAN /\ (saved' => disk' = mem') /\ (~FailingSaves => saved')
         /\ mem'.snapshot = s.snapshot /\ mem'.lastObserved = s.lastObserved
         /\ mem'.revision = s.revision /\ mem'.transport = s.transport
         /\ mem'.idCounter = s.idCounter
<1>1. PersistFrom({disk}, s)
  BY DEF Persist
<1>2. \A e \in {disk} : StateOK(e)
  OBVIOUS
<1>3. QED  BY <1>1, <1>2, PersistFromOK

LEMMA SavedOK ==
  ASSUME NEW s, StateOK(s), Saved(s)
  PROVE  /\ StateOK(mem') /\ StateOK(disk')
         /\ mem' = Pruned(s) /\ disk' = mem' /\ saved' = TRUE
         /\ mem'.snapshot = s.snapshot /\ mem'.lastObserved = s.lastObserved
         /\ mem'.revision = s.revision /\ mem'.transport = s.transport
         /\ mem'.idCounter = s.idCounter
<1>1. PersistFrom({}, s) /\ disk' = Pruned(s) /\ saved' = TRUE
  BY DEF PersistFrom, Saved
<1>2. QED  BY <1>1, PersistFromOK

(***************************************************************************)
(* A daemon whose saves do not fail.                                       *)
(***************************************************************************)
LEMMA NoFailure ==
  ASSUME ~FailingSaves
  PROVE  /\ \A s : Persist(s) => Saved(s)
         /\ \A E, s : PersistFrom(E, s) => Saved(s)
  BY DEF Persist, PersistFrom

LEMMA PrunedStateOK ==
  ASSUME NEW s, StateOK(s)
  PROVE  StateOK(Pruned(s))
  BY PrunedOK DEF StateOK

(***************************************************************************)
(* After a record: the next one of the list, or none.                      *)
(***************************************************************************)
LEMMA RestOK ==
  ASSUME NEW j \in Job
  PROVE  /\ j.todo = {} => Rest(j) = Idle
         /\ j.todo # {} =>
              /\ Rest(j) = NewJob("due", "next", None, 0, j.todo)
              /\ Rest(j) \in Job
              /\ Rest(j).kind = "due" /\ Rest(j).phase = "next"
              /\ Rest(j).todo = j.todo /\ Rest(j).id = None
<1>1. j.todo \in SUBSET Nat
  BY DEF Job
<1>2. QED  BY <1>1 DEF Rest, NewJob, Job

LEMMA GoOnOK ==
  ASSUME NEW j \in Job, GoOn(j)
  PROVE  /\ job' \in {Idle, Rest(j)}
         /\ job' \in Job \cup {Idle}
         /\ job' # Idle =>
              /\ job'.kind = "due" /\ job'.phase = "next"
              /\ job'.todo = j.todo /\ job'.todo # {} /\ job'.id = None
         /\ saved' \/ j.todo = {} => job' = Rest(j)
  BY RestOK DEF GoOn

(***************************************************************************)
(* What a new job looks like.                                              *)
(***************************************************************************)
LEMMA NewJobOK ==
  ASSUME NEW kind \in {"apply", "due", "rollback"},
         NEW phase \in {"next", "read", "write", "verify", "restore"},
         NEW id \in Ids \cup {None}, NEW index \in Nat, NEW todo \in SUBSET Nat
  PROVE  LET j == NewJob(kind, phase, id, index, todo)
         IN  /\ j \in Job
             /\ j.kind = kind /\ j.phase = phase /\ j.id = id
             /\ j.index = index /\ j.todo = todo
  BY DEF NewJob, Job

(***************************************************************************)
(* What a client sent or was told changes for one id.                      *)
(***************************************************************************)
LEMMA SentOK ==
  ASSUME client \in Clients, NEW id \in Ids, NEW input \in Input \cup {None},
         NEW answer \in Answers, Sent(id, input, answer)
  PROVE  /\ client' \in Clients
         /\ client'[id].input = input /\ client'[id].answer = answer
         /\ \A k \in Ids \ {id} : client'[k] = client[k]
<1> DEFINE r == [input |-> input, answer |-> answer]
<1>1. r \in [input: Input \cup {None}, answer: Answers]
  OBVIOUS
<1>2. client' = [client EXCEPT ![id] = r]
  BY DEF Sent
<1>3. r.input = input /\ r.answer = answer
  OBVIOUS
<1> HIDE DEF r
<1>4. QED  BY <1>1, <1>2, <1>3 DEF Clients

LEMMA AnswerOfOK ==
  ASSUME NEW success \in BOOLEAN
  PROVE  /\ AnswerOf(success) \in Answers
         /\ AnswerOf(success) = "saved" <=> success
  BY DEF AnswerOf, Answers

(***************************************************************************)
(* A failed job: the record it worked on, if it is a queued one, is marked *)
(* in a state that differs from memory in the clock at most.               *)
(***************************************************************************)
Failing(lost) == IF lost THEN Pruned(Silent(mem)) ELSE mem

LEMMA FailingOK ==
  ASSUME TypeInv, NEW lost \in BOOLEAN
  PROVE  StateOK(Failing(lost))
<1>1. StateOK(mem)
  BY DEF TypeInv
<1>2. StateOK(Silent(mem))
  BY <1>1, SilentOK
<1>3. StateOK(Pruned(Silent(mem)))
  BY <1>2, PrunedStateOK
<1>4. QED  BY <1>1, <1>3 DEF Failing

LEMMA FailParts ==
  ASSUME TypeInv, NEW j, NEW lost \in BOOLEAN, NEW ack \in Acks,
         Fail(j, lost, ack)
  PROVE  /\ session' = (session /\ ~lost)
         /\ \/ /\ j.kind = "due"
               /\ j.index \in DOMAIN Failing(lost).operationSets
               /\ PersistFrom(IF lost THEN {disk, Failing(lost)} ELSE {disk},
                              RejectedAt(Failing(lost), j.index, ack))
            \/ /\ j.kind # "due" /\ lost
               /\ Persist(Failing(lost))
            \/ /\ j.kind # "due" /\ ~lost
               /\ UNCHANGED <<mem, disk, saved>>
         /\ GoOn(j)
  BY DEF Fail, Failing

LEMMA FailOK ==
  ASSUME TypeInv, NEW j \in Job, NEW lost \in BOOLEAN, NEW ack \in Acks,
         Fail(j, lost, ack)
  PROVE  /\ StateOK(mem') /\ StateOK(disk')
         /\ saved' \in BOOLEAN /\ (~FailingSaves => saved')
         /\ session' \in BOOLEAN
         /\ GoOn(j)
<1> DEFINE s == RejectedAt(Failing(lost), j.index, ack)
           E == IF lost THEN {disk, Failing(lost)} ELSE {disk}
<1>1. StateOK(Failing(lost)) /\ StateOK(disk)
  BY FailingOK DEF TypeInv
<1>2. CASE j.index \in DOMAIN Failing(lost).operationSets /\ PersistFrom(E, s)
  <2>1. StateOK(s) /\ \A e \in E : StateOK(e)
    BY <1>1, <1>2, RejectedAtOK
  <2> HIDE DEF s, E
  <2>2. QED  BY <1>2, <2>1, FailParts, PersistFromOK DEF TypeInv
<1>3. CASE Persist(Failing(lost))
  BY <1>1, <1>3, FailParts, PersistOK DEF TypeInv
<1>4. CASE UNCHANGED <<mem, disk, saved>>
  BY <1>4, FailParts DEF TypeInv
<1>5. QED  BY <1>2, <1>3, <1>4, FailParts

(***************************************************************************)
(* A settled job: the state after it, before it is saved.                  *)
(***************************************************************************)
Changes(j) == ChangedObjects(j.want, j.base) # {}

SettledState(s, j, o) ==
  LET acked == Acknowledged(s, o, Changes(j))
  IN  CASE j.kind = "apply" ->
             WithRecord(acked, ImmediateRecord(acked, j.id, client[j.id].input, Changes(j)))
        [] j.kind = "due" -> AppliedAt(acked, j.index, Changes(j))
        [] j.kind = "rollback" -> acked

LEMMA SettleParts ==
  ASSUME NEW s, NEW j, NEW o, Settle(s, j, o)
  PROVE  /\ PersistFrom({IF session THEN disk ELSE s}, SettledState(s, j, o))
         /\ j.kind = "due" => j.index \in DOMAIN s.operationSets
         /\ IF j.kind = "apply" THEN Sent(j.id, client[j.id].input, AnswerOf(saved'))
            ELSE UNCHANGED client
         /\ foreign' = FALSE
         /\ GoOn(j)
  BY DEF Settle, SettledState, Changes

LEMMA SettledOK ==
  ASSUME TypeInv, NEW s, StateOK(s), NEW j \in Job, NEW o \in Observation,
         j.kind = "apply" => j.id \in Ids /\ client[j.id].input \in Input,
         j.kind = "due" => j.index \in DOMAIN s.operationSets
  PROVE  LET a == Acknowledged(s, o, Changes(j))
             t == SettledState(s, j, o)
         IN  /\ StateOK(a) /\ StateOK(t)
             /\ SameButSets(a, t)
             /\ a.operationSets = s.operationSets /\ a.transport = s.transport
             /\ a.idCounter = s.idCounter /\ a.snapshot = s.snapshot
             /\ a.lastObserved = o
             /\ a.revision = IF Changes(j) THEN s.revision + 1 ELSE s.revision
             /\ j.kind = "apply" =>
                  /\ ImmediateRecord(a, j.id, client[j.id].input, Changes(j)) \in OperationSet
                  /\ t = WithRecord(a, ImmediateRecord(a, j.id, client[j.id].input, Changes(j)))
             /\ j.kind = "due" => t = AppliedAt(a, j.index, Changes(j))
             /\ j.kind = "rollback" => t = a
<1> DEFINE a == Acknowledged(s, o, Changes(j))
           r == ImmediateRecord(a, j.id, client[j.id].input, Changes(j))
           t == SettledState(s, j, o)
<1>1. Changes(j) \in BOOLEAN
  BY DEF Changes
<1>2. /\ StateOK(a)
      /\ a.operationSets = s.operationSets /\ a.transport = s.transport
      /\ a.idCounter = s.idCounter /\ a.snapshot = s.snapshot
      /\ a.lastObserved = o
      /\ a.revision = IF Changes(j) THEN s.revision + 1 ELSE s.revision
  BY <1>1, AcknowledgedOK
<1>3. /\ j.kind = "apply" => t = WithRecord(a, r)
      /\ j.kind = "due" => t = AppliedAt(a, j.index, Changes(j))
      /\ j.kind = "rollback" => t = a
  BY DEF SettledState
<1>4. j.kind \in {"apply", "due", "rollback"}
  BY DEF Job
<1> HIDE DEF a, t
<1>5. j.kind = "apply" => r \in OperationSet
  BY <1>1, <1>2, NewRecordsOK
<1>6. CASE j.kind = "apply"
  BY <1>2, <1>3, <1>5, <1>6, WithRecordOK DEF a, t
<1>7. CASE j.kind = "due"
  <2>1. j.index \in DOMAIN a.operationSets
    BY <1>2, <1>7
  <2>2. QED  BY <1>1, <1>2, <1>3, <1>7, <2>1, AppliedAtOK DEF a, t
<1>8. CASE j.kind = "rollback"
  BY <1>2, <1>3, <1>8 DEF a, t, SameButSets
<1>9. QED  BY <1>4, <1>6, <1>7, <1>8

LEMMA SettleOK ==
  ASSUME TypeInv, NEW s, StateOK(s), NEW j \in Job, NEW o \in Observation,
         j.kind = "apply" => j.id \in Ids /\ client[j.id].input \in Input,
         Settle(s, j, o)
  PROVE  /\ StateOK(mem') /\ StateOK(disk')
         /\ saved' \in BOOLEAN /\ (~FailingSaves => saved')
         /\ client' \in Clients
         /\ foreign' = FALSE
         /\ GoOn(j)
         /\ mem'.lastObserved = o
<1> DEFINE E == {IF session THEN disk ELSE s}
<1>1. /\ PersistFrom(E, SettledState(s, j, o))
      /\ j.kind = "due" => j.index \in DOMAIN s.operationSets
      /\ IF j.kind = "apply" THEN Sent(j.id, client[j.id].input, AnswerOf(saved'))
         ELSE UNCHANGED client
      /\ foreign' = FALSE
      /\ GoOn(j)
  BY SettleParts
<1>2. StateOK(SettledState(s, j, o)) /\ SettledState(s, j, o).lastObserved = o
  BY <1>1, SettledOK DEF SameButSets
<1>3. \A e \in E : StateOK(e)
  BY DEF TypeInv
<1> HIDE DEF E
<1>4. /\ StateOK(mem') /\ StateOK(disk')
      /\ saved' \in BOOLEAN /\ (~FailingSaves => saved')
      /\ mem'.lastObserved = SettledState(s, j, o).lastObserved
  BY <1>1, <1>2, <1>3, PersistFromOK
<1>5. client' \in Clients
  BY <1>1, <1>4, SentOK, AnswerOfOK DEF TypeInv
<1>6. QED  BY <1>1, <1>2, <1>4, <1>5

-----------------------------------------------------------------------------
(* Types and phases. *)

(***************************************************************************)
(* A next job that is none, or waits for the next record of its list,      *)
(* satisfies all that is asked of jobs.                                    *)
(***************************************************************************)
LEMMA RestInv ==
  ASSUME NEW j \in Job, GoOn(j)
  PROVE  job' \in Job \cup {Idle} /\ JobInv'
  BY GoOnOK DEF JobInv

LEMMA InitTypes == Init => TypeInv /\ JobInv
<1> SUFFICES ASSUME Init  PROVE  TypeInv /\ JobInv
  OBVIOUS
<1>1. client \in Clients
  BY DEF Init, Unsent, Clients, Answers
<1>2. QED  BY <1>1, EmptyStateOK DEF Init, TypeInv, JobInv

(***************************************************************************)
(* Requests and observations, while there is no job.                       *)
(***************************************************************************)
LEMMA IdleStepTypes ==
  ASSUME TypeInv, JobInv,
         Reconnect \/ LoseSession \/ Inspect \/ CreateSnapshot \/ SaveAgain
           \/ StartTransport \/ StopOrContinue \/ RequestPattern \/ SetActiveScene
  PROVE  TypeInv' /\ JobInv'
<1> USE DEF TypeInv
<1>1. CASE Reconnect
  <2>1. StateOK(Reconnected(mem, device))
    BY ReconnectedOK
  <2>2. QED  BY <1>1, <2>1, PersistOK DEF Reconnect, JobInv
<1>2. CASE LoseSession
  BY <1>2, SilentOK, PersistOK DEF LoseSession, JobInv, history
<1>3. CASE Inspect
  <2>1. StateOK(Observed(mem, device))
    BY ObservedOK
  <2>2. QED  BY <1>3, <2>1, PersistOK DEF Inspect, JobInv
<1>4. CASE CreateSnapshot
  <2> DEFINE s == [mem EXCEPT !.snapshot = [o \in SnapshotObjects |-> device[o]]]
  <2>1. StateOK(s)
    BY DEF StateOK, State, Device, SnapshotObjects, Objects
  <2>2. QED  BY <1>4, <2>1, PersistOK DEF CreateSnapshot, JobInv, history
<1>5. CASE StartTransport
  <2>1. StateOK(Started(mem))
    BY StartedOK
  <2>2. QED  BY <1>5, <2>1, PersistOK DEF StartTransport, InMemory, JobInv
<1>6. CASE StopOrContinue
  <2>1. ASSUME NEW b \in BOOLEAN
        PROVE  StateOK([mem EXCEPT !.transport = Playing(@, b)])
    <3>1. mem \in State /\ mem.transport \in TransportState /\ TransportOK(mem.transport)
      BY DEF TypeInv, StateOK, State
    <3>2. Playing(mem.transport, b) \in TransportState
      BY <3>1 DEF Playing, TransportState
    <3>3. TransportOK(Playing(mem.transport, b))
      BY <3>1, <3>2, PlayingOK
    <3>4. QED  BY <3>1, <3>2, <3>3, MovedOK DEF SameButTransport
  <2>2. QED  BY <1>6, <2>1, PersistOK DEF StopOrContinue, InMemory, JobInv, history
<1>7. CASE RequestPattern
  <2>1. ASSUME NEW q \in Patterns, NEW b \in BOOLEAN
        PROVE  StateOK([mem EXCEPT !.transport = ChangePattern(@, q, b)])
    BY ChangePatternOK, MovedOK DEF StateOK, TransportOK, State
  <2>2. QED  BY <1>7, <2>1 DEF RequestPattern, InMemory, JobInv, history
<1>8. CASE SetActiveScene
  <2>1. StateOK([mem EXCEPT !.lastObserved = [content |-> Content(device), kits |-> FALSE]])
    BY ShownOK DEF StateOK, State
  <2>2. QED  BY <1>8, <2>1 DEF SetActiveScene, InMemory, JobInv
<1>9. CASE SaveAgain
  BY <1>9, PersistOK DEF SaveAgain, JobInv, history
<1>10. QED
  BY <1>1, <1>2, <1>3, <1>4, <1>5, <1>6, <1>7, <1>8, <1>9

(***************************************************************************)
(* Restarts and edits at the panel, which no job holds up.                 *)
(***************************************************************************)
LEMMA TroubleStepTypes ==
  ASSUME TypeInv, JobInv, Restart \/ PanelEdit
  PROVE  TypeInv' /\ JobInv'
<1> USE DEF TypeInv
<1>1. CASE Restart
  BY <1>1, SilentOK, SavedOK DEF Restart, Crash, Shutdown, JobInv, history
<1>2. CASE PanelEdit
  BY <1>2 DEF PanelEdit, JobInv, Device
<1>3. QED  BY <1>1, <1>2

(***************************************************************************)
(* Requests that bring work.                                               *)
(***************************************************************************)
QueueAt(kind) ==
  [kind |-> kind, epoch |-> mem.transport.epoch,
   pattern |-> mem.transport.pattern, step |-> 0]

QueueInput(edit, kind, policy) ==
  [expected |-> mem.revision, edit |-> edit, at |-> QueueAt(kind), policy |-> policy]

ApplyInput(edit) ==
  [expected |-> mem.revision, edit |-> edit,
   at |-> [kind |-> "next_step", epoch |-> 0, pattern |-> DefaultPattern, step |-> 0],
   policy |-> "reject"]

LEMMA InputsOK ==
  ASSUME TypeInv, NEW edit \in Edits
  PROVE  /\ ApplyInput(edit) \in Input
         /\ \A kind \in QueueKinds, policy \in Policies :
              /\ QueueInput(edit, kind, policy) \in Input
              /\ Resolvable(mem.transport, QueueAt(kind))
<1>1. /\ mem.revision \in Nat /\ mem.transport.epoch \in Nat
      /\ mem.transport.pattern \in Patterns
      /\ mem.transport.patternLength \in Lengths
  BY DEF TypeInv, StateOK, State, TransportState
<1>2. ApplyInput(edit) \in Input
  BY <1>1, ClockAssumption DEF ApplyInput, Input, ApplyAt, BoundaryKinds, Policies
<1>3. ASSUME NEW kind \in QueueKinds, NEW policy \in Policies
      PROVE  /\ QueueInput(edit, kind, policy) \in Input
             /\ Resolvable(mem.transport, QueueAt(kind))
  <2>1. kind \in BoundaryKinds
    BY ControlAssumption
  <2>2. 0 < mem.transport.patternLength
    BY <1>1, LengthsPositive
  <2>3. QED  BY <1>1, <2>1, <2>2 DEF QueueInput, QueueAt, Input, ApplyAt, Resolvable
<1>4. QED  BY <1>2, <1>3

(***************************************************************************)
(* Queue, ApplyNow and Poll with their bound variables named.              *)
(***************************************************************************)
LEMMA QueueParts ==
  ASSUME Queue
  PROVE  \E id \in Ids, edit \in Edits, kind \in QueueKinds, policy \in Policies :
           LET input == QueueInput(edit, kind, policy)
           IN  /\ MaySend(id, input)
               /\ Persist(WithRecord(mem, QueuedRecord(mem, id, input)))
               /\ Sent(id, input, AnswerOf(saved'))
               /\ job = Idle /\ session
               /\ UNCHANGED <<device, session, job, landed, foreign, epochs, spent>>
  BY DEF Queue, QueueInput, QueueAt

LEMMA ApplyNowParts ==
  ASSUME ApplyNow
  PROVE  \E id \in Ids, edit \in Edits :
           /\ MaySend(id, ApplyInput(edit))
           /\ Sent(id, ApplyInput(edit), "none")
           /\ job = Idle /\ (session \/ BlindClients)
           /\ job' = NewJob("apply", "read", id, 0, {})
           /\ UNCHANGED <<device, session, mem, disk, saved, landed, foreign, epochs, spent>>
  BY DEF ApplyNow, ApplyInput

Polled(t) == [mem EXCEPT !.transport = t]

LEMMA PollParts ==
  ASSUME Poll
  PROVE  \E t \in {mem.transport, Tick(mem.transport)} :
           /\ job = Idle /\ session
           /\ mem' = Polled(t) /\ UNCHANGED <<disk, saved>>
           /\ job' = IF DueIndexes(Polled(t)) = {} THEN Idle
                     ELSE NewJob("due", "next", None, 0, DueIndexes(Polled(t)))
           /\ UNCHANGED <<device, session, client, landed, foreign, epochs, spent>>
  BY DEF Poll, Polled, InMemory, history

LEMMA PolledOK ==
  ASSUME TypeInv, NEW t \in {mem.transport, Tick(mem.transport)}
  PROVE  /\ StateOK(Polled(t)) /\ Polled(t).transport = t
         /\ SameButTransport(mem, Polled(t))
         /\ t.epoch = mem.transport.epoch
         /\ t.absoluteStep \in
              {mem.transport.absoluteStep, mem.transport.absoluteStep + 1}
         /\ DueIndexes(Polled(t)) \in SUBSET Nat
<1>1. StateOK(mem) /\ mem.transport \in TransportState /\ TransportOK(mem.transport)
  BY DEF TypeInv, StateOK, TransportOK
<1>2. /\ t \in TransportState /\ TransportOK(t)
      /\ t.epoch = mem.transport.epoch
      /\ t.absoluteStep \in {mem.transport.absoluteStep, mem.transport.absoluteStep + 1}
  BY <1>1, TickOK DEF TransportOK
<1>3. /\ StateOK(Polled(t)) /\ Polled(t).transport = t
      /\ SameButTransport(mem, Polled(t))
  BY <1>1, <1>2, MovedOK DEF Polled
<1>4. DueIndexes(Polled(t)) \in SUBSET Nat
  BY <1>3 DEF DueIndexes, StateOK, State
<1>5. QED  BY <1>2, <1>3, <1>4

LEMMA WorkStepTypes ==
  ASSUME TypeInv, JobInv, Queue \/ Replay \/ ApplyNow \/ RollbackSnapshot \/ Poll
  PROVE  TypeInv' /\ JobInv'
<1> USE DEF TypeInv
<1>1. CASE Queue
  <2>1. PICK id \in Ids, edit \in Edits, kind \in QueueKinds, policy \in Policies :
          LET input == QueueInput(edit, kind, policy)
          IN  /\ MaySend(id, input)
              /\ Persist(WithRecord(mem, QueuedRecord(mem, id, input)))
              /\ Sent(id, input, AnswerOf(saved'))
              /\ job = Idle /\ session
              /\ UNCHANGED <<device, session, job, landed, foreign, epochs, spent>>
    BY <1>1, QueueParts
  <2> DEFINE input == QueueInput(edit, kind, policy)
  <2>2. input \in Input /\ Resolvable(mem.transport, input.at)
    BY InputsOK DEF QueueInput
  <2> HIDE DEF input
  <2>3. StateOK(WithRecord(mem, QueuedRecord(mem, id, input)))
    BY <2>2, NewRecordsOK, WithRecordOK
  <2>4. StateOK(mem') /\ StateOK(disk') /\ saved' \in BOOLEAN /\ (~FailingSaves => saved')
    BY <2>1, <2>3, PersistOK DEF input
  <2>5. client' \in Clients
    BY <2>1, <2>2, <2>4, SentOK, AnswerOfOK DEF input
  <2>6. QED  BY <2>1, <2>4, <2>5 DEF JobInv
<1>2. CASE ApplyNow
  <2>1. PICK id \in Ids, edit \in Edits :
          /\ Sent(id, ApplyInput(edit), "none")
          /\ job' = NewJob("apply", "read", id, 0, {})
          /\ UNCHANGED <<device, session, mem, disk, saved, landed, foreign, epochs, spent>>
    BY <1>2, ApplyNowParts
  <2>2. /\ client' \in Clients /\ client'[id].input \in Input
    BY <2>1, InputsOK, SentOK DEF Answers
  <2>3. /\ job' \in Job /\ job'.kind = "apply" /\ job'.phase = "read"
        /\ job'.id = id /\ job'.todo = {}
    BY <2>1, NewJobOK
  <2>4. QED  BY <2>1, <2>2, <2>3 DEF JobInv
<1>3. CASE RollbackSnapshot
  <2>1. /\ job' \in Job /\ job'.kind = "rollback" /\ job'.phase = "read"
        /\ job'.id = None /\ job'.todo = {}
    BY <1>3 DEF RollbackSnapshot, NewJob, Job
  <2>2. QED  BY <1>3, <2>1 DEF RollbackSnapshot, JobInv, history
<1>4. CASE Poll
  <2>1. PICK t \in {mem.transport, Tick(mem.transport)} :
          /\ mem' = Polled(t) /\ UNCHANGED <<disk, saved>>
          /\ job' = IF DueIndexes(Polled(t)) = {} THEN Idle
                    ELSE NewJob("due", "next", None, 0, DueIndexes(Polled(t)))
          /\ UNCHANGED <<device, session, client, landed, foreign, epochs, spent>>
    BY <1>4, PollParts
  <2>2. StateOK(Polled(t)) /\ DueIndexes(Polled(t)) \in SUBSET Nat
    BY PolledOK
  <2>3. CASE DueIndexes(Polled(t)) = {}
    BY <2>1, <2>2, <2>3 DEF JobInv
  <2>4. CASE DueIndexes(Polled(t)) # {}
    <3>1. /\ job' \in Job /\ job'.kind = "due" /\ job'.phase = "next"
          /\ job'.id = None /\ job'.todo = DueIndexes(Polled(t))
      BY <2>1, <2>2, <2>4, NewJobOK
    <3>2. QED  BY <2>1, <2>2, <2>4, <3>1 DEF JobInv
  <2>5. QED  BY <2>3, <2>4
<1>5. CASE Replay
  <2>1. PICK id \in Ids, answer \in Answers : Sent(id, client[id].input, answer)
    <3>1. PICK id \in IdsOf(mem) :
            Sent(id, client[id].input, IF saved THEN "saved" ELSE "unsaved")
      BY <1>5 DEF Replay
    <3>2. id \in Ids
      <4>1. mem.operationSets \in Seq(OperationSet)
        BY DEF StateOK, State
      <4>2. PICK i \in DOMAIN mem.operationSets : id = mem.operationSets[i].id
        BY <3>1 DEF IdsOf
      <4>3. mem.operationSets[i] \in OperationSet
        BY <4>1, <4>2
      <4>4. QED  BY <4>2, <4>3 DEF OperationSet
    <3>3. QED  BY <3>1, <3>2 DEF Answers
  <2>2. client' \in Clients
    BY <2>1, SentOK DEF Clients
  <2>3. QED  BY <1>5, <2>2 DEF Replay, JobInv
<1>6. QED  BY <1>1, <1>2, <1>3, <1>4, <1>5

(***************************************************************************)
(* The steps of a job, in their parts.                                     *)
(***************************************************************************)
LEMMA NextDueParts ==
  ASSUME TypeInv, JobInv, NextDue
  PROVE  LET index == First(job.todo)
             rest == [job EXCEPT !.todo = Remaining(job)]
         IN  /\ job \in Job /\ job.phase = "next" /\ job.kind = "due"
             /\ index \in DOMAIN mem.operationSets /\ index \in job.todo
             /\ rest \in Job /\ rest.todo = job.todo \ {index}
             /\ \/ /\ IsStale(mem.operationSets[index])
                   /\ Persist(RejectedAt(mem, index, "not_applied"))
                   /\ GoOn(rest)
                \/ /\ ~IsStale(mem.operationSets[index])
                   /\ job' = NewJob("due", "read", mem.operationSets[index].id,
                                    index, job.todo \ {index})
                   /\ UNCHANGED <<mem, disk, saved>>
             /\ UNCHANGED <<device, session, client, landed, foreign, epochs, spent>>
<1> DEFINE index == First(job.todo)
           rest == [job EXCEPT !.todo = Remaining(job)]
<1>1. job # Idle /\ job.phase = "next"
  BY DEF NextDue
<1>2. job \in Job /\ job.kind = "due" /\ job.todo # {} /\ job.todo \in SUBSET Nat
  BY <1>1 DEF TypeInv, JobInv, Job
<1>3. index \in job.todo
  BY <1>2, FirstOK
<1> HIDE DEF index
<1>4. Remaining(job) = job.todo \ {index}
  BY DEF Remaining, index
<1>5. rest \in Job /\ rest.todo = job.todo \ {index}
  BY <1>2, <1>4 DEF Job
<1>6. /\ index \in DOMAIN mem.operationSets
      /\ \/ /\ IsStale(mem.operationSets[index])
            /\ Persist(RejectedAt(mem, index, "not_applied"))
            /\ GoOn(rest)
         \/ /\ ~IsStale(mem.operationSets[index])
            /\ job' = NewJob("due", "read", mem.operationSets[index].id, index, rest.todo)
            /\ UNCHANGED <<mem, disk, saved>>
      /\ UNCHANGED <<device, session, client, landed, foreign, epochs, spent>>
  BY DEF NextDue, index, history
<1>7. QED  BY <1>1, <1>2, <1>3, <1>5, <1>6 DEF index

LEMMA NextDueTypes ==
  ASSUME TypeInv, JobInv, NextDue
  PROVE  TypeInv' /\ JobInv'
<1> DEFINE index == First(job.todo)
           record == mem.operationSets[index]
           rest == [job EXCEPT !.todo = Remaining(job)]
<1>1. /\ job \in Job /\ job.phase = "next"
      /\ index \in DOMAIN mem.operationSets /\ index \in job.todo
      /\ rest \in Job
      /\ \/ /\ Persist(RejectedAt(mem, index, "not_applied"))
            /\ GoOn(rest)
         \/ /\ job' = NewJob("due", "read", record.id, index, job.todo \ {index})
            /\ UNCHANGED <<mem, disk, saved>>
      /\ UNCHANGED <<device, session, client, landed, foreign, epochs, spent>>
  BY NextDueParts
<1> HIDE DEF index, rest
<1>2. index \in Nat /\ record.id \in Ids /\ job.todo \ {index} \in SUBSET Nat
  <2>1. mem.operationSets \in Seq(OperationSet)
    BY DEF TypeInv, StateOK, State
  <2>2. record \in OperationSet /\ index \in Nat
    BY <1>1, <2>1
  <2>3. QED  BY <1>1, <2>2 DEF OperationSet, Job
<1>3. CASE /\ Persist(RejectedAt(mem, index, "not_applied"))
           /\ GoOn(rest)
  <2>1. StateOK(RejectedAt(mem, index, "not_applied"))
    BY <1>1, RejectedAtOK DEF TypeInv, Acks
  <2>2. job' \in Job \cup {Idle} /\ JobInv'
    BY <1>1, <1>3, RestInv
  <2>3. QED  BY <1>1, <1>3, <2>1, <2>2, PersistOK DEF TypeInv
<1>4. CASE /\ job' = NewJob("due", "read", record.id, index, job.todo \ {index})
           /\ UNCHANGED <<mem, disk, saved>>
  <2>1. /\ job' \in Job /\ job'.kind = "due" /\ job'.phase = "read"
        /\ job'.id = record.id /\ job'.index = index
    BY <1>2, <1>4 DEF NewJob, Job
  <2>2. QED  BY <1>1, <1>2, <1>4, <2>1, NoneAssumption DEF TypeInv, JobInv
<1>5. QED  BY <1>1, <1>3, <1>4

CapturedState == IF session THEN mem ELSE Pruned(Reconnected(mem, device))

CapturedJob == [job EXCEPT !.base = device, !.want = Wanted(job)]

CapturedSummary == [content |-> Content(device), kits |-> CapturedJob.kind # "rollback"]

LEMMA CaptureParts ==
  ASSUME Capture
  PROVE  /\ job # Idle /\ job.phase = "read"
         /\ session \/ job.kind # "due" \/ SlowPersists
         /\ IF session THEN UNCHANGED epochs ELSE Begun(CapturedState)
         /\ \/ /\ CapturedJob.want = CapturedJob.base
               /\ Settle(CapturedState, CapturedJob, CapturedSummary)
            \/ /\ CapturedJob.want # CapturedJob.base
               /\ job' = [CapturedJob EXCEPT !.phase = "write"]
               /\ IF session THEN UNCHANGED <<mem, disk, saved, foreign>>
                  ELSE Saved(CapturedState) /\ foreign' = FALSE
               /\ UNCHANGED client
         /\ session' = TRUE
         /\ UNCHANGED <<device, landed, spent>>
  BY DEF Capture, CapturedState, CapturedJob, CapturedSummary

LEMMA EditedOK ==
  ASSUME NEW d \in Device, NEW edit \in Edits
  PROVE  Edited(d, edit) \in Device
  BY DeviceAssumption DEF Edited, Device

LEMMA WrittenOK ==
  ASSUME NEW d \in Device, NEW e \in Device, NEW S
  PROVE  Written(d, e, S) \in Device
  BY DEF Written, Device

(***************************************************************************)
(* What a job reads and wants fits the device.                             *)
(***************************************************************************)
LEMMA CapturedOK ==
  ASSUME TypeInv, JobInv, job # Idle, job.phase = "read"
  PROVE  /\ StateOK(CapturedState)
         /\ CapturedJob \in Job
         /\ CapturedJob.base = device /\ CapturedJob.want = Wanted(job)
         /\ Wanted(job) \in Device
         /\ CapturedJob.kind = job.kind /\ CapturedJob.id = job.id
         /\ CapturedJob.index = job.index /\ CapturedJob.todo = job.todo
         /\ CapturedSummary \in Observation
<1> USE DEF TypeInv
<1>1. StateOK(CapturedState)
  BY ReconnectedOK, PrunedStateOK DEF CapturedState
<1>2. job \in Job /\ job.kind \in {"apply", "due", "rollback"}
  BY DEF Job
<1>3. Wanted(job) \in Device
  <2>1. CASE job.kind = "apply"
    <3>1. client[job.id].input.edit \in Edits
      BY <2>1 DEF JobInv, Input
    <3>2. QED  BY <2>1, <3>1, EditedOK DEF Wanted
  <2>2. CASE job.kind = "due"
    <3>1. mem.operationSets \in Seq(OperationSet)
          /\ job.index \in DOMAIN mem.operationSets
      BY <2>2 DEF JobInv, StateOK, State
    <3>2. mem.operationSets[job.index] \in OperationSet
      BY <3>1
    <3>3. mem.operationSets[job.index].input.edit \in Edits
      BY <3>2 DEF OperationSet, Input
    <3>4. QED  BY <2>2, <3>3, EditedOK DEF Wanted
  <2>3. CASE job.kind = "rollback"
    <3>1. mem.snapshot \in [SnapshotObjects -> Values]
      BY <2>3 DEF JobInv, StateOK, State
    <3>2. QED  BY <2>3, <3>1 DEF Wanted, Device
  <2>4. QED  BY <1>2, <2>1, <2>2, <2>3
<1>4. CapturedJob = [job EXCEPT !.base = device, !.want = Wanted(job)]
  BY DEF CapturedJob
<1>5. /\ CapturedJob \in Job
      /\ CapturedJob.base = device /\ CapturedJob.want = Wanted(job)
      /\ CapturedJob.kind = job.kind /\ CapturedJob.id = job.id
      /\ CapturedJob.index = job.index /\ CapturedJob.todo = job.todo
  BY <1>2, <1>3, <1>4 DEF Job
<1>6. CapturedSummary \in Observation
  BY ShownOK DEF CapturedSummary, Observation
<1>7. QED  BY <1>1, <1>3, <1>5, <1>6

LEMMA CaptureTypes ==
  ASSUME TypeInv, JobInv, Capture
  PROVE  TypeInv' /\ JobInv'
<1>1. /\ job # Idle /\ job.phase = "read"
      /\ \/ Settle(CapturedState, CapturedJob, CapturedSummary)
         \/ /\ job' = [CapturedJob EXCEPT !.phase = "write"]
            /\ IF session THEN UNCHANGED <<mem, disk, saved, foreign>>
               ELSE Saved(CapturedState) /\ foreign' = FALSE
            /\ UNCHANGED client
      /\ session' = TRUE
      /\ UNCHANGED <<device, landed, spent>>
  BY CaptureParts
<1>2. /\ StateOK(CapturedState) /\ CapturedJob \in Job
      /\ CapturedJob.base \in Device /\ CapturedJob.want \in Device
      /\ CapturedJob.kind = job.kind /\ CapturedJob.id = job.id
      /\ CapturedJob.todo = job.todo
      /\ CapturedSummary \in Observation
  BY <1>1, CapturedOK DEF TypeInv
<1>3. CASE Settle(CapturedState, CapturedJob, CapturedSummary)
  <2>1. CapturedJob.kind = "apply" =>
          CapturedJob.id \in Ids /\ client[CapturedJob.id].input \in Input
    BY <1>1, <1>2 DEF JobInv
  <2>2. /\ StateOK(mem') /\ StateOK(disk')
        /\ client' \in Clients
        /\ saved' \in BOOLEAN /\ (~FailingSaves => saved')
        /\ GoOn(CapturedJob)
    BY <1>2, <1>3, <2>1, SettleOK
  <2>3. job' \in Job \cup {Idle} /\ JobInv'
    BY <1>2, <2>2, RestInv
  <2>4. QED  BY <1>1, <2>2, <2>3 DEF TypeInv
<1>4. CASE /\ job' = [CapturedJob EXCEPT !.phase = "write"]
           /\ IF session THEN UNCHANGED <<mem, disk, saved, foreign>>
              ELSE Saved(CapturedState) /\ foreign' = FALSE
           /\ UNCHANGED client
  <2>1. /\ job' \in Job /\ job'.phase = "write"
        /\ job'.kind = job.kind /\ job'.id = job.id /\ job'.todo = job.todo
        /\ job'.base \in Device /\ job'.want \in Device
    BY <1>2, <1>4 DEF Job
  <2>2. StateOK(mem') /\ StateOK(disk') /\ saved' \in BOOLEAN /\ (~FailingSaves => saved')
    BY <1>2, <1>4, SavedOK DEF TypeInv
  <2>3. JobInv'
    BY <1>1, <1>4, <2>1 DEF JobInv
  <2>4. QED  BY <1>1, <1>4, <2>1, <2>2, <2>3 DEF TypeInv
<1>5. QED  BY <1>1, <1>3, <1>4

(***************************************************************************)
(* A new session that could not be saved.                                  *)
(***************************************************************************)
Reopening == Pruned(Reconnected(mem, device))

LEMMA CaptureUnsavedParts ==
  ASSUME CaptureUnsaved
  PROVE  /\ job # Idle /\ job.phase = "read" /\ ~session /\ FailingSaves
         /\ Begun(Reopening)
         /\ \/ /\ job.index \in DOMAIN Reopening.operationSets
               /\ PersistFrom({disk, Reopening}, RejectedAt(Reopening, job.index, "not_applied"))
            \/ mem' = Reopening /\ disk' \in {disk, Reopening} /\ saved' = FALSE
         /\ GoOn(job)
         /\ session' = TRUE /\ foreign' = FALSE
         /\ UNCHANGED <<device, client, landed, spent>>
  BY DEF CaptureUnsaved, Reopening

LEMMA ReopenedOK ==
  ASSUME TypeInv, CaptureUnsaved
  PROVE  /\ StateOK(Reopening)
         /\ Reopening.lastObserved = [content |-> Content(device), kits |-> FALSE]
         /\ mem'.lastObserved = Reopening.lastObserved
         /\ StateOK(mem') /\ StateOK(disk') /\ saved' \in BOOLEAN
<1>1. StateOK(Reconnected(mem, device)) /\ StateOK(disk)
  BY ReconnectedOK DEF TypeInv
<1>2. /\ StateOK(Reopening)
      /\ Reopening.lastObserved = [content |-> Content(device), kits |-> FALSE]
  BY <1>1, ReconnectedOK, PrunedOK, PrunedStateOK DEF Reopening, TypeInv, StateOK
<1>3. CASE /\ job.index \in DOMAIN Reopening.operationSets
           /\ PersistFrom({disk, Reopening}, RejectedAt(Reopening, job.index, "not_applied"))
  <2>1. /\ StateOK(RejectedAt(Reopening, job.index, "not_applied"))
        /\ SameButSets(Reopening, RejectedAt(Reopening, job.index, "not_applied"))
    BY <1>2, <1>3, RejectedAtOK DEF Acks
  <2>2. \A e \in {disk, Reopening} : StateOK(e)
    BY <1>1, <1>2
  <2>3. QED  BY <1>2, <1>3, <2>1, <2>2, PersistFromOK DEF SameButSets
<1>4. CASE mem' = Reopening /\ disk' \in {disk, Reopening} /\ saved' = FALSE
  BY <1>1, <1>2, <1>4
<1>5. QED  BY <1>2, <1>3, <1>4, CaptureUnsavedParts

LEMMA CaptureUnsavedTypes ==
  ASSUME TypeInv, JobInv, CaptureUnsaved
  PROVE  TypeInv' /\ JobInv'
<1>1. /\ job \in Job /\ FailingSaves /\ GoOn(job)
      /\ session' = TRUE /\ UNCHANGED <<device, client, landed>>
  BY CaptureUnsavedParts DEF TypeInv
<1>2. StateOK(mem') /\ StateOK(disk') /\ saved' \in BOOLEAN
  BY ReopenedOK
<1>3. job' \in Job \cup {Idle} /\ JobInv'
  BY <1>1, RestInv
<1>4. QED  BY <1>1, <1>2, <1>3 DEF TypeInv

(***************************************************************************)
(* A job that ends, in failure, leaves types and phases in order.          *)
(***************************************************************************)
LEMMA FailTypes ==
  ASSUME TypeInv, JobInv, job # Idle, NEW lost \in BOOLEAN, NEW ack \in Acks,
         Fail(job, lost, ack)
  PROVE  /\ StateOK(mem') /\ StateOK(disk') /\ session' \in BOOLEAN
         /\ saved' \in BOOLEAN /\ (~FailingSaves => saved')
         /\ job' \in Job \cup {Idle}
         /\ JobInv'
<1>1. job \in Job
  BY DEF TypeInv
<1>2. /\ StateOK(mem') /\ StateOK(disk') /\ session' \in BOOLEAN
      /\ saved' \in BOOLEAN /\ (~FailingSaves => saved')
      /\ GoOn(job)
  BY <1>1, FailOK
<1>3. QED  BY <1>1, <1>2, RestInv

(***************************************************************************)
(* A write that is not verified ends a rollback and leads any other job to *)
(* the restoration.                                                        *)
(***************************************************************************)
Restoring(lost) == [job EXCEPT !.phase = "restore", !.lost = lost]

LEMMA UnverifiedParts ==
  ASSUME NEW lost, Unverified(lost)
  PROVE  \/ job.kind = "rollback" /\ Fail(job, lost, "none")
         \/ /\ job.kind # "rollback"
            /\ job' = Restoring(lost)
            /\ UNCHANGED <<session, mem, disk, saved>>
  BY DEF Unverified, Restoring

LEMMA RestoringOK ==
  ASSUME job \in Job, NEW lost \in BOOLEAN
  PROVE  /\ Restoring(lost) \in Job
         /\ Restoring(lost).phase = "restore" /\ Restoring(lost).kind = job.kind
         /\ Restoring(lost).id = job.id /\ Restoring(lost).index = job.index
         /\ Restoring(lost).todo = job.todo /\ Restoring(lost).base = job.base
         /\ Restoring(lost).want = job.want
  BY DEF Restoring, Job

LEMMA UnverifiedTypes ==
  ASSUME TypeInv, JobInv, job # Idle, job.phase \in {"write", "verify"},
         NEW lost \in BOOLEAN, Unverified(lost), UNCHANGED client
  PROVE  /\ StateOK(mem') /\ StateOK(disk') /\ session' \in BOOLEAN
         /\ saved' \in BOOLEAN /\ (~FailingSaves => saved')
         /\ job' \in Job \cup {Idle}
         /\ JobInv'
<1>1. job \in Job
  BY DEF TypeInv
<1>2. CASE job.kind = "rollback" /\ Fail(job, lost, "none")
  BY <1>2, FailTypes DEF Acks
<1>3. CASE /\ job.kind # "rollback"
           /\ job' = Restoring(lost)
           /\ UNCHANGED <<session, mem, disk, saved>>
  <2>1. /\ job' \in Job /\ job'.phase = "restore" /\ job'.kind = job.kind
        /\ job'.id = job.id /\ job'.todo = job.todo
        /\ job'.base = job.base /\ job'.want = job.want
    BY <1>1, <1>3, RestoringOK
  <2>2. QED  BY <1>3, <2>1 DEF TypeInv, JobInv
<1>4. QED  BY <1>2, <1>3, UnverifiedParts

LEMMA UndoneOK ==
  ASSUME TypeInv, NEW id
  PROVE  /\ Undone(id) \in [Ids -> Nat]
         /\ \A k \in Ids : k # id => Undone(id)[k] = landed[k]
         /\ id \in Ids => Undone(id)[id] = IF landed[id] > 0 THEN landed[id] - 1 ELSE 0
<1>1. \A k \in Ids : (IF landed[k] > 0 THEN landed[k] - 1 ELSE 0) \in Nat
  BY DEF TypeInv
<1>2. QED  BY <1>1 DEF Undone, TypeInv

LEMMA WriteStepTypes ==
  ASSUME TypeInv, JobInv,
         CaptureFails \/ Write \/ WriteFails \/ Verify \/ VerifyFails
           \/ Restore \/ RestoreFails
  PROVE  TypeInv' /\ JobInv'
<1>1. CASE CaptureFails
  <2>1. PICK lost \in BOOLEAN : Fail(job, lost, "not_applied")
    BY <1>1 DEF CaptureFails, TypeInv
  <2>2. QED
    BY <1>1, <2>1, FailTypes DEF CaptureFails, TypeInv, Acks, history
<1>2. CASE Write
  <2>1. /\ job \in Job /\ job # Idle /\ job.phase = "write"
        /\ job.want \in Device /\ session = TRUE
    BY <1>2 DEF Write, TypeInv, JobInv
  <2>2. /\ job' \in Job /\ job'.phase = "verify" /\ job'.kind = job.kind
        /\ job'.id = job.id /\ job'.todo = job.todo
        /\ job'.base = job.base /\ job'.want = job.want
    BY <1>2, <2>1 DEF Write, Job
  <2>3. device' \in Device
    BY <1>2, <2>1, WrittenOK DEF Write, TypeInv
  <2>4. landed' \in [Ids -> Nat]
    <3>1. \A id \in Ids : landed[id] + 1 \in Nat
      BY DEF TypeInv
    <3>2. QED  BY <1>2, <3>1 DEF Write, TypeInv
  <2>5. JobInv'
    BY <1>2, <2>1, <2>2 DEF Write, JobInv
  <2>6. QED  BY <1>2, <2>2, <2>3, <2>4, <2>5 DEF Write, TypeInv
<1>3. CASE WriteFails
  <2>1. /\ job # Idle /\ job.phase = "write" /\ Unverified(TRUE)
        /\ UNCHANGED <<client, landed>>
        /\ \E P : device' = Written(device, job.want, P)
    BY <1>3 DEF WriteFails
  <2>2. device' \in Device
    BY <2>1, WrittenOK DEF TypeInv, JobInv
  <2>3. QED  BY <2>1, <2>2, UnverifiedTypes DEF TypeInv
<1>4. CASE Verify
  <2>1. /\ job # Idle /\ job.phase = "verify" /\ job \in Job
        /\ UNCHANGED <<device, landed>>
    BY <1>4 DEF Verify, TypeInv
  <2>2. CASE /\ Settle(mem, job, [content |-> Content(device), kits |-> WritesKits])
             /\ UNCHANGED session
    <3>1. [content |-> Content(device), kits |-> WritesKits] \in Observation
      BY ShownOK DEF Observation, WritesKits, TypeInv
    <3>2. job.kind = "apply" => job.id \in Ids /\ client[job.id].input \in Input
      BY <2>1 DEF JobInv
    <3>3. /\ StateOK(mem') /\ StateOK(disk') /\ client' \in Clients /\ GoOn(job)
          /\ saved' \in BOOLEAN /\ (~FailingSaves => saved')
      BY <2>1, <2>2, <3>1, <3>2, SettleOK DEF TypeInv
    <3>4. job' \in Job \cup {Idle} /\ JobInv'
      BY <2>1, <3>3, RestInv
    <3>5. QED  BY <2>1, <2>2, <3>3, <3>4 DEF TypeInv
  <2>3. CASE Unverified(FALSE) /\ UNCHANGED client
    BY <2>1, <2>3, UnverifiedTypes DEF TypeInv
  <2>4. QED  BY <1>4, <2>2, <2>3 DEF Verify
<1>5. CASE VerifyFails
  <2>1. /\ job # Idle /\ job.phase = "verify"
        /\ \E lost \in BOOLEAN : Unverified(lost)
        /\ UNCHANGED <<device, client, landed>>
    BY <1>5 DEF VerifyFails
  <2>2. QED  BY <2>1, UnverifiedTypes DEF TypeInv
<1>6. CASE Restore
  <2>1. /\ job # Idle /\ job.phase = "restore"
        /\ job.lost \in BOOLEAN /\ job.base \in Device
    BY <1>6 DEF Restore, TypeInv, JobInv, Job
  <2>2. PICK ack \in Acks : Fail(job, job.lost, ack)
    BY <1>6 DEF Restore, Acks
  <2>3. device' \in Device
    BY <1>6, <2>1, WrittenOK DEF Restore, TypeInv
  <2>4. landed' \in [Ids -> Nat]
    BY <1>6, UndoneOK DEF Restore
  <2>5. QED
    BY <1>6, <2>1, <2>2, <2>3, <2>4, FailTypes DEF Restore, TypeInv
<1>7. CASE RestoreFails
  <2>1. /\ job # Idle /\ job.phase = "restore" /\ job.base \in Device
        /\ \E P : device' = Written(device, job.base, P)
        /\ Fail(job, TRUE, "rollback_failed")
        /\ UNCHANGED client
        /\ landed' \in {landed, Undone(job.id)}
    BY <1>7 DEF RestoreFails, JobInv
  <2>2. device' \in Device /\ landed' \in [Ids -> Nat]
    BY <2>1, WrittenOK, UndoneOK DEF TypeInv
  <2>3. QED  BY <2>1, <2>2, FailTypes DEF TypeInv, Acks
<1>8. QED
  BY <1>1, <1>2, <1>3, <1>4, <1>5, <1>6, <1>7

LEMMA NextTypes ==
  ASSUME TypeInv, JobInv, [Next]_vars
  PROVE  TypeInv' /\ JobInv'
<1>1. CASE UNCHANGED vars
  BY <1>1 DEF vars, TypeInv, JobInv
<1>2. CASE Next
  BY <1>2, IdleStepTypes, TroubleStepTypes, WorkStepTypes, NextDueTypes, CaptureTypes,
     CaptureUnsavedTypes, WriteStepTypes
  DEF Next, Client, DaemonStep, Trouble
<1>3. QED  BY <1>1, <1>2

(***************************************************************************)
(* The types are right in every state of every behaviour: records, clock,  *)
(* observations, jobs and contents stay what the code takes them for.      *)
(***************************************************************************)
THEOREM TypeCorrect == Spec => []TypeOK
<1>1. TypeInv /\ JobInv => TypeOK
  BY DEF TypeInv, TypeOK, StateOK
<1>2. TypeInv /\ JobInv /\ [Next]_vars => (TypeInv /\ JobInv)'
  BY NextTypes
<1>3. QED  BY <1>1, <1>2, InitTypes, PTL DEF Spec

-----------------------------------------------------------------------------
(* The last observation. *)

(***************************************************************************)
(* A failure keeps the revision, the observation and the clock's place.    *)
(***************************************************************************)
LEMMA FailKeeps ==
  ASSUME TypeInv, NEW j, NEW lost \in BOOLEAN, NEW ack \in Acks,
         Fail(j, lost, ack)
  PROVE  /\ mem'.lastObserved = mem.lastObserved /\ mem'.revision = mem.revision
         /\ mem'.idCounter = mem.idCounter
         /\ mem'.transport.epoch = mem.transport.epoch
         /\ mem'.transport.absoluteStep = mem.transport.absoluteStep
         /\ saved' => disk' = mem' \/ UNCHANGED <<mem, disk, saved>>
         /\ session' = (session /\ ~lost)
<1> DEFINE f == Failing(lost)
           s == RejectedAt(f, j.index, ack)
           E == IF lost THEN {disk, f} ELSE {disk}
<1>1. /\ StateOK(f) /\ StateOK(disk)
      /\ f.lastObserved = mem.lastObserved /\ f.revision = mem.revision
      /\ f.idCounter = mem.idCounter
      /\ f.transport.epoch = mem.transport.epoch
      /\ f.transport.absoluteStep = mem.transport.absoluteStep
  <2>1. StateOK(Silent(mem)) /\ Silent(mem) \in State
    BY SilentOK DEF TypeInv, StateOK
  <2>2. QED
    BY <2>1, SilentOK, PrunedOK, FailingOK DEF TypeInv, Failing, SameButTransport
<1>2. /\ session' = (session /\ ~lost)
      /\ \/ j.index \in DOMAIN f.operationSets /\ PersistFrom(E, s)
         \/ Persist(f)
         \/ UNCHANGED <<mem, disk, saved>>
  BY FailParts
<1>3. \A e \in E : StateOK(e)
  BY <1>1
<1>4. j.index \in DOMAIN f.operationSets => StateOK(s) /\ SameButSets(f, s)
  BY <1>1, RejectedAtOK
<1> HIDE DEF f, s, E
<1>5. CASE j.index \in DOMAIN f.operationSets /\ PersistFrom(E, s)
  BY <1>1, <1>2, <1>3, <1>4, <1>5, PersistFromOK DEF SameButSets
<1>6. CASE Persist(f)
  BY <1>1, <1>2, <1>6, PersistOK
<1>7. CASE UNCHANGED <<mem, disk, saved>>
  BY <1>2, <1>7
<1>8. QED  BY <1>2, <1>5, <1>6, <1>7

(***************************************************************************)
(* What the work buffer shows after a write of the objects S.              *)
(***************************************************************************)
LEMMA ContentFacts ==
  ASSUME NEW d \in Device, NEW e \in Device
  PROVE  /\ Content(d) = Content(e) <=> \A o \in WorkBuffer : d[o] = e[o]
         /\ \A S : \A o \in WorkBuffer :
              Written(d, e, S)[o] = IF o \in S THEN e[o] ELSE d[o]
  BY DEF Content, Written, Objects

LEMMA GoesOnNotWriting ==
  ASSUME NEW j \in Job, GoOn(j)
  PROVE  ~Writing' /\ ~(job' # Idle /\ job'.phase = "write")
  BY GoOnOK DEF Writing

LEMMA InitObserved == Init => ObservedInv
  BY EmptyStateOK DEF Init, ObservedInv, Writing

LEMMA IdleStepObserved ==
  ASSUME TypeInv, JobInv, ObservedInv,
         Reconnect \/ LoseSession \/ Inspect \/ CreateSnapshot \/ SaveAgain
           \/ StartTransport \/ StopOrContinue \/ RequestPattern \/ SetActiveScene
  PROVE  ObservedInv'
<1> USE DEF TypeInv, ObservedInv, Writing
<1>1. CASE Reconnect
  <2>1. /\ StateOK(Reconnected(mem, device))
        /\ Reconnected(mem, device).lastObserved = [content |-> Content(device), kits |-> FALSE]
        /\ [content |-> Content(device), kits |-> FALSE] # None
    BY ReconnectedOK, ShownOK
  <2>2. QED  BY <1>1, <2>1, PersistOK DEF Reconnect
<1>2. CASE LoseSession
  BY <1>2, SilentOK, PersistOK DEF LoseSession, history
<1>3. CASE Inspect
  <2>1. /\ StateOK(Observed(mem, device))
        /\ Observed(mem, device).lastObserved = [content |-> Content(device), kits |-> FALSE]
        /\ [content |-> Content(device), kits |-> FALSE] # None
    BY ObservedOK, ShownOK
  <2>2. QED  BY <1>3, <2>1, PersistOK DEF Inspect
<1>4. CASE CreateSnapshot
  <2> DEFINE s == [mem EXCEPT !.snapshot = [o \in SnapshotObjects |-> device[o]]]
  <2>1. StateOK(s) /\ s.lastObserved = mem.lastObserved
    BY DEF StateOK, State, Device, SnapshotObjects, Objects
  <2>2. QED  BY <1>4, <2>1, PersistOK DEF CreateSnapshot, history
<1>5. CASE StartTransport
  <2>1. StateOK(Started(mem)) /\ Started(mem).lastObserved = mem.lastObserved
    BY StartedOK
  <2>2. QED  BY <1>5, <2>1, PersistOK DEF StartTransport, InMemory
<1>6. CASE StopOrContinue
  <2>1. ASSUME NEW b \in BOOLEAN
        PROVE  LET s == [mem EXCEPT !.transport = Playing(@, b)]
               IN  StateOK(s) /\ s.lastObserved = mem.lastObserved
    <3>1. mem \in State /\ mem.transport \in TransportState /\ TransportOK(mem.transport)
      BY DEF TypeInv, StateOK, State
    <3>2. Playing(mem.transport, b) \in TransportState
      BY <3>1 DEF Playing, TransportState
    <3>3. TransportOK(Playing(mem.transport, b))
      BY <3>1, <3>2, PlayingOK
    <3>4. QED  BY <3>1, <3>2, <3>3, MovedOK DEF SameButTransport
  <2>2. PICK b \in BOOLEAN :
          LET s == [mem EXCEPT !.transport = Playing(@, b)]
          IN  InMemory(s) \/ Persist(s)
    BY <1>6 DEF StopOrContinue
  <2>3. mem'.lastObserved = mem.lastObserved
    <3> DEFINE s == [mem EXCEPT !.transport = Playing(@, b)]
    <3>1. StateOK(s) /\ s.lastObserved = mem.lastObserved
      BY <2>1
    <3> HIDE DEF s
    <3>2. QED  BY <2>2, <3>1, PersistOK DEF InMemory, s
  <2>4. UNCHANGED <<device, session, job, foreign>>
    BY <1>6 DEF StopOrContinue, history
  <2>5. QED  BY <2>3, <2>4
<1>7. CASE RequestPattern
  BY <1>7 DEF RequestPattern, InMemory, history, StateOK, State
<1>8. CASE SetActiveScene
  <2>1. mem'.lastObserved = [content |-> Content(device), kits |-> FALSE]
    BY <1>8 DEF SetActiveScene, InMemory, StateOK, State
  <2>2. QED  BY <1>8, <2>1, ShownOK DEF SetActiveScene, InMemory
<1>9. CASE SaveAgain
  BY <1>9, PersistOK DEF SaveAgain, history
<1>10. QED
  BY <1>1, <1>2, <1>3, <1>4, <1>5, <1>6, <1>7, <1>8, <1>9

(***************************************************************************)
(* An edit at the panel reaches the work buffer and is marked, or does not *)
(* reach it.                                                               *)
(***************************************************************************)
LEMMA TroubleStepObserved ==
  ASSUME TypeInv, JobInv, ObservedInv, Restart \/ PanelEdit
  PROVE  ObservedInv'
<1>1. CASE Restart
  BY <1>1 DEF Restart, ObservedInv, Writing
<1>2. CASE PanelEdit
  <2>1. PICK o \in Objects, v \in Values :
          /\ device' = [device EXCEPT ![o] = v]
          /\ foreign' = (foreign \/ o \in WorkBuffer)
    BY <1>2 DEF PanelEdit
  <2>2. ~foreign' => ~foreign /\ \A w \in WorkBuffer : device'[w] = device[w]
    BY <2>1 DEF TypeInv, Device, Objects
  <2>3. ~foreign' => Content(device') = Content(device)
    BY <2>2 DEF Content
  <2>4. QED
    BY <1>2, <2>2, <2>3 DEF PanelEdit, ObservedInv, Writing
<1>3. QED  BY <1>1, <1>2

LEMMA WorkStepObserved ==
  ASSUME TypeInv, JobInv, ObservedInv,
         Queue \/ Replay \/ ApplyNow \/ RollbackSnapshot \/ Poll \/ NextDue
  PROVE  ObservedInv'
<1> USE DEF TypeInv
<1>1. CASE Queue
  <2>1. PICK id \in Ids, edit \in Edits, kind \in QueueKinds, policy \in Policies :
          LET input == QueueInput(edit, kind, policy)
          IN  /\ Persist(WithRecord(mem, QueuedRecord(mem, id, input)))
              /\ UNCHANGED <<device, session, job, foreign>>
    BY <1>1, QueueParts
  <2> DEFINE input == QueueInput(edit, kind, policy)
  <2>2. input \in Input /\ Resolvable(mem.transport, input.at)
    BY InputsOK DEF QueueInput
  <2> HIDE DEF input
  <2>3. /\ StateOK(WithRecord(mem, QueuedRecord(mem, id, input)))
        /\ SameButSets(mem, WithRecord(mem, QueuedRecord(mem, id, input)))
    BY <2>2, NewRecordsOK, WithRecordOK
  <2>4. mem'.lastObserved = mem.lastObserved
    BY <2>1, <2>3, PersistOK DEF SameButSets, input
  <2>5. QED  BY <2>1, <2>4 DEF ObservedInv, Writing
<1>2. CASE ApplyNow
  <2>1. PICK id \in Ids :
          /\ job = Idle /\ job' = NewJob("apply", "read", id, 0, {})
          /\ UNCHANGED <<device, session, mem, disk, saved, foreign>>
    BY <1>2, ApplyNowParts
  <2>2. job'.phase = "read"
    BY <2>1, NewJobOK
  <2>3. QED  BY <2>1, <2>2 DEF ObservedInv, Writing
<1>3. CASE RollbackSnapshot
  <2>1. job'.phase = "read" /\ job = Idle
    BY <1>3, NewJobOK DEF RollbackSnapshot
  <2>2. QED  BY <1>3, <2>1 DEF RollbackSnapshot, ObservedInv, Writing, history
<1>4. CASE Poll
  <2>1. PICK t \in {mem.transport, Tick(mem.transport)} :
          /\ job = Idle
          /\ mem' = Polled(t) /\ UNCHANGED <<disk, saved>>
          /\ job' = IF DueIndexes(Polled(t)) = {} THEN Idle
                    ELSE NewJob("due", "next", None, 0, DueIndexes(Polled(t)))
          /\ UNCHANGED <<device, session, foreign>>
    BY <1>4, PollParts
  <2>2. /\ mem'.lastObserved = mem.lastObserved
        /\ DueIndexes(Polled(t)) \in SUBSET Nat
    BY <2>1, PolledOK DEF SameButTransport
  <2>3. job' # Idle => job'.phase = "next"
    BY <2>1, <2>2, NewJobOK
  <2>4. QED  BY <2>1, <2>2, <2>3 DEF ObservedInv, Writing
<1>5. CASE NextDue
  <2> DEFINE index == First(job.todo)
             rest == [job EXCEPT !.todo = Remaining(job)]
  <2>1. /\ job \in Job /\ job.phase = "next"
        /\ index \in DOMAIN mem.operationSets /\ rest \in Job
        /\ job.todo \ {index} \in SUBSET Nat
        /\ \/ /\ Persist(RejectedAt(mem, index, "not_applied"))
              /\ GoOn(rest)
           \/ /\ job' = NewJob("due", "read", mem.operationSets[index].id, index,
                                job.todo \ {index})
              /\ UNCHANGED <<mem, disk, saved>>
        /\ UNCHANGED <<device, session, foreign>>
    BY <1>5, NextDueParts DEF Job
  <2> HIDE DEF index, rest
  <2>2. ~Writing
    BY <2>1 DEF Writing
  <2>3. CASE /\ Persist(RejectedAt(mem, index, "not_applied"))
             /\ GoOn(rest)
    <3>1. /\ StateOK(RejectedAt(mem, index, "not_applied"))
          /\ SameButSets(mem, RejectedAt(mem, index, "not_applied"))
      BY <2>1, RejectedAtOK DEF Acks
    <3>2. mem'.lastObserved = mem.lastObserved
      BY <2>3, <3>1, PersistOK DEF SameButSets
    <3>3. QED  BY <2>1, <2>2, <2>3, <3>2, GoesOnNotWriting DEF ObservedInv
  <2>4. CASE /\ job' = NewJob("due", "read", mem.operationSets[index].id, index,
                              job.todo \ {index})
             /\ UNCHANGED <<mem, disk, saved>>
    <3>1. job'.phase = "read"
      BY <2>4 DEF NewJob
    <3>2. QED  BY <2>1, <2>2, <2>4, <3>1 DEF ObservedInv, Writing
  <2>5. QED  BY <2>1, <2>3, <2>4
<1>6. CASE Replay
  BY <1>6 DEF Replay, ObservedInv, Writing
<1>7. QED  BY <1>1, <1>2, <1>3, <1>4, <1>5, <1>6

LEMMA CaptureObserved ==
  ASSUME TypeInv, JobInv, ObservedInv, Capture
  PROVE  ObservedInv'
<1>1. /\ job # Idle /\ job.phase = "read"
      /\ \/ Settle(CapturedState, CapturedJob, CapturedSummary)
         \/ /\ job' = [CapturedJob EXCEPT !.phase = "write"]
            /\ IF session THEN UNCHANGED <<mem, disk, saved, foreign>>
               ELSE Saved(CapturedState) /\ foreign' = FALSE
      /\ UNCHANGED device
  BY CaptureParts
<1>2. /\ StateOK(CapturedState) /\ CapturedJob \in Job
      /\ CapturedJob.base = device
      /\ CapturedJob.kind = job.kind /\ CapturedJob.id = job.id
      /\ CapturedSummary \in Observation
  BY <1>1, CapturedOK
<1>3. CASE Settle(CapturedState, CapturedJob, CapturedSummary)
  <2>1. CapturedJob.kind = "apply" =>
          CapturedJob.id \in Ids /\ client[CapturedJob.id].input \in Input
    BY <1>1, <1>2 DEF JobInv
  <2>2. /\ mem'.lastObserved = CapturedSummary /\ GoOn(CapturedJob)
        /\ CapturedSummary # None
    BY <1>2, <1>3, <2>1, SettleOK, NoneAssumption
  <2>3. mem'.lastObserved.content = Content(device)
    BY <2>2 DEF CapturedSummary
  <2>4. ~Writing' /\ ~(job' # Idle /\ job'.phase = "write")
    BY <1>2, <2>2, GoesOnNotWriting
  <2>5. QED  BY <1>1, <2>2, <2>3, <2>4 DEF ObservedInv
<1>4. CASE /\ job' = [CapturedJob EXCEPT !.phase = "write"]
           /\ IF session THEN UNCHANGED <<mem, disk, saved, foreign>>
              ELSE Saved(CapturedState) /\ foreign' = FALSE
  <2>1. job'.phase = "write" /\ job'.base = device
    BY <1>2, <1>4 DEF Job
  <2>2. CASE session
    BY <1>1, <1>4, <2>1, <2>2 DEF ObservedInv, Writing
  <2>3. CASE ~session
    <3>1. /\ CapturedState.lastObserved = [content |-> Content(device), kits |-> FALSE]
          /\ [content |-> Content(device), kits |-> FALSE] # None
      <4>1. StateOK(Reconnected(mem, device))
            /\ Reconnected(mem, device).lastObserved = [content |-> Content(device), kits |-> FALSE]
        BY ReconnectedOK DEF TypeInv
      <4>2. QED  BY <2>3, <4>1, PrunedOK, ShownOK DEF CapturedState, StateOK, TypeInv
    <3>2. mem'.lastObserved = [content |-> Content(device), kits |-> FALSE]
      BY <1>2, <1>4, <2>3, <3>1, SavedOK
    <3>3. QED  BY <1>1, <1>4, <2>1, <3>1, <3>2 DEF ObservedInv, Writing
  <2>4. QED  BY <2>2, <2>3 DEF TypeInv
<1>5. QED  BY <1>1, <1>3, <1>4

LEMMA CaptureUnsavedObserved ==
  ASSUME TypeInv, JobInv, ObservedInv, CaptureUnsaved
  PROVE  ObservedInv'
<1>1. /\ job \in Job /\ GoOn(job) /\ UNCHANGED device
  BY CaptureUnsavedParts DEF TypeInv
<1>2. mem'.lastObserved = [content |-> Content(device), kits |-> FALSE]
  BY ReopenedOK
<1>3. [content |-> Content(device), kits |-> FALSE] # None
  BY ShownOK DEF TypeInv
<1>4. ~Writing' /\ ~(job' # Idle /\ job'.phase = "write")
  BY <1>1, GoesOnNotWriting
<1>5. QED  BY <1>1, <1>2, <1>3, <1>4 DEF ObservedInv

(***************************************************************************)
(* A failed job leaves the observation; the rest follows from what is on   *)
(* the device.                                                             *)
(***************************************************************************)
LEMMA FailObserved ==
  ASSUME TypeInv, JobInv, ObservedInv, job # Idle, NEW lost \in BOOLEAN, NEW ack \in Acks,
         Fail(job, lost, ack),
         session' /\ ~foreign' => mem.lastObserved.content = Content(device')
  PROVE  ObservedInv'
<1>1. job \in Job /\ GoOn(job)
  BY FailOK DEF TypeInv
<1>2. ~Writing' /\ ~(job' # Idle /\ job'.phase = "write")
  BY <1>1, GoesOnNotWriting
<1>3. /\ mem'.lastObserved = mem.lastObserved
      /\ session' = (session /\ ~lost)
  BY FailKeeps
<1>4. QED  BY <1>2, <1>3 DEF ObservedInv

(***************************************************************************)
(* A write that is not verified: the baseline is what was last observed,   *)
(* and the objects the job does not write are still as in it.              *)
(***************************************************************************)
LEMMA UnverifiedObserved ==
  ASSUME TypeInv, JobInv, ObservedInv, job # Idle, job.phase \in {"write", "verify"},
         NEW lost \in BOOLEAN, Unverified(lost),
         job.kind = "rollback" => foreign' \/ lost,
         ~foreign' /\ job.kind # "rollback" =>
           /\ mem.lastObserved.content = Content(job.base)
           /\ \A o \in WorkBuffer \ ChangedObjects(job.want, job.base) :
                device'[o] = job.base[o]
  PROVE  ObservedInv'
<1>1. CASE job.kind = "rollback" /\ Fail(job, lost, "none")
  <2>1. session' = (session /\ ~lost)
    BY <1>1, FailKeeps DEF Acks
  <2>2. QED  BY <1>1, <2>1, FailObserved DEF Acks
<1>2. CASE /\ job.kind # "rollback"
           /\ job' = Restoring(lost)
           /\ UNCHANGED <<session, mem, disk, saved>>
  <2>1. /\ job'.phase = "restore" /\ job'.base = job.base /\ job'.want = job.want
        /\ job' # Idle
    BY <1>2, RestoringOK, IdleAssumption DEF TypeInv
  <2>2. session
    BY DEF JobInv
  <2>3. QED  BY <1>2, <2>1, <2>2 DEF ObservedInv, Writing
<1>3. QED  BY <1>1, <1>2, UnverifiedParts

LEMMA WriteStepObserved ==
  ASSUME TypeInv, JobInv, ObservedInv,
         CaptureFails \/ Write \/ WriteFails \/ Verify \/ VerifyFails
           \/ Restore \/ RestoreFails
  PROVE  ObservedInv'
<1> DEFINE S == ChangedObjects(job.want, job.base)
<1>1. CASE CaptureFails
  <2>1. PICK lost \in BOOLEAN : Fail(job, lost, "not_applied")
    BY <1>1 DEF CaptureFails, TypeInv
  <2>2. ~Writing /\ job # Idle /\ UNCHANGED <<device, foreign>>
    BY <1>1 DEF CaptureFails, Writing, history
  <2>3. session' => session
    BY <2>1, FailKeeps DEF Acks
  <2>4. QED  BY <2>1, <2>2, <2>3, FailObserved DEF ObservedInv, Acks
<1>2. CASE Write
  <2>1. /\ job \in Job /\ job # Idle /\ job.phase = "write"
        /\ job.want \in Device /\ job.base \in Device /\ session
        /\ device' = Written(device, job.want, S)
        /\ UNCHANGED <<session, mem, disk, saved, foreign>>
    BY <1>2 DEF Write, TypeInv, JobInv
  <2>2. /\ job'.phase = "verify" /\ job' # Idle
        /\ job'.base = job.base /\ job'.want = job.want
    BY <1>2, <2>1, IdleAssumption DEF Write, Job
  <2>3. \A o \in WorkBuffer \ S : device'[o] = device[o]
    BY <2>1, ContentFacts DEF TypeInv
  <2>4. ~foreign => /\ Content(job.base) = Content(device)
                    /\ mem.lastObserved.content = Content(device)
    BY <2>1 DEF ObservedInv, Writing
  <2>5. ~foreign => \A o \in WorkBuffer : job.base[o] = device[o]
    BY <2>1, <2>4, ContentFacts DEF TypeInv
  <2>6. QED  BY <2>1, <2>2, <2>3, <2>4, <2>5 DEF ObservedInv, Writing
<1>3. CASE WriteFails
  <2>1. /\ job # Idle /\ job.phase = "write" /\ Unverified(TRUE)
    BY <1>3 DEF WriteFails
  <2>2. /\ session /\ job.base \in Device /\ job.want \in Device
    BY <2>1 DEF JobInv
  <2>3. PICK P \in SUBSET S : /\ device' = Written(device, job.want, P)
                              /\ ~foreign' => ~foreign
    BY <1>3 DEF WriteFails, SentBefore
  <2>4. \A o \in WorkBuffer \ S : device'[o] = device[o]
    BY <2>2, <2>3, ContentFacts DEF TypeInv
  <2>5. ~foreign => /\ Content(job.base) = Content(device)
                    /\ mem.lastObserved.content = Content(device)
    BY <2>1, <2>2 DEF ObservedInv, Writing
  <2>6. ~foreign => \A o \in WorkBuffer : job.base[o] = device[o]
    BY <2>2, <2>5, ContentFacts DEF TypeInv
  <2>7. QED
    BY <2>1, <2>3, <2>4, <2>5, <2>6, UnverifiedObserved
<1>4. CASE Verify
  <2>1. /\ job # Idle /\ job.phase = "verify" /\ job \in Job /\ Writing
        /\ UNCHANGED device
    BY <1>4 DEF Verify, TypeInv, Writing
  <2>2. CASE Settle(mem, job, [content |-> Content(device), kits |-> WritesKits])
    <3> DEFINE o == [content |-> Content(device), kits |-> WritesKits]
    <3>1. o \in Observation /\ o.content = Content(device)
      BY ShownOK DEF Observation, WritesKits, TypeInv
    <3> HIDE DEF o
    <3>2. job.kind = "apply" => job.id \in Ids /\ client[job.id].input \in Input
      BY <2>1 DEF JobInv
    <3>3. mem'.lastObserved = o /\ GoOn(job) /\ o # None
      <4>1. Settle(mem, job, o) /\ StateOK(mem)
        BY <2>2 DEF o, TypeInv
      <4>2. QED  BY <2>1, <3>1, <3>2, <4>1, SettleOK, NoneAssumption
    <3>4. ~Writing' /\ ~(job' # Idle /\ job'.phase = "write")
      BY <2>1, <3>3, GoesOnNotWriting
    <3>5. QED  BY <2>1, <3>1, <3>3, <3>4 DEF ObservedInv
  <2>3. CASE Unverified(FALSE) /\ foreign' = (foreign \/ job.kind = "rollback")
    BY <2>1, <2>3, UnverifiedObserved DEF ObservedInv
  <2>4. QED  BY <1>4, <2>2, <2>3 DEF Verify
<1>5. CASE VerifyFails
  <2>1. /\ job # Idle /\ job.phase = "verify" /\ Writing
        /\ foreign' = (foreign \/ job.kind = "rollback")
        /\ UNCHANGED device
    BY <1>5 DEF VerifyFails, Writing
  <2>2. PICK lost \in BOOLEAN : Unverified(lost)
    BY <1>5 DEF VerifyFails
  <2>3. QED  BY <2>1, <2>2, UnverifiedObserved DEF ObservedInv
<1>6. CASE Restore
  <2>1. /\ job # Idle /\ job.phase = "restore" /\ Writing /\ session
        /\ job.lost \in BOOLEAN /\ job.base \in Device
        /\ device' = Written(device, job.base, S) /\ UNCHANGED foreign
    BY <1>6 DEF Restore, TypeInv, JobInv, Job, Writing
  <2>2. PICK ack \in Acks : Fail(job, job.lost, ack)
    BY <1>6 DEF Restore, Acks
  <2>3. device' \in Device
    BY <2>1, WrittenOK DEF TypeInv
  <2>4. ~foreign => \A o \in WorkBuffer : device'[o] = job.base[o]
    BY <2>1, ContentFacts DEF TypeInv, ObservedInv
  <2>5. ~foreign => Content(device') = Content(job.base)
    BY <2>1, <2>3, <2>4, ContentFacts
  <2>6. ~foreign' => mem.lastObserved.content = Content(device')
    BY <2>1, <2>5 DEF ObservedInv
  <2>7. QED  BY <2>1, <2>2, <2>6, FailObserved
<1>7. CASE RestoreFails
  BY <1>7, FailObserved DEF RestoreFails, Acks
<1>8. QED
  BY <1>1, <1>2, <1>3, <1>4, <1>5, <1>6, <1>7

LEMMA NextObserved ==
  ASSUME TypeInv, JobInv, ObservedInv, [Next]_vars
  PROVE  ObservedInv'
<1>1. CASE UNCHANGED vars
  BY <1>1 DEF vars, ObservedInv, Writing
<1>2. CASE Next
  BY <1>2, IdleStepObserved, TroubleStepObserved, WorkStepObserved, CaptureObserved,
     CaptureUnsavedObserved, WriteStepObserved
  DEF Next, Client, DaemonStep, Trouble
<1>3. QED  BY <1>1, <1>2

(***************************************************************************)
(* Whatever writes, failures, restorations and rollbacks went before: when *)
(* the daemon is connected and idle, and nobody changed the work buffer at *)
(* the panel and no restoration failed since it last looked, its last      *)
(* observation is what the device holds.  So the drift comparison of the   *)
(* next look finds foreign changes and only those.                         *)
(***************************************************************************)
THEOREM ObservationIsDevice == Spec => []LastObservedIsDevice
<1> DEFINE IInv == TypeInv /\ JobInv /\ ObservedInv
<1>1. Init => IInv
  BY InitTypes, InitObserved
<1>2. IInv /\ [Next]_vars => IInv'
  BY NextTypes, NextObserved
<1>3. IInv => LastObservedIsDevice
  BY DEF ObservedInv, LastObservedIsDevice, Writing
<1>4. QED  BY <1>1, <1>2, <1>3, PTL DEF Spec

-----------------------------------------------------------------------------
(* The state file. *)

(***************************************************************************)
(* A state that holds every set memory holds, unless retention dropped     *)
(* some, which it does only when RetainCap remain.                         *)
(***************************************************************************)
Grew(s) ==
  \/ /\ IdsOf(mem) \subseteq IdsOf(s)
     /\ Len(mem.operationSets) <= Len(s.operationSets)
  \/ Len(s.operationSets) >= RetainCap

LEMMA GrewPruned ==
  ASSUME NEW s, StateOK(s), Grew(s)
  PROVE  Grew(Pruned(s))
  BY PrunedForgets DEF StateOK, Grew

LEMMA GrewKeeps ==
  ASSUME TypeInv, NEW s, StateOK(s), KeepsSets(mem, s)
  PROVE  Grew(s)
  BY KeepsSetsIds DEF TypeInv, Grew

LEMMA GrewFurther ==
  ASSUME NEW s, Grew(s), NEW t, IdsOf(s) \subseteq IdsOf(t),
         Len(s.operationSets) \in Nat, Len(t.operationSets) \in Nat,
         Len(mem.operationSets) \in Nat,
         Len(s.operationSets) <= Len(t.operationSets)
  PROVE  Grew(t)
  BY DeviceAssumption DEF Grew

(***************************************************************************)
(* What clients were told after a save that succeeded stays known.         *)
(***************************************************************************)
LEMMA GrewKnows ==
  ASSUME TypeInv, SyncInv, NEW s, StateOK(s), Grew(s)
  PROVE  Keeps(s)
<1>1. /\ Len(mem.operationSets) \in Nat /\ Len(s.operationSets) \in Nat
      /\ RetainCap \in Nat
  BY DeviceAssumption DEF TypeInv, StateOK, State
<1>2. Keeps(mem)
  BY DEF SyncInv
<1>3. QED  BY <1>1, <1>2 DEF Keeps, Grew

(***************************************************************************)
(* Saving such a state, or failing to, keeps the file in step.             *)
(***************************************************************************)
LEMMA PersistFromSync ==
  ASSUME TypeInv, SyncInv, NEW s, StateOK(s), Grew(s),
         NEW E, \A e \in E : e = disk \/ (StateOK(e) /\ Grew(e)), PersistFrom(E, s),
         \A id \in Ids : client'[id].answer = "saved" =>
           client[id].answer = "saved" \/ (saved' /\ id \in IdsOf(s))
  PROVE  SyncInv'
<1>1. /\ mem' = Pruned(s) /\ disk' \in E \cup {Pruned(s)}
      /\ saved' => disk' = Pruned(s)
  BY DEF PersistFrom, Saved
<1>2. Grew(Pruned(s)) /\ StateOK(Pruned(s))
  BY GrewPruned, PrunedStateOK
<1>3. Keeps(Pruned(s)) /\ Keeps(disk')
  <2>1. Keeps(Pruned(s)) /\ Keeps(disk)
    BY <1>2, GrewKnows DEF SyncInv
  <2>2. ASSUME NEW e \in E  PROVE  Keeps(e)
    BY <2>1, GrewKnows
  <2>3. QED  BY <1>1, <2>1, <2>2
<1>4. ASSUME NEW id \in Ids, client'[id].answer = "saved",
             NEW t \in {Pruned(s), disk'}
      PROVE  id \in IdsOf(t) \/ Len(t.operationSets) >= RetainCap
  <2>1. CASE client[id].answer = "saved"
    BY <1>3, <2>1 DEF Keeps
  <2>2. CASE saved' /\ id \in IdsOf(s)
    BY <1>1, <2>2, PrunedForgets DEF StateOK
  <2>3. QED  BY <1>4, <2>1, <2>2
<1>5. Keeps(mem)' /\ Keeps(disk)'
  BY <1>1, <1>4 DEF Keeps
<1>6. KeepsSets(Pruned(s), Pruned(s))
  BY KeepsSetsSame
<1>7. QED  BY <1>1, <1>5, <1>6 DEF SyncInv

LEMMA PersistSync ==
  ASSUME TypeInv, SyncInv, NEW s, StateOK(s), Grew(s), Persist(s) \/ Saved(s),
         \A id \in Ids : client'[id].answer = "saved" =>
           client[id].answer = "saved" \/ (saved' /\ id \in IdsOf(s))
  PROVE  SyncInv'
<1>1. PersistFrom({disk}, s)
  BY DEF Persist, PersistFrom
<1>2. QED  BY <1>1, PersistFromSync

(***************************************************************************)
(* Working in memory keeps the file in step as well, if it keeps the sets. *)
(***************************************************************************)
LEMMA InMemorySync ==
  ASSUME TypeInv, SyncInv, NEW s, StateOK(s), InMemory(s), UNCHANGED client,
         KeepsSets(mem, s), s.revision = mem.revision,
         saved /\ disk.lastObserved = None => s.lastObserved = None
  PROVE  SyncInv'
<1>1. mem' = s /\ disk' = disk /\ saved' = saved
  BY DEF InMemory
<1>2. saved => KeepsSets(disk, s)
  BY KeepsSetsTrans DEF SyncInv
<1>3. Keeps(s) /\ Keeps(disk)
  BY GrewKeeps, GrewKnows DEF SyncInv
<1>4. Keeps(mem)' /\ Keeps(disk)'
  BY <1>1, <1>3 DEF Keeps
<1>5. QED  BY <1>1, <1>2, <1>4 DEF SyncInv

LEMMA SameSync ==
  ASSUME SyncInv, UNCHANGED <<mem, disk, saved>>,
         \A id \in Ids : client'[id].answer = "saved" => client[id].answer = "saved"
  PROVE  SyncInv'
  BY DEF SyncInv, Keeps

LEMMA InitSync == Init => SyncInv
<1> SUFFICES ASSUME Init  PROVE  SyncInv
  OBVIOUS
<1>1. KeepsSets(disk, mem)
  BY KeepsSetsSame DEF Init
<1>2. QED  BY <1>1 DEF Init, SyncInv, Keeps, Unsent

LEMMA IdleStepSync ==
  ASSUME TypeInv, ObservedInv, SyncInv,
         Reconnect \/ LoseSession \/ Inspect \/ CreateSnapshot \/ SaveAgain
           \/ StartTransport \/ StopOrContinue \/ RequestPattern \/ SetActiveScene
  PROVE  SyncInv'
<1> USE DEF TypeInv
<1>1. CASE Reconnect
  <2>1. StateOK(Reconnected(mem, device)) /\ KeepsSets(mem, Reconnected(mem, device))
    BY ReconnectedOK
  <2>2. QED  BY <1>1, <2>1, GrewKeeps, PersistSync DEF Reconnect
<1>2. CASE LoseSession
  <2>1. StateOK(Silent(mem)) /\ KeepsSets(mem, Silent(mem))
    BY SilentOK, KeepsSetsSame DEF SameButTransport
  <2>2. QED  BY <1>2, <2>1, GrewKeeps, PersistSync DEF LoseSession, history
<1>3. CASE Inspect
  <2>1. /\ StateOK(Observed(mem, device))
        /\ Observed(mem, device).operationSets = mem.operationSets
    BY ObservedOK
  <2>2. KeepsSets(mem, Observed(mem, device))
    BY <2>1, KeepsSetsSame
  <2>3. QED  BY <1>3, <2>1, <2>2, GrewKeeps, PersistSync DEF Inspect
<1>4. CASE CreateSnapshot
  <2> DEFINE s == [mem EXCEPT !.snapshot = [o \in SnapshotObjects |-> device[o]]]
  <2>1. StateOK(s) /\ s.operationSets = mem.operationSets
    BY DEF StateOK, State, Device, SnapshotObjects, Objects
  <2>2. Persist(s) /\ UNCHANGED client
    BY <1>4 DEF CreateSnapshot, history
  <2> HIDE DEF s
  <2>3. QED  BY <2>1, <2>2, KeepsSetsSame, GrewKeeps, PersistSync
<1>5. CASE StartTransport
  <2>1. /\ StateOK(Started(mem)) /\ KeepsSets(mem, Started(mem))
        /\ Started(mem).revision = mem.revision
        /\ Started(mem).lastObserved = mem.lastObserved
    BY StartedOK
  <2>2. UNCHANGED client /\ (InMemory(Started(mem)) \/ Persist(Started(mem)))
    BY <1>5 DEF StartTransport
  <2>3. CASE InMemory(Started(mem))
    BY <2>1, <2>2, <2>3, InMemorySync DEF SyncInv
  <2>4. CASE Persist(Started(mem))
    BY <2>1, <2>2, <2>4, GrewKeeps, PersistSync
  <2>5. QED  BY <2>2, <2>3, <2>4
<1>6. CASE StopOrContinue
  <2>1. PICK b \in BOOLEAN :
          LET s == [mem EXCEPT !.transport = Playing(@, b)]
          IN  InMemory(s) \/ Persist(s)
    BY <1>6 DEF StopOrContinue
  <2> DEFINE s == [mem EXCEPT !.transport = Playing(@, b)]
  <2>2. /\ StateOK(s) /\ s.operationSets = mem.operationSets
        /\ s.revision = mem.revision /\ s.lastObserved = mem.lastObserved
    BY PlayingOK, MovedOK DEF StateOK, TransportOK, State
  <2>3. UNCHANGED client /\ (InMemory(s) \/ Persist(s))
    BY <1>6, <2>1 DEF StopOrContinue, history
  <2> HIDE DEF s
  <2>4. KeepsSets(mem, s)
    BY <2>2, KeepsSetsSame
  <2>5. CASE InMemory(s)
    BY <2>2, <2>3, <2>4, <2>5, InMemorySync DEF SyncInv
  <2>6. CASE Persist(s)
    BY <2>2, <2>3, <2>4, <2>6, GrewKeeps, PersistSync
  <2>7. QED  BY <2>3, <2>5, <2>6
<1>7. CASE RequestPattern
  <2>1. PICK q \in Patterns, b \in BOOLEAN :
          InMemory([mem EXCEPT !.transport = ChangePattern(@, q, b)])
    BY <1>7 DEF RequestPattern
  <2> DEFINE s == [mem EXCEPT !.transport = ChangePattern(@, q, b)]
  <2>2. /\ StateOK(s) /\ s.operationSets = mem.operationSets
        /\ s.revision = mem.revision /\ s.lastObserved = mem.lastObserved
    BY ChangePatternOK, MovedOK DEF StateOK, TransportOK, State
  <2>3. UNCHANGED client /\ InMemory(s)
    BY <1>7, <2>1 DEF RequestPattern, history
  <2> HIDE DEF s
  <2>4. QED  BY <2>2, <2>3, KeepsSetsSame, InMemorySync DEF SyncInv
<1>8. CASE SetActiveScene
  <2> DEFINE s == [mem EXCEPT !.lastObserved = [content |-> Content(device), kits |-> FALSE]]
  <2>1. /\ StateOK(s) /\ s.operationSets = mem.operationSets
        /\ s.revision = mem.revision
    BY ShownOK DEF StateOK, State
  <2>2. /\ UNCHANGED client /\ InMemory(s)
        /\ saved => disk.lastObserved # None
    BY <1>8 DEF SetActiveScene, ObservedInv, SyncInv
  <2> HIDE DEF s
  <2>3. QED  BY <2>1, <2>2, KeepsSetsSame, InMemorySync
<1>9. CASE SaveAgain
  <2>1. Persist(mem) /\ UNCHANGED client
    BY <1>9 DEF SaveAgain, history
  <2>2. QED  BY <2>1, KeepsSetsSame, GrewKeeps, PersistSync
<1>10. QED
  BY <1>1, <1>2, <1>3, <1>4, <1>5, <1>6, <1>7, <1>8, <1>9

LEMMA TroubleStepSync ==
  ASSUME TypeInv, SyncInv, Restart \/ PanelEdit
  PROVE  SyncInv'
<1>1. CASE Restart
  <2>1. CASE Crash
    <3>1. KeepsSets(disk, disk)
      BY KeepsSetsSame
    <3>2. QED  BY <1>1, <2>1, <3>1 DEF Restart, Crash, history, SyncInv, Keeps
  <2>2. CASE Shutdown
    <3>1. StateOK(Silent(mem)) /\ KeepsSets(mem, Silent(mem))
      BY SilentOK, KeepsSetsSame DEF SameButTransport, TypeInv
    <3>2. Saved(Silent(mem)) /\ UNCHANGED client
      BY <1>1, <2>2 DEF Restart, Shutdown, history
    <3>3. QED  BY <3>1, <3>2, GrewKeeps, PersistSync
  <2>3. QED  BY <1>1, <2>1, <2>2 DEF Restart
<1>2. CASE PanelEdit
  BY <1>2, SameSync DEF PanelEdit
<1>3. QED  BY <1>1, <1>2

LEMMA WorkStepSync ==
  ASSUME TypeInv, JobInv, SyncInv,
         Queue \/ Replay \/ ApplyNow \/ RollbackSnapshot \/ Poll \/ NextDue
  PROVE  SyncInv'
<1> USE DEF TypeInv
<1>1. CASE Queue
  <2>1. PICK id \in Ids, edit \in Edits, kind \in QueueKinds, policy \in Policies :
          LET input == QueueInput(edit, kind, policy)
          IN  /\ Persist(WithRecord(mem, QueuedRecord(mem, id, input)))
              /\ Sent(id, input, AnswerOf(saved'))
    BY <1>1, QueueParts
  <2> DEFINE input == QueueInput(edit, kind, policy)
             r == QueuedRecord(mem, id, input)
             s == WithRecord(mem, r)
  <2>2. input \in Input /\ Resolvable(mem.transport, input.at)
    BY InputsOK DEF QueueInput
  <2>3. Persist(s) /\ Sent(id, input, AnswerOf(saved'))
    BY <2>1
  <2> HIDE DEF input
  <2>4. r \in OperationSet /\ r.id = id
    BY <2>2, NewRecordsOK DEF QueuedRecord
  <2> HIDE DEF r
  <2>5. /\ StateOK(s) /\ Len(mem.operationSets) \in Nat
        /\ Len(s.operationSets) = Len(mem.operationSets) + 1
        /\ IdsOf(mem) \subseteq IdsOf(s) /\ id \in IdsOf(s)
    BY <2>4, WithRecordOK, WithRecordIds
  <2>6. Grew(s)
    BY <2>5 DEF Grew
  <2>7. \A k \in Ids : client'[k].answer = "saved" =>
          client[k].answer = "saved" \/ (saved' /\ k \in IdsOf(s))
    <3>1. saved' \in BOOLEAN
      BY <2>3 DEF Persist, PersistFrom, Saved
    <3>2. AnswerOf(saved') \in Answers /\ (AnswerOf(saved') = "saved" <=> saved')
      BY <3>1, AnswerOfOK
    <3>3. QED  BY <2>2, <2>3, <2>5, <3>2, SentOK
  <2> HIDE DEF s
  <2>8. QED  BY <2>3, <2>5, <2>6, <2>7, PersistSync
<1>2. CASE ApplyNow
  <2>1. PICK id \in Ids, edit \in Edits :
          /\ Sent(id, ApplyInput(edit), "none")
          /\ UNCHANGED <<mem, disk, saved>>
    BY <1>2, ApplyNowParts
  <2>2. \A k \in Ids : client'[k].answer = "saved" => client[k].answer = "saved"
    BY <2>1, InputsOK, SentOK DEF Answers
  <2>3. QED  BY <2>1, <2>2, SameSync
<1>3. CASE RollbackSnapshot
  BY <1>3, SameSync DEF RollbackSnapshot, history
<1>4. CASE Poll
  <2>1. PICK t \in {mem.transport, Tick(mem.transport)} :
          mem' = Polled(t) /\ UNCHANGED <<disk, saved, client>>
    BY <1>4, PollParts
  <2>2. InMemory(Polled(t)) /\ SameButTransport(mem, Polled(t))
    BY <2>1, PolledOK DEF InMemory
  <2>3. QED
    BY <2>1, <2>2, PolledOK, KeepsSetsSame, InMemorySync DEF SameButTransport, SyncInv
<1>5. CASE NextDue
  <2> DEFINE index == First(job.todo)
             s == RejectedAt(mem, index, "not_applied")
  <2>1. /\ index \in DOMAIN mem.operationSets /\ UNCHANGED client
        /\ Persist(s) \/ UNCHANGED <<mem, disk, saved>>
    BY <1>5, NextDueParts
  <2> HIDE DEF index
  <2>2. CASE Persist(s)
    <3>1. /\ StateOK(s) /\ DOMAIN s.operationSets = DOMAIN mem.operationSets
          /\ Len(s.operationSets) = Len(mem.operationSets)
          /\ \A k \in DOMAIN mem.operationSets :
               s.operationSets[k].id = mem.operationSets[k].id
      BY <2>1, RejectedAtOK DEF Acks
    <3>2. Len(mem.operationSets) \in Nat
      BY DEF StateOK, State
    <3>3. Grew(s)
      BY <3>1, <3>2 DEF Grew, IdsOf
    <3> HIDE DEF s
    <3>4. QED  BY <2>1, <2>2, <3>1, <3>3, PersistSync
  <2>3. CASE UNCHANGED <<mem, disk, saved>>
    BY <2>1, <2>3, SameSync
  <2>4. QED  BY <2>1, <2>2, <2>3
<1>6. CASE Replay
  <2>1. PICK id \in IdsOf(mem) :
          Sent(id, client[id].input, IF saved THEN "saved" ELSE "unsaved")
    BY <1>6 DEF Replay
  <2>2. id \in Ids
    <3>1. mem.operationSets \in Seq(OperationSet)
      BY DEF StateOK, State
    <3>2. PICK i \in DOMAIN mem.operationSets : id = mem.operationSets[i].id
      BY <2>1 DEF IdsOf
    <3>3. mem.operationSets[i] \in OperationSet
      BY <3>1, <3>2
    <3>4. QED  BY <3>2, <3>3 DEF OperationSet
  <2>3. \A k \in Ids : client'[k].answer = "saved" =>
          client[k].answer = "saved" \/ (saved /\ k \in IdsOf(mem))
    <3>1. client[id].input \in Input \cup {None}
      BY <2>2 DEF Clients
    <3>2. QED  BY <2>1, <2>2, <3>1, SentOK DEF Answers
  <2>4. saved => IdsOf(disk) = IdsOf(mem)
    BY KeepsSetsIds DEF SyncInv
  <2>5. UNCHANGED <<mem, disk, saved>>
    BY <1>6 DEF Replay
  <2>6. Keeps(mem)' /\ Keeps(disk)'
    BY <2>3, <2>4, <2>5 DEF SyncInv, Keeps
  <2>7. QED  BY <2>5, <2>6 DEF SyncInv
<1>7. QED  BY <1>1, <1>2, <1>3, <1>4, <1>5, <1>6

(***************************************************************************)
(* A job that settles or fails holds on to every set.                      *)
(***************************************************************************)
LEMMA SettleSync ==
  ASSUME TypeInv, SyncInv, NEW s, StateOK(s), Grew(s),
         NEW j \in Job, NEW o \in Observation,
         j.kind = "apply" => j.id \in Ids /\ client[j.id].input \in Input,
         Settle(s, j, o)
  PROVE  SyncInv'
<1> DEFINE a == Acknowledged(s, o, Changes(j))
           r == ImmediateRecord(a, j.id, client[j.id].input, Changes(j))
           t == SettledState(s, j, o)
<1>1. /\ PersistFrom({IF session THEN disk ELSE s}, t)
      /\ j.kind = "due" => j.index \in DOMAIN s.operationSets
      /\ IF j.kind = "apply" THEN Sent(j.id, client[j.id].input, AnswerOf(saved'))
         ELSE UNCHANGED client
  BY SettleParts
<1>2. /\ StateOK(a) /\ StateOK(t) /\ a.operationSets = s.operationSets
      /\ j.kind = "apply" => r \in OperationSet /\ t = WithRecord(a, r)
      /\ j.kind = "due" => t = AppliedAt(a, j.index, Changes(j))
      /\ j.kind = "rollback" => t = a
  BY <1>1, SettledOK
<1>3. j.kind \in {"apply", "due", "rollback"} /\ Changes(j) \in BOOLEAN /\ r.id = j.id
  BY DEF Job, Changes, ImmediateRecord
<1> HIDE DEF a, r, t
<1>4. /\ IdsOf(s) \subseteq IdsOf(t)
      /\ Len(s.operationSets) \in Nat /\ Len(t.operationSets) \in Nat
      /\ Len(s.operationSets) <= Len(t.operationSets)
      /\ j.kind = "apply" => j.id \in IdsOf(t)
  <2>1. Len(s.operationSets) \in Nat /\ Len(t.operationSets) \in Nat
    BY <1>2 DEF StateOK, State
  <2>2. CASE j.kind = "apply"
    <3>1. /\ Len(t.operationSets) = Len(a.operationSets) + 1
          /\ IdsOf(t) = IdsOf(a) \cup {r.id}
      BY <1>2, <2>2, WithRecordOK, WithRecordIds
    <3>2. IdsOf(a) = IdsOf(s)
      BY <1>2 DEF IdsOf
    <3>3. QED  BY <1>2, <1>3, <2>1, <3>1, <3>2
  <2>3. CASE j.kind = "due"
    <3>1. j.index \in DOMAIN a.operationSets
      BY <1>1, <1>2, <2>3
    <3>2. /\ DOMAIN t.operationSets = DOMAIN a.operationSets
          /\ Len(t.operationSets) = Len(a.operationSets)
          /\ \A k \in DOMAIN a.operationSets :
               t.operationSets[k].id = a.operationSets[k].id
      BY <1>2, <1>3, <2>3, <3>1, AppliedAtOK
    <3>3. QED  BY <1>2, <2>1, <2>3, <3>2 DEF IdsOf
  <2>4. CASE j.kind = "rollback"
    BY <1>2, <2>1, <2>4 DEF IdsOf
  <2>5. QED  BY <1>3, <2>2, <2>3, <2>4
<1>5. Grew(t)
  <2>1. Len(mem.operationSets) \in Nat
    BY DEF TypeInv, StateOK, State
  <2>2. QED  BY <1>4, <2>1, GrewFurther
<1>6. \A k \in Ids : client'[k].answer = "saved" =>
        client[k].answer = "saved" \/ (saved' /\ k \in IdsOf(t))
  <2>1. saved' \in BOOLEAN
    BY <1>1 DEF PersistFrom, Saved
  <2>2. AnswerOf(saved') \in Answers /\ (AnswerOf(saved') = "saved" <=> saved')
    BY <2>1, AnswerOfOK
  <2>3. QED  BY <1>1, <1>4, <2>2, SentOK DEF TypeInv
<1>7. \A e \in {IF session THEN disk ELSE s} : e = disk \/ (StateOK(e) /\ Grew(e))
  OBVIOUS
<1>8. QED  BY <1>1, <1>2, <1>5, <1>6, <1>7, PersistFromSync

LEMMA FailSync ==
  ASSUME TypeInv, SyncInv, NEW j, NEW lost \in BOOLEAN, NEW ack \in Acks,
         Fail(j, lost, ack), UNCHANGED client
  PROVE  SyncInv'
<1> DEFINE f == Failing(lost)
           s == RejectedAt(f, j.index, ack)
           E == IF lost THEN {disk, f} ELSE {disk}
<1>1. StateOK(f) /\ Len(mem.operationSets) \in Nat /\ Len(f.operationSets) \in Nat
  <2>1. StateOK(f) /\ StateOK(mem)
    BY FailingOK DEF TypeInv
  <2>2. \A u : StateOK(u) => Len(u.operationSets) \in Nat
    BY DEF StateOK, State
  <2> HIDE DEF f
  <2>3. QED  BY <2>1, <2>2
<1>2. Grew(f)
  <2>1. KeepsSets(mem, mem) /\ KeepsSets(mem, Silent(mem)) /\ StateOK(Silent(mem))
    BY SilentOK, KeepsSetsSame DEF SameButTransport, TypeInv
  <2>2. Grew(mem) /\ Grew(Pruned(Silent(mem)))
    BY <2>1, GrewKeeps, GrewPruned DEF TypeInv
  <2>3. QED  BY <2>2 DEF Failing
<1>3. \/ j.index \in DOMAIN f.operationSets /\ PersistFrom(E, s)
      \/ Persist(f)
      \/ UNCHANGED <<mem, disk, saved>>
  BY FailParts
<1>4. \A e \in E : e = disk \/ (StateOK(e) /\ Grew(e))
  BY <1>1, <1>2
<1> HIDE DEF f, E
<1>5. CASE j.index \in DOMAIN f.operationSets /\ PersistFrom(E, s)
  <2>1. /\ StateOK(s) /\ DOMAIN s.operationSets = DOMAIN f.operationSets
        /\ Len(s.operationSets) = Len(f.operationSets)
        /\ \A k \in DOMAIN f.operationSets :
             s.operationSets[k].id = f.operationSets[k].id
    BY <1>1, <1>5, RejectedAtOK
  <2>2. IdsOf(f) \subseteq IdsOf(s)
    BY <2>1 DEF IdsOf
  <2>3. Grew(s)
    BY <1>1, <1>2, <2>1, <2>2, GrewFurther
  <2> HIDE DEF s
  <2>4. QED  BY <1>4, <1>5, <2>1, <2>3, PersistFromSync
<1>6. CASE Persist(f)
  BY <1>1, <1>2, <1>6, PersistSync
<1>7. CASE UNCHANGED <<mem, disk, saved>>
  BY <1>7, SameSync
<1>8. QED  BY <1>3, <1>5, <1>6, <1>7

LEMMA CaptureSync ==
  ASSUME TypeInv, JobInv, SyncInv, Capture
  PROVE  SyncInv'
<1>1. /\ job # Idle /\ job.phase = "read"
      /\ \/ Settle(CapturedState, CapturedJob, CapturedSummary)
         \/ /\ IF session THEN UNCHANGED <<mem, disk, saved, foreign>>
               ELSE Saved(CapturedState) /\ foreign' = FALSE
            /\ UNCHANGED client
  BY CaptureParts
<1>2. /\ StateOK(CapturedState) /\ CapturedJob \in Job
      /\ CapturedJob.kind = job.kind /\ CapturedJob.id = job.id
      /\ CapturedSummary \in Observation
  BY <1>1, CapturedOK
<1>3. Grew(CapturedState)
  <2>1. KeepsSets(mem, mem)
    BY KeepsSetsSame
  <2>2. StateOK(Reconnected(mem, device)) /\ KeepsSets(mem, Reconnected(mem, device))
    BY ReconnectedOK DEF TypeInv
  <2>3. Grew(mem) /\ Grew(Pruned(Reconnected(mem, device)))
    BY <2>1, <2>2, GrewKeeps, GrewPruned DEF TypeInv
  <2>4. QED  BY <2>3 DEF CapturedState
<1>4. CASE Settle(CapturedState, CapturedJob, CapturedSummary)
  <2>1. CapturedJob.kind = "apply" =>
          CapturedJob.id \in Ids /\ client[CapturedJob.id].input \in Input
    BY <1>1, <1>2 DEF JobInv
  <2>2. QED  BY <1>2, <1>3, <1>4, <2>1, SettleSync
<1>5. CASE /\ IF session THEN UNCHANGED <<mem, disk, saved, foreign>>
              ELSE Saved(CapturedState) /\ foreign' = FALSE
           /\ UNCHANGED client
  <2>1. CASE UNCHANGED <<mem, disk, saved>>
    BY <1>5, <2>1, SameSync
  <2>2. CASE Saved(CapturedState)
    BY <1>2, <1>3, <1>5, <2>2, PersistSync
  <2>3. QED  BY <1>5, <2>1, <2>2
<1>6. QED  BY <1>1, <1>4, <1>5

LEMMA CaptureUnsavedSync ==
  ASSUME TypeInv, JobInv, SyncInv, CaptureUnsaved
  PROVE  SyncInv'
<1> DEFINE f == Reopening
           s == RejectedAt(f, job.index, "not_applied")
<1>1. /\ UNCHANGED client
      /\ \/ job.index \in DOMAIN f.operationSets /\ PersistFrom({disk, f}, s)
         \/ mem' = f /\ disk' \in {disk, f} /\ saved' = FALSE
  BY CaptureUnsavedParts
<1>2. /\ StateOK(f)
      /\ Len(mem.operationSets) \in Nat /\ Len(f.operationSets) \in Nat
  <2>1. StateOK(f) /\ StateOK(mem)
    BY ReopenedOK DEF TypeInv
  <2>2. \A u : StateOK(u) => Len(u.operationSets) \in Nat
    BY DEF StateOK, State
  <2> HIDE DEF f
  <2>3. QED  BY <2>1, <2>2
<1>3. Grew(f)
  <2>1. StateOK(Reconnected(mem, device)) /\ KeepsSets(mem, Reconnected(mem, device))
    BY ReconnectedOK DEF TypeInv
  <2>2. QED  BY <2>1, GrewKeeps, GrewPruned DEF TypeInv, Reopening
<1> HIDE DEF f
<1>4. CASE job.index \in DOMAIN f.operationSets /\ PersistFrom({disk, f}, s)
  <2>1. /\ StateOK(s) /\ DOMAIN s.operationSets = DOMAIN f.operationSets
        /\ Len(s.operationSets) = Len(f.operationSets)
        /\ \A k \in DOMAIN f.operationSets :
             s.operationSets[k].id = f.operationSets[k].id
    <3>1. "not_applied" \in Acks /\ job.index \in DOMAIN f.operationSets
      BY <1>4 DEF Acks
    <3>2. QED  BY <1>2, <3>1, RejectedAtOK
  <2>2. IdsOf(f) \subseteq IdsOf(s)
    BY <2>1 DEF IdsOf
  <2>3. Grew(s)
    BY <1>2, <1>3, <2>1, <2>2, GrewFurther
  <2>4. \A e \in {disk, f} : e = disk \/ (StateOK(e) /\ Grew(e))
    BY <1>2, <1>3
  <2> HIDE DEF s
  <2>5. QED  BY <1>1, <1>4, <2>1, <2>3, <2>4, PersistFromSync
<1>5. CASE mem' = f /\ disk' \in {disk, f} /\ saved' = FALSE
  <2>1. Keeps(f) /\ Keeps(disk)
    BY <1>2, <1>3, GrewKnows DEF SyncInv
  <2>2. Keeps(mem)' /\ Keeps(disk)'
    BY <1>1, <1>5, <2>1 DEF Keeps
  <2>3. QED  BY <1>5, <2>2 DEF SyncInv
<1>6. QED  BY <1>1, <1>4, <1>5

LEMMA UnverifiedSync ==
  ASSUME TypeInv, SyncInv, NEW lost \in BOOLEAN, Unverified(lost), UNCHANGED client
  PROVE  SyncInv'
<1>1. CASE Fail(job, lost, "none")
  BY <1>1, FailSync DEF Acks
<1>2. CASE UNCHANGED <<session, mem, disk, saved>>
  BY <1>2, SameSync
<1>3. QED  BY <1>1, <1>2, UnverifiedParts

LEMMA WriteStepSync ==
  ASSUME TypeInv, JobInv, SyncInv,
         CaptureFails \/ Write \/ WriteFails \/ Verify \/ VerifyFails
           \/ Restore \/ RestoreFails
  PROVE  SyncInv'
<1>1. CASE CaptureFails
  <2>1. PICK lost \in BOOLEAN : Fail(job, lost, "not_applied")
    BY <1>1 DEF CaptureFails, TypeInv
  <2>2. QED  BY <1>1, <2>1, FailSync DEF CaptureFails, Acks, history
<1>2. CASE Write
  BY <1>2, SameSync DEF Write
<1>3. CASE WriteFails
  BY <1>3, UnverifiedSync DEF WriteFails
<1>4. CASE Verify
  <2>1. CASE Settle(mem, job, [content |-> Content(device), kits |-> WritesKits])
    <3>1. [content |-> Content(device), kits |-> WritesKits] \in Observation
      BY ShownOK DEF Observation, WritesKits, TypeInv
    <3>2. /\ job \in Job
          /\ job.kind = "apply" => job.id \in Ids /\ client[job.id].input \in Input
      BY <1>4 DEF Verify, TypeInv, JobInv
    <3>3. Grew(mem)
      BY KeepsSetsSame, GrewKeeps DEF TypeInv
    <3>4. QED  BY <2>1, <3>1, <3>2, <3>3, SettleSync DEF TypeInv
  <2>2. CASE Unverified(FALSE) /\ UNCHANGED client
    BY <2>2, UnverifiedSync
  <2>3. QED  BY <1>4, <2>1, <2>2 DEF Verify
<1>5. CASE VerifyFails
  BY <1>5, UnverifiedSync DEF VerifyFails
<1>6. CASE Restore
  <2>1. job.lost \in BOOLEAN
    BY <1>6 DEF Restore, TypeInv, Job
  <2>2. PICK ack \in Acks : Fail(job, job.lost, ack)
    BY <1>6 DEF Restore, Acks
  <2>3. QED  BY <1>6, <2>1, <2>2, FailSync DEF Restore
<1>7. CASE RestoreFails
  BY <1>7, FailSync DEF RestoreFails, Acks
<1>8. QED
  BY <1>1, <1>2, <1>3, <1>4, <1>5, <1>6, <1>7

LEMMA NextSync ==
  ASSUME TypeInv, JobInv, ObservedInv, SyncInv, [Next]_vars
  PROVE  SyncInv'
<1>1. CASE UNCHANGED vars
  BY <1>1, SameSync DEF vars
<1>2. CASE Next
  BY <1>2, IdleStepSync, TroubleStepSync, WorkStepSync, CaptureSync, CaptureUnsavedSync,
     WriteStepSync
  DEF Next, Client, DaemonStep, Trouble
<1>3. QED  BY <1>1, <1>2

(***************************************************************************)
(* After a save that succeeded the state file holds the revision, the      *)
(* outcomes that reached the device and every set memory knows.  Whatever  *)
(* saves fail later, between whichever steps of a write, the sets clients  *)
(* were answered about at such a time are never lost to a crash, unless    *)
(* retention drops them.  No assumption is made about saves.               *)
(***************************************************************************)
THEOREM OutcomesSurviveCrashes == Spec => []OutcomesAreDurable
<1> DEFINE IInv == TypeInv /\ JobInv /\ ObservedInv /\ SyncInv
<1>1. Init => IInv
  BY InitTypes, InitObserved, InitSync
<1>2. IInv /\ [Next]_vars => IInv'
  BY NextTypes, NextObserved, NextSync
<1>3. IInv => OutcomesAreDurable
  <2> SUFFICES ASSUME IInv  PROVE  OutcomesAreDurable
    OBVIOUS
  <2>1. ASSUME saved, NEW r \in Records(mem), r.status = "applied"
        PROVE  r \in Records(disk)
    BY <2>1 DEF SyncInv, KeepsSets, SameSet, Records
  <2>2. saved => IdsOf(mem) \subseteq IdsOf(disk)
    BY KeepsSetsIds DEF TypeInv, SyncInv
  <2>3. QED  BY <2>1, <2>2 DEF SyncInv, Keeps, OutcomesAreDurable
<1>4. QED  BY <1>1, <1>2, <1>3, PTL DEF Spec

-----------------------------------------------------------------------------
(* What follows is about daemons whose saves succeed. *)

LEMMA FailSaves ==
  ASSUME TypeInv, ~FailingSaves, NEW j, NEW lost \in BOOLEAN, NEW ack \in Acks,
         Fail(j, lost, ack)
  PROVE  /\ session' = (session /\ ~lost)
         /\ \/ /\ j.kind = "due"
               /\ j.index \in DOMAIN Failing(lost).operationSets
               /\ Saved(RejectedAt(Failing(lost), j.index, ack))
            \/ /\ j.kind # "due" /\ lost
               /\ Saved(Failing(lost))
            \/ /\ j.kind # "due" /\ ~lost
               /\ UNCHANGED <<mem, disk, saved>>
         /\ job' = Rest(j)
<1>1. \/ /\ j.kind = "due"
         /\ j.index \in DOMAIN Failing(lost).operationSets
         /\ Saved(RejectedAt(Failing(lost), j.index, ack))
      \/ /\ j.kind # "due" /\ lost
         /\ Saved(Failing(lost))
      \/ /\ j.kind # "due" /\ ~lost
         /\ UNCHANGED <<mem, disk, saved>>
  BY FailParts, NoFailure
<1>2. saved'
  BY <1>1 DEF Saved, TypeInv
<1>3. QED  BY <1>1, <1>2, FailParts DEF GoOn

LEMMA SettleSaves ==
  ASSUME ~FailingSaves, NEW s, NEW j, NEW o, Settle(s, j, o)
  PROVE  /\ Saved(SettledState(s, j, o))
         /\ j.kind = "due" => j.index \in DOMAIN s.operationSets
         /\ IF j.kind = "apply" THEN Sent(j.id, client[j.id].input, "saved")
            ELSE UNCHANGED client
         /\ foreign' = FALSE
         /\ job' = Rest(j)
<1>1. Saved(SettledState(s, j, o))
  BY SettleParts, NoFailure
<1>2. saved' = TRUE
  BY <1>1 DEF Saved
<1>3. AnswerOf(saved') = "saved" /\ (GoOn(j) => job' = Rest(j))
  BY <1>2 DEF AnswerOf, GoOn
<1>4. QED  BY <1>1, <1>3, SettleParts

LEMMA NextDueSaves ==
  ASSUME TypeInv, JobInv, ~FailingSaves, NextDue
  PROVE  LET index == First(job.todo)
             rest == [job EXCEPT !.todo = Remaining(job)]
         IN  /\ job \in Job /\ job.phase = "next" /\ job.kind = "due"
             /\ index \in DOMAIN mem.operationSets /\ index \in job.todo
             /\ rest \in Job /\ rest.todo = job.todo \ {index}
             /\ \/ /\ IsStale(mem.operationSets[index])
                   /\ Saved(RejectedAt(mem, index, "not_applied"))
                   /\ job' = Rest(rest)
                \/ /\ ~IsStale(mem.operationSets[index])
                   /\ job' = NewJob("due", "read", mem.operationSets[index].id,
                                    index, job.todo \ {index})
                   /\ UNCHANGED <<mem, disk, saved>>
             /\ UNCHANGED <<device, session, client, landed, foreign, epochs, spent>>
<1> DEFINE rest == [job EXCEPT !.todo = Remaining(job)]
           t == RejectedAt(mem, First(job.todo), "not_applied")
<1>1. Persist(t) => Saved(t) /\ saved'
  BY NoFailure DEF Saved
<1>2. saved' /\ GoOn(rest) => job' = Rest(rest)
  BY DEF GoOn
<1> HIDE DEF t, rest
<1>3. Persist(t) /\ GoOn(rest) => Saved(t) /\ job' = Rest(rest)
  BY <1>1, <1>2
<1>4. QED  BY <1>3, NextDueParts DEF t, rest

LEMMA QueueSaves ==
  ASSUME ~FailingSaves, Queue
  PROVE  \E id \in Ids, edit \in Edits, kind \in QueueKinds, policy \in Policies :
           LET input == QueueInput(edit, kind, policy)
           IN  /\ MaySend(id, input)
               /\ Saved(WithRecord(mem, QueuedRecord(mem, id, input)))
               /\ Sent(id, input, "saved")
               /\ job = Idle /\ session
               /\ UNCHANGED <<device, session, job, landed, foreign, epochs, spent>>
<1>1. \A s : Persist(s) => Saved(s) /\ AnswerOf(saved') = "saved"
  BY NoFailure DEF Saved, AnswerOf
<1>2. QED  BY <1>1, QueueParts

LEMMA NoneUnsaved ==
  ASSUME TypeInv, ~FailingSaves
  PROVE  saved /\ ~SaveAgain /\ ~Replay /\ ~CaptureUnsaved
  BY DEF TypeInv, SaveAgain, Replay, CaptureUnsaved

-----------------------------------------------------------------------------
(* Steps that settle nothing. *)

(***************************************************************************)
(* Every record of s is one of memory, though its status, acknowledgement  *)
(* and target may differ.                                                  *)
(***************************************************************************)
Derived(s) ==
  /\ \A r \in Records(s) : \E q \in Records(mem) :
       r.id = q.id /\ r.input = q.input /\ r.changed = q.changed
  /\ UniqueIds(mem) => UniqueIds(s)

(***************************************************************************)
(* A step that brings no record and no change of the device.               *)
(***************************************************************************)
Uneventful ==
  /\ Derived(mem')
  /\ mem.revision <= mem'.revision
  /\ UNCHANGED client

LEMMA RecordsType ==
  ASSUME NEW s, StateOK(s)
  PROVE  Records(s) \subseteq OperationSet
<1>1. s.operationSets \in Seq(OperationSet)
  BY DEF StateOK, State
<1>2. QED  BY <1>1 DEF Records

LEMMA RevisionType ==
  ASSUME NEW s, StateOK(s)
  PROVE  s.revision \in Nat
  BY DEF StateOK, State

LEMMA DerivedSame ==
  ASSUME NEW s, s.operationSets = mem.operationSets
  PROVE  Derived(s)
  BY DEF Derived, Records, UniqueIds

LEMMA DerivedKeeps ==
  ASSUME TypeInv, NEW s, StateOK(s), KeepsSets(mem, s) \/ KeepsSets(s, mem)
  PROVE  Derived(s)
<1>1. /\ DOMAIN s.operationSets = DOMAIN mem.operationSets
      /\ \A i \in DOMAIN s.operationSets :
           /\ s.operationSets[i].id = mem.operationSets[i].id
           /\ s.operationSets[i].input = mem.operationSets[i].input
           /\ s.operationSets[i].changed = mem.operationSets[i].changed
  BY DEF KeepsSets, SameSet
<1>2. QED  BY <1>1 DEF Derived, Records, UniqueIds

LEMMA DerivedPruned ==
  ASSUME NEW s, StateOK(s), Derived(s)
  PROVE  Derived(Pruned(s))
  BY PrunedOK DEF StateOK, Derived

LEMMA DerivedRejected ==
  ASSUME NEW s, StateOK(s), Derived(s), NEW i \in DOMAIN s.operationSets, NEW ack \in Acks
  PROVE  Derived(RejectedAt(s, i, ack))
<1> DEFINE t == RejectedAt(s, i, ack)
<1>1. /\ DOMAIN t.operationSets = DOMAIN s.operationSets
      /\ \A k \in DOMAIN s.operationSets :
           /\ t.operationSets[k].id = s.operationSets[k].id
           /\ t.operationSets[k].input = s.operationSets[k].input
           /\ t.operationSets[k].changed = s.operationSets[k].changed
  BY RejectedAtOK
<1> HIDE DEF t
<1>2. ASSUME NEW r \in Records(t)
      PROVE  \E q \in Records(mem) :
               r.id = q.id /\ r.input = q.input /\ r.changed = q.changed
  <2>1. PICK k \in DOMAIN s.operationSets : r = t.operationSets[k]
    BY <1>1 DEF Records
  <2>2. s.operationSets[k] \in Records(s)
    BY DEF Records
  <2>3. QED  BY <1>1, <2>1, <2>2 DEF Derived
<1>3. UniqueIds(s) => UniqueIds(t)
  BY <1>1 DEF UniqueIds
<1>4. QED  BY <1>2, <1>3 DEF Derived, t

(***************************************************************************)
(* Saving a derived state, and keeping it in memory, is uneventful.        *)
(***************************************************************************)
LEMMA SavedUneventful ==
  ASSUME NEW s, StateOK(s), Derived(s), mem.revision <= s.revision,
         Saved(s), UNCHANGED client
  PROVE  Uneventful
  BY DerivedPruned, SavedOK DEF Uneventful

LEMMA InMemoryUneventful ==
  ASSUME NEW s, Derived(s), mem.revision <= s.revision, InMemory(s), UNCHANGED client
  PROVE  Uneventful
  BY DEF Uneventful, InMemory

LEMMA IdleStepUneventful ==
  ASSUME TypeInv, ~FailingSaves,
         Reconnect \/ LoseSession \/ Inspect \/ CreateSnapshot \/ StartTransport
           \/ StopOrContinue \/ RequestPattern \/ SetActiveScene
  PROVE  Uneventful
<1> USE DEF TypeInv
<1>0. mem.revision \in Nat
  BY RevisionType
<1>1. CASE Reconnect
  <2> DEFINE s == Reconnected(mem, device)
  <2>1. /\ StateOK(s) /\ KeepsSets(mem, s)
        /\ s.revision \in {mem.revision, mem.revision + 1}
    BY ReconnectedOK
  <2> HIDE DEF s
  <2>2. mem.revision <= s.revision
    BY <1>0, <2>1
  <2>3. Saved(s) /\ UNCHANGED client
    BY <1>1, NoFailure DEF Reconnect, s
  <2>4. QED  BY <2>1, <2>2, <2>3, DerivedKeeps, SavedUneventful
<1>2. CASE LoseSession
  <2>1. /\ StateOK(Silent(mem)) /\ Silent(mem).operationSets = mem.operationSets
        /\ mem.revision <= Silent(mem).revision
    BY <1>0, SilentOK DEF SameButTransport
  <2>2. QED  BY <1>2, <2>1, DerivedSame, NoFailure, SavedUneventful
      DEF LoseSession, history
<1>3. CASE Inspect
  <2> DEFINE s == Observed(mem, device)
  <2>1. /\ StateOK(s) /\ s.operationSets = mem.operationSets
        /\ s.revision \in {mem.revision, mem.revision + 1}
    BY ObservedOK
  <2> HIDE DEF s
  <2>2. mem.revision <= s.revision
    BY <1>0, <2>1
  <2>3. Saved(s) /\ UNCHANGED client
    BY <1>3, NoFailure DEF Inspect, s
  <2>4. QED  BY <2>1, <2>2, <2>3, DerivedSame, SavedUneventful
<1>4. CASE CreateSnapshot
  <2> DEFINE s == [mem EXCEPT !.snapshot = [o \in SnapshotObjects |-> device[o]]]
  <2>1. StateOK(s) /\ s.operationSets = mem.operationSets /\ s.revision = mem.revision
    BY DEF StateOK, State, Device, SnapshotObjects, Objects
  <2>2. Saved(s) /\ UNCHANGED client
    BY <1>4, NoFailure DEF CreateSnapshot, history
  <2> HIDE DEF s
  <2>3. QED  BY <1>0, <2>1, <2>2, DerivedSame, SavedUneventful
<1>5. CASE StartTransport
  <2>1. /\ StateOK(Started(mem)) /\ KeepsSets(mem, Started(mem))
        /\ mem.revision <= Started(mem).revision
    BY <1>0, StartedOK
  <2>2. UNCHANGED client /\ (InMemory(Started(mem)) \/ Saved(Started(mem)))
    BY <1>5, NoFailure DEF StartTransport
  <2>3. QED
    BY <2>1, <2>2, DerivedKeeps, InMemoryUneventful, SavedUneventful
<1>6. CASE StopOrContinue
  <2>1. PICK b \in BOOLEAN :
          LET s == [mem EXCEPT !.transport = Playing(@, b)]
          IN  InMemory(s) \/ Persist(s)
    BY <1>6 DEF StopOrContinue
  <2> DEFINE s == [mem EXCEPT !.transport = Playing(@, b)]
  <2>2. StateOK(s) /\ s.operationSets = mem.operationSets /\ s.revision = mem.revision
    BY PlayingOK, MovedOK DEF StateOK, TransportOK, State
  <2>3. UNCHANGED client /\ (InMemory(s) \/ Saved(s))
    BY <1>6, <2>1, NoFailure DEF StopOrContinue, history
  <2> HIDE DEF s
  <2>4. QED
    BY <1>0, <2>2, <2>3, DerivedSame, InMemoryUneventful, SavedUneventful
<1>7. CASE RequestPattern
  <2>1. PICK q \in Patterns, b \in BOOLEAN :
          InMemory([mem EXCEPT !.transport = ChangePattern(@, q, b)])
    BY <1>7 DEF RequestPattern
  <2> DEFINE s == [mem EXCEPT !.transport = ChangePattern(@, q, b)]
  <2>2. s.operationSets = mem.operationSets /\ s.revision = mem.revision
    BY DEF StateOK, State
  <2>3. UNCHANGED client /\ InMemory(s)
    BY <1>7, <2>1 DEF RequestPattern, history
  <2> HIDE DEF s
  <2>4. QED  BY <1>0, <2>2, <2>3, DerivedSame, InMemoryUneventful
<1>8. CASE SetActiveScene
  <2> DEFINE s == [mem EXCEPT !.lastObserved = [content |-> Content(device), kits |-> FALSE]]
  <2>1. s.operationSets = mem.operationSets /\ s.revision = mem.revision
    BY DEF StateOK, State
  <2>2. UNCHANGED client /\ InMemory(s)
    BY <1>8 DEF SetActiveScene
  <2> HIDE DEF s
  <2>3. QED  BY <1>0, <2>1, <2>2, DerivedSame, InMemoryUneventful
<1>9. QED
  BY <1>1, <1>2, <1>3, <1>4, <1>5, <1>6, <1>7, <1>8

LEMMA OtherStepUneventful ==
  ASSUME TypeInv, ~FailingSaves,
         SyncInv, Restart \/ PanelEdit \/ RollbackSnapshot \/ Poll
  PROVE  Uneventful
<1>0. mem.revision \in Nat /\ Derived(mem)
  BY RevisionType, DerivedSame DEF TypeInv
<1>1. CASE Restart
  <2>1. CASE Crash
    <3>1. Derived(disk) /\ disk.revision = mem.revision
      BY DerivedKeeps, NoneUnsaved DEF TypeInv, SyncInv
    <3>2. QED  BY <1>0, <1>1, <2>1, <3>1 DEF Restart, Crash, history, Uneventful
  <2>2. CASE Shutdown
    <3>1. /\ StateOK(Silent(mem)) /\ Silent(mem).operationSets = mem.operationSets
          /\ mem.revision <= Silent(mem).revision
      BY <1>0, SilentOK DEF SameButTransport, TypeInv
    <3>2. QED
      BY <1>1, <2>2, <3>1, DerivedSame, SavedUneventful DEF Restart, Shutdown, history
  <2>3. QED  BY <1>1, <2>1, <2>2 DEF Restart
<1>2. CASE PanelEdit
  BY <1>0, <1>2 DEF PanelEdit, Uneventful
<1>3. CASE RollbackSnapshot
  BY <1>0, <1>3 DEF RollbackSnapshot, Uneventful, history
<1>4. CASE Poll
  <2>1. PICK t \in {mem.transport, Tick(mem.transport)} :
          mem' = Polled(t) /\ UNCHANGED <<disk, saved, client>>
    BY <1>4, PollParts
  <2>2. InMemory(Polled(t)) /\ SameButTransport(mem, Polled(t))
    BY <2>1, PolledOK DEF InMemory
  <2>3. QED  BY <1>0, <2>1, <2>2, DerivedSame, InMemoryUneventful DEF SameButTransport
<1>5. QED  BY <1>1, <1>2, <1>3, <1>4

LEMMA NextDueUneventful ==
  ASSUME TypeInv, ~FailingSaves, JobInv, NextDue
  PROVE  Uneventful
<1>0. mem.revision \in Nat /\ Derived(mem)
  BY RevisionType, DerivedSame DEF TypeInv
<1> DEFINE index == First(job.todo)
           s == RejectedAt(mem, index, "not_applied")
<1>1. /\ index \in DOMAIN mem.operationSets /\ UNCHANGED client
      /\ Saved(s) \/ UNCHANGED <<mem, disk>>
  BY NextDueSaves
<1> HIDE DEF index
<1>2. StateOK(s) /\ Derived(s) /\ s.revision = mem.revision
  BY <1>0, <1>1, RejectedAtOK, DerivedRejected DEF Acks, TypeInv, SameButSets
<1> HIDE DEF s
<1>3. QED  BY <1>0, <1>1, <1>2, SavedUneventful DEF Uneventful

LEMMA FailUneventful ==
  ASSUME TypeInv, ~FailingSaves, NEW j, NEW lost \in BOOLEAN, NEW ack \in Acks,
         Fail(j, lost, ack), UNCHANGED client
  PROVE  Uneventful
<1>0. mem.revision \in Nat /\ Derived(mem)
  BY RevisionType, DerivedSame DEF TypeInv
<1> DEFINE f == Failing(lost)
           s == RejectedAt(f, j.index, ack)
<1>1. StateOK(f) /\ Derived(f) /\ f.revision = mem.revision
  <2>1. /\ StateOK(Silent(mem)) /\ Derived(Silent(mem))
        /\ Silent(mem).revision = mem.revision
    BY SilentOK, DerivedSame DEF SameButTransport, TypeInv
  <2>2. /\ Derived(Pruned(Silent(mem))) /\ Pruned(Silent(mem)).revision = mem.revision
    BY <2>1, DerivedPruned, PrunedOK DEF StateOK
  <2>3. QED  BY <1>0, <2>2, FailingOK DEF Failing
<1>2. \/ /\ j.index \in DOMAIN f.operationSets
         /\ Saved(s)
      \/ IF lost THEN Saved(f) ELSE UNCHANGED <<mem, disk>>
  BY FailSaves
<1> HIDE DEF f
<1>3. CASE /\ j.index \in DOMAIN f.operationSets
           /\ Saved(s)
  <2>1. StateOK(s) /\ Derived(s) /\ s.revision = mem.revision
    BY <1>1, <1>3, RejectedAtOK, DerivedRejected DEF SameButSets
  <2> HIDE DEF s
  <2>2. QED  BY <1>0, <1>3, <2>1, SavedUneventful
<1>4. CASE IF lost THEN Saved(f) ELSE UNCHANGED <<mem, disk>>
  BY <1>0, <1>1, <1>4, SavedUneventful DEF Uneventful
<1>5. QED  BY <1>2, <1>3, <1>4

LEMMA UnverifiedUneventful ==
  ASSUME TypeInv, ~FailingSaves,
         NEW lost \in BOOLEAN, Unverified(lost), UNCHANGED client
  PROVE  Uneventful
<1>1. CASE Fail(job, lost, "none")
  BY <1>1, FailUneventful DEF Acks
<1>2. CASE UNCHANGED <<session, mem, disk, saved>>
  BY <1>2, RevisionType, DerivedSame DEF TypeInv, Uneventful
<1>3. QED  BY <1>1, <1>2, UnverifiedParts

-----------------------------------------------------------------------------
(* What a step does to the job and the records. *)

(***************************************************************************)
(* No record is worked on after the step.                                  *)
(***************************************************************************)
Resting ==
  job' # Idle =>
    /\ job'.kind # "apply" /\ job'.id = None
    /\ job'.kind = "due" => job'.phase = "next"

(***************************************************************************)
(* The job goes on with the same record; only a read that had to open a    *)
(* session first has touched the durable record.                           *)
(***************************************************************************)
Continuing ==
  /\ job # Idle /\ job' # Idle
  /\ job'.kind = job.kind /\ job'.id = job.id
  /\ job'.index = job.index /\ job'.todo = job.todo
  /\ job'.phase = "next" <=> job.phase = "next"
  /\ job'.phase \in {"read", "write"} => job.phase \in {"read", "write"}
  /\ session => session'
  /\ \/ UNCHANGED <<mem, disk, saved, session>>
     \/ /\ ~session /\ (job.kind # "due" \/ SlowPersists)
        /\ Saved(CapturedState)

(***************************************************************************)
(* A due job turns to its next record.                                     *)
(***************************************************************************)
Turning ==
  \E i \in job.todo :
    /\ job # Idle /\ job.kind = "due" /\ job.phase = "next"
    /\ i \in DOMAIN mem.operationSets
    /\ mem.operationSets[i].input.expected = mem.revision
    /\ job' = NewJob("due", "read", mem.operationSets[i].id, i, job.todo \ {i})
    /\ UNCHANGED <<mem, disk, saved, session, client>>

(***************************************************************************)
(* A job succeeds.                                                         *)
(***************************************************************************)
Settling ==
  \E j \in Job, o \in Observation :
    /\ job # Idle /\ job.phase \in {"read", "verify"}
    /\ j.kind = job.kind /\ j.id = job.id
    /\ j.index = job.index /\ j.todo = job.todo
    /\ session \/ job.kind # "due" \/ SlowPersists
    /\ Settle(CapturedState, j, o)

LEMMA CapturedDerived ==
  ASSUME TypeInv
  PROVE  /\ StateOK(CapturedState) /\ Derived(CapturedState)
         /\ mem.revision <= CapturedState.revision
         /\ session => CapturedState = mem
<1> DEFINE s == Reconnected(mem, device)
<1>1. StateOK(mem) /\ mem.revision \in Nat /\ Derived(mem)
  BY RevisionType, DerivedSame DEF TypeInv
<1>2. /\ StateOK(s) /\ KeepsSets(mem, s)
      /\ s.revision \in {mem.revision, mem.revision + 1}
  BY ReconnectedOK DEF TypeInv
<1> HIDE DEF s
<1>3. StateOK(Pruned(s)) /\ Derived(Pruned(s)) /\ Pruned(s).revision = s.revision
  BY <1>2, DerivedKeeps, DerivedPruned, PrunedStateOK, PrunedOK DEF StateOK
<1>4. CapturedState = IF session THEN mem ELSE Pruned(s)
  BY DEF CapturedState, s
<1>5. QED  BY <1>1, <1>2, <1>3, <1>4

LEMMA RestIsResting ==
  ASSUME NEW j \in Job, job' = Rest(j)
  PROVE  Resting
  BY RestOK DEF Resting

LEMMA CaptureCases ==
  ASSUME TypeInv, ~FailingSaves, JobInv, Capture
  PROVE  \/ Uneventful /\ Continuing
         \/ Settling
<1>1. /\ job # Idle /\ job.phase = "read"
      /\ session \/ job.kind # "due" \/ SlowPersists
      /\ \/ Settle(CapturedState, CapturedJob, CapturedSummary)
         \/ /\ job' = [CapturedJob EXCEPT !.phase = "write"]
            /\ IF session THEN UNCHANGED <<mem, disk, saved, foreign>>
               ELSE Saved(CapturedState) /\ foreign' = FALSE
            /\ UNCHANGED client
      /\ session' = TRUE
  BY CaptureParts
<1>2. /\ CapturedJob \in Job
      /\ CapturedJob.kind = job.kind /\ CapturedJob.id = job.id
      /\ CapturedJob.index = job.index /\ CapturedJob.todo = job.todo
      /\ CapturedSummary \in Observation
  BY <1>1, CapturedOK
<1>3. CASE Settle(CapturedState, CapturedJob, CapturedSummary)
  BY <1>1, <1>2, <1>3 DEF Settling
<1>4. CASE /\ job' = [CapturedJob EXCEPT !.phase = "write"]
           /\ IF session THEN UNCHANGED <<mem, disk, saved, foreign>>
              ELSE Saved(CapturedState) /\ foreign' = FALSE
           /\ UNCHANGED client
  <2>1. /\ job' \in Job /\ job'.kind = job.kind /\ job'.id = job.id
        /\ job'.index = job.index /\ job'.todo = job.todo /\ job'.phase = "write"
    BY <1>2, <1>4 DEF Job
  <2>2. job' # Idle
    BY <2>1, IdleAssumption
  <2>3. Continuing
    BY <1>1, <1>4, <2>1, <2>2 DEF Continuing
  <2>4. Uneventful
    <3>1. CASE UNCHANGED mem
      BY <1>4, <3>1, RevisionType, DerivedSame DEF TypeInv, Uneventful
    <3>2. CASE Saved(CapturedState)
      BY <1>4, <3>2, CapturedDerived, SavedUneventful
    <3>3. QED  BY <1>4, <3>1, <3>2
  <2>5. QED  BY <2>3, <2>4
<1>5. QED  BY <1>1, <1>3, <1>4

LEMMA UnverifiedCases ==
  ASSUME TypeInv, ~FailingSaves, JobInv, job # Idle, job.phase \in {"write", "verify"},
         NEW lost \in BOOLEAN, Unverified(lost), UNCHANGED client
  PROVE  Uneventful /\ (Resting \/ Continuing)
<1>1. job \in Job
  BY DEF TypeInv
<1>2. Uneventful
  BY UnverifiedUneventful
<1>3. CASE Fail(job, lost, "none")
  BY <1>1, <1>2, <1>3, RestIsResting, FailSaves DEF Acks
<1>4. CASE job' = Restoring(lost) /\ UNCHANGED <<session, mem, disk, saved>>
  <2>1. /\ job' \in Job /\ job'.phase = "restore" /\ job'.kind = job.kind
        /\ job'.id = job.id /\ job'.index = job.index /\ job'.todo = job.todo
    BY <1>1, <1>4, RestoringOK
  <2>2. job' # Idle
    BY <2>1, IdleAssumption
  <2>3. Continuing
    BY <1>4, <2>1, <2>2 DEF Continuing
  <2>4. QED  BY <1>2, <2>3
<1>5. QED  BY <1>3, <1>4, UnverifiedParts

LEMMA WriteStepCases ==
  ASSUME TypeInv, ~FailingSaves, JobInv,
         CaptureFails \/ Write \/ WriteFails \/ Verify \/ VerifyFails
           \/ Restore \/ RestoreFails
  PROVE  \/ Uneventful /\ (Resting \/ Continuing)
         \/ Settling
<1>0. /\ job # Idle /\ job \in Job
      /\ mem.revision \in Nat /\ Derived(mem)
  BY RevisionType, DerivedSame
  DEF TypeInv, CaptureFails, Write, WriteFails, Verify, VerifyFails, Restore, RestoreFails
<1>1. CASE CaptureFails
  <2>1. PICK lost \in BOOLEAN : Fail(job, lost, "not_applied")
    BY <1>1 DEF CaptureFails, TypeInv
  <2>2. Uneventful
    BY <1>1, <2>1, FailUneventful DEF CaptureFails, Acks, history
  <2>3. Resting
    BY <1>0, <2>1, RestIsResting, FailSaves DEF Acks
  <2>4. QED  BY <2>2, <2>3
<1>2. CASE Write
  <2>1. /\ job' \in Job /\ job'.kind = job.kind /\ job'.id = job.id
        /\ job'.index = job.index /\ job'.todo = job.todo /\ job'.phase = "verify"
    BY <1>0, <1>2 DEF Write, Job
  <2>2. job' # Idle
    BY <2>1, IdleAssumption
  <2>3. Continuing
    BY <1>0, <1>2, <2>1, <2>2 DEF Write, Continuing
  <2>4. QED  BY <1>0, <1>2, <2>3 DEF Write, Uneventful
<1>3. CASE WriteFails
  BY <1>3, UnverifiedCases DEF WriteFails
<1>4. CASE Verify
  <2>1. CASE Settle(mem, job, [content |-> Content(device), kits |-> WritesKits])
    <3>1. [content |-> Content(device), kits |-> WritesKits] \in Observation
      BY ShownOK DEF Observation, WritesKits, TypeInv
    <3>2. session /\ CapturedState = mem /\ job.phase = "verify"
      BY <1>4 DEF Verify, JobInv, CapturedState
    <3>3. QED  BY <1>0, <2>1, <3>1, <3>2 DEF Settling
  <2>2. CASE Unverified(FALSE) /\ UNCHANGED client
    BY <1>4, <2>2, UnverifiedCases DEF Verify
  <2>3. QED  BY <1>4, <2>1, <2>2 DEF Verify
<1>5. CASE VerifyFails
  BY <1>5, UnverifiedCases DEF VerifyFails
<1>6. CASE Restore
  <2>1. job.lost \in BOOLEAN
    BY <1>0 DEF Job
  <2>2. PICK ack \in Acks : Fail(job, job.lost, ack)
    BY <1>6 DEF Restore, Acks
  <2>3. Uneventful
    BY <1>6, <2>1, <2>2, FailUneventful DEF Restore
  <2>4. Resting
    BY <1>0, <2>1, <2>2, RestIsResting, FailSaves DEF Acks
  <2>5. QED  BY <2>3, <2>4
<1>7. CASE RestoreFails
  <2>1. Fail(job, TRUE, "rollback_failed") /\ UNCHANGED client
    BY <1>7 DEF RestoreFails
  <2>2. Uneventful
    BY <2>1, FailUneventful DEF Acks
  <2>3. Resting
    BY <1>0, <2>1, RestIsResting, FailSaves DEF Acks
  <2>4. QED  BY <2>2, <2>3
<1>8. QED
  BY <1>1, <1>2, <1>3, <1>4, <1>5, <1>6, <1>7

(***************************************************************************)
(* Every step brings no record, or queues one, or starts to apply one, or  *)
(* settles one.                                                            *)
(***************************************************************************)
LEMMA StepCases ==
  ASSUME TypeInv, ~FailingSaves, JobInv, SyncInv, [Next]_vars
  PROVE  \/ Uneventful /\ (Resting \/ Continuing)
         \/ Turning
         \/ Settling
         \/ Queue
         \/ ApplyNow
<1>0. Derived(mem) /\ mem.revision \in Nat /\ job \in Job \cup {Idle}
  BY RevisionType, DerivedSame DEF TypeInv
<1>1. CASE UNCHANGED vars
  <2>1. Uneventful
    BY <1>0, <1>1 DEF vars, Uneventful
  <2>2. job = Idle => Resting
    BY <1>1 DEF vars, Resting
  <2>3. job # Idle => Continuing
    BY <1>1 DEF vars, Continuing
  <2>4. QED  BY <2>1, <2>2, <2>3
<1>2. CASE Reconnect \/ LoseSession \/ Inspect \/ CreateSnapshot \/ StartTransport
             \/ StopOrContinue \/ RequestPattern \/ SetActiveScene
  <2>1. Uneventful
    BY <1>2, IdleStepUneventful
  <2>2. Resting
    BY <1>2 DEF Reconnect, LoseSession, Inspect, CreateSnapshot, StartTransport,
      StopOrContinue, RequestPattern, SetActiveScene, Resting
  <2>3. QED  BY <2>1, <2>2
<1>3. CASE Restart
  BY <1>3, OtherStepUneventful DEF Restart, Resting
<1>4. CASE PanelEdit
  <2>1. Uneventful /\ UNCHANGED <<session, mem, disk, saved, job>>
    BY <1>4, OtherStepUneventful DEF PanelEdit
  <2>2. job = Idle => Resting
    BY <2>1 DEF Resting
  <2>3. job # Idle => Continuing
    BY <2>1 DEF Continuing
  <2>4. QED  BY <2>1, <2>2, <2>3
<1>5. CASE RollbackSnapshot
  <2>1. Uneventful /\ job' = NewJob("rollback", "read", None, 0, {})
    BY <1>5, OtherStepUneventful DEF RollbackSnapshot
  <2>2. job'.kind = "rollback" /\ job'.id = None
    BY <2>1, NewJobOK
  <2>3. QED  BY <2>1, <2>2 DEF Resting
<1>6. CASE Poll
  <2>1. PICK t \in {mem.transport, Tick(mem.transport)} :
          job' = IF DueIndexes(Polled(t)) = {} THEN Idle
                 ELSE NewJob("due", "next", None, 0, DueIndexes(Polled(t)))
    BY <1>6, PollParts
  <2>2. DueIndexes(Polled(t)) \in SUBSET Nat
    BY PolledOK
  <2> DEFINE due == DueIndexes(Polled(t))
             j == NewJob("due", "next", None, 0, due)
  <2>3. j.kind = "due" /\ j.phase = "next" /\ j.id = None
    BY <2>2, NewJobOK
  <2>4. job' = Idle \/ job' = j
    BY <2>1
  <2> HIDE DEF j
  <2>5. Resting
    BY <2>3, <2>4 DEF Resting
  <2>6. QED  BY <1>6, <2>5, OtherStepUneventful
<1>7. CASE NextDue
  <2> DEFINE i == First(job.todo)
             rest == [job EXCEPT !.todo = Remaining(job)]
  <2>1. /\ job # Idle /\ job.phase = "next" /\ job.kind = "due"
        /\ i \in DOMAIN mem.operationSets /\ i \in job.todo /\ rest \in Job
        /\ \/ job' = Rest(rest)
           \/ /\ ~IsStale(mem.operationSets[i])
              /\ job' = NewJob("due", "read", mem.operationSets[i].id,
                               i, job.todo \ {i})
              /\ UNCHANGED <<mem, disk, saved>>
        /\ UNCHANGED <<session, client>>
    BY <1>7, NextDueSaves DEF NextDue
  <2>2. Uneventful
    BY <1>7, NextDueUneventful
  <2> HIDE DEF i, rest
  <2>3. CASE job' = Rest(rest)
    BY <2>1, <2>2, <2>3, RestIsResting
  <2>4. CASE /\ ~IsStale(mem.operationSets[i])
             /\ job' = NewJob("due", "read", mem.operationSets[i].id,
                               i, job.todo \ {i})
             /\ UNCHANGED <<mem, disk, saved>>
    <3>1. mem.operationSets[i].input.expected = mem.revision
      BY <2>4 DEF IsStale
    <3>2. Turning
      BY <2>1, <2>4, <3>1 DEF Turning
    <3>3. QED  BY <3>2
  <2>5. QED  BY <2>1, <2>3, <2>4
<1>8. CASE Capture
  BY <1>8, CaptureCases
<1>9. CASE CaptureFails \/ Write \/ WriteFails \/ Verify \/ VerifyFails
             \/ Restore \/ RestoreFails
  BY <1>9, WriteStepCases
<1>10. CASE Queue \/ ApplyNow
  BY <1>10
<1>11. QED
  BY <1>1, <1>2, <1>3, <1>4, <1>5, <1>6, <1>7, <1>8, <1>9, <1>10, NoneUnsaved
  DEF Next, Client, DaemonStep, Trouble

(***************************************************************************)
(* The records of a settled job: those of before, one of which may have    *)
(* been marked, and the new one of a set applied at once.                  *)
(***************************************************************************)
SettledRecord(r, s, j) ==
  /\ r.changed = Changes(j)
  /\ \/ j.kind = "apply" /\ r.id = j.id /\ r.input = client[j.id].input
     \/ /\ j.kind = "due"
        /\ r.id = s.operationSets[j.index].id
        /\ r.input = s.operationSets[j.index].input

LEMMA SettledRecords ==
  ASSUME TypeInv, NEW s, StateOK(s), NEW j \in Job, NEW o \in Observation,
         j.kind = "apply" => j.id \in Ids /\ client[j.id].input \in Input,
         j.kind = "due" => j.index \in DOMAIN s.operationSets
  PROVE  LET t == SettledState(s, j, o)
         IN  /\ \A r \in Records(t) : r \in Records(s) \/ SettledRecord(r, s, j)
             /\ UniqueIds(s) /\ (j.kind = "apply" => j.id \notin IdsOf(s)) => UniqueIds(t)
<1> DEFINE a == Acknowledged(s, o, Changes(j))
           r0 == ImmediateRecord(a, j.id, client[j.id].input, Changes(j))
           t == SettledState(s, j, o)
<1>1. /\ StateOK(a) /\ StateOK(t)
      /\ a.operationSets = s.operationSets
      /\ j.kind = "apply" => r0 \in OperationSet /\ t = WithRecord(a, r0)
      /\ j.kind = "due" => t = AppliedAt(a, j.index, Changes(j))
      /\ j.kind = "rollback" => t = a
  BY SettledOK
<1>2. /\ r0.id = j.id /\ r0.input = client[j.id].input /\ r0.changed = Changes(j)
  BY DEF ImmediateRecord
<1>3. j.kind \in {"apply", "due", "rollback"} /\ Changes(j) \in BOOLEAN
  BY DEF Job, Changes
<1> HIDE DEF a, t, r0
<1>4. Records(a) = Records(s) /\ IdsOf(a) = IdsOf(s) /\ (UniqueIds(s) => UniqueIds(a))
  BY <1>1 DEF Records, IdsOf, UniqueIds
<1>5. CASE j.kind = "apply"
  <2>1. /\ Records(t) = Records(a) \cup {r0}
        /\ UniqueIds(a) /\ r0.id \notin IdsOf(a) => UniqueIds(t)
    BY <1>1, <1>5, WithRecordIds, WithRecordOK
  <2>2. QED  BY <1>2, <1>4, <1>5, <2>1 DEF t, SettledRecord
<1>6. CASE j.kind = "due"
  <2> DEFINE i == j.index
  <2>1. i \in DOMAIN a.operationSets
    BY <1>1, <1>6
  <2>2. /\ DOMAIN t.operationSets = DOMAIN s.operationSets
        /\ t.operationSets[i].id = s.operationSets[i].id
        /\ t.operationSets[i].input = s.operationSets[i].input
        /\ t.operationSets[i].changed = Changes(j)
        /\ \A k \in DOMAIN s.operationSets \ {i} :
             t.operationSets[k] = s.operationSets[k]
    BY <1>1, <1>3, <1>6, <2>1, AppliedAtOK
  <2>3. ASSUME NEW r \in Records(t)
        PROVE  r \in Records(s) \/ SettledRecord(r, s, j)
    <3>1. PICK k \in DOMAIN s.operationSets : r = t.operationSets[k]
      BY <2>2 DEF Records
    <3>2. CASE k = i
      BY <1>6, <2>2, <3>1, <3>2 DEF SettledRecord
    <3>3. CASE k # i
      BY <2>2, <3>1, <3>3 DEF Records
    <3>4. QED  BY <3>2, <3>3
  <2>4. UniqueIds(s) => UniqueIds(t)
    BY <2>2 DEF UniqueIds
  <2>5. QED  BY <1>6, <2>3, <2>4 DEF t
<1>7. CASE j.kind = "rollback"
  BY <1>1, <1>4, <1>7 DEF t
<1>8. QED  BY <1>3, <1>5, <1>6, <1>7

(***************************************************************************)
(* What a step that settles a job does, in terms of the record before it.  *)
(***************************************************************************)
LEMMA SettlingParts ==
  ASSUME TypeInv, ~FailingSaves, JobInv, Settling
  PROVE  \E j \in Job, o \in Observation :
           LET t == SettledState(CapturedState, j, o)
           IN  /\ job # Idle /\ job.phase \in {"read", "verify"}
               /\ j.kind = job.kind /\ j.id = job.id
               /\ j.index = job.index /\ j.todo = job.todo
               /\ session \/ job.kind # "due" \/ SlowPersists
               /\ j.kind = "due" => j.index \in DOMAIN CapturedState.operationSets
               /\ j.kind = "apply" => j.id \in Ids /\ client[j.id].input \in Input
               /\ StateOK(t) /\ Saved(t)
               /\ t.revision = IF Changes(j) THEN CapturedState.revision + 1
                               ELSE CapturedState.revision
               /\ job' = Rest(j) /\ Resting
               /\ IF j.kind = "apply" THEN Sent(j.id, client[j.id].input, "saved")
                  ELSE UNCHANGED client
<1>1. PICK j \in Job, o \in Observation :
        /\ job # Idle /\ job.phase \in {"read", "verify"}
        /\ j.kind = job.kind /\ j.id = job.id
        /\ j.index = job.index /\ j.todo = job.todo
        /\ session \/ job.kind # "due" \/ SlowPersists
        /\ Settle(CapturedState, j, o)
  BY DEF Settling
<1> DEFINE t == SettledState(CapturedState, j, o)
<1>2. /\ Saved(t)
      /\ j.kind = "due" => j.index \in DOMAIN CapturedState.operationSets
      /\ IF j.kind = "apply" THEN Sent(j.id, client[j.id].input, "saved")
         ELSE UNCHANGED client
      /\ job' = Rest(j)
  BY <1>1, SettleSaves
<1>3. j.kind = "apply" => j.id \in Ids /\ client[j.id].input \in Input
  BY <1>1 DEF JobInv
<1>4. StateOK(CapturedState)
  BY CapturedDerived
<1>5. /\ StateOK(t)
      /\ SameButSets(Acknowledged(CapturedState, o, Changes(j)), t)
      /\ Acknowledged(CapturedState, o, Changes(j)).revision =
           IF Changes(j) THEN CapturedState.revision + 1 ELSE CapturedState.revision
  BY <1>2, <1>3, <1>4, SettledOK
<1>6. Resting
  BY <1>2, RestIsResting
<1> HIDE DEF t
<1>7. t.revision = IF Changes(j) THEN CapturedState.revision + 1
                   ELSE CapturedState.revision
  BY <1>5 DEF SameButSets
<1>8. QED  BY <1>1, <1>2, <1>3, <1>5, <1>6, <1>7 DEF t

-----------------------------------------------------------------------------
(* One record for one set, holding what the client sent. *)

LEMMA UneventfulBound ==
  ASSUME TypeInv, BindInv, Uneventful
  PROVE  UniqueIds(mem') /\ BoundTo(mem') /\ IdsOf(mem') \subseteq IdsOf(mem)
  BY DEF Uneventful, Derived, BindInv, BoundTo, Records, IdsOf

LEMMA InitBind == Init => BindInv
  BY EmptyStateOK, IdleAssumption DEF Init, BindInv, BoundTo, Records

LEMMA SettlingBind ==
  ASSUME TypeInv, ~FailingSaves, JobInv, BindInv, Settling
  PROVE  BindInv'
<1>1. PICK j \in Job, o \in Observation :
        LET t == SettledState(CapturedState, j, o)
        IN  /\ job # Idle
            /\ j.kind = job.kind /\ j.id = job.id
            /\ j.kind = "due" => j.index \in DOMAIN CapturedState.operationSets
            /\ j.kind = "apply" => j.id \in Ids /\ client[j.id].input \in Input
            /\ StateOK(t) /\ Saved(t)
            /\ Resting
            /\ IF j.kind = "apply" THEN Sent(j.id, client[j.id].input, "saved")
               ELSE UNCHANGED client
  BY SettlingParts
<1> DEFINE s == CapturedState
           t == SettledState(s, j, o)
<1>2. StateOK(s) /\ Derived(s)
  BY CapturedDerived
<1>3. \A k \in Ids : client'[k].input = client[k].input
  <2>1. CASE j.kind = "apply"
    <3>1. /\ client \in Clients /\ j.id \in Ids /\ client[j.id].input \in Input
          /\ Sent(j.id, client[j.id].input, "saved")
      BY <1>1, <2>1 DEF TypeInv
    <3>2. /\ client'[j.id].input = client[j.id].input
          /\ \A k \in Ids \ {j.id} : client'[k] = client[k]
      BY <3>1, SentOK DEF Answers
    <3>3. QED  BY <3>2
  <2>2. CASE j.kind # "apply"
    BY <1>1, <2>2
  <2>3. QED  BY <2>1, <2>2
<1>4. BoundTo(s) /\ IdsOf(s) \subseteq IdsOf(mem) /\ UniqueIds(s)
  BY <1>2 DEF Derived, BindInv, BoundTo, Records, IdsOf
<1>5. /\ \A r \in Records(t) : r \in Records(s) \/ SettledRecord(r, s, j)
      /\ UniqueIds(s) /\ (j.kind = "apply" => j.id \notin IdsOf(s)) => UniqueIds(t)
  BY <1>1, <1>2, SettledRecords
<1>6. UniqueIds(t)
  BY <1>1, <1>4, <1>5 DEF BindInv
<1>7. ASSUME NEW r \in Records(t)
      PROVE  client[r.id].input = r.input
  BY <1>1, <1>4, <1>5 DEF SettledRecord, BoundTo, Records
<1>8. /\ mem' = Pruned(t) /\ StateOK(t)
  BY <1>1 DEF Saved
<1> HIDE DEF s, t
<1>9. UniqueIds(mem') /\ Records(mem') \subseteq Records(t) /\ StateOK(mem')
  BY <1>6, <1>8, PrunedOK, PrunedStateOK DEF StateOK
<1>10. \A r \in Records(mem') : r.id \in Ids
  BY <1>9, RecordsType DEF OperationSet
<1>11. \A r \in Records(mem') : client'[r.id].input = r.input
  BY <1>3, <1>7, <1>9, <1>10
<1>12. QED
  BY <1>1, <1>9, <1>11 DEF BindInv, Resting, BoundTo, UniqueIds, Records

LEMMA QueueBind ==
  ASSUME TypeInv, ~FailingSaves, BindInv, Queue
  PROVE  BindInv'
<1>1. PICK id \in Ids, edit \in Edits, kind \in QueueKinds, policy \in Policies :
        LET input == QueueInput(edit, kind, policy)
        IN  /\ MaySend(id, input)
            /\ Saved(WithRecord(mem, QueuedRecord(mem, id, input)))
            /\ Sent(id, input, "saved")
            /\ job = Idle /\ UNCHANGED job
  BY QueueSaves
<1> DEFINE input == QueueInput(edit, kind, policy)
           r0 == QueuedRecord(mem, id, input)
           t == WithRecord(mem, r0)
<1>2. StateOK(mem) /\ input \in Input /\ Resolvable(mem.transport, input.at)
  BY InputsOK DEF TypeInv, QueueInput
<1>3. r0 \in OperationSet
  BY <1>2, NewRecordsOK
<1>4. r0.id = id /\ r0.input = input
  BY DEF QueuedRecord
<1>5. id \notin IdsOf(mem)
  BY <1>1 DEF MaySend
<1>6. mem' = Pruned(t) /\ Sent(id, input, "saved")
  BY <1>1 DEF Saved
<1> HIDE DEF input, r0
<1>7. /\ StateOK(t) /\ UniqueIds(t) /\ Records(t) = Records(mem) \cup {r0}
  BY <1>2, <1>3, <1>4, <1>5, WithRecordOK, WithRecordIds DEF BindInv
<1> HIDE DEF t
<1>8. /\ client'[id].input = input
      /\ \A k \in Ids \ {id} : client'[k] = client[k]
  BY <1>2, <1>6, SentOK DEF TypeInv, Answers
<1>9. \A r \in Records(mem) : r.id \in Ids \ {id}
  BY <1>2, <1>5, RecordsType DEF OperationSet, IdsOf, Records
<1>10. \A r \in Records(t) : client'[r.id].input = r.input
  BY <1>4, <1>7, <1>8, <1>9 DEF BindInv, BoundTo
<1>11. UniqueIds(mem') /\ Records(mem') \subseteq Records(t)
  BY <1>6, <1>7, PrunedOK DEF StateOK
<1>12. QED
  BY <1>1, <1>10, <1>11 DEF BindInv, BoundTo, UniqueIds, Records

LEMMA ApplyNowBind ==
  ASSUME TypeInv, ~FailingSaves, BindInv, ApplyNow
  PROVE  BindInv'
<1>1. PICK id \in Ids, edit \in Edits :
        /\ MaySend(id, ApplyInput(edit))
        /\ Sent(id, ApplyInput(edit), "none")
        /\ job' = NewJob("apply", "read", id, 0, {})
        /\ UNCHANGED mem
  BY ApplyNowParts
<1>2. ApplyInput(edit) \in Input
  BY InputsOK
<1>3. \A k \in Ids \ {id} : client'[k] = client[k]
  BY <1>1, <1>2, SentOK DEF TypeInv, Answers
<1>4. id \notin IdsOf(mem)
  BY <1>1 DEF MaySend
<1>5. job'.id = id
  BY <1>1, NewJobOK
<1>6. \A r \in Records(mem) : r.id \in Ids \ {id}
  BY <1>4, RecordsType DEF TypeInv, OperationSet, IdsOf, Records
<1>7. QED
  BY <1>1, <1>3, <1>4, <1>5, <1>6 DEF BindInv, BoundTo, UniqueIds, Records, IdsOf

LEMMA NextBind ==
  ASSUME TypeInv, ~FailingSaves, JobInv, SyncInv, BindInv, [Next]_vars
  PROVE  BindInv'
<1>1. CASE Uneventful /\ (Resting \/ Continuing)
  <2>1. UniqueIds(mem') /\ BoundTo(mem') /\ IdsOf(mem') \subseteq IdsOf(mem)
    BY <1>1, UneventfulBound
  <2>2. UNCHANGED client
    BY <1>1 DEF Uneventful
  <2>3. job' # Idle /\ job'.kind = "apply" => job'.id \notin IdsOf(mem')
    BY <1>1, <2>1 DEF Resting, Continuing, BindInv
  <2>4. QED
    BY <2>1, <2>2, <2>3 DEF BindInv, BoundTo, UniqueIds, Records, IdsOf
<1>2. CASE Turning
  <2>1. job'.kind = "due" /\ UNCHANGED <<mem, client>>
    BY <1>2 DEF Turning, NewJob
  <2>2. QED
    BY <2>1 DEF BindInv, BoundTo, UniqueIds, Records, IdsOf
<1>3. QED  BY <1>1, <1>2, StepCases, SettlingBind, QueueBind, ApplyNowBind

-----------------------------------------------------------------------------
(* A revision is spent once. *)

(***************************************************************************)
(* The record a due job works on stays at its index, when no session is    *)
(* opened between two records of a due list.                               *)
(***************************************************************************)
LEMMA InitIndex == Init => IndexInv
  BY IdleAssumption DEF Init, IndexInv

LEMMA NextIndex ==
  ASSUME TypeInv, ~FailingSaves, JobInv, SyncInv, IndexInv, ~SlowPersists, [Next]_vars
  PROVE  IndexInv'
<1>1. CASE Resting
  BY <1>1 DEF Resting, IndexInv
<1>2. CASE Continuing
  BY <1>2 DEF Continuing, IndexInv, Saved
<1>3. CASE Turning
  <2>1. PICK i \in job.todo :
          /\ i \in DOMAIN mem.operationSets
          /\ job' = NewJob("due", "read", mem.operationSets[i].id, i, job.todo \ {i})
          /\ UNCHANGED mem
    BY <1>3 DEF Turning
  <2>2. job'.index = i /\ job'.id = mem.operationSets[i].id
    BY <2>1 DEF NewJob
  <2>3. QED  BY <2>1, <2>2 DEF IndexInv
<1>4. CASE Settling
  BY <1>1, <1>4, SettlingParts
<1>5. CASE Queue
  BY <1>5 DEF Queue, IndexInv
<1>6. CASE ApplyNow
  <2>1. PICK id \in Ids : job' = NewJob("apply", "read", id, 0, {})
    BY <1>6, ApplyNowParts
  <2>2. job'.kind = "apply"
    BY <2>1 DEF NewJob
  <2>3. QED  BY <2>2 DEF IndexInv
<1>7. QED  BY <1>1, <1>2, <1>3, <1>4, <1>5, <1>6, StepCases

LEMMA InitWinner == Init => WinnerInv
  BY EmptyStateOK, IdleAssumption DEF Init, WinnerInv, Records

(***************************************************************************)
(* Records that come from memory are of revisions that are over, with one  *)
(* winner each.                                                            *)
(***************************************************************************)
LEMMA DerivedWinner ==
  ASSUME TypeInv, WinnerInv, NEW s, StateOK(s), Derived(s), mem.revision <= s.revision
  PROVE  /\ \A r \in Records(s) : r.changed => r.input.expected < s.revision
         /\ \A r, q \in Records(s) :
              r.changed /\ q.changed /\ r.input.expected = q.input.expected => r.id = q.id
         /\ job # Idle /\ job.id \in Ids =>
              /\ client[job.id].input.expected <= mem.revision
              /\ \A r \in Records(s) : r.changed =>
                   r.input.expected # client[job.id].input.expected
<1>1. mem.revision \in Nat /\ s.revision \in Nat
  BY RevisionType DEF TypeInv
<1>2. \A r \in Records(mem) : r.input.expected \in Nat
  BY RecordsType DEF TypeInv, OperationSet, Input
<1>3. ASSUME NEW r \in Records(s), r.changed
      PROVE  /\ r.input.expected < s.revision
             /\ \E q \in Records(mem) : r.id = q.id /\ r.input = q.input /\ q.changed
  <2>1. PICK q \in Records(mem) : r.id = q.id /\ r.input = q.input /\ q.changed
    BY <1>3 DEF Derived
  <2>2. q.input.expected < mem.revision
    BY <2>1 DEF WinnerInv
  <2>3. QED  BY <1>1, <1>2, <2>1, <2>2
<1>4. ASSUME NEW r \in Records(s), NEW q \in Records(s),
             r.changed, q.changed, r.input.expected = q.input.expected
      PROVE  r.id = q.id
  BY <1>3, <1>4 DEF WinnerInv
<1>5. ASSUME job # Idle, job.id \in Ids
      PROVE  /\ client[job.id].input.expected <= mem.revision
             /\ \A r \in Records(s) : r.changed =>
                  r.input.expected # client[job.id].input.expected
  BY <1>3, <1>5 DEF WinnerInv
<1>6. QED  BY <1>3, <1>4, <1>5

(***************************************************************************)
(* A set that is being applied has a client, and the record at the index   *)
(* of a due job holds its input.                                           *)
(***************************************************************************)
LEMMA JobInput ==
  ASSUME TypeInv, JobInv, BindInv, IndexInv, job # Idle, job.phase # "next",
         job.kind # "rollback"
  PROVE  /\ job.id \in Ids /\ client[job.id].input \in Input
         /\ client[job.id].input.expected \in Nat
         /\ job.kind = "due" =>
              /\ job.index \in DOMAIN mem.operationSets
              /\ mem.operationSets[job.index].id = job.id
              /\ mem.operationSets[job.index].input = client[job.id].input
<1>1. job.kind \in {"apply", "due"}
  BY DEF TypeInv, Job
<1>2. CASE job.kind = "apply"
  BY <1>2 DEF JobInv, Input
<1>3. CASE job.kind = "due"
  <2>1. /\ job.index \in DOMAIN mem.operationSets
        /\ mem.operationSets[job.index].id = job.id
    BY <1>3 DEF IndexInv
  <2>2. mem.operationSets[job.index] \in Records(mem)
    BY <2>1 DEF Records
  <2>3. mem.operationSets[job.index] \in OperationSet
    BY <2>2, RecordsType DEF TypeInv
  <2>4. /\ mem.operationSets[job.index].id \in Ids
        /\ mem.operationSets[job.index].input \in Input
        /\ mem.operationSets[job.index].input.expected \in Nat
    BY <2>3 DEF OperationSet, Input
  <2>5. client[job.id].input = mem.operationSets[job.index].input
    BY <2>1, <2>2 DEF BindInv, BoundTo
  <2>6. QED  BY <1>3, <2>1, <2>4, <2>5
<1>4. QED  BY <1>1, <1>2, <1>3

LEMMA JobWithId ==
  ASSUME TypeInv, JobInv, job # Idle, job.id \in Ids
  PROVE  job.phase # "next" /\ job.kind # "rollback"
  BY NoneAssumption DEF JobInv

LEMMA QuietWinner ==
  ASSUME TypeInv, ~FailingSaves, JobInv, BindInv, IndexInv, WinnerInv, StateOK(mem'),
         Uneventful, Resting \/ Continuing
  PROVE  WinnerInv'
<1>1. /\ Derived(mem') /\ mem.revision <= mem'.revision /\ UNCHANGED client
      /\ mem.revision \in Nat /\ mem'.revision \in Nat
  BY RevisionType DEF Uneventful, TypeInv
<1> DEFINE m == mem'
<1>2. /\ \A r \in Records(m) : r.changed => r.input.expected < m.revision
      /\ \A r, q \in Records(m) :
           r.changed /\ q.changed /\ r.input.expected = q.input.expected => r.id = q.id
      /\ job # Idle /\ job.id \in Ids =>
           /\ client[job.id].input.expected <= mem.revision
           /\ \A r \in Records(m) : r.changed =>
                r.input.expected # client[job.id].input.expected
  BY <1>1, DerivedWinner
<1>3. ASSUME job' # Idle, job'.id \in Ids
      PROVE  /\ client'[job'.id].input.expected <= m.revision
             /\ \A r \in Records(m) : r.changed =>
                  r.input.expected # client'[job'.id].input.expected
  <2>1. job # Idle /\ job'.id = job.id
    BY <1>3, NoneAssumption DEF Resting, Continuing
  <2>2. client[job.id].input.expected \in Nat
    BY <1>3, <2>1, JobWithId, JobInput
  <2>3. QED  BY <1>1, <1>2, <1>3, <2>1, <2>2
<1>4. QED  BY <1>2, <1>3 DEF WinnerInv, Records

LEMMA TurningWinner ==
  ASSUME TypeInv, BindInv, WinnerInv, Turning
  PROVE  WinnerInv'
<1>1. PICK i \in job.todo :
        /\ i \in DOMAIN mem.operationSets
        /\ mem.operationSets[i].input.expected = mem.revision
        /\ job' = NewJob("due", "read", mem.operationSets[i].id, i, job.todo \ {i})
        /\ UNCHANGED <<mem, client>>
  BY DEF Turning
<1>2. job'.id = mem.operationSets[i].id
  BY <1>1 DEF NewJob
<1>3. client[job'.id].input.expected = mem.revision
  BY <1>1, <1>2 DEF BindInv, BoundTo, Records
<1>4. mem.revision \in Nat /\ \A r \in Records(mem) : r.input.expected \in Nat
  BY RevisionType, RecordsType DEF TypeInv, OperationSet, Input
<1>5. \A r \in Records(mem) : r.changed => r.input.expected # mem.revision
  BY <1>4 DEF WinnerInv
<1>6. QED
  BY <1>1, <1>3, <1>4, <1>5 DEF WinnerInv, Records

LEMMA QueueWinner ==
  ASSUME TypeInv, ~FailingSaves, WinnerInv, Queue
  PROVE  WinnerInv'
<1>1. PICK id \in Ids, edit \in Edits, kind \in QueueKinds, policy \in Policies :
        LET input == QueueInput(edit, kind, policy)
        IN  /\ Saved(WithRecord(mem, QueuedRecord(mem, id, input)))
            /\ job = Idle /\ UNCHANGED job
  BY QueueSaves
<1> DEFINE input == QueueInput(edit, kind, policy)
           r0 == QueuedRecord(mem, id, input)
           t == WithRecord(mem, r0)
<1>2. StateOK(mem) /\ input \in Input /\ Resolvable(mem.transport, input.at)
  BY InputsOK DEF TypeInv, QueueInput
<1>3. r0 \in OperationSet
  BY <1>2, NewRecordsOK
<1>4. r0.changed = FALSE
  BY DEF QueuedRecord
<1>5. mem' = Pruned(t)
  BY <1>1 DEF Saved
<1> HIDE DEF input, r0
<1>6. /\ StateOK(t) /\ t.revision = mem.revision /\ Records(t) = Records(mem) \cup {r0}
  BY <1>2, <1>3, WithRecordOK, WithRecordIds DEF SameButSets
<1> HIDE DEF t
<1>7. mem'.revision = mem.revision /\ Records(mem') \subseteq Records(mem) \cup {r0}
  BY <1>5, <1>6, PrunedOK DEF StateOK
<1>8. QED
  BY <1>1, <1>4, <1>7 DEF WinnerInv, Records

LEMMA ApplyNowWinner ==
  ASSUME TypeInv, ~FailingSaves, WinnerInv, ApplyNow
  PROVE  WinnerInv'
<1>1. PICK id \in Ids, edit \in Edits :
        /\ Sent(id, ApplyInput(edit), "none")
        /\ job' = NewJob("apply", "read", id, 0, {})
        /\ UNCHANGED mem
  BY ApplyNowParts
<1>2. client'[id].input = ApplyInput(edit)
  BY <1>1, SentOK, InputsOK DEF TypeInv, Answers
<1>3. job'.id = id /\ client'[id].input.expected = mem.revision
  BY <1>1, <1>2, NewJobOK DEF ApplyInput
<1>4. mem.revision \in Nat /\ \A r \in Records(mem) : r.input.expected \in Nat
  BY RevisionType, RecordsType DEF TypeInv, OperationSet, Input
<1>5. \A r \in Records(mem) : r.changed => r.input.expected # mem.revision
  BY <1>4 DEF WinnerInv
<1>6. QED
  BY <1>1, <1>3, <1>4, <1>5 DEF WinnerInv, Records

LEMMA SettlingWinner ==
  ASSUME TypeInv, ~FailingSaves,
         JobInv, BindInv, IndexInv, WinnerInv, ~SlowPersists, Settling
  PROVE  WinnerInv'
<1>1. PICK j \in Job, o \in Observation :
        LET t == SettledState(CapturedState, j, o)
        IN  /\ job # Idle /\ job.phase \in {"read", "verify"}
            /\ j.kind = job.kind /\ j.id = job.id /\ j.index = job.index
            /\ session \/ job.kind # "due" \/ SlowPersists
            /\ j.kind = "due" => j.index \in DOMAIN CapturedState.operationSets
            /\ j.kind = "apply" => j.id \in Ids /\ client[j.id].input \in Input
            /\ StateOK(t) /\ Saved(t)
            /\ t.revision = IF Changes(j) THEN CapturedState.revision + 1
                            ELSE CapturedState.revision
            /\ Resting
  BY SettlingParts
<1> DEFINE s == CapturedState
           t == SettledState(s, j, o)
<1>2. /\ StateOK(s) /\ Derived(s) /\ mem.revision <= s.revision
      /\ session => s = mem
  BY CapturedDerived
<1>3. mem.revision \in Nat /\ s.revision \in Nat
  BY <1>2, RevisionType DEF TypeInv
<1>4. /\ \A r \in Records(s) : r.changed => r.input.expected < s.revision
      /\ \A r, q \in Records(s) :
           r.changed /\ q.changed /\ r.input.expected = q.input.expected => r.id = q.id
      /\ job # Idle /\ job.id \in Ids =>
           /\ client[job.id].input.expected <= mem.revision
           /\ \A r \in Records(s) : r.changed =>
                r.input.expected # client[job.id].input.expected
  BY <1>2, DerivedWinner
<1>5. \A r \in Records(t) : r \in Records(s) \/ SettledRecord(r, s, j)
  BY <1>1, <1>2, SettledRecords
<1>6. ASSUME NEW r, SettledRecord(r, s, j)
      PROVE  /\ r.id = job.id /\ r.input = client[job.id].input
             /\ r.changed = Changes(j)
             /\ job.id \in Ids /\ client[job.id].input.expected \in Nat
  <2>1. j.kind \in {"apply", "due"} /\ r.changed = Changes(j)
    BY <1>6 DEF SettledRecord
  <2>2. job.kind # "rollback" /\ job.phase # "next"
    BY <1>1, <2>1
  <2>3. /\ job.id \in Ids /\ client[job.id].input.expected \in Nat
        /\ job.kind = "due" =>
             /\ mem.operationSets[job.index].id = job.id
             /\ mem.operationSets[job.index].input = client[job.id].input
    BY <1>1, <2>2, JobInput
  <2>4. job.kind = "due" => s = mem
    BY <1>1, <1>2
  <2>5. QED  BY <1>1, <1>6, <2>1, <2>3, <2>4 DEF SettledRecord
<1>7. mem' = Pruned(t) /\ StateOK(t)
      /\ t.revision = IF Changes(j) THEN s.revision + 1 ELSE s.revision
  BY <1>1 DEF Saved
<1> HIDE DEF s, t
<1>8. \A r \in Records(s) : r.input.expected \in Nat
  BY <1>2, RecordsType DEF OperationSet, Input
<1>9. ASSUME NEW r \in Records(t), r.changed
      PROVE  r.input.expected < t.revision
  <2>1. CASE r \in Records(s)
    BY <1>3, <1>4, <1>7, <1>8, <1>9, <2>1
  <2>2. CASE SettledRecord(r, s, j)
    BY <1>1, <1>2, <1>3, <1>4, <1>6, <1>7, <1>9, <2>2
  <2>3. QED  BY <1>5, <2>1, <2>2
<1>10. ASSUME NEW r \in Records(t), NEW q \in Records(t),
              r.changed, q.changed, r.input.expected = q.input.expected
       PROVE  r.id = q.id
  BY <1>1, <1>4, <1>5, <1>6, <1>10
<1>11. mem'.revision = t.revision /\ Records(mem') \subseteq Records(t)
  BY <1>7, PrunedOK DEF StateOK
<1>12. QED
  BY <1>1, <1>9, <1>10, <1>11, NoneAssumption DEF WinnerInv, Resting, Records

LEMMA NextWinner ==
  ASSUME TypeInv, ~FailingSaves,
         JobInv, SyncInv, BindInv, IndexInv, WinnerInv, ~SlowPersists,
         TypeInv', [Next]_vars
  PROVE  WinnerInv'
<1>1. StateOK(mem')
  BY DEF TypeInv
<1>2. QED
  BY <1>1, StepCases, QuietWinner, TurningWinner, SettlingWinner, QueueWinner,
     ApplyNowWinner

(***************************************************************************)
(* Of all sets prepared against one revision at most one changes the       *)
(* device and is acknowledged, in memory and in the state file together.   *)
(* When saving outlasts RECONNECT_INTERVAL a due job may settle another    *)
(* record than the one it read, which is why the theorem excludes it.      *)
(***************************************************************************)
THEOREM RevisionsAreSpentOnce ==
  ~FailingSaves /\ ~SlowPersists => (Spec => []OneWinnerPerRevision)
<1> DEFINE IInv == /\ TypeInv /\ JobInv /\ ObservedInv /\ SyncInv /\ BindInv
                   /\ IndexInv /\ WinnerInv
<1> SUFFICES ASSUME ~FailingSaves, ~SlowPersists
             PROVE  Spec => []OneWinnerPerRevision
  OBVIOUS
<1>1. Init => IInv
  BY InitTypes, InitObserved, InitSync, InitBind, InitIndex, InitWinner
<1>2. IInv /\ [Next]_vars => IInv'
  BY NextTypes, NextObserved, NextSync, NextBind, NextIndex, NextWinner
<1>3. IInv => OneWinnerPerRevision
  <2> SUFFICES ASSUME IInv  PROVE  OneWinnerPerRevision
    OBVIOUS
  <2>1. \A r \in Records(disk) : \E q \in Records(mem) :
          r.id = q.id /\ r.input = q.input /\ r.changed = q.changed
    BY NoneUnsaved DEF SyncInv, KeepsSets, SameSet, Records
  <2>2. QED  BY <2>1 DEF WinnerInv, OneWinnerPerRevision
<1>4. QED  BY <1>1, <1>2, <1>3, PTL DEF Spec

-----------------------------------------------------------------------------
(* Stale work is not dispatched. *)

LEMMA InitStale == Init => StaleInv
  BY IdleAssumption DEF Init, StaleInv

LEMMA NextStale ==
  ASSUME TypeInv, ~FailingSaves, JobInv, SyncInv, BindInv, StaleInv,
         ~SlowPersists, ~BlindClients, [Next]_vars
  PROVE  StaleInv'
<1>1. CASE Resting
  BY <1>1, NoneAssumption DEF Resting, StaleInv
<1>2. CASE Uneventful /\ Continuing
  <2>1. SUFFICES ASSUME job'.id \in Ids, job'.phase \in {"read", "write"}
                 PROVE  /\ client'[job'.id].input.expected = mem'.revision
                        /\ job'.kind = "apply" => session'
    BY DEF StaleInv
  <2>2. /\ job # Idle /\ job.id \in Ids /\ job.phase \in {"read", "write"}
        /\ job'.id = job.id /\ job'.kind = job.kind
        /\ job.kind \in {"apply", "due"}
    BY <1>2, <2>1, NoneAssumption DEF Continuing, JobInv, TypeInv, Job
  <2>3. /\ client[job.id].input.expected = mem.revision
        /\ job.kind = "apply" => session
    BY <2>2 DEF StaleInv
  <2>4. UNCHANGED <<mem, client>> /\ (session => session')
    BY <1>2, <2>2, <2>3 DEF Continuing, Uneventful
  <2>5. QED  BY <2>2, <2>3, <2>4
<1>3. CASE Turning
  <2>1. PICK i \in job.todo :
          /\ i \in DOMAIN mem.operationSets
          /\ mem.operationSets[i].input.expected = mem.revision
          /\ job' = NewJob("due", "read", mem.operationSets[i].id, i, job.todo \ {i})
          /\ UNCHANGED <<mem, client>>
    BY <1>3 DEF Turning
  <2>2. job'.id = mem.operationSets[i].id /\ job'.kind = "due"
    BY <2>1 DEF NewJob
  <2>3. client[job'.id].input.expected = mem.revision
    BY <2>1, <2>2 DEF BindInv, BoundTo, Records
  <2>4. QED  BY <2>1, <2>2, <2>3 DEF StaleInv
<1>4. CASE Settling
  BY <1>1, <1>4, SettlingParts
<1>5. CASE Queue
  BY <1>5 DEF Queue, StaleInv
<1>6. CASE ApplyNow
  <2>1. PICK id \in Ids, edit \in Edits :
          /\ Sent(id, ApplyInput(edit), "none")
          /\ session
          /\ job' = NewJob("apply", "read", id, 0, {})
          /\ UNCHANGED <<session, mem>>
    BY <1>6, ApplyNowParts
  <2>2. client'[id].input = ApplyInput(edit)
    BY <2>1, SentOK, InputsOK DEF TypeInv, Answers
  <2>3. job'.id = id /\ client'[id].input.expected = mem.revision
    BY <2>1, <2>2, NewJobOK DEF ApplyInput
  <2>4. QED  BY <2>1, <2>3 DEF StaleInv
<1>7. QED  BY <1>1, <1>2, <1>3, <1>4, <1>5, <1>6, StepCases

-----------------------------------------------------------------------------
(***************************************************************************)
(* THIRD PART, the schedule: where queued work waits, and what never       *)
(* happens to records.  While the indexes of due lists keep their meaning  *)
(* (among the first MAX_RETAINED_OPERATION_SETS sets of a daemon's life,   *)
(* with no session opened between two records of a list) the schedule is   *)
(* exact.  After that part comes what holds of records without it.         *)
(***************************************************************************)

(***************************************************************************)
(* There are no more sets than retention keeps.                            *)
(***************************************************************************)
NothingDropped == IsFiniteSet(Ids) /\ Cardinality(Ids) <= RetainCap

(***************************************************************************)
(* The names of epochs: in memory and in the file none is used that is     *)
(* still to be given, and what is only in memory was resolved in an epoch  *)
(* that the file does not know.                                            *)
(***************************************************************************)
NamesInv ==
  /\ NamesBelow(mem) /\ NamesBelow(disk)
  /\ disk.idCounter <= mem.idCounter
  /\ \A i \in DOMAIN mem.operationSets :
       mem.operationSets[i].status = "queued"
         /\ mem.operationSets[i] # disk.operationSets[i]
         => mem.operationSets[i].target.epoch >= disk.idCounter

(***************************************************************************)
(* The records a due job has yet to settle.                                *)
(***************************************************************************)
PendingOf(j) ==
  IF j = Idle THEN {}
  ELSE j.todo \cup {i \in {j.index} : j.kind = "due" /\ j.phase # "next"}

DueNow(r, t) ==
  /\ r.status = "queued"
  /\ r.target.epoch = t.epoch
  /\ r.target.absoluteStep = t.absoluteStep

(***************************************************************************)
(* The records at the indexes P are due at this very step; all the other   *)
(* queued ones, if the daemon is connected, are ahead.                     *)
(***************************************************************************)
Plan(s, P, connected) ==
  /\ P \subseteq DOMAIN s.operationSets
  /\ \A i \in P : DueNow(s.operationSets[i], s.transport)
  /\ connected =>
       \A i \in DOMAIN s.operationSets \ P :
         s.operationSets[i].status = "queued" =>
           Ahead(s.operationSets[i], s.transport)

PlanInv ==
  /\ Plan(mem, PendingOf(job), session)
  /\ job # Idle /\ job.kind = "due" /\ job.phase # "next" =>
       /\ job.index \notin job.todo
       /\ mem.operationSets[job.index].input.expected = mem.revision

(***************************************************************************)
(* A request that needs a session has one until it is answered.            *)
(***************************************************************************)
SessionInv == job # Idle /\ job.kind # "due" => session

-----------------------------------------------------------------------------
(* Plans. *)

LEMMA PlanFresh ==
  ASSUME NEW s, AllAhead(s), NEW b
  PROVE  Plan(s, {}, b)
  BY DEF AllAhead, Plan

LEMMA PlanMoved ==
  ASSUME NEW s, StateOK(s), NEW P, NEW b \in BOOLEAN, Plan(s, P, b),
         NEW t, StateOK(t), t.operationSets = s.operationSets,
         t.transport.epoch = s.transport.epoch,
         \/ t.transport.absoluteStep = s.transport.absoluteStep
         \/ P = {} /\ t.transport.absoluteStep <= s.transport.absoluteStep,
         NEW c \in BOOLEAN, c => b
  PROVE  Plan(t, P, c)
<1>1. /\ s.transport.absoluteStep \in Nat /\ t.transport.absoluteStep \in Nat
      /\ \A i \in DOMAIN s.operationSets :
           s.operationSets[i].target.absoluteStep \in Nat
  <2>1. s.transport.absoluteStep \in Nat /\ t.transport.absoluteStep \in Nat
    BY DEF StateOK, State, TransportState
  <2>2. s.operationSets \in Seq(OperationSet)
    BY DEF StateOK, State
  <2>3. \A i \in DOMAIN s.operationSets : s.operationSets[i] \in OperationSet
    BY <2>2
  <2>4. QED  BY <2>1, <2>3 DEF OperationSet
<1>2. QED  BY <1>1 DEF Plan, DueNow, Ahead

(***************************************************************************)
(* A record of the list is settled, or a new one comes that is ahead.      *)
(***************************************************************************)
LEMMA PlanMarked ==
  ASSUME NEW s, NEW P, NEW b, Plan(s, P, b), NEW i, NEW t,
         DOMAIN t.operationSets = DOMAIN s.operationSets, t.transport = s.transport,
         t.operationSets[i].status # "queued",
         \A k \in DOMAIN s.operationSets \ {i} : t.operationSets[k] = s.operationSets[k]
  PROVE  Plan(t, P \ {i}, b)
  BY DEF Plan

LEMMA PlanAppended ==
  ASSUME NEW s, StateOK(s), NEW P, NEW b, Plan(s, P, b),
         NEW r \in OperationSet, r.status = "queued" => Ahead(r, s.transport)
  PROVE  Plan(WithRecord(s, r), P, b)
<1> DEFINE t == WithRecord(s, r)
           n == Len(s.operationSets) + 1
<1>1. /\ t.transport = s.transport
      /\ DOMAIN s.operationSets = 1 .. (n - 1) /\ DOMAIN t.operationSets = 1 .. n
      /\ Len(s.operationSets) \in Nat
      /\ t.operationSets[n] = r
      /\ \A k \in DOMAIN s.operationSets : t.operationSets[k] = s.operationSets[k]
  BY WithRecordOK DEF SameButSets
<1> HIDE DEF t
<1>2. DOMAIN t.operationSets = DOMAIN s.operationSets \cup {n}
  BY <1>1
<1>3. QED  BY <1>1, <1>2 DEF Plan, t

LEMMA PlanRecords ==
  ASSUME NEW s, NEW P, NEW b, Plan(s, P, b), NEW i \in P
  PROVE  i \in DOMAIN s.operationSets /\ DueNow(s.operationSets[i], s.transport)
  BY DEF Plan

-----------------------------------------------------------------------------
(* Names. *)

LEMMA NamesSame ==
  ASSUME NEW s, NamesBelow(s), NEW t, t.operationSets = s.operationSets,
         t.idCounter = s.idCounter, t.transport.epoch = s.transport.epoch
  PROVE  NamesBelow(t)
  BY DEF NamesBelow

LEMMA NamesMarked ==
  ASSUME NEW s, NamesBelow(s), NEW i, NEW t,
         DOMAIN t.operationSets = DOMAIN s.operationSets, t.transport = s.transport,
         t.idCounter = s.idCounter,
         t.operationSets[i].target = s.operationSets[i].target,
         \A k \in DOMAIN s.operationSets \ {i} : t.operationSets[k] = s.operationSets[k]
  PROVE  NamesBelow(t)
  BY DEF NamesBelow

LEMMA NamesAppended ==
  ASSUME NEW s, StateOK(s), NamesBelow(s),
         NEW r \in OperationSet, r.target.epoch = s.transport.epoch
  PROVE  NamesBelow(WithRecord(s, r))
<1> DEFINE t == WithRecord(s, r)
           n == Len(s.operationSets) + 1
<1>1. /\ t.transport = s.transport /\ t.idCounter = s.idCounter
      /\ DOMAIN s.operationSets = 1 .. (n - 1) /\ DOMAIN t.operationSets = 1 .. n
      /\ Len(s.operationSets) \in Nat
      /\ t.operationSets[n] = r
      /\ \A k \in DOMAIN s.operationSets : t.operationSets[k] = s.operationSets[k]
  BY WithRecordOK DEF SameButSets
<1> HIDE DEF t
<1>2. DOMAIN t.operationSets = DOMAIN s.operationSets \cup {n}
  BY <1>1
<1>3. QED  BY <1>1, <1>2 DEF NamesBelow, t

LEMMA CounterType ==
  ASSUME NEW s, StateOK(s)
  PROVE  s.idCounter \in Nat /\ s.transport.epoch \in Nat
  BY DEF StateOK, State, TransportState

(***************************************************************************)
(* A new epoch has the name that was still to be given.                    *)
(***************************************************************************)
LEMMA NewEpoch ==
  ASSUME NEW s, StateOK(s), NEW d \in Device
  PROVE  /\ Reconnected(s, d).transport.epoch = s.idCounter
         /\ Reconnected(s, d).idCounter = s.idCounter + 1
         /\ Started(s).transport.epoch = s.idCounter
         /\ Started(s).idCounter = s.idCounter + 1
<1> DEFINE u == Seen(s, d)
           v == [u EXCEPT !.idCounter = @ + 1,
                          !.transport = BeginEpoch(@, u.idCounter, Slot(d), MasterLength(d))]
           w == [s EXCEPT !.idCounter = @ + 1, !.transport = Start(@, s.idCounter)]
<1>1. StateOK(u) /\ u.idCounter = s.idCounter /\ u.transport = s.transport
  BY SeenOK
<1>2. u \in State /\ s \in State
  BY <1>1 DEF StateOK
<1>3. u.transport \in TransportState /\ s.transport \in TransportState
  BY <1>2 DEF State
<1> HIDE DEF u
<1>4. /\ v.idCounter = s.idCounter + 1
      /\ v.transport = BeginEpoch(u.transport, s.idCounter, Slot(d), MasterLength(d))
  BY <1>1, <1>2 DEF State
<1>5. w.idCounter = s.idCounter + 1 /\ w.transport = Start(s.transport, s.idCounter)
  BY <1>2 DEF State
<1>6. v.transport.epoch = s.idCounter /\ w.transport.epoch = s.idCounter
  <2>1. \A t \in TransportState : Rewound(t) \in TransportState
    BY DEF Rewound, TransportState
  <2>2. \A t \in TransportState : \A e, p, n :
          BeginEpoch(t, e, p, n).epoch = e /\ Start(t, e).epoch = e
    BY <2>1 DEF BeginEpoch, Start, TransportState
  <2>3. QED  BY <1>3, <1>4, <1>5, <2>2
<1>7. "operationSets" # "idCounter" /\ "operationSets" # "transport"
  OBVIOUS
<1>8. /\ ReconcileQueuedEpochs(v).transport = v.transport
      /\ ReconcileQueuedEpochs(v).idCounter = v.idCounter
      /\ ReconcileQueuedEpochs(w).transport = w.transport
      /\ ReconcileQueuedEpochs(w).idCounter = w.idCounter
  BY DEF ReconcileQueuedEpochs
<1>9. Reconnected(s, d) = ReconcileQueuedEpochs(v) /\ Started(s) = ReconcileQueuedEpochs(w)
  BY DEF Reconnected, Started, u
<1>10. QED  BY <1>4, <1>5, <1>6, <1>8, <1>9

-----------------------------------------------------------------------------
(* Steps that settle nothing. *)

(***************************************************************************)
(* s has the records of memory, of which some that were queued may be      *)
(* rejected or resolved again; but none whose epoch is the current one and *)
(* whose step is still to come.                                            *)
(***************************************************************************)
Steady(s) ==
  /\ KeepsSets(mem, s)
  /\ s.revision \in {mem.revision, mem.revision + 1}
  /\ \A i \in DOMAIN mem.operationSets :
       LET r == mem.operationSets[i]
       IN  /\ r.status = "queued"
           /\ r.target.epoch = s.transport.epoch
           /\ ~IsDue(r.target, s.transport)
           => s.operationSets[i] = r

(***************************************************************************)
(* A step that keeps every outcome and adds no record.                     *)
(***************************************************************************)
Quiet == Steady(mem') /\ (disk' = disk \/ disk' = mem')

LEMMA SteadySame ==
  ASSUME NEW s, s.operationSets = mem.operationSets,
         s.revision \in {mem.revision, mem.revision + 1}
  PROVE  Steady(s)
  BY KeepsSetsSame DEF Steady

LEMMA SteadyNewEpoch ==
  ASSUME TypeInv, NamesInv
  PROVE  /\ LET s == Reconnected(mem, device)
            IN  /\ StateOK(s) /\ Steady(s) /\ NamesBelow(s) /\ AllAhead(s)
                /\ s.transport.epoch = mem.idCounter /\ s.idCounter = mem.idCounter + 1
         /\ LET s == Started(mem)
            IN  /\ StateOK(s) /\ Steady(s) /\ NamesBelow(s) /\ AllAhead(s)
                /\ s.transport.epoch = mem.idCounter /\ s.idCounter = mem.idCounter + 1
<1>1. StateOK(mem) /\ device \in Device /\ NamesBelow(mem)
  BY DEF TypeInv, NamesInv
<1>2. \A i \in DOMAIN mem.operationSets :
        mem.operationSets[i].target.epoch # mem.idCounter
  <2>1. mem.idCounter \in Nat
    BY <1>1, CounterType
  <2>2. mem.operationSets \in Seq(OperationSet)
    BY <1>1 DEF StateOK, State
  <2>3. \A i \in DOMAIN mem.operationSets : mem.operationSets[i] \in OperationSet
    BY <2>2
  <2>4. \A i \in DOMAIN mem.operationSets : mem.operationSets[i].target.epoch \in Nat
    BY <2>3 DEF OperationSet
  <2>5. QED  BY <1>1, <2>1, <2>4 DEF NamesBelow
<1>3. /\ Reconnected(mem, device).transport.epoch = mem.idCounter
      /\ Reconnected(mem, device).idCounter = mem.idCounter + 1
      /\ Started(mem).transport.epoch = mem.idCounter
      /\ Started(mem).idCounter = mem.idCounter + 1
  BY <1>1, NewEpoch
<1>4. LET s == Reconnected(mem, device)
      IN  /\ StateOK(s) /\ KeepsSets(mem, s) /\ NamesBelow(s) /\ AllAhead(s)
          /\ s.revision \in {mem.revision, mem.revision + 1}
  BY <1>1, ReconnectedOK
<1>5. LET s == Started(mem)
      IN  /\ StateOK(s) /\ KeepsSets(mem, s) /\ NamesBelow(s) /\ AllAhead(s)
          /\ s.revision = mem.revision
  BY <1>1, StartedOK
<1>6. QED  BY <1>2, <1>3, <1>4, <1>5 DEF Steady

(***************************************************************************)
(* Rejecting a record that is due.                                         *)
(***************************************************************************)
LEMMA SteadyRejected ==
  ASSUME TypeInv, NEW s, StateOK(s), s.operationSets = mem.operationSets,
         s.revision = mem.revision,
         NEW i \in DOMAIN mem.operationSets, NEW ack \in Acks,
         DueNow(mem.operationSets[i], s.transport)
  PROVE  Steady(RejectedAt(s, i, ack))
<1> DEFINE t == RejectedAt(s, i, ack)
           r == mem.operationSets[i]
<1>1. /\ StateOK(t) /\ SameButSets(s, t)
      /\ DOMAIN t.operationSets = DOMAIN s.operationSets
      /\ t.operationSets[i].id = r.id /\ t.operationSets[i].input = r.input
      /\ t.operationSets[i].changed = r.changed
      /\ t.operationSets[i].status = "rejected"
      /\ \A k \in DOMAIN s.operationSets \ {i} :
           t.operationSets[k] = s.operationSets[k]
  BY RejectedAtOK
<1>2. t.transport = s.transport /\ t.revision = mem.revision
  BY <1>1 DEF SameButSets
<1> HIDE DEF t
<1>3. KeepsSets(mem, t)
  BY <1>1 DEF KeepsSets, SameSet, IsTerminal, DueNow
<1>4. s.transport.absoluteStep \in Nat
  BY DEF StateOK, State, TransportState
<1>5. IsDue(r.target, s.transport)
  BY <1>4 DEF DueNow, IsDue
<1>6. QED  BY <1>1, <1>2, <1>3, <1>5 DEF Steady, t

(***************************************************************************)
(* Saving a steady state, or keeping it in memory.                         *)
(***************************************************************************)
LEMMA SavedSteady ==
  ASSUME TypeInv, ~FailingSaves, BindInv, NothingDropped,
         NEW s, StateOK(s), Steady(s), NamesBelow(s), Saved(s)
  PROVE  /\ mem' = s /\ disk' = s
         /\ Quiet /\ NamesInv'
<1>1. UniqueIds(s)
  BY KeepsSetsIds DEF TypeInv, BindInv, Steady
<1>2. s \in State
  BY DEF StateOK
<1>3. Pruned(s) = s
  BY <1>1, <1>2, PrunedSame DEF NothingDropped
<1>4. mem' = s /\ disk' = s
  BY <1>3 DEF Saved
<1>5. s.idCounter <= s.idCounter
  BY CounterType
<1>6. QED  BY <1>4, <1>5 DEF Quiet, NamesInv, NamesBelow

LEMMA InMemorySteady ==
  ASSUME TypeInv, NamesInv,
         NEW s, StateOK(s), Steady(s), NamesBelow(s), InMemory(s),
         \/ s.operationSets = mem.operationSets /\ s.idCounter = mem.idCounter
         \/ /\ AllAhead(s) /\ s.transport.epoch = mem.idCounter
            /\ s.idCounter = mem.idCounter + 1
  PROVE  /\ mem' = s /\ disk' = disk
         /\ Quiet /\ NamesInv'
<1>1. mem' = s /\ disk' = disk
  BY DEF InMemory
<1>2. mem.idCounter \in Nat /\ disk.idCounter \in Nat
  BY CounterType DEF TypeInv
<1>3. disk.idCounter <= s.idCounter /\ disk.idCounter <= mem.idCounter
  BY <1>2 DEF NamesInv
<1>4. ASSUME NEW i \in DOMAIN s.operationSets,
             s.operationSets[i].status = "queued",
             s.operationSets[i] # disk.operationSets[i]
      PROVE  s.operationSets[i].target.epoch >= disk.idCounter
  <2>1. CASE s.operationSets = mem.operationSets
    BY <1>4, <2>1 DEF NamesInv
  <2>2. CASE AllAhead(s) /\ s.transport.epoch = mem.idCounter
    <3>1. s.operationSets[i].target.epoch = mem.idCounter
      BY <1>4, <2>2 DEF AllAhead, Ahead
    <3>2. QED  BY <1>2, <1>3, <3>1
  <2>3. QED  BY <2>1, <2>2
<1>5. QED  BY <1>1, <1>3, <1>4 DEF Quiet, NamesInv, NamesBelow

LEMMA UnchangedSteady ==
  ASSUME TypeInv, NamesInv, UNCHANGED <<mem, disk, saved>>
  PROVE  Quiet /\ NamesInv'
  BY SteadySame DEF Quiet, NamesInv, NamesBelow

LEMMA IdlePlan ==
  ASSUME job' = Idle, Plan(mem', {}, session')
  PROVE  PlanInv'
  BY DEF PlanInv, PendingOf, Plan

-----------------------------------------------------------------------------
(* The scheduling invariant, action by action. *)

LEMMA InitSchedule == Init => NamesInv /\ PlanInv
<1> SUFFICES ASSUME Init  PROVE  NamesInv /\ PlanInv
  OBVIOUS
<1>1. /\ mem = EmptyState /\ disk = EmptyState /\ job = Idle /\ session = FALSE
      /\ EmptyState.idCounter = 1
  BY DEF Init, EmptyState
<1>2. NamesInv
  BY <1>1, EmptyStateOK DEF NamesInv
<1>3. PlanInv
  BY <1>1 DEF PlanInv, PendingOf, Plan
<1>4. QED  BY <1>2, <1>3

(***************************************************************************)
(* When the daemon is idle nothing is pending.                             *)
(***************************************************************************)
LEMMA IdleNow ==
  ASSUME PlanInv, job = Idle
  PROVE  Plan(mem, {}, session)
  BY DEF PlanInv, PendingOf

LEMMA IdleStepFine ==
  ASSUME TypeInv, ~FailingSaves, BindInv, NothingDropped, NamesInv, PlanInv,
         Reconnect \/ LoseSession \/ Inspect \/ CreateSnapshot \/ StartTransport
           \/ StopOrContinue \/ RequestPattern \/ SetActiveScene
  PROVE  NamesInv' /\ PlanInv' /\ Quiet
<1>0. /\ job = Idle /\ job' = Idle
      /\ StateOK(mem) /\ mem.revision \in {mem.revision, mem.revision + 1}
      /\ NamesBelow(mem) /\ session \in BOOLEAN
  BY DEF Reconnect, LoseSession, Inspect, CreateSnapshot, StartTransport,
    StopOrContinue, RequestPattern, SetActiveScene, TypeInv, NamesInv
<1>1. Plan(mem, {}, session)
  BY <1>0, IdleNow
<1>2. mem.transport.absoluteStep \in Nat
  BY <1>0 DEF StateOK, State, TransportState
<1>3. CASE Reconnect
  <2> DEFINE s == Reconnected(mem, device)
  <2>1. StateOK(s) /\ Steady(s) /\ NamesBelow(s) /\ AllAhead(s)
    BY SteadyNewEpoch
  <2>2. Saved(s)
    BY <1>3, NoFailure DEF Reconnect
  <2> HIDE DEF s
  <2>3. mem' = s /\ Quiet /\ NamesInv'
    BY <2>1, <2>2, SavedSteady
  <2>4. QED  BY <1>0, <2>1, <2>3, PlanFresh, IdlePlan
<1>4. CASE LoseSession
  <2> DEFINE s == Silent(mem)
  <2>1. /\ StateOK(s) /\ s.operationSets = mem.operationSets
        /\ s.revision = mem.revision /\ s.idCounter = mem.idCounter
        /\ s.transport.epoch = mem.transport.epoch
        /\ s.transport.absoluteStep = mem.transport.absoluteStep
    BY <1>0, SilentOK DEF SameButTransport
  <2>2. Saved(s) /\ session' = FALSE
    BY <1>4, NoFailure DEF LoseSession
  <2> HIDE DEF s
  <2>3. Steady(s) /\ NamesBelow(s)
    BY <1>0, <2>1, SteadySame, NamesSame
  <2>4. Plan(s, {}, FALSE)
    BY <1>0, <1>1, <2>1, PlanMoved
  <2>5. mem' = s /\ Quiet /\ NamesInv'
    BY <2>1, <2>2, <2>3, SavedSteady
  <2>6. QED  BY <1>0, <2>2, <2>4, <2>5, IdlePlan
<1>5. CASE Inspect
  <2> DEFINE s == Observed(mem, device)
  <2>1. /\ StateOK(s) /\ s.operationSets = mem.operationSets
        /\ s.revision \in {mem.revision, mem.revision + 1}
        /\ s.idCounter = mem.idCounter
        /\ s.transport.epoch = mem.transport.epoch
        /\ s.transport.absoluteStep = mem.transport.absoluteStep
    BY <1>0, ObservedOK DEF TypeInv
  <2>2. Saved(s) /\ UNCHANGED session
    BY <1>5, NoFailure DEF Inspect
  <2> HIDE DEF s
  <2>3. Steady(s) /\ NamesBelow(s)
    BY <1>0, <2>1, SteadySame, NamesSame
  <2>4. Plan(s, {}, session)
    BY <1>0, <1>1, <2>1, PlanMoved
  <2>5. mem' = s /\ Quiet /\ NamesInv'
    BY <2>1, <2>2, <2>3, SavedSteady
  <2>6. QED  BY <1>0, <2>2, <2>4, <2>5, IdlePlan
<1>6. CASE CreateSnapshot
  <2> DEFINE s == [mem EXCEPT !.snapshot = [o \in SnapshotObjects |-> device[o]]]
  <2>1. /\ StateOK(s) /\ s.operationSets = mem.operationSets
        /\ s.revision = mem.revision /\ s.idCounter = mem.idCounter
        /\ s.transport = mem.transport
    BY DEF TypeInv, StateOK, State, Device, SnapshotObjects, Objects
  <2>2. Saved(s) /\ UNCHANGED session
    BY <1>6, NoFailure DEF CreateSnapshot
  <2> HIDE DEF s
  <2>3. Steady(s) /\ NamesBelow(s)
    BY <1>0, <2>1, SteadySame, NamesSame
  <2>4. Plan(s, {}, session)
    BY <1>0, <1>1, <2>1, PlanMoved
  <2>5. mem' = s /\ Quiet /\ NamesInv'
    BY <2>1, <2>2, <2>3, SavedSteady
  <2>6. QED  BY <1>0, <2>2, <2>4, <2>5, IdlePlan
<1>7. CASE StartTransport
  <2> DEFINE s == Started(mem)
  <2>1. /\ StateOK(s) /\ Steady(s) /\ NamesBelow(s) /\ AllAhead(s)
        /\ s.transport.epoch = mem.idCounter /\ s.idCounter = mem.idCounter + 1
    BY SteadyNewEpoch
  <2>2. InMemory(s) \/ Saved(s)
    BY <1>7, NoFailure DEF StartTransport
  <2> HIDE DEF s
  <2>3. mem' = s /\ Quiet /\ NamesInv'
    BY <2>1, <2>2, SavedSteady, InMemorySteady
  <2>4. QED  BY <1>0, <2>1, <2>3, PlanFresh, IdlePlan
<1>8. CASE StopOrContinue
  <2>1. PICK b \in BOOLEAN :
          LET s == [mem EXCEPT !.transport = Playing(@, b)]
          IN  InMemory(s) \/ Saved(s)
    BY <1>8, NoFailure DEF StopOrContinue
  <2> DEFINE s == [mem EXCEPT !.transport = Playing(@, b)]
  <2>2. TransportOK(Playing(mem.transport, b)) /\ mem.transport \in TransportState
    BY <1>0, PlayingOK DEF StateOK, State
  <2>3. /\ StateOK(s) /\ s.operationSets = mem.operationSets
        /\ s.revision = mem.revision /\ s.idCounter = mem.idCounter
        /\ s.transport = Playing(mem.transport, b)
    BY <1>0, <2>2, MovedOK DEF TransportOK, SameButTransport
  <2>4. /\ s.transport.epoch = mem.transport.epoch
        /\ s.transport.absoluteStep = mem.transport.absoluteStep
    BY <2>2, <2>3 DEF Playing, TransportState
  <2>5. (InMemory(s) \/ Saved(s)) /\ UNCHANGED session
    BY <1>8, <2>1, NoFailure DEF StopOrContinue
  <2> HIDE DEF s
  <2>6. Steady(s) /\ NamesBelow(s)
    BY <1>0, <2>3, <2>4, SteadySame, NamesSame
  <2>7. Plan(s, {}, session)
    BY <1>0, <1>1, <2>3, <2>4, PlanMoved
  <2>8. mem' = s /\ Quiet /\ NamesInv'
    BY <2>3, <2>5, <2>6, SavedSteady, InMemorySteady
  <2>9. QED  BY <1>0, <2>5, <2>7, <2>8, IdlePlan
<1>9. CASE RequestPattern
  <2>1. PICK q \in Patterns, b \in BOOLEAN :
          InMemory([mem EXCEPT !.transport = ChangePattern(@, q, b)])
    BY <1>9 DEF RequestPattern
  <2> DEFINE s == [mem EXCEPT !.transport = ChangePattern(@, q, b)]
  <2>2. TransportOK(ChangePattern(mem.transport, q, b)) /\ mem.transport \in TransportState
    BY <1>0, ChangePatternOK DEF StateOK, State
  <2>3. /\ StateOK(s) /\ s.operationSets = mem.operationSets
        /\ s.revision = mem.revision /\ s.idCounter = mem.idCounter
        /\ s.transport = ChangePattern(mem.transport, q, b)
    BY <1>0, <2>2, MovedOK DEF TransportOK, SameButTransport
  <2>4. /\ s.transport.epoch = mem.transport.epoch
        /\ s.transport.absoluteStep \in {0, mem.transport.absoluteStep}
    BY <2>2, <2>3 DEF ChangePattern, TransportState
  <2>5. InMemory(s) /\ UNCHANGED session
    BY <1>9, <2>1 DEF RequestPattern
  <2> HIDE DEF s
  <2>6. Steady(s) /\ NamesBelow(s)
    BY <1>0, <2>3, <2>4, SteadySame, NamesSame
  <2>7. s.transport.absoluteStep <= mem.transport.absoluteStep
    BY <1>2, <2>4
  <2>8. Plan(s, {}, session)
    BY <1>0, <1>1, <2>3, <2>4, <2>7, PlanMoved
  <2>9. mem' = s /\ Quiet /\ NamesInv'
    BY <2>3, <2>5, <2>6, InMemorySteady
  <2>10. QED  BY <1>0, <2>5, <2>8, <2>9, IdlePlan
<1>10. CASE SetActiveScene
  <2> DEFINE s == [mem EXCEPT !.lastObserved = [content |-> Content(device), kits |-> FALSE]]
  <2>1. [content |-> Content(device), kits |-> FALSE] \in Observation
    BY ShownOK DEF TypeInv
  <2>2. /\ StateOK(s) /\ s.operationSets = mem.operationSets
        /\ s.revision = mem.revision /\ s.idCounter = mem.idCounter
        /\ s.transport = mem.transport
    BY <1>0, <2>1 DEF StateOK, State
  <2>3. InMemory(s) /\ UNCHANGED session
    BY <1>10 DEF SetActiveScene
  <2> HIDE DEF s
  <2>4. Steady(s) /\ NamesBelow(s)
    BY <1>0, <2>2, SteadySame, NamesSame
  <2>5. Plan(s, {}, session)
    BY <1>0, <1>1, <2>2, PlanMoved
  <2>6. mem' = s /\ Quiet /\ NamesInv'
    BY <2>2, <2>3, <2>4, InMemorySteady
  <2>7. QED  BY <1>0, <2>3, <2>5, <2>6, IdlePlan
<1>11. QED
  BY <1>3, <1>4, <1>5, <1>6, <1>7, <1>8, <1>9, <1>10

LEMMA TroubleStepFine ==
  ASSUME TypeInv, ~FailingSaves,
         BindInv, NothingDropped, NamesInv, PlanInv, Restart \/ PanelEdit
  PROVE  /\ NamesInv' /\ PlanInv'
         /\ Quiet \/ (mem' = disk /\ disk' = disk)
<1>0. /\ StateOK(mem) /\ NamesBelow(mem) /\ mem.revision \in {mem.revision}
      /\ StateOK(disk)
  BY DEF TypeInv, NamesInv
<1>1. CASE PanelEdit
  <2>1. UNCHANGED <<mem, disk, saved, job, session>>
    BY <1>1 DEF PanelEdit
  <2>2. Quiet /\ NamesInv'
    BY <2>1, UnchangedSteady
  <2>3. PlanInv'
    BY <2>1 DEF PlanInv, PendingOf, Plan
  <2>4. QED  BY <2>2, <2>3
<1>2. CASE Restart
  <2>1. job' = Idle /\ session' = FALSE /\ (Crash \/ Shutdown)
    BY <1>2 DEF Restart
  <2>2. CASE Crash
    <3>1. mem' = disk /\ disk' = disk
      BY <2>2 DEF Crash
    <3>2. disk.idCounter \in Nat
      BY <1>0, CounterType
    <3>3. NamesInv'
      BY <3>1, <3>2 DEF NamesInv, NamesBelow
    <3>4. Plan(mem', {}, FALSE)
      BY DEF Plan
    <3>5. QED  BY <2>1, <3>1, <3>3, <3>4, IdlePlan
  <2>3. CASE Shutdown
    <3> DEFINE s == Silent(mem)
    <3>1. /\ StateOK(s) /\ s.operationSets = mem.operationSets
          /\ s.revision = mem.revision /\ s.idCounter = mem.idCounter
          /\ s.transport.epoch = mem.transport.epoch
      BY <1>0, SilentOK DEF SameButTransport
    <3>2. Saved(s)
      BY <2>3 DEF Shutdown
    <3> HIDE DEF s
    <3>3. Steady(s) /\ NamesBelow(s)
      BY <1>0, <3>1, SteadySame, NamesSame
    <3>4. Quiet /\ NamesInv'
      BY <3>1, <3>2, <3>3, SavedSteady
    <3>5. Plan(mem', {}, FALSE)
      BY DEF Plan
    <3>6. QED  BY <2>1, <3>4, <3>5, IdlePlan
  <2>4. QED  BY <2>1, <2>2, <2>3
<1>3. QED  BY <1>1, <1>2

(***************************************************************************)
(* What is pending for a new job, and for the rest of one.                 *)
(***************************************************************************)
LEMMA PendingNew ==
  ASSUME NEW kind \in {"apply", "due", "rollback"},
         NEW phase \in {"next", "read", "write", "verify", "restore"},
         NEW id \in Ids \cup {None}, NEW index \in Nat, NEW todo \in SUBSET Nat
  PROVE  LET j == NewJob(kind, phase, id, index, todo)
         IN  /\ j # Idle
             /\ PendingOf(j) = todo \cup {i \in {index} : kind = "due" /\ phase # "next"}
<1> DEFINE j == NewJob(kind, phase, id, index, todo)
<1>1. /\ j \in Job /\ j.kind = kind /\ j.phase = phase
      /\ j.index = index /\ j.todo = todo
  BY NewJobOK
<1> HIDE DEF j
<1>2. j # Idle
  BY <1>1, IdleAssumption
<1>3. QED  BY <1>1, <1>2 DEF PendingOf, j

LEMMA PendingDue ==
  ASSUME NEW D \in SUBSET Nat
  PROVE  PendingOf(NewJob("due", "next", None, 0, D)) = D
<1> DEFINE j == NewJob("due", "next", None, 0, D)
<1>1. j \in Job /\ j.phase = "next" /\ j.todo = D
  BY NewJobOK
<1> HIDE DEF j
<1>2. j # Idle
  BY <1>1, IdleAssumption
<1>3. PendingOf(j) = D
  BY <1>1, <1>2 DEF PendingOf
<1>4. QED  BY <1>3 DEF j

LEMMA PendingRest ==
  ASSUME NEW j \in Job
  PROVE  /\ PendingOf(Rest(j)) = j.todo
         /\ Rest(j) # Idle => Rest(j).phase = "next"
<1>1. CASE j.todo = {}
  BY <1>1, RestOK DEF PendingOf
<1>2. CASE j.todo # {}
  <2>1. /\ Rest(j) \in Job /\ Rest(j).phase = "next" /\ Rest(j).todo = j.todo
    BY <1>2, RestOK
  <2>2. Rest(j) # Idle
    BY <2>1, IdleAssumption
  <2>3. QED  BY <2>1, <2>2 DEF PendingOf
<1>3. QED  BY <1>1, <1>2

LEMMA RestPlan ==
  ASSUME NEW j \in Job, job' = Rest(j), Plan(mem', j.todo, session')
  PROVE  PlanInv'
<1>1. PendingOf(job') = j.todo /\ (job' # Idle => job'.phase = "next")
  BY PendingRest
<1>2. Plan(mem', PendingOf(job'), session')
  BY <1>1
<1>3. PendingOf(job)' = PendingOf(job')
  BY DEF PendingOf
<1>4. Plan(mem, PendingOf(job), session)'
  BY <1>2, <1>3 DEF Plan, DueNow, Ahead
<1>5. QED  BY <1>1, <1>4 DEF PlanInv

LEMMA PollFine ==
  ASSUME TypeInv, ~FailingSaves, NamesInv, PlanInv, Poll
  PROVE  NamesInv' /\ PlanInv' /\ Quiet
<1>1. PICK t \in {mem.transport, Tick(mem.transport)} :
        /\ job = Idle /\ session
        /\ mem' = Polled(t) /\ UNCHANGED <<disk, saved>>
        /\ job' = IF DueIndexes(Polled(t)) = {} THEN Idle
                  ELSE NewJob("due", "next", None, 0, DueIndexes(Polled(t)))
        /\ UNCHANGED session
  BY PollParts
<1> DEFINE s == Polled(t)
           D == DueIndexes(s)
<1>2. /\ StateOK(s) /\ s.transport = t
      /\ s.operationSets = mem.operationSets /\ s.revision = mem.revision
      /\ s.idCounter = mem.idCounter
      /\ t.epoch = mem.transport.epoch
      /\ t.absoluteStep \in
           {mem.transport.absoluteStep, mem.transport.absoluteStep + 1}
      /\ D \in SUBSET Nat
  BY PolledOK DEF SameButTransport
<1>3. D = {i \in DOMAIN s.operationSets :
             /\ s.operationSets[i].status = "queued"
             /\ IsDue(s.operationSets[i].target, s.transport)}
  BY DEF DueIndexes
<1>4. Plan(mem, {}, TRUE)
  BY <1>1, IdleNow
<1>5. InMemory(s) /\ NamesBelow(mem)
  BY <1>1 DEF InMemory, NamesInv
<1> HIDE DEF s, D
<1>6. Steady(s) /\ NamesBelow(s)
  BY <1>2, <1>5, SteadySame, NamesSame
<1>7. mem' = s /\ Quiet /\ NamesInv'
  BY <1>2, <1>5, <1>6, InMemorySteady
<1>8. /\ mem.transport.absoluteStep \in Nat /\ s.transport.absoluteStep \in Nat
      /\ \A i \in DOMAIN s.operationSets :
           s.operationSets[i].target.absoluteStep \in Nat
  <2>1. mem.transport.absoluteStep \in Nat /\ s.transport.absoluteStep \in Nat
    BY <1>2 DEF TypeInv, StateOK, State, TransportState
  <2>2. s.operationSets \in Seq(OperationSet)
    BY <1>2 DEF StateOK, State
  <2>3. \A i \in DOMAIN s.operationSets : s.operationSets[i] \in OperationSet
    BY <2>2
  <2>4. QED  BY <2>1, <2>3 DEF OperationSet
<1>9. ASSUME NEW i \in DOMAIN s.operationSets, s.operationSets[i].status = "queued"
      PROVE  /\ i \in D => DueNow(s.operationSets[i], s.transport)
             /\ i \notin D => Ahead(s.operationSets[i], s.transport)
  <2>1. Ahead(mem.operationSets[i], mem.transport)
    BY <1>2, <1>4, <1>9 DEF Plan
  <2>2. QED
    BY <1>2, <1>3, <1>8, <1>9, <2>1 DEF Ahead, IsDue, DueNow
<1>10. Plan(s, D, TRUE)
  BY <1>3, <1>9 DEF Plan
<1>11. PendingOf(job') = D /\ (job' # Idle => job'.phase = "next")
  <2>1. CASE D = {}
    BY <1>1, <2>1 DEF PendingOf, s, D
  <2>2. CASE D # {}
    <3>1. job' = NewJob("due", "next", None, 0, D)
      BY <1>1, <2>2 DEF s, D
    <3> DEFINE j == NewJob("due", "next", None, 0, D)
    <3>2. PendingOf(j) = D
      BY <1>2, PendingDue
    <3>3. j.phase = "next"
      BY <1>2, NewJobOK
    <3>4. QED  BY <3>1, <3>2, <3>3
  <2>3. QED  BY <2>1, <2>2
<1>12. Plan(mem, PendingOf(job), session)'
  <2>1. PendingOf(job)' = PendingOf(job')
    BY DEF PendingOf
  <2>2. Plan(mem', PendingOf(job'), session')
    BY <1>1, <1>7, <1>10, <1>11
  <2>3. QED  BY <2>1, <2>2 DEF Plan, DueNow, Ahead
<1>13. QED  BY <1>7, <1>11, <1>12 DEF PlanInv

LEMMA StartFine ==
  ASSUME TypeInv, ~FailingSaves, NamesInv, PlanInv, ApplyNow \/ RollbackSnapshot
  PROVE  NamesInv' /\ PlanInv' /\ Quiet
<1>1. PICK kind \in {"apply", "rollback"}, id \in Ids \cup {None} :
        /\ job = Idle /\ UNCHANGED <<mem, disk, saved, session>>
        /\ job' = NewJob(kind, "read", id, 0, {})
  BY ApplyNowParts DEF RollbackSnapshot
<1>2. Quiet /\ NamesInv'
  BY <1>1, UnchangedSteady
<1>3. PendingOf(job') = {} /\ job'.kind # "due"
  <2> DEFINE j == NewJob(kind, "read", id, 0, {})
  <2>1. PendingOf(j) = {} \cup {i \in {0} : kind = "due" /\ "read" # "next"}
    BY PendingNew
  <2>2. j.kind = kind
    BY NewJobOK
  <2> HIDE DEF j
  <2>3. PendingOf(j) = {}
    BY <2>1
  <2>4. QED  BY <1>1, <2>2, <2>3 DEF j
<1>4. Plan(mem', PendingOf(job'), session')
  BY <1>1, <1>3, IdleNow
<1>5. PendingOf(job)' = PendingOf(job')
  BY DEF PendingOf
<1>6. QED
  BY <1>2, <1>3, <1>4, <1>5 DEF PlanInv, Plan, DueNow, Ahead

LEMMA PendingNow ==
  ASSUME JobInv, job # Idle
  PROVE  /\ job.phase = "next" => PendingOf(job) = job.todo
         /\ job.kind # "due" => PendingOf(job) = {} /\ job.todo = {}
         /\ job.kind = "due" /\ job.phase # "next" =>
              PendingOf(job) = job.todo \cup {job.index}
  BY DEF PendingOf, JobInv

(***************************************************************************)
(* Rejecting the current record of a due job, in memory or in the silent   *)
(* state that follows a broken connection.                                 *)
(***************************************************************************)
LEMMA RejectFine ==
  ASSUME TypeInv, ~FailingSaves, BindInv, NothingDropped, NamesInv, PlanInv,
         NEW s, StateOK(s), s.operationSets = mem.operationSets,
         s.revision = mem.revision, s.idCounter = mem.idCounter,
         s.transport.epoch = mem.transport.epoch,
         s.transport.absoluteStep = mem.transport.absoluteStep,
         NEW i \in PendingOf(job), NEW ack \in Acks, Saved(RejectedAt(s, i, ack))
  PROVE  /\ NamesInv' /\ Quiet
         /\ Plan(mem', PendingOf(job) \ {i}, session)
<1> DEFINE t == RejectedAt(s, i, ack)
           P == PendingOf(job)
<1>1. Plan(mem, P, session) /\ StateOK(mem) /\ session \in BOOLEAN /\ NamesBelow(mem)
  BY DEF PlanInv, TypeInv, NamesInv
<1> HIDE DEF P
<1>2. Plan(s, P, session)
  BY <1>1, PlanMoved
<1>3. i \in P
  BY DEF P
<1>4. /\ i \in DOMAIN s.operationSets /\ i \in DOMAIN mem.operationSets
      /\ DueNow(mem.operationSets[i], s.transport)
  BY <1>2, <1>3, PlanRecords
<1>5. /\ StateOK(t) /\ SameButSets(s, t)
      /\ DOMAIN t.operationSets = DOMAIN s.operationSets
      /\ t.operationSets[i].target = s.operationSets[i].target
      /\ t.operationSets[i].status = "rejected"
      /\ \A k \in DOMAIN s.operationSets \ {i} :
           t.operationSets[k] = s.operationSets[k]
  BY <1>4, RejectedAtOK
<1>6. Steady(t)
  BY <1>4, SteadyRejected
<1>7. Saved(t)
  OBVIOUS
<1> HIDE DEF t
<1>8. t.transport = s.transport /\ t.idCounter = s.idCounter
  BY <1>5 DEF SameButSets
<1>9. NamesBelow(t)
  <2>1. NamesBelow(s)
    BY <1>1, NamesSame
  <2>2. QED  BY <1>5, <1>8, <2>1, NamesMarked
<1>10. Plan(t, P \ {i}, session)
  BY <1>2, <1>5, <1>8, PlanMarked
<1>11. mem' = t /\ Quiet /\ NamesInv'
  BY <1>5, <1>6, <1>7, <1>9, SavedSteady
<1>12. QED  BY <1>10, <1>11 DEF P

LEMMA NextDueFine ==
  ASSUME TypeInv, ~FailingSaves,
         JobInv, BindInv, NothingDropped, NamesInv, PlanInv, NextDue
  PROVE  NamesInv' /\ PlanInv' /\ Quiet
<1> DEFINE i == First(job.todo)
           rest == [job EXCEPT !.todo = Remaining(job)]
<1>1. /\ job # Idle /\ job \in Job /\ job.phase = "next" /\ job.kind = "due"
      /\ i \in DOMAIN mem.operationSets /\ i \in job.todo
      /\ rest \in Job /\ rest.todo = job.todo \ {i}
      /\ \/ /\ Saved(RejectedAt(mem, i, "not_applied"))
            /\ job' = Rest(rest)
         \/ /\ ~IsStale(mem.operationSets[i])
            /\ job' = NewJob("due", "read", mem.operationSets[i].id,
                             i, job.todo \ {i})
            /\ UNCHANGED <<mem, disk, saved>>
      /\ UNCHANGED session
  BY NextDueSaves DEF NextDue
<1> HIDE DEF i, rest
<1>2. PendingOf(job) = job.todo
  BY <1>1, PendingNow
<1>3. Plan(mem, job.todo, session)
  BY <1>2 DEF PlanInv
<1>4. CASE /\ Saved(RejectedAt(mem, i, "not_applied"))
           /\ job' = Rest(rest)
  <2>1. NamesInv' /\ Quiet /\ Plan(mem', PendingOf(job) \ {i}, session)
    BY <1>1, <1>2, <1>4, RejectFine DEF TypeInv, Acks
  <2>2. Plan(mem', rest.todo, session')
    BY <1>1, <1>2, <2>1
  <2>3. QED  BY <1>1, <1>4, <2>1, <2>2, RestPlan
<1>5. CASE /\ ~IsStale(mem.operationSets[i])
           /\ job' = NewJob("due", "read", mem.operationSets[i].id, i, job.todo \ {i})
           /\ UNCHANGED <<mem, disk, saved>>
  <2> DEFINE id == mem.operationSets[i].id
             todo == job.todo \ {i}
             j == NewJob("due", "read", id, i, todo)
  <2>1. id \in Ids /\ i \in Nat /\ todo \in SUBSET Nat
    <3>1. mem.operationSets \in Seq(OperationSet)
      BY DEF TypeInv, StateOK, State
    <3>2. mem.operationSets[i] \in OperationSet /\ i \in Nat
      BY <1>1, <3>1
    <3>3. job.todo \in SUBSET Nat
      BY <1>1 DEF Job
    <3>4. QED  BY <3>2, <3>3 DEF OperationSet
  <2> HIDE DEF id
  <2>2. /\ PendingOf(j) = todo \cup {k \in {i} : "due" = "due" /\ "read" # "next"}
        /\ j.index = i /\ j.todo = todo
    BY <2>1, PendingNew, NewJobOK
  <2> HIDE DEF j
  <2>3. PendingOf(j) = job.todo
    BY <1>1, <2>2
  <2>4. job' = j
    BY <1>5 DEF j, id
  <2>5. Quiet /\ NamesInv'
    BY <1>5, UnchangedSteady
  <2>6. PendingOf(job)' = PendingOf(job')
    BY DEF PendingOf
  <2>7. Plan(mem, PendingOf(job), session)'
    BY <1>1, <1>3, <1>5, <2>3, <2>4, <2>6 DEF Plan, DueNow, Ahead
  <2>8. job'.index \notin job'.todo
        /\ mem'.operationSets[job'.index].input.expected = mem'.revision
    BY <1>5, <2>2, <2>4 DEF IsStale
  <2>9. QED  BY <2>5, <2>7, <2>8 DEF PlanInv
<1>6. QED  BY <1>1, <1>4, <1>5

LEMMA FailFine ==
  ASSUME TypeInv, ~FailingSaves, JobInv, BindInv, NothingDropped, NamesInv, PlanInv,
         job # Idle, job.phase # "next",
         NEW lost \in BOOLEAN, NEW ack \in Acks, Fail(job, lost, ack)
  PROVE  NamesInv' /\ PlanInv' /\ Quiet
<1> DEFINE s == IF lost THEN Silent(mem) ELSE mem
<1>0. StateOK(mem) /\ session \in BOOLEAN /\ job \in Job /\ UniqueIds(mem) /\ NamesBelow(mem)
  BY DEF TypeInv, BindInv, NamesInv
<1>1. /\ StateOK(s) /\ s.operationSets = mem.operationSets
      /\ s.revision = mem.revision /\ s.idCounter = mem.idCounter
      /\ s.transport.epoch = mem.transport.epoch
      /\ s.transport.absoluteStep = mem.transport.absoluteStep
  BY <1>0, SilentOK DEF SameButTransport
<1>2. Failing(lost) = s
  <2>1. UniqueIds(s) /\ s \in State
    BY <1>0, <1>1 DEF UniqueIds, StateOK
  <2>2. Pruned(s) = s
    BY <2>1, PrunedSame DEF NothingDropped
  <2>3. QED  BY <2>2 DEF Failing
<1>3. /\ session' = (session /\ ~lost)
      /\ job' = Rest(job)
      /\ \/ job.kind = "due" /\ Saved(RejectedAt(s, job.index, ack))
         \/ /\ job.kind # "due"
            /\ IF lost THEN Saved(s) ELSE UNCHANGED <<mem, disk, saved>>
  BY <1>2, FailSaves
<1>4. Plan(mem, PendingOf(job), session)
  BY DEF PlanInv
<1> HIDE DEF s
<1>5. CASE job.kind = "due" /\ Saved(RejectedAt(s, job.index, ack))
  <2>1. PendingOf(job) = job.todo \cup {job.index} /\ job.index \notin job.todo
    BY <1>5, PendingNow DEF PlanInv
  <2>2. NamesInv' /\ Quiet /\ Plan(mem', PendingOf(job) \ {job.index}, session)
    BY <1>1, <1>5, <2>1, RejectFine
  <2>3. PendingOf(job) \ {job.index} = job.todo
    BY <2>1
  <2>4. Plan(mem', job.todo, session')
    BY <1>3, <2>2, <2>3 DEF Plan
  <2>5. QED  BY <1>0, <1>3, <2>2, <2>4, RestPlan
<1>6. CASE /\ job.kind # "due"
           /\ IF lost THEN Saved(s) ELSE UNCHANGED <<mem, disk, saved>>
  <2>1. job.todo = {} /\ Plan(mem, {}, session)
    BY <1>4, <1>6, PendingNow
  <2>2. mem.revision \in {mem.revision, mem.revision + 1}
    OBVIOUS
  <2>3. Steady(s) /\ NamesBelow(s)
    BY <1>0, <1>1, <2>2, SteadySame, NamesSame
  <2>4. /\ NamesInv' /\ Quiet
        /\ mem' = s \/ mem' = mem
    BY <1>1, <1>6, <2>3, SavedSteady, UnchangedSteady
  <2>5. Plan(s, {}, session)
    BY <1>0, <1>1, <2>1, PlanMoved
  <2>6. Plan(mem', job.todo, session')
    BY <1>3, <2>1, <2>4, <2>5 DEF Plan
  <2>7. QED  BY <1>0, <1>3, <2>4, <2>6, RestPlan
<1>7. QED  BY <1>3, <1>5, <1>6

LEMMA UnverifiedFine ==
  ASSUME TypeInv, ~FailingSaves, JobInv, BindInv, NothingDropped, NamesInv, PlanInv,
         job # Idle, job.phase \in {"write", "verify"},
         NEW lost \in BOOLEAN, Unverified(lost)
  PROVE  NamesInv' /\ PlanInv' /\ Quiet
<1>1. CASE Fail(job, lost, "none")
  BY <1>1, FailFine DEF Acks
<1>2. CASE job' = Restoring(lost) /\ UNCHANGED <<session, mem, disk, saved>>
  <2>1. /\ job \in Job
        /\ job' \in Job /\ job'.phase = "restore" /\ job'.kind = job.kind
        /\ job'.index = job.index /\ job'.todo = job.todo
    BY <1>2, RestoringOK DEF TypeInv
  <2>2. job' # Idle
    BY <2>1, IdleAssumption
  <2>3. PendingOf(job)' = PendingOf(job)
    BY <2>1, <2>2 DEF PendingOf
  <2>4. PlanInv'
    BY <1>2, <2>1, <2>3 DEF PlanInv, Plan, DueNow, Ahead
  <2>5. QED  BY <1>2, <2>4, UnchangedSteady
<1>3. QED  BY <1>1, <1>2, UnverifiedParts

-----------------------------------------------------------------------------
(* Steps that bring an outcome or a record. *)

(***************************************************************************)
(* The step saves a state made from s, which is memory but for a session   *)
(* that had to be opened.                                                  *)
(***************************************************************************)
From(s) ==
  /\ StateOK(s) /\ Steady(s)
  /\ SessionInv => s.revision = mem.revision
  /\ mem'.transport = s.transport
  /\ mem'.revision \in {s.revision, s.revision + 1}
  /\ disk' = mem'

(***************************************************************************)
(* A new set is queued, or was applied at once.                            *)
(***************************************************************************)
Adds ==
  \E s, n, r :
    /\ From(s)
    /\ n \notin DOMAIN mem.operationSets
    /\ DOMAIN mem'.operationSets = DOMAIN mem.operationSets \cup {n}
    /\ \A k \in DOMAIN mem.operationSets : mem'.operationSets[k] = s.operationSets[k]
    /\ mem'.operationSets[n] = r
    /\ r \in OperationSet /\ r.id \notin IdsOf(mem)
    /\ \/ r.status = "applied"
       \/ /\ r.status = "queued" /\ r.input.expected = mem.revision
          /\ s = mem /\ mem'.revision = mem.revision

(***************************************************************************)
(* The current record of a due job is applied: at the step it was resolved *)
(* to, and against the revision it was prepared for.                       *)
(***************************************************************************)
Marks ==
  \E i \in DOMAIN mem.operationSets :
    LET r == mem.operationSets[i]
        q == mem'.operationSets[i]
    IN  /\ DOMAIN mem'.operationSets = DOMAIN mem.operationSets
        /\ \A k \in DOMAIN mem.operationSets \ {i} :
             mem'.operationSets[k] = mem.operationSets[k]
        /\ DueNow(r, mem'.transport) /\ r.input.expected = mem.revision
        /\ q.id = r.id /\ q.input = r.input /\ q.status = "applied"
        /\ mem'.revision \in {mem.revision, mem.revision + 1}
        /\ disk' = mem'

(***************************************************************************)
(* A snapshot was restored.                                                *)
(***************************************************************************)
Rolls == \E s : From(s) /\ mem'.operationSets = s.operationSets

LEMMA CapturedFine ==
  ASSUME TypeInv, JobInv, BindInv, NothingDropped, NamesInv, PlanInv,
         job # Idle, session \/ job.kind # "due"
  PROVE  LET s == CapturedState
         IN  /\ StateOK(s) /\ Steady(s) /\ NamesBelow(s) /\ UniqueIds(s)
             /\ Plan(s, PendingOf(job), TRUE)
             /\ session => s = mem
             /\ DOMAIN s.operationSets = DOMAIN mem.operationSets
             /\ IdsOf(s) = IdsOf(mem)
<1> DEFINE s == CapturedState
           v == Reconnected(mem, device)
<1>0. StateOK(mem) /\ UniqueIds(mem) /\ NamesBelow(mem) /\ Plan(mem, PendingOf(job), session)
  BY DEF TypeInv, BindInv, NamesInv, PlanInv
<1>1. CASE session
  <2>1. s = mem
    BY <1>1 DEF CapturedState
  <2>2. mem.revision \in {mem.revision, mem.revision + 1}
    OBVIOUS
  <2>3. Steady(mem)
    BY <2>2, SteadySame
  <2>4. Plan(mem, PendingOf(job), TRUE)
    BY <1>0, <1>1 DEF Plan
  <2> HIDE DEF s
  <2>5. QED  BY <1>0, <2>1, <2>3, <2>4 DEF s
<1>2. CASE ~session
  <2>1. StateOK(v) /\ Steady(v) /\ NamesBelow(v) /\ AllAhead(v)
    BY SteadyNewEpoch
  <2>2. s = Pruned(v)
    BY <1>2 DEF CapturedState
  <2> HIDE DEF v
  <2>3. UniqueIds(v) /\ v \in State
    BY <1>0, <2>1, KeepsSetsIds DEF Steady, StateOK
  <2>4. s = v
    BY <2>2, <2>3, PrunedSame DEF NothingDropped
  <2>5. PendingOf(job) = {}
    BY <1>2, PendingNow
  <2>6. Plan(v, PendingOf(job), TRUE)
    BY <2>1, <2>5, PlanFresh
  <2>7. /\ DOMAIN v.operationSets = DOMAIN mem.operationSets
        /\ IdsOf(v) = IdsOf(mem)
    BY <1>0, <2>1, KeepsSetsIds DEF Steady, KeepsSets
  <2> HIDE DEF s
  <2>8. QED  BY <1>2, <2>1, <2>3, <2>4, <2>6, <2>7 DEF s
<1>3. QED  BY <1>1, <1>2

LEMMA ContinuingFine ==
  ASSUME TypeInv, ~FailingSaves,
         JobInv, BindInv, NothingDropped, NamesInv, PlanInv, ~SlowPersists,
         Continuing, job.phase # "next", session' \in BOOLEAN
  PROVE  NamesInv' /\ PlanInv' /\ Quiet
<1>1. /\ job # Idle /\ job' # Idle
      /\ job'.kind = job.kind /\ job'.index = job.index /\ job'.todo = job.todo
      /\ job'.phase # "next" /\ (session => session') /\ session \in BOOLEAN
  BY DEF Continuing, TypeInv
<1>2. PendingOf(job)' = PendingOf(job)
  BY <1>1 DEF PendingOf
<1>3. CASE UNCHANGED <<mem, disk, saved, session>>
  <2>1. PlanInv'
    BY <1>1, <1>2, <1>3 DEF PlanInv, Plan, DueNow, Ahead
  <2>2. QED  BY <1>3, <2>1, UnchangedSteady
<1>4. CASE ~session /\ job.kind # "due" /\ Saved(CapturedState)
  <2> DEFINE s == CapturedState
  <2>1. /\ StateOK(s) /\ Steady(s) /\ NamesBelow(s)
        /\ Plan(s, PendingOf(job), TRUE)
    BY <1>1, <1>4, CapturedFine
  <2>2. Saved(s)
    BY <1>4
  <2> HIDE DEF s
  <2>3. mem' = s /\ Quiet /\ NamesInv'
    BY <2>1, <2>2, SavedSteady
  <2>4. Plan(mem, PendingOf(job), session)'
    BY <1>2, <2>1, <2>3 DEF Plan, DueNow, Ahead
  <2>5. QED  BY <1>1, <1>4, <2>3, <2>4 DEF PlanInv
<1>5. QED  BY <1>1, <1>3, <1>4 DEF Continuing

LEMMA SettlingFine ==
  ASSUME TypeInv, ~FailingSaves,
         JobInv, BindInv, NothingDropped, NamesInv, PlanInv, ~SlowPersists,
         session' \in BOOLEAN, Settling
  PROVE  NamesInv' /\ PlanInv' /\ (Adds \/ Marks \/ Rolls)
<1>1. PICK j \in Job, o \in Observation :
        LET t == SettledState(CapturedState, j, o)
        IN  /\ job # Idle /\ job.phase \in {"read", "verify"}
            /\ j.kind = job.kind /\ j.id = job.id
            /\ j.index = job.index /\ j.todo = job.todo
            /\ session \/ job.kind # "due" \/ SlowPersists
            /\ j.kind = "due" => j.index \in DOMAIN CapturedState.operationSets
            /\ j.kind = "apply" => j.id \in Ids /\ client[j.id].input \in Input
            /\ StateOK(t) /\ Saved(t)
            /\ t.revision = IF Changes(j) THEN CapturedState.revision + 1
                            ELSE CapturedState.revision
            /\ job' = Rest(j)
  BY SettlingParts
<1> DEFINE s == CapturedState
           a == Acknowledged(s, o, Changes(j))
           r0 == ImmediateRecord(a, j.id, client[j.id].input, Changes(j))
           t == SettledState(s, j, o)
           P == PendingOf(job)
<1>2. /\ StateOK(s) /\ Steady(s) /\ NamesBelow(s) /\ UniqueIds(s)
      /\ Plan(s, P, TRUE)
      /\ session => s = mem
      /\ DOMAIN s.operationSets = DOMAIN mem.operationSets
      /\ IdsOf(s) = IdsOf(mem)
  BY <1>1, CapturedFine
<1>3. /\ StateOK(a) /\ StateOK(t) /\ SameButSets(a, t)
      /\ a.operationSets = s.operationSets /\ a.transport = s.transport
      /\ a.idCounter = s.idCounter
      /\ j.kind = "apply" => r0 \in OperationSet /\ t = WithRecord(a, r0)
      /\ j.kind = "due" => t = AppliedAt(a, j.index, Changes(j))
      /\ j.kind = "rollback" => t = a
  BY <1>1, <1>2, SettledOK
<1>4. /\ r0.id = j.id /\ r0.status = "applied" /\ r0.target.epoch = a.transport.epoch
  BY DEF ImmediateRecord
<1>5. j.kind \in {"apply", "due", "rollback"} /\ Changes(j) \in BOOLEAN
  BY DEF Job, Changes
<1>6. UniqueIds(s) /\ (j.kind = "apply" => j.id \notin IdsOf(s)) => UniqueIds(t)
  BY <1>1, <1>2, SettledRecords
<1>7. j.kind = "apply" => j.id \notin IdsOf(s)
  BY <1>1, <1>2 DEF BindInv
<1>8. Pruned(t) = t
  BY <1>2, <1>3, <1>6, <1>7, PrunedSame DEF NothingDropped, StateOK
<1>9. mem' = t /\ disk' = t
  BY <1>1, <1>8 DEF Saved
<1>10. NamesBelow(a) /\ Plan(a, P, TRUE)
  BY <1>2, <1>3, NamesSame DEF Plan
<1>11. /\ t.revision \in {s.revision, s.revision + 1}
       /\ t.transport = s.transport /\ t.idCounter = s.idCounter
  BY <1>1, <1>3 DEF SameButSets
<1>12. SessionInv => job.kind = "due" \/ session
  BY <1>1 DEF SessionInv
<1> HIDE DEF s, a, r0, t, P
<1>13. From(s)
  <2>1. SessionInv => s.revision = mem.revision
    BY <1>1, <1>2, <1>12
  <2>2. QED  BY <1>2, <1>9, <1>11, <2>1 DEF From
<1>14. t.idCounter \in Nat
  BY <1>3, CounterType
<1>15. CASE j.kind = "apply"
  <2> DEFINE n == Len(a.operationSets) + 1
  <2>1. NamesBelow(t) /\ Plan(t, P, TRUE)
    BY <1>3, <1>4, <1>10, <1>15, NamesAppended, PlanAppended
  <2>2. /\ DOMAIN a.operationSets = 1 .. (n - 1)
        /\ DOMAIN t.operationSets = 1 .. n
        /\ Len(a.operationSets) \in Nat
        /\ t.operationSets[n] = r0
        /\ \A k \in DOMAIN a.operationSets : t.operationSets[k] = a.operationSets[k]
    BY <1>3, <1>15, WithRecordOK
  <2> HIDE DEF n
  <2>3. /\ n \notin DOMAIN mem.operationSets
        /\ DOMAIN t.operationSets = DOMAIN mem.operationSets \cup {n}
        /\ \A k \in DOMAIN mem.operationSets : t.operationSets[k] = s.operationSets[k]
    BY <1>2, <1>3, <2>2 DEF n
  <2>4. r0 \in OperationSet /\ r0.id \notin IdsOf(mem)
    BY <1>2, <1>3, <1>4, <1>7, <1>15
  <2>5. Adds
    BY <1>4, <1>9, <1>13, <2>2, <2>3, <2>4 DEF Adds
  <2>6. P = {} /\ j.todo = {}
    BY <1>1, <1>15, PendingNow DEF P
  <2>7. Plan(mem', j.todo, session')
    BY <1>9, <2>1, <2>6 DEF Plan
  <2>8. NamesInv'
    BY <1>9, <1>14, <2>1 DEF NamesInv, NamesBelow
  <2>9. QED  BY <1>1, <2>5, <2>7, <2>8, RestPlan
<1>16. CASE j.kind = "due"
  <2> DEFINE i == job.index
  <2>1. /\ s = mem /\ P = job.todo \cup {i} /\ i \notin job.todo
        /\ mem.operationSets[i].input.expected = mem.revision
    BY <1>1, <1>2, <1>16, PendingNow DEF P, PlanInv
  <2>2. i \in P
    BY <2>1
  <2>3. i \in DOMAIN a.operationSets /\ DueNow(a.operationSets[i], a.transport)
    BY <1>10, <2>2, PlanRecords
  <2>4. /\ DOMAIN t.operationSets = DOMAIN a.operationSets
        /\ t.operationSets[i].id = a.operationSets[i].id
        /\ t.operationSets[i].input = a.operationSets[i].input
        /\ t.operationSets[i].target = a.operationSets[i].target
        /\ t.operationSets[i].status = "applied"
        /\ \A k \in DOMAIN a.operationSets \ {i} :
             t.operationSets[k] = a.operationSets[k]
    BY <1>1, <1>3, <1>5, <1>16, <2>3, AppliedAtOK
  <2>5. NamesBelow(t)
    BY <1>3, <1>10, <1>11, <2>4, NamesMarked
  <2>6. Plan(t, P \ {i}, TRUE)
    <3>1. t.transport = a.transport /\ t.operationSets[i].status # "queued"
      BY <1>3, <1>11, <2>4
    <3>2. QED  BY <1>10, <2>4, <3>1, PlanMarked
  <2>7. P \ {i} = j.todo
    BY <1>1, <2>1
  <2>8. Plan(mem', j.todo, session')
    BY <1>9, <2>6, <2>7 DEF Plan
  <2>9. NamesInv'
    BY <1>9, <1>14, <2>5 DEF NamesInv, NamesBelow
  <2>10. Marks
    BY <1>3, <1>9, <1>11, <2>1, <2>3, <2>4 DEF Marks
  <2>11. QED  BY <1>1, <2>8, <2>9, <2>10, RestPlan
<1>17. CASE j.kind = "rollback"
  <2>1. t = a
    BY <1>3, <1>17
  <2>2. Rolls
    BY <1>3, <1>9, <1>13, <2>1 DEF Rolls
  <2>3. P = {} /\ j.todo = {}
    BY <1>1, <1>17, PendingNow DEF P
  <2>4. Plan(mem', j.todo, session')
    BY <1>9, <1>10, <2>1, <2>3 DEF Plan
  <2>5. NamesInv'
    BY <1>9, <1>10, <1>14, <2>1 DEF NamesInv, NamesBelow
  <2>6. QED  BY <1>1, <2>2, <2>4, <2>5, RestPlan
<1>18. QED  BY <1>5, <1>15, <1>16, <1>17

LEMMA QueueFine ==
  ASSUME TypeInv, ~FailingSaves, BindInv, NothingDropped, NamesInv, PlanInv, Queue
  PROVE  NamesInv' /\ PlanInv' /\ Adds
<1>1. PICK id \in Ids, edit \in Edits, kind \in QueueKinds, policy \in Policies :
        LET input == QueueInput(edit, kind, policy)
        IN  /\ MaySend(id, input)
            /\ Saved(WithRecord(mem, QueuedRecord(mem, id, input)))
            /\ job = Idle /\ UNCHANGED <<job, session>>
  BY QueueSaves
<1> DEFINE input == QueueInput(edit, kind, policy)
           r0 == QueuedRecord(mem, id, input)
           t == WithRecord(mem, r0)
           n == Len(mem.operationSets) + 1
<1>2. /\ StateOK(mem) /\ UniqueIds(mem) /\ NamesBelow(mem)
      /\ input \in Input /\ Resolvable(mem.transport, input.at)
      /\ input.expected = mem.revision
  BY InputsOK DEF TypeInv, BindInv, NamesInv, QueueInput
<1>3. r0 \in OperationSet /\ Ahead(r0, mem.transport)
  BY <1>2, NewRecordsOK
<1>4. r0.id = id /\ r0.input = input /\ r0.status = "queued"
  BY DEF QueuedRecord
<1>5. id \notin IdsOf(mem) /\ Saved(t)
  BY <1>1 DEF MaySend
<1> HIDE DEF input, r0
<1>6. /\ StateOK(t) /\ UniqueIds(t) /\ SameButSets(mem, t)
      /\ DOMAIN mem.operationSets = 1 .. (n - 1)
      /\ DOMAIN t.operationSets = 1 .. n
      /\ Len(mem.operationSets) \in Nat
      /\ t.operationSets[n] = r0
      /\ \A k \in DOMAIN mem.operationSets : t.operationSets[k] = mem.operationSets[k]
  BY <1>2, <1>3, <1>4, <1>5, WithRecordOK
<1>7. NamesBelow(t)
  BY <1>2, <1>3, NamesAppended DEF Ahead
<1>8. Plan(t, {}, session)
  BY <1>1, <1>2, <1>3, IdleNow, PlanAppended
<1>9. t.transport = mem.transport /\ t.revision = mem.revision
  BY <1>6 DEF SameButSets
<1> HIDE DEF t
<1>10. mem' = t /\ disk' = t
  BY <1>5, <1>6, PrunedSame DEF NothingDropped, StateOK, Saved
<1>11. t.idCounter \in Nat
  BY <1>6, CounterType
<1>12. NamesInv'
  BY <1>7, <1>10, <1>11 DEF NamesInv, NamesBelow
<1>13. PlanInv'
  BY <1>1, <1>8, <1>10, IdlePlan
<1>14. mem.revision \in {mem.revision, mem.revision + 1}
  OBVIOUS
<1>15. From(mem)
  BY <1>9, <1>10, <1>14, SteadySame DEF From, TypeInv
<1>16. /\ n \notin DOMAIN mem.operationSets
       /\ DOMAIN t.operationSets = DOMAIN mem.operationSets \cup {n}
  BY <1>6
<1> HIDE DEF n
<1>17. Adds
  BY <1>2, <1>3, <1>4, <1>5, <1>6, <1>9, <1>10, <1>15, <1>16 DEF Adds
<1>18. QED  BY <1>12, <1>13, <1>17

-----------------------------------------------------------------------------
(* Every step. *)

LEMMA WriteStepFine ==
  ASSUME TypeInv, ~FailingSaves,
         JobInv, BindInv, NothingDropped, NamesInv, PlanInv, ~SlowPersists,
         session' \in BOOLEAN,
         Capture \/ CaptureFails \/ Write \/ WriteFails \/ Verify \/ VerifyFails
           \/ Restore \/ RestoreFails
  PROVE  NamesInv' /\ PlanInv' /\ (Quiet \/ Adds \/ Marks \/ Rolls)
<1>0. job # Idle /\ job \in Job /\ job.phase # "next"
  BY DEF TypeInv, Capture, CaptureFails, Write, WriteFails, Verify, VerifyFails,
    Restore, RestoreFails
<1>1. CASE Capture
  BY <1>0, <1>1, CaptureCases, ContinuingFine, SettlingFine
<1>2. CASE CaptureFails
  <2>1. PICK lost \in BOOLEAN : Fail(job, lost, "not_applied")
    BY <1>2 DEF CaptureFails, TypeInv
  <2>2. QED  BY <1>0, <2>1, FailFine DEF Acks
<1>3. CASE Write
  <2>1. /\ job' \in Job /\ job'.kind = job.kind /\ job'.phase = "verify"
        /\ job'.index = job.index /\ job'.todo = job.todo
        /\ UNCHANGED <<session, mem, disk, saved>>
    BY <1>0, <1>3 DEF Write, Job
  <2>2. job' # Idle
    BY <2>1, IdleAssumption
  <2>3. PendingOf(job)' = PendingOf(job)
    BY <1>0, <2>1, <2>2 DEF PendingOf
  <2>4. PlanInv'
    BY <1>0, <2>1, <2>3 DEF PlanInv, Plan, DueNow, Ahead
  <2>5. QED  BY <2>1, <2>4, UnchangedSteady
<1>4. CASE WriteFails
  BY <1>0, <1>4, UnverifiedFine DEF WriteFails
<1>5. CASE Verify
  <2>1. CASE Settle(mem, job, [content |-> Content(device), kits |-> WritesKits])
    <3>1. [content |-> Content(device), kits |-> WritesKits] \in Observation
      BY ShownOK DEF Observation, WritesKits, TypeInv
    <3>2. session /\ CapturedState = mem /\ job.phase = "verify"
      BY <1>5 DEF Verify, JobInv, CapturedState
    <3>3. Settling
      BY <1>0, <2>1, <3>1, <3>2 DEF Settling
    <3>4. QED  BY <3>3, SettlingFine
  <2>2. CASE Unverified(FALSE)
    BY <1>5, <2>2, UnverifiedFine DEF Verify
  <2>3. QED  BY <1>5, <2>1, <2>2 DEF Verify
<1>6. CASE VerifyFails
  BY <1>6, UnverifiedFine DEF VerifyFails
<1>7. CASE Restore
  <2>1. job.lost \in BOOLEAN
    BY <1>0 DEF Job
  <2>2. PICK ack \in Acks : Fail(job, job.lost, ack)
    BY <1>7 DEF Restore, Acks
  <2>3. QED  BY <1>0, <2>1, <2>2, FailFine
<1>8. CASE RestoreFails
  <2>1. Fail(job, TRUE, "rollback_failed")
    BY <1>8 DEF RestoreFails
  <2>2. QED  BY <1>0, <2>1, FailFine DEF Acks
<1>9. QED
  BY <1>1, <1>2, <1>3, <1>4, <1>5, <1>6, <1>7, <1>8

(***************************************************************************)
(* A step settles nothing, or brings one outcome or one record, or is a    *)
(* crash.                                                                  *)
(***************************************************************************)
Crashed == mem' = disk /\ disk' = disk

LEMMA NextFine ==
  ASSUME TypeInv, ~FailingSaves,
         JobInv, BindInv, NothingDropped, NamesInv, PlanInv, ~SlowPersists,
         TypeInv', [Next]_vars
  PROVE  /\ NamesInv' /\ PlanInv'
         /\ Quiet \/ Crashed \/ Adds \/ Marks \/ Rolls
<1>0. session' \in BOOLEAN
  BY DEF TypeInv
<1>1. CASE UNCHANGED vars
  <2>1. UNCHANGED <<mem, disk, saved, job, session>>
    BY <1>1 DEF vars
  <2>2. PlanInv'
    BY <2>1 DEF PlanInv, PendingOf, Plan
  <2>3. QED  BY <2>1, <2>2, UnchangedSteady
<1>2. CASE Next
  BY <1>0, <1>2, IdleStepFine, TroubleStepFine, PollFine, StartFine, NextDueFine,
     QueueFine, WriteStepFine, NoneUnsaved
  DEF Next, Client, DaemonStep, Trouble, Crashed
<1>3. QED  BY <1>1, <1>2

(***************************************************************************)
(* The inductive invariant of this module.                                 *)
(***************************************************************************)
ScheduleInv ==
  /\ TypeInv /\ JobInv /\ ObservedInv /\ SyncInv /\ BindInv
  /\ NamesInv /\ PlanInv

LEMMA InitInv == Init => ScheduleInv
  BY InitTypes, InitObserved, InitSync, InitBind, InitSchedule DEF ScheduleInv

LEMMA NextInv ==
  ASSUME ScheduleInv, ~FailingSaves, NothingDropped, ~SlowPersists, [Next]_vars
  PROVE  ScheduleInv'
  BY NextTypes, NextObserved, NextSync, NextBind, NextFine DEF ScheduleInv

LEMMA ListsCurrent == ListsStayCurrent <=> NothingDropped /\ ~SlowPersists
  BY DEF ListsStayCurrent, NothingDropped

LEMMA AlwaysScheduled == ~FailingSaves /\ ListsStayCurrent => (Spec => []ScheduleInv)
<1> SUFFICES ASSUME ~FailingSaves, ListsStayCurrent  PROVE  Spec => []ScheduleInv
  OBVIOUS
<1>1. ScheduleInv /\ [Next]_vars => ScheduleInv'
  BY NextInv, ListsCurrent
<1>2. QED  BY <1>1, InitInv, PTL DEF Spec

(***************************************************************************)
(* While the daemon is connected and idle, every queued record waits for a *)
(* step still to come of the current epoch: no reconnection, restart,      *)
(* pattern change, rejected or failed neighbour in a due list leaves one   *)
(* behind.                                                                 *)
(***************************************************************************)
THEOREM QueuedWorkWaits ==
  ~FailingSaves /\ ListsStayCurrent => (Spec => []QueuedWorkIsAhead)
<1> SUFFICES ASSUME ~FailingSaves, ListsStayCurrent  PROVE  Spec => []QueuedWorkIsAhead
  OBVIOUS
<1>1. ScheduleInv => QueuedWorkIsAhead
  <2> SUFFICES ASSUME ScheduleInv, session, job = Idle, NEW r \in Queued(mem)
               PROVE  Ahead(r, mem.transport)
    BY DEF QueuedWorkIsAhead, Ahead
  <2>1. Plan(mem, {}, session)
    BY IdleNow DEF ScheduleInv
  <2>2. PICK i \in DOMAIN mem.operationSets :
          r = mem.operationSets[i] /\ r.status = "queued"
    BY DEF Queued, Records
  <2>3. QED  BY <2>1, <2>2 DEF Plan
<1>2. QED  BY <1>1, AlwaysScheduled, PTL

-----------------------------------------------------------------------------
(***************************************************************************)
(* What holds whatever retention drops and whenever sessions are opened.   *)
(*                                                                         *)
(* s spares the records of memory but those with an id in I: what is       *)
(* settled stays as it is or is dropped, and what is queued for a boundary *)
(* still to come of the current epoch stays.                               *)
(***************************************************************************)
Spares(I, s) ==
  \A r \in Records(mem) : r.id \notin I =>
    /\ IsTerminal(r) => r \in Records(s) \/ r.id \notin IdsOf(s)
    /\ /\ r.status = "queued"
       /\ r.target.epoch = s.transport.epoch
       /\ ~IsDue(r.target, s.transport)
       => r \in Records(s)

Sparing(I, s) == StateOK(s) /\ UniqueIds(s) /\ NamesBelow(s) /\ Spares(I, s)

(***************************************************************************)
(* Only a due list marks a record, and one at a time.                      *)
(***************************************************************************)
Gentle ==
  \E I :
    /\ Spares(I, mem')
    /\ disk' = disk \/ disk' = mem'
    /\ I = {} \/ (job # Idle /\ job.kind = "due" /\ \E id : I = {id})

LEMMA SameRecord ==
  ASSUME NEW s, UniqueIds(s), NEW r \in Records(s), NEW q \in Records(s), r.id = q.id
  PROVE  r = q
  BY DEF UniqueIds, Records

LEMMA SparingSteady ==
  ASSUME TypeInv, BindInv, NEW s, StateOK(s), Steady(s), NamesBelow(s)
  PROVE  Sparing({}, s) /\ IdsOf(s) = IdsOf(mem)
<1>1. UniqueIds(s) /\ IdsOf(s) = IdsOf(mem)
  BY KeepsSetsIds DEF TypeInv, BindInv, Steady
<1>2. Spares({}, s)
  <2> SUFFICES ASSUME NEW r \in Records(mem)
               PROVE  /\ IsTerminal(r) => r \in Records(s)
                      /\ /\ r.status = "queued"
                         /\ r.target.epoch = s.transport.epoch
                         /\ ~IsDue(r.target, s.transport)
                         => r \in Records(s)
    BY DEF Spares
  <2>1. PICK i \in DOMAIN mem.operationSets : r = mem.operationSets[i]
    BY DEF Records
  <2>2. i \in DOMAIN s.operationSets
    BY DEF Steady, KeepsSets
  <2>3. IsTerminal(r) => s.operationSets[i] = r
    BY <2>1 DEF Steady, KeepsSets, SameSet
  <2>4. /\ r.status = "queued"
        /\ r.target.epoch = s.transport.epoch
        /\ ~IsDue(r.target, s.transport)
        => s.operationSets[i] = r
    BY <2>1 DEF Steady
  <2>5. s.operationSets[i] \in Records(s)
    BY <2>2 DEF Records
  <2>6. QED  BY <2>3, <2>4, <2>5
<1>3. QED  BY <1>1, <1>2 DEF Sparing

LEMMA SparingSame ==
  ASSUME TypeInv, BindInv, NamesInv, NEW s, StateOK(s),
         s.operationSets = mem.operationSets,
         s.revision \in {mem.revision, mem.revision + 1}, s.idCounter = mem.idCounter,
         s.transport.epoch = mem.transport.epoch
  PROVE  Sparing({}, s) /\ IdsOf(s) = IdsOf(mem) /\ Steady(s) /\ NamesBelow(s)
<1>1. Steady(s) /\ NamesBelow(s)
  BY SteadySame, NamesSame DEF NamesInv
<1>2. QED  BY <1>1, SparingSteady

LEMMA SparingPruned ==
  ASSUME NEW I, NEW s, Sparing(I, s)
  PROVE  Sparing(I, Pruned(s)) /\ IdsOf(Pruned(s)) \subseteq IdsOf(s)
<1> DEFINE t == Pruned(s)
<1>1. s \in State
  BY DEF Sparing, StateOK
<1>2. /\ t.idCounter = s.idCounter /\ t.transport = s.transport
      /\ Records(t) \subseteq Records(s) /\ IdsOf(t) \subseteq IdsOf(s)
      /\ Queued(s) \subseteq Records(t) /\ UniqueIds(t)
  BY <1>1, PrunedOK DEF Sparing
<1>3. StateOK(t)
  BY PrunedStateOK DEF Sparing
<1> HIDE DEF t
<1>4. \A i \in DOMAIN t.operationSets : t.operationSets[i] \in Records(s)
  BY <1>2 DEF Records
<1>5. NamesBelow(t)
  BY <1>2, <1>4 DEF Sparing, NamesBelow, Records
<1>6. ASSUME NEW r \in Records(mem), r.id \notin I, IsTerminal(r)
      PROVE  r \in Records(t) \/ r.id \notin IdsOf(t)
  <2>1. CASE r.id \notin IdsOf(s)
    BY <1>2, <2>1
  <2>2. CASE r \in Records(s) /\ r.id \in IdsOf(t)
    <3>1. PICK q \in Records(t) : q.id = r.id
      BY <2>2 DEF IdsOf, Records
    <3>2. q = r
      BY <1>2, <2>2, <3>1, SameRecord DEF Sparing
    <3>3. QED  BY <3>1, <3>2
  <2>3. QED  BY <1>6, <2>1, <2>2 DEF Sparing, Spares
<1>7. ASSUME NEW r \in Records(mem), r.id \notin I, r.status = "queued",
             r.target.epoch = t.transport.epoch, ~IsDue(r.target, t.transport)
      PROVE  r \in Records(t)
  <2>1. r \in Records(s)
    BY <1>2, <1>7 DEF Sparing, Spares
  <2>2. QED  BY <1>2, <1>7, <2>1 DEF Queued
<1>8. Spares(I, t)
  BY <1>6, <1>7 DEF Spares
<1>9. QED  BY <1>2, <1>3, <1>5, <1>8 DEF Sparing, t

(***************************************************************************)
(* Marking the record at an index spares every set but that one.           *)
(***************************************************************************)
LEMMA SparingMarked ==
  ASSUME NEW s, Sparing({}, s), NEW i \in DOMAIN s.operationSets,
         NEW t, StateOK(t), t.transport = s.transport, t.idCounter = s.idCounter,
         DOMAIN t.operationSets = DOMAIN s.operationSets,
         t.operationSets[i].id = s.operationSets[i].id,
         t.operationSets[i].target = s.operationSets[i].target,
         \A k \in DOMAIN s.operationSets \ {i} : t.operationSets[k] = s.operationSets[k]
  PROVE  Sparing({s.operationSets[i].id}, t)
<1>1. \A k \in DOMAIN s.operationSets : t.operationSets[k].id = s.operationSets[k].id
  OBVIOUS
<1>2. UniqueIds(t)
  BY <1>1 DEF Sparing, UniqueIds
<1>3. NamesBelow(t)
  BY NamesMarked DEF Sparing
<1>4. IdsOf(t) = IdsOf(s)
  BY <1>1 DEF IdsOf
<1>5. ASSUME NEW r \in Records(s), r.id # s.operationSets[i].id
      PROVE  r \in Records(t)
  BY <1>5 DEF Records
<1>6. Spares({s.operationSets[i].id}, t)
  BY <1>4, <1>5 DEF Sparing, Spares
<1>7. QED  BY <1>2, <1>3, <1>6 DEF Sparing

LEMMA SparingRejected ==
  ASSUME NEW s, Sparing({}, s), NEW i \in DOMAIN s.operationSets, NEW ack \in Acks
  PROVE  Sparing({s.operationSets[i].id}, RejectedAt(s, i, ack))
<1> DEFINE t == RejectedAt(s, i, ack)
<1>1. StateOK(s)
  BY DEF Sparing
<1>2. /\ StateOK(t) /\ SameButSets(s, t)
      /\ DOMAIN t.operationSets = DOMAIN s.operationSets
      /\ t.operationSets[i].id = s.operationSets[i].id
      /\ t.operationSets[i].target = s.operationSets[i].target
      /\ \A k \in DOMAIN s.operationSets \ {i} : t.operationSets[k] = s.operationSets[k]
  BY <1>1, RejectedAtOK
<1>3. t.transport = s.transport /\ t.idCounter = s.idCounter
  BY <1>2 DEF SameButSets
<1> HIDE DEF t
<1>4. Sparing({s.operationSets[i].id}, t)
  BY <1>2, <1>3, SparingMarked
<1>5. QED  BY <1>4 DEF t

LEMMA SparingAdded ==
  ASSUME NEW s, Sparing({}, s), IdsOf(s) \subseteq IdsOf(mem),
         NEW r0 \in OperationSet, r0.target.epoch = s.transport.epoch,
         r0.id \notin IdsOf(mem)
  PROVE  Sparing({}, WithRecord(s, r0))
<1> DEFINE t == WithRecord(s, r0)
<1>1. StateOK(s) /\ UniqueIds(s) /\ NamesBelow(s) /\ r0.id \notin IdsOf(s)
  BY DEF Sparing
<1>2. /\ StateOK(t) /\ UniqueIds(t) /\ t.transport = s.transport
      /\ NamesBelow(t)
      /\ IdsOf(t) = IdsOf(s) \cup {r0.id} /\ Records(t) = Records(s) \cup {r0}
  BY <1>1, WithRecordOK, WithRecordIds, NamesAppended DEF SameButSets
<1> HIDE DEF t
<1>3. \A r \in Records(mem) : r.id \in IdsOf(mem)
  BY DEF Records, IdsOf
<1>4. Spares({}, t)
  BY <1>2, <1>3 DEF Sparing, Spares
<1>5. QED  BY <1>2, <1>4 DEF Sparing, t

(***************************************************************************)
(* Saving such a state, or keeping a steady one in memory.                 *)
(***************************************************************************)
LEMMA SavedGentle ==
  ASSUME NEW I, NEW s, Sparing(I, s), Saved(s),
         I = {} \/ (job # Idle /\ job.kind = "due" /\ \E id : I = {id})
  PROVE  NamesInv' /\ Gentle
<1>1. mem' = Pruned(s) /\ disk' = mem'
  BY DEF Saved
<1>2. Sparing(I, mem')
  BY <1>1, SparingPruned
<1>3. mem'.idCounter \in Nat
  BY <1>2, CounterType DEF Sparing
<1>4. NamesInv'
  BY <1>1, <1>2, <1>3 DEF NamesInv, NamesBelow, Sparing
<1>5. QED  BY <1>1, <1>2, <1>4 DEF Gentle, Sparing

LEMMA QuietGentle ==
  ASSUME TypeInv, BindInv, NamesInv', StateOK(mem'), Quiet
  PROVE  Gentle
<1>1. NamesBelow(mem')
  BY DEF NamesInv, NamesBelow
<1>2. Spares({}, mem')
  BY <1>1, SparingSteady DEF Quiet, Sparing
<1>3. QED  BY <1>2 DEF Quiet, Gentle

LEMMA UnchangedGentle ==
  ASSUME TypeInv, BindInv, NamesInv, UNCHANGED <<mem, disk, saved>>
  PROVE  NamesInv' /\ Gentle
<1>1. Quiet /\ NamesInv' /\ StateOK(mem')
  BY UnchangedSteady DEF TypeInv
<1>2. QED  BY <1>1, QuietGentle

LEMMA InMemoryGentle ==
  ASSUME TypeInv, BindInv, NamesInv,
         NEW s, StateOK(s), Steady(s), NamesBelow(s), InMemory(s),
         \/ s.operationSets = mem.operationSets /\ s.idCounter = mem.idCounter
         \/ /\ AllAhead(s) /\ s.transport.epoch = mem.idCounter
            /\ s.idCounter = mem.idCounter + 1
  PROVE  NamesInv' /\ Gentle
<1>1. mem' = s /\ Quiet /\ NamesInv'
  BY InMemorySteady
<1>2. QED  BY <1>1, QuietGentle

LEMMA IdleStepGentle ==
  ASSUME TypeInv, ~FailingSaves, BindInv, NamesInv,
         Reconnect \/ LoseSession \/ Inspect \/ CreateSnapshot \/ StartTransport
           \/ StopOrContinue \/ RequestPattern \/ SetActiveScene \/ Poll
  PROVE  NamesInv' /\ Gentle
<1>0. StateOK(mem) /\ mem.revision \in {mem.revision, mem.revision + 1}
  BY DEF TypeInv
<1>1. CASE Reconnect
  <2>1. LET s == Reconnected(mem, device)
        IN  StateOK(s) /\ Steady(s) /\ NamesBelow(s) /\ Saved(s)
    BY <1>1, SteadyNewEpoch, NoFailure DEF Reconnect
  <2>2. QED  BY <2>1, SparingSteady, SavedGentle
<1>2. CASE LoseSession
  <2>1. LET s == Silent(mem)
        IN  /\ StateOK(s) /\ s.operationSets = mem.operationSets
            /\ s.revision = mem.revision /\ s.idCounter = mem.idCounter
            /\ s.transport.epoch = mem.transport.epoch
            /\ Saved(s)
    BY <1>0, <1>2, SilentOK, NoFailure DEF SameButTransport, LoseSession
  <2>2. QED  BY <1>0, <2>1, SparingSame, SavedGentle
<1>3. CASE Inspect
  <2>1. LET s == Observed(mem, device)
        IN  /\ StateOK(s) /\ s.operationSets = mem.operationSets
            /\ s.revision \in {mem.revision, mem.revision + 1}
            /\ s.idCounter = mem.idCounter
            /\ s.transport.epoch = mem.transport.epoch
            /\ Saved(s)
    BY <1>0, <1>3, ObservedOK, NoFailure DEF TypeInv, Inspect
  <2>2. QED  BY <2>1, SparingSame, SavedGentle
<1>4. CASE CreateSnapshot
  <2> DEFINE s == [mem EXCEPT !.snapshot = [o \in SnapshotObjects |-> device[o]]]
  <2>1. /\ StateOK(s) /\ s.operationSets = mem.operationSets
        /\ s.revision = mem.revision /\ s.idCounter = mem.idCounter
        /\ s.transport = mem.transport
    BY DEF TypeInv, StateOK, State, Device, SnapshotObjects, Objects
  <2>2. Saved(s)
    BY <1>4, NoFailure DEF CreateSnapshot
  <2> HIDE DEF s
  <2>3. QED  BY <1>0, <2>1, <2>2, SparingSame, SavedGentle
<1>5. CASE StartTransport
  <2> DEFINE s == Started(mem)
  <2>1. /\ StateOK(s) /\ Steady(s) /\ NamesBelow(s) /\ AllAhead(s)
        /\ s.transport.epoch = mem.idCounter /\ s.idCounter = mem.idCounter + 1
    BY SteadyNewEpoch
  <2>2. InMemory(s) \/ Saved(s)
    BY <1>5, NoFailure DEF StartTransport
  <2> HIDE DEF s
  <2>3. Sparing({}, s)
    BY <2>1, SparingSteady
  <2>4. QED  BY <2>1, <2>2, <2>3, SavedGentle, InMemoryGentle
<1>6. CASE StopOrContinue
  <2>1. PICK b \in BOOLEAN :
          LET s == [mem EXCEPT !.transport = Playing(@, b)]
          IN  InMemory(s) \/ Saved(s)
    BY <1>6, NoFailure DEF StopOrContinue
  <2> DEFINE s == [mem EXCEPT !.transport = Playing(@, b)]
  <2>2. TransportOK(Playing(mem.transport, b)) /\ mem.transport \in TransportState
    BY <1>0, PlayingOK DEF StateOK, State
  <2>3. /\ StateOK(s) /\ s.operationSets = mem.operationSets
        /\ s.revision = mem.revision /\ s.idCounter = mem.idCounter
        /\ s.transport = Playing(mem.transport, b)
    BY <1>0, <2>2, MovedOK DEF TransportOK, SameButTransport
  <2>4. s.transport.epoch = mem.transport.epoch
    BY <2>2, <2>3 DEF Playing, TransportState
  <2>5. InMemory(s) \/ Saved(s)
    BY <2>1
  <2> HIDE DEF s
  <2>6. Sparing({}, s) /\ Steady(s) /\ NamesBelow(s)
    BY <1>0, <2>3, <2>4, SparingSame
  <2>7. QED  BY <2>3, <2>5, <2>6, SavedGentle, InMemoryGentle
<1>7. CASE RequestPattern
  <2>1. PICK q \in Patterns, b \in BOOLEAN :
          InMemory([mem EXCEPT !.transport = ChangePattern(@, q, b)])
    BY <1>7 DEF RequestPattern
  <2> DEFINE s == [mem EXCEPT !.transport = ChangePattern(@, q, b)]
  <2>2. TransportOK(ChangePattern(mem.transport, q, b)) /\ mem.transport \in TransportState
    BY <1>0, ChangePatternOK DEF StateOK, State
  <2>3. /\ StateOK(s) /\ s.operationSets = mem.operationSets
        /\ s.revision = mem.revision /\ s.idCounter = mem.idCounter
        /\ s.transport = ChangePattern(mem.transport, q, b)
    BY <1>0, <2>2, MovedOK DEF TransportOK, SameButTransport
  <2>4. s.transport.epoch = mem.transport.epoch
    BY <2>2, <2>3 DEF ChangePattern, TransportState
  <2>5. InMemory(s)
    BY <2>1
  <2> HIDE DEF s
  <2>6. Steady(s) /\ NamesBelow(s)
    BY <1>0, <2>3, <2>4, SparingSame
  <2>7. QED  BY <2>3, <2>5, <2>6, InMemoryGentle
<1>8. CASE SetActiveScene
  <2> DEFINE s == [mem EXCEPT !.lastObserved = [content |-> Content(device), kits |-> FALSE]]
  <2>1. [content |-> Content(device), kits |-> FALSE] \in Observation
    BY ShownOK DEF TypeInv
  <2>2. /\ StateOK(s) /\ s.operationSets = mem.operationSets
        /\ s.revision = mem.revision /\ s.idCounter = mem.idCounter
        /\ s.transport = mem.transport
    BY <1>0, <2>1 DEF StateOK, State
  <2>3. InMemory(s)
    BY <1>8 DEF SetActiveScene
  <2> HIDE DEF s
  <2>4. Steady(s) /\ NamesBelow(s)
    BY <1>0, <2>2, SparingSame
  <2>5. QED  BY <2>2, <2>3, <2>4, InMemoryGentle
<1>9. CASE Poll
  <2>1. PICK t \in {mem.transport, Tick(mem.transport)} :
          mem' = Polled(t) /\ UNCHANGED <<disk, saved>>
    BY <1>9, PollParts
  <2> DEFINE s == Polled(t)
  <2>2. /\ StateOK(s) /\ s.operationSets = mem.operationSets
        /\ s.revision = mem.revision /\ s.idCounter = mem.idCounter
        /\ s.transport.epoch = mem.transport.epoch
    BY <2>1, PolledOK DEF SameButTransport
  <2>3. InMemory(s)
    BY <2>1 DEF InMemory
  <2> HIDE DEF s
  <2>4. Steady(s) /\ NamesBelow(s)
    BY <1>0, <2>2, SparingSame
  <2>5. QED  BY <2>2, <2>3, <2>4, InMemoryGentle
<1>10. QED
  BY <1>1, <1>2, <1>3, <1>4, <1>5, <1>6, <1>7, <1>8, <1>9

LEMMA QueueGentle ==
  ASSUME TypeInv, ~FailingSaves, BindInv, NamesInv, Queue
  PROVE  NamesInv' /\ Gentle
<1>1. PICK id \in Ids, edit \in Edits, kind \in QueueKinds, policy \in Policies :
        LET input == QueueInput(edit, kind, policy)
        IN  /\ MaySend(id, input)
            /\ Saved(WithRecord(mem, QueuedRecord(mem, id, input)))
  BY QueueSaves
<1> DEFINE input == QueueInput(edit, kind, policy)
           r0 == QueuedRecord(mem, id, input)
<1>2. /\ StateOK(mem) /\ input \in Input /\ Resolvable(mem.transport, input.at)
      /\ mem.revision \in {mem.revision, mem.revision + 1}
  BY InputsOK DEF TypeInv, QueueInput
<1>3. r0 \in OperationSet /\ Ahead(r0, mem.transport) /\ r0.id = id
  BY <1>2, NewRecordsOK DEF QueuedRecord
<1>4. id \notin IdsOf(mem) /\ Saved(WithRecord(mem, r0))
  BY <1>1 DEF MaySend
<1> HIDE DEF input, r0
<1>5. Sparing({}, mem)
  BY <1>2, SparingSame
<1>6. Sparing({}, WithRecord(mem, r0))
  BY <1>3, <1>4, <1>5, SparingAdded DEF Ahead
<1>7. QED  BY <1>4, <1>6, SavedGentle

LEMMA RestartGentle ==
  ASSUME TypeInv, BindInv, NamesInv, Restart
  PROVE  NamesInv' /\ (Gentle \/ Crashed)
<1>1. CASE Crash
  <2>1. mem' = disk /\ disk' = disk
    BY <1>1 DEF Crash
  <2>2. disk.idCounter \in Nat
    BY CounterType DEF TypeInv
  <2>3. QED  BY <2>1, <2>2 DEF Crashed, NamesInv, NamesBelow
<1>2. CASE Shutdown
  <2>1. LET s == Silent(mem)
        IN  /\ StateOK(s) /\ s.operationSets = mem.operationSets
            /\ s.revision = mem.revision /\ s.idCounter = mem.idCounter
            /\ s.transport.epoch = mem.transport.epoch
            /\ Saved(s)
    BY <1>2, SilentOK DEF SameButTransport, Shutdown, TypeInv
  <2>2. mem.revision \in {mem.revision, mem.revision + 1}
    OBVIOUS
  <2>3. QED  BY <2>1, <2>2, SparingSame, SavedGentle
<1>3. QED  BY <1>1, <1>2 DEF Restart

(***************************************************************************)
(* The steps of a job.                                                     *)
(***************************************************************************)
LEMMA NextDueGentle ==
  ASSUME TypeInv, ~FailingSaves, JobInv, BindInv, NamesInv, NextDue
  PROVE  NamesInv' /\ Gentle
<1> DEFINE i == First(job.todo)
           s == RejectedAt(mem, i, "not_applied")
<1>1. /\ job # Idle /\ job.kind = "due" /\ i \in DOMAIN mem.operationSets
      /\ Saved(s) \/ UNCHANGED <<mem, disk, saved>>
  BY NextDueSaves DEF NextDue
<1>2. StateOK(mem) /\ mem.revision \in {mem.revision, mem.revision + 1}
  BY DEF TypeInv
<1> HIDE DEF i
<1>3. Sparing({mem.operationSets[i].id}, s)
  BY <1>1, <1>2, SparingSame, SparingRejected DEF Acks
<1> HIDE DEF s
<1>4. QED  BY <1>1, <1>3, SavedGentle, UnchangedGentle

LEMMA FailGentle ==
  ASSUME TypeInv, ~FailingSaves, BindInv, NamesInv, job # Idle,
         NEW lost \in BOOLEAN, NEW ack \in Acks, Fail(job, lost, ack)
  PROVE  NamesInv' /\ Gentle
<1> DEFINE f == Failing(lost)
           s == RejectedAt(f, job.index, ack)
<1>1. Sparing({}, f)
  <2>1. mem.revision \in {mem.revision, mem.revision + 1} /\ StateOK(mem)
    BY DEF TypeInv
  <2>2. LET u == Silent(mem)
        IN  /\ StateOK(u) /\ u.operationSets = mem.operationSets
            /\ u.revision = mem.revision /\ u.idCounter = mem.idCounter
            /\ u.transport.epoch = mem.transport.epoch
    BY <2>1, SilentOK DEF SameButTransport
  <2>3. Sparing({}, mem) /\ Sparing({}, Silent(mem))
    BY <2>1, <2>2, SparingSame
  <2>4. QED  BY <2>3, SparingPruned DEF Failing
<1>2. \/ job.kind = "due" /\ job.index \in DOMAIN f.operationSets /\ Saved(s)
      \/ Saved(f)
      \/ UNCHANGED <<mem, disk, saved>>
  BY FailSaves
<1> HIDE DEF f
<1>3. job.index \in DOMAIN f.operationSets =>
        Sparing({f.operationSets[job.index].id}, s)
  BY <1>1, SparingRejected
<1> HIDE DEF s
<1>4. QED  BY <1>1, <1>2, <1>3, SavedGentle, UnchangedGentle

LEMMA CapturedSparing ==
  ASSUME TypeInv, BindInv, NamesInv
  PROVE  Sparing({}, CapturedState) /\ IdsOf(CapturedState) \subseteq IdsOf(mem)
<1>1. mem.revision \in {mem.revision, mem.revision + 1} /\ StateOK(mem)
  BY DEF TypeInv
<1>2. Sparing({}, mem)
  BY <1>1, SparingSame
<1>3. LET u == Reconnected(mem, device)
      IN  Sparing({}, u) /\ IdsOf(u) = IdsOf(mem)
  BY SteadyNewEpoch, SparingSteady
<1>4. QED  BY <1>2, <1>3, SparingPruned DEF CapturedState

LEMMA SettlingGentle ==
  ASSUME TypeInv, ~FailingSaves, JobInv, BindInv, NamesInv, Settling
  PROVE  NamesInv' /\ Gentle
<1>1. PICK j \in Job, o \in Observation :
        LET t == SettledState(CapturedState, j, o)
        IN  /\ job # Idle
            /\ j.kind = job.kind /\ j.id = job.id
            /\ j.kind = "due" => j.index \in DOMAIN CapturedState.operationSets
            /\ j.kind = "apply" => j.id \in Ids /\ client[j.id].input \in Input
            /\ StateOK(t) /\ Saved(t)
  BY SettlingParts
<1> DEFINE s == CapturedState
           a == Acknowledged(s, o, Changes(j))
           r0 == ImmediateRecord(a, j.id, client[j.id].input, Changes(j))
           t == SettledState(s, j, o)
<1>2. Sparing({}, s) /\ IdsOf(s) \subseteq IdsOf(mem) /\ StateOK(s)
  BY CapturedSparing DEF Sparing
<1>3. /\ StateOK(a)
      /\ a.operationSets = s.operationSets /\ a.transport = s.transport
      /\ a.idCounter = s.idCounter
      /\ j.kind = "apply" => r0 \in OperationSet /\ t = WithRecord(a, r0)
      /\ j.kind = "due" => t = AppliedAt(a, j.index, Changes(j))
      /\ j.kind = "rollback" => t = a
  BY <1>1, <1>2, SettledOK
<1>4. r0.id = j.id /\ r0.target.epoch = a.transport.epoch
  BY DEF ImmediateRecord
<1>5. j.kind \in {"apply", "due", "rollback"} /\ Changes(j) \in BOOLEAN
  BY DEF Job, Changes
<1>6. j.kind = "apply" => j.id \notin IdsOf(mem)
  BY <1>1 DEF BindInv
<1>7. Saved(t)
  BY <1>1
<1> HIDE DEF s, a, r0, t
<1>8. Sparing({}, a) /\ IdsOf(a) \subseteq IdsOf(mem)
  <2>1. Records(a) = Records(s)
    BY <1>3 DEF Records
  <2>2. IdsOf(a) = IdsOf(s)
    BY <1>3 DEF IdsOf
  <2>3. UniqueIds(a)
    BY <1>2, <1>3 DEF Sparing, UniqueIds
  <2>4. NamesBelow(a)
    BY <1>2, <1>3, <2>1 DEF Sparing, NamesBelow
  <2>5. Spares({}, a)
    BY <1>2, <1>3, <2>1, <2>2 DEF Sparing, Spares
  <2>6. QED  BY <1>2, <1>3, <2>2, <2>3, <2>4, <2>5 DEF Sparing
<1>9. CASE j.kind = "apply"
  <2>1. Sparing({}, t)
    BY <1>3, <1>4, <1>6, <1>8, <1>9, SparingAdded
  <2>2. QED  BY <1>7, <2>1, SavedGentle
<1>10. CASE j.kind = "due"
  <2> DEFINE i == j.index
  <2>1. i \in DOMAIN a.operationSets
    BY <1>1, <1>3, <1>10 DEF s
  <2>2. /\ StateOK(t) /\ SameButSets(a, t)
        /\ DOMAIN t.operationSets = DOMAIN a.operationSets
        /\ t.operationSets[i].id = a.operationSets[i].id
        /\ t.operationSets[i].target = a.operationSets[i].target
        /\ \A k \in DOMAIN a.operationSets \ {i} :
             t.operationSets[k] = a.operationSets[k]
    BY <1>3, <1>5, <1>10, <2>1, AppliedAtOK
  <2>3. t.transport = a.transport /\ t.idCounter = a.idCounter
    BY <2>2 DEF SameButSets
  <2>4. Sparing({a.operationSets[i].id}, t)
    BY <1>8, <2>1, <2>2, <2>3, SparingMarked
  <2>5. QED  BY <1>1, <1>7, <1>10, <2>4, SavedGentle
<1>11. CASE j.kind = "rollback"
  BY <1>3, <1>7, <1>8, <1>11, SavedGentle
<1>12. QED  BY <1>5, <1>9, <1>10, <1>11

LEMMA CaptureGentle ==
  ASSUME TypeInv, ~FailingSaves, JobInv, BindInv, NamesInv, Capture
  PROVE  NamesInv' /\ Gentle
<1>1. CASE Settling
  BY <1>1, SettlingGentle
<1>2. CASE Uneventful /\ Continuing
  <2>1. UNCHANGED <<mem, disk, saved>> \/ Saved(CapturedState)
    BY <1>2 DEF Continuing
  <2>2. QED  BY <2>1, CapturedSparing, SavedGentle, UnchangedGentle
<1>3. QED  BY <1>1, <1>2, CaptureCases

LEMMA UnverifiedGentle ==
  ASSUME TypeInv, ~FailingSaves, BindInv, NamesInv, job # Idle,
         NEW lost \in BOOLEAN, Unverified(lost)
  PROVE  NamesInv' /\ Gentle
  BY UnverifiedParts, FailGentle, UnchangedGentle DEF Acks

LEMMA WriteStepGentle ==
  ASSUME TypeInv, ~FailingSaves, JobInv, BindInv, NamesInv,
         CaptureFails \/ Write \/ WriteFails \/ Verify \/ VerifyFails
           \/ Restore \/ RestoreFails
  PROVE  NamesInv' /\ Gentle
<1>1. CASE CaptureFails
  BY <1>1, FailGentle DEF CaptureFails, Acks, TypeInv
<1>2. CASE Write
  BY <1>2, UnchangedGentle DEF Write
<1>3. CASE WriteFails
  BY <1>3, UnverifiedGentle DEF WriteFails
<1>4. CASE Verify
  <2>1. CASE Settle(mem, job, [content |-> Content(device), kits |-> WritesKits])
    <3>1. [content |-> Content(device), kits |-> WritesKits] \in Observation
      BY ShownOK DEF Observation, WritesKits, TypeInv
    <3>2. /\ session /\ CapturedState = mem
          /\ job # Idle /\ job \in Job /\ job.phase = "verify"
      BY <1>4 DEF Verify, JobInv, CapturedState, TypeInv
    <3>3. Settling
      BY <2>1, <3>1, <3>2 DEF Settling
    <3>4. QED  BY <3>3, SettlingGentle
  <2>2. CASE Unverified(FALSE)
    BY <1>4, <2>2, UnverifiedGentle DEF Verify
  <2>3. QED  BY <1>4, <2>1, <2>2 DEF Verify
<1>5. CASE VerifyFails
  BY <1>5, UnverifiedGentle DEF VerifyFails
<1>6. CASE Restore
  <2>1. job.lost \in BOOLEAN /\ job # Idle
    BY <1>6 DEF Restore, TypeInv, Job
  <2>2. PICK ack \in Acks : Fail(job, job.lost, ack)
    BY <1>6 DEF Restore, Acks
  <2>3. QED  BY <2>1, <2>2, FailGentle
<1>7. CASE RestoreFails
  BY <1>7, FailGentle DEF RestoreFails, Acks
<1>8. QED
  BY <1>1, <1>2, <1>3, <1>4, <1>5, <1>6, <1>7

(***************************************************************************)
(* Every step.                                                             *)
(***************************************************************************)
LEMMA NextGentle ==
  ASSUME TypeInv, ~FailingSaves, JobInv, BindInv, NamesInv, [Next]_vars
  PROVE  NamesInv' /\ (Gentle \/ Crashed)
<1>1. CASE UNCHANGED vars
  BY <1>1, UnchangedGentle DEF vars
<1>2. CASE PanelEdit
  BY <1>2, UnchangedGentle DEF PanelEdit
<1>3. CASE ApplyNow \/ RollbackSnapshot
  BY <1>3, UnchangedGentle DEF ApplyNow, RollbackSnapshot
<1>4. CASE Next /\ ~PanelEdit /\ ~ApplyNow /\ ~RollbackSnapshot
  BY <1>4, IdleStepGentle, QueueGentle, RestartGentle, NextDueGentle, CaptureGentle,
     WriteStepGentle, NoneUnsaved
  DEF Next, Client, DaemonStep, Trouble
<1>5. QED  BY <1>1, <1>2, <1>3, <1>4

(***************************************************************************)
(* The inductive invariant of this part.                                   *)
(***************************************************************************)
RecordInv ==
  TypeInv /\ JobInv /\ ObservedInv /\ SyncInv /\ BindInv /\ NamesInv

LEMMA AlwaysRecorded == ~FailingSaves => (Spec => []RecordInv)
<1> SUFFICES ASSUME ~FailingSaves  PROVE  Spec => []RecordInv
  OBVIOUS
<1>1. Init => RecordInv
  BY InitTypes, InitObserved, InitSync, InitBind, InitSchedule DEF RecordInv
<1>2. RecordInv /\ [Next]_vars => RecordInv'
  BY NextTypes, NextObserved, NextSync, NextBind, NextGentle DEF RecordInv
<1>3. QED  BY <1>1, <1>2, PTL DEF Spec

-----------------------------------------------------------------------------
(* What a step may never do. *)

LEMMA OneIndex ==
  ASSUME NEW s, UniqueIds(s), NEW i \in DOMAIN s.operationSets,
         NEW k \in DOMAIN s.operationSets,
         s.operationSets[i].id = s.operationSets[k].id
  PROVE  i = k
  BY DEF UniqueIds

(***************************************************************************)
(* Nothing becomes applied by the way.                                     *)
(***************************************************************************)
LEMMA SteadyApplies ==
  ASSUME UniqueIds(mem), NEW s, KeepsSets(mem, s) \/ KeepsSets(s, mem),
         NEW r \in Queued(mem), NEW k \in DOMAIN mem.operationSets,
         s.operationSets[k].status = "applied"
  PROVE  s.operationSets[k].id # r.id
<1>1. PICK i \in DOMAIN mem.operationSets :
        r = mem.operationSets[i] /\ r.status = "queued"
  BY DEF Queued, Records
<1>2. mem.operationSets[k] = s.operationSets[k]
  BY DEF KeepsSets, SameSet, IsTerminal
<1>3. QED  BY <1>1, <1>2, OneIndex

(***************************************************************************)
(* A queued set is applied on exactly the step it was resolved to, of its  *)
(* own epoch, and against the revision it was prepared for: the daemon may *)
(* have been disconnected, restarted, moved by clocks, and have saved and  *)
(* rejected other records in between.                                      *)
(***************************************************************************)
THEOREM AppliesWhenDue == ~FailingSaves /\ ListsStayCurrent => (Spec => AppliedWhenDue)
<1> SUFFICES ASSUME ~FailingSaves, ListsStayCurrent  PROVE  Spec => AppliedWhenDue
  OBVIOUS
<1>1. ScheduleInv /\ [Next]_vars =>
         \A r \in Queued(mem), q \in Records(mem') :
            r.id = q.id /\ q.status = "applied" =>
              /\ r.target.epoch = mem'.transport.epoch
              /\ r.target.absoluteStep = mem'.transport.absoluteStep
              /\ r.input.expected = mem.revision
  <2> SUFFICES ASSUME ScheduleInv, [Next]_vars,
                      NEW r \in Queued(mem), NEW q \in Records(mem'),
                      r.id = q.id, q.status = "applied"
               PROVE  /\ r.target.epoch = mem'.transport.epoch
                      /\ r.target.absoluteStep = mem'.transport.absoluteStep
                      /\ r.input.expected = mem.revision
    OBVIOUS
  <2>1. Quiet \/ Crashed \/ Adds \/ Marks \/ Rolls
    BY NextInv, NextFine, ListsCurrent DEF ScheduleInv
  <2>2. UniqueIds(mem) /\ KeepsSets(disk, mem)
    BY NoneUnsaved DEF ScheduleInv, BindInv, SyncInv
  <2>3. PICK k \in DOMAIN mem'.operationSets : q = mem'.operationSets[k]
    BY DEF Records
  <2>4. CASE Quiet
    <3>1. KeepsSets(mem, mem') /\ k \in DOMAIN mem.operationSets
      BY <2>3, <2>4 DEF Quiet, Steady, KeepsSets
    <3>2. QED  BY <2>2, <2>3, <3>1, SteadyApplies
  <2>5. CASE Crashed
    <3>1. mem' = disk /\ k \in DOMAIN mem.operationSets
      BY <2>2, <2>3, <2>5 DEF Crashed, KeepsSets
    <3>2. QED  BY <2>2, <2>3, <3>1, SteadyApplies
  <2>6. CASE Adds
    <3>1. PICK s, n, w :
            /\ KeepsSets(mem, s)
            /\ DOMAIN mem'.operationSets = DOMAIN mem.operationSets \cup {n}
            /\ \A l \in DOMAIN mem.operationSets :
                 mem'.operationSets[l] = s.operationSets[l]
            /\ mem'.operationSets[n] = w
            /\ w.id \notin IdsOf(mem)
      BY <2>6 DEF Adds, From, Steady
    <3>2. r.id \in IdsOf(mem)
      BY DEF Queued, Records, IdsOf
    <3>3. k \in DOMAIN mem.operationSets
      BY <2>3, <3>1, <3>2
    <3>4. QED  BY <2>2, <2>3, <3>1, <3>3, SteadyApplies
  <2>7. CASE Rolls
    <3>1. PICK s : KeepsSets(mem, s) /\ mem'.operationSets = s.operationSets
      BY <2>7 DEF Rolls, From, Steady
    <3>2. k \in DOMAIN mem.operationSets
      BY <2>3, <3>1 DEF KeepsSets
    <3>3. QED  BY <2>2, <2>3, <3>1, <3>2, SteadyApplies
  <2>8. CASE Marks
    <3>1. PICK i \in DOMAIN mem.operationSets :
            /\ DOMAIN mem'.operationSets = DOMAIN mem.operationSets
            /\ \A l \in DOMAIN mem.operationSets \ {i} :
                 mem'.operationSets[l] = mem.operationSets[l]
            /\ DueNow(mem.operationSets[i], mem'.transport)
            /\ mem.operationSets[i].input.expected = mem.revision
            /\ mem'.operationSets[i].id = mem.operationSets[i].id
      BY <2>8 DEF Marks
    <3>2. PICK l \in DOMAIN mem.operationSets :
            r = mem.operationSets[l] /\ r.status = "queued"
      BY DEF Queued, Records
    <3>3. l = k
      BY <2>2, <2>3, <3>1, <3>2, OneIndex
    <3>4. k = i
      BY <2>3, <3>1, <3>2, <3>3
    <3>5. QED  BY <3>1, <3>2, <3>3, <3>4 DEF DueNow
  <2>9. QED  BY <2>1, <2>4, <2>5, <2>6, <2>7, <2>8
<1>2. QED  BY <1>1, AlwaysScheduled, PTL DEF Spec, AppliedWhenDue

(***************************************************************************)
(* But for a crash, every record that is settled in memory stays as it is. *)
(***************************************************************************)
LEMMA SettledStays ==
  ASSUME Quiet \/ Adds \/ Marks \/ Rolls,
         NEW i \in DOMAIN mem.operationSets, IsTerminal(mem.operationSets[i])
  PROVE  /\ i \in DOMAIN mem'.operationSets
         /\ mem'.operationSets[i] = mem.operationSets[i]
<1>1. CASE Quiet
  BY <1>1 DEF Quiet, Steady, KeepsSets, SameSet
<1>2. CASE Adds
  BY <1>2 DEF Adds, From, Steady, KeepsSets, SameSet
<1>3. CASE Marks
  BY <1>3 DEF Marks, DueNow, IsTerminal
<1>4. CASE Rolls
  BY <1>4 DEF Rolls, From, Steady, KeepsSets, SameSet
<1>5. QED  BY <1>1, <1>2, <1>3, <1>4

(***************************************************************************)
(* A step that is no crash spares the records but one, and that one only   *)
(* while a due list is worked through whose indexes may have shifted.      *)
(***************************************************************************)
LEMMA FineSpares ==
  ASSUME TypeInv', Quiet \/ Adds \/ Marks \/ Rolls
  PROVE  Spares({}, mem') /\ (disk' = disk \/ disk' = mem')
<1>1. disk' = disk \/ disk' = mem'
  BY DEF Quiet, Adds, Marks, Rolls, From
<1>2. ASSUME NEW r \in Records(mem), IsTerminal(r)
      PROVE  r \in Records(mem')
  <2>1. PICK i \in DOMAIN mem.operationSets : r = mem.operationSets[i]
    BY DEF Records
  <2>2. QED  BY <1>2, <2>1, SettledStays DEF Records
<1>3. ASSUME NEW r \in Records(mem), r.status = "queued",
             r.target.epoch = mem'.transport.epoch, ~IsDue(r.target, mem'.transport)
      PROVE  r \in Records(mem')
  <2>1. PICK i \in DOMAIN mem.operationSets :
          r = mem.operationSets[i] /\ r.status = "queued"
    BY <1>3 DEF Records
  <2>2. CASE Quiet
    BY <1>3, <2>1, <2>2 DEF Quiet, Steady, KeepsSets, Records
  <2>3. CASE Adds
    BY <1>3, <2>1, <2>3 DEF Adds, From, Steady, Records
  <2>4. CASE Rolls
    BY <1>3, <2>1, <2>4 DEF Rolls, From, Steady, KeepsSets, Records
  <2>5. CASE Marks
    <3>1. PICK k \in DOMAIN mem.operationSets :
            /\ DOMAIN mem'.operationSets = DOMAIN mem.operationSets
            /\ \A l \in DOMAIN mem.operationSets \ {k} :
                 mem'.operationSets[l] = mem.operationSets[l]
            /\ DueNow(mem.operationSets[k], mem'.transport)
      BY <2>5 DEF Marks
    <3>2. k # i
      <4>1. SUFFICES ASSUME k = i  PROVE  FALSE
        OBVIOUS
      <4>2. r.target.absoluteStep = mem'.transport.absoluteStep
        BY <2>1, <3>1, <4>1 DEF DueNow
      <4>3. mem'.transport.absoluteStep \in Nat
        BY DEF TypeInv, StateOK, State, TransportState
      <4>4. QED  BY <1>3, <4>2, <4>3 DEF IsDue
    <3>3. QED  BY <2>1, <3>1, <3>2 DEF Records
  <2>6. QED  BY <2>2, <2>3, <2>4, <2>5
<1>4. QED  BY <1>1, <1>2, <1>3 DEF Spares

RecordsInv == RecordInv /\ (ListsStayCurrent => ScheduleInv)

LEMMA AlwaysRecords == ~FailingSaves => (Spec => []RecordsInv)
<1> SUFFICES ASSUME ~FailingSaves  PROVE  Spec => []RecordsInv
  OBVIOUS
<1>1. CASE ListsStayCurrent
  <2>1. RecordInv /\ ScheduleInv => RecordsInv
    BY DEF RecordsInv
  <2>2. QED  BY <1>1, <2>1, AlwaysRecorded, AlwaysScheduled, PTL
<1>2. CASE ~ListsStayCurrent
  <2>1. RecordInv => RecordsInv
    BY <1>2 DEF RecordsInv
  <2>2. QED  BY <2>1, AlwaysRecorded, PTL
<1>3. QED  BY <1>1, <1>2

LEMMA NextSpares ==
  ASSUME RecordsInv, ~FailingSaves, [Next]_vars
  PROVE  \/ Crashed
         \/ \E I :
              /\ Spares(I, mem')
              /\ disk' = disk \/ disk' = mem'
              /\ \/ I = {}
                 \/ /\ ~ListsStayCurrent /\ job # Idle /\ job.kind = "due"
                    /\ \E id : I = {id}
<1>1. TypeInv'
  BY NextTypes DEF RecordsInv, RecordInv
<1>2. CASE ListsStayCurrent
  <2>1. Quiet \/ Crashed \/ Adds \/ Marks \/ Rolls
    BY <1>1, <1>2, NextFine, ListsCurrent DEF RecordsInv, ScheduleInv
  <2>2. QED  BY <1>1, <2>1, FineSpares
<1>3. CASE ~ListsStayCurrent
  BY <1>3, NextGentle DEF RecordsInv, RecordInv, Gentle
<1>4. QED  BY <1>2, <1>3

(***************************************************************************)
(* Of the records that share an id with I at most one is singled out.      *)
(***************************************************************************)
LEMMA OneRecord ==
  ASSUME UniqueIds(mem), NEW R \in SUBSET Records(mem), R # {},
         NEW id, \A r \in R : r.id = id
  PROVE  \E r \in R : R = {r}
<1>1. PICK r \in R : TRUE
  OBVIOUS
<1>2. \A q \in R : q = r
  BY <1>1, SameRecord
<1>3. QED  BY <1>1, <1>2

LEMMA SparedButOne ==
  ASSUME UniqueIds(mem), NEW I, NEW R \in SUBSET Records(mem), \A r \in R : r.id \in I,
         \/ I = {}
         \/ /\ ~ListsStayCurrent /\ job # Idle /\ job.kind = "due"
            /\ \E id : I = {id}
  PROVE  R # {} => OneByStaleList(R)
<1> SUFFICES ASSUME R # {}  PROVE  OneByStaleList(R)
  OBVIOUS
<1>1. PICK id : I = {id}
  OBVIOUS
<1>2. \A r \in R : r.id = id
  BY <1>1
<1>3. QED  BY <1>1, <1>2, OneRecord DEF OneByStaleList

(***************************************************************************)
(* While saves succeed an outcome is final, in memory and in the file: a   *)
(* record that is settled keeps its outcome until retention drops it, and  *)
(* a crash takes back what memory had beyond the file.  The one exception  *)
(* is a due list whose indexes have shifted under it, by retention or by a *)
(* session opened in between: it settles one record at a time again.       *)
(***************************************************************************)
THEOREM OutcomesStay == ~FailingSaves => (Spec => OutcomesAreFinal)
<1> SUFFICES ASSUME ~FailingSaves  PROVE  Spec => OutcomesAreFinal
  OBVIOUS
<1>1. RecordsInv /\ [Next]_vars =>
         /\ FinalButForStaleLists(disk, disk')
         /\ FinalButForStaleLists(mem, mem') \/ mem' = disk
  <2> SUFFICES ASSUME RecordsInv, [Next]_vars
               PROVE  /\ FinalButForStaleLists(disk, disk')
                      /\ FinalButForStaleLists(mem, mem') \/ mem' = disk
    OBVIOUS
  <2>1. UniqueIds(mem) /\ KeepsSets(disk, mem)
    BY NoneUnsaved DEF RecordsInv, RecordInv, BindInv, SyncInv
  <2>2. Reopened(disk, disk) = {}
    BY DEF Reopened
  <2>3. CASE Crashed
    BY <2>2, <2>3 DEF Crashed, FinalButForStaleLists
  <2>4. ASSUME NEW I, Spares(I, mem'), disk' = disk \/ disk' = mem',
               \/ I = {}
               \/ /\ ~ListsStayCurrent /\ job # Idle /\ job.kind = "due"
                  /\ \E id : I = {id}
        PROVE  FinalButForStaleLists(disk, disk') /\ FinalButForStaleLists(mem, mem')
    <3>1. Reopened(mem, mem') \in SUBSET Records(mem)
      BY DEF Reopened
    <3>2. \A r \in Reopened(mem, mem') : r.id \in I
      BY <2>4 DEF Reopened, Spares
    <3>3. FinalButForStaleLists(mem, mem')
      BY <2>1, <2>4, <3>1, <3>2, SparedButOne DEF FinalButForStaleLists
    <3>4. Reopened(disk, mem') \subseteq Reopened(mem, mem')
      BY <2>1 DEF Reopened, Records, KeepsSets, SameSet
    <3>5. FinalButForStaleLists(disk, mem')
      <4>1. Reopened(disk, mem') \in SUBSET Records(mem)
        BY <3>1, <3>4
      <4>2. \A r \in Reopened(disk, mem') : r.id \in I
        BY <3>2, <3>4
      <4>3. QED
        BY <2>1, <2>4, <4>1, <4>2, SparedButOne DEF FinalButForStaleLists
    <3>6. FinalButForStaleLists(disk, disk)
      BY <2>2 DEF FinalButForStaleLists
    <3>7. CASE disk' = disk
      BY <3>3, <3>6, <3>7
    <3>8. CASE disk' = mem'
      BY <3>3, <3>5, <3>8
    <3>9. QED  BY <2>4, <3>7, <3>8
  <2>5. QED  BY <2>3, <2>4, NextSpares
<1>2. QED  BY <1>1, AlwaysRecords, PTL DEF Spec, OutcomesAreFinal

(***************************************************************************)
(* While saves succeed nothing settles, moves or drops a queued record     *)
(* until its boundary is reached or its epoch ends: not retention, however *)
(* much it has to drop, and not even a crash, although the file may know   *)
(* an older version of the record.  The exception is the same as above.    *)
(***************************************************************************)
THEOREM PendingWorkRemains == ~FailingSaves => (Spec => PendingWorkStays)
<1> SUFFICES ASSUME ~FailingSaves  PROVE  Spec => PendingWorkStays
  OBVIOUS
<1>1. RecordsInv /\ [Next]_vars => (Disturbed # {} => OneByStaleList(Disturbed))
  <2> SUFFICES ASSUME RecordsInv, [Next]_vars
               PROVE  Disturbed # {} => OneByStaleList(Disturbed)
    OBVIOUS
  <2>1. UniqueIds(mem) /\ KeepsSets(disk, mem) /\ StateOK(disk) /\ NamesInv
    BY NoneUnsaved DEF RecordsInv, RecordInv, BindInv, SyncInv, TypeInv
  <2>2. Disturbed \in SUBSET Records(mem)
    BY DEF Disturbed, Queued
  <2>3. CASE Crashed
    <3>1. disk.idCounter \in Nat /\ disk.transport.epoch \in Nat
      BY <2>1, CounterType
    <3>2. ASSUME NEW r \in Disturbed
          PROVE  FALSE
      <4>1. /\ r.target.epoch = disk.transport.epoch /\ r.status = "queued"
            /\ r \in Records(mem) /\ r \notin Records(disk)
        BY <2>3, <3>2 DEF Crashed, Disturbed, Queued
      <4>2. PICK i \in DOMAIN mem.operationSets : r = mem.operationSets[i]
        BY <4>1 DEF Records
      <4>3. r.target.epoch < disk.idCounter
        BY <2>1, <4>1 DEF NamesInv, NamesBelow
      <4>4. mem.operationSets[i].target.epoch \in Nat
        BY <3>1, <4>1, <4>2
      <4>5. mem.operationSets[i] = disk.operationSets[i]
        BY <2>1, <3>1, <4>1, <4>2, <4>3, <4>4 DEF NamesInv
      <4>6. QED  BY <2>1, <4>1, <4>2, <4>5 DEF KeepsSets, Records
    <3>3. QED  BY <3>2
  <2>4. ASSUME NEW I, Spares(I, mem'),
               \/ I = {}
               \/ /\ ~ListsStayCurrent /\ job # Idle /\ job.kind = "due"
                  /\ \E id : I = {id}
        PROVE  Disturbed # {} => OneByStaleList(Disturbed)
    <3>1. \A r \in Disturbed : r.id \in I
      BY <2>2, <2>4 DEF Disturbed, Queued, Spares
    <3>2. QED  BY <2>1, <2>2, <2>4, <3>1, SparedButOne
  <2>5. QED  BY <2>3, <2>4, NextSpares
<1>2. QED  BY <1>1, AlwaysRecords, PTL DEF Spec, PendingWorkStays


-----------------------------------------------------------------------------
(* A request that needs a session keeps it until it is answered. *)

LEMMA RestIsDue ==
  ASSUME NEW j
  PROVE  Rest(j) # Idle => Rest(j).kind = "due"
  BY DEF Rest, NewJob

LEMMA NextSession ==
  ASSUME TypeInv, ~FailingSaves, SessionInv, ~BlindClients, [Next]_vars
  PROVE  SessionInv'
<1>1. CASE UNCHANGED vars
  BY <1>1 DEF SessionInv, vars
<1>2. CASE job' = Idle \/ job'.kind = "due"
  BY <1>2 DEF SessionInv
<1>3. CASE session' /\ job' # Idle
  BY <1>3 DEF SessionInv
<1>4. ASSUME NEW lost, NEW ack, Fail(job, lost, ack)
      PROVE  job' = Idle \/ job'.kind = "due"
  BY <1>4, RestIsDue DEF Fail, GoOn
<1>5. ASSUME NEW s, NEW j, NEW o, Settle(s, j, o)
      PROVE  job' = Idle \/ job'.kind = "due"
  BY <1>5, RestIsDue DEF Settle, GoOn
<1>6. ASSUME job # Idle, NEW lost, Unverified(lost)
      PROVE  \/ job' = Idle \/ job'.kind = "due"
             \/ job'.kind = job.kind /\ session' = session
  <2>1. CASE job.kind = "rollback"
    BY <1>4, <1>6, <2>1 DEF Unverified
  <2>2. CASE job.kind # "rollback"
    <3>1. job \in Job
      BY <1>6 DEF TypeInv
    <3>2. job' = [job EXCEPT !.phase = "restore", !.lost = lost] /\ session' = session
      BY <1>6, <2>2 DEF Unverified
    <3>3. QED  BY <3>1, <3>2 DEF Job
  <2>3. QED  BY <2>1, <2>2
<1>7. CASE Client \/ Reconnect \/ LoseSession \/ Restart \/ PanelEdit
  BY <1>7, NoneUnsaved
  DEF SessionInv, Client, Inspect, CreateSnapshot, RollbackSnapshot, Queue,
    ApplyNow, StartTransport, StopOrContinue, RequestPattern, SetActiveScene,
    Reconnect, LoseSession, Restart, PanelEdit
<1>8. CASE Poll
  BY <1>2, <1>8 DEF Poll, NewJob
<1>9. CASE NextDue
  <2>1. job' = Idle \/ job'.kind = "due"
    BY <1>9, RestIsDue DEF NextDue, NewJob, GoOn
  <2>2. QED  BY <1>2, <2>1
<1>10. CASE Capture
  BY <1>10 DEF Capture, SessionInv
<1>11. CASE Write
  <2>1. job \in Job /\ job # Idle
    BY <1>11 DEF TypeInv, Write
  <2>2. job'.kind = job.kind /\ session' = session
    BY <1>11, <2>1 DEF Write, Job
  <2>3. QED  BY <2>1, <2>2 DEF SessionInv
<1>12. CASE CaptureFails \/ Restore \/ RestoreFails
  <2>1. job' = Idle \/ job'.kind = "due"
    BY <1>4, <1>12 DEF CaptureFails, Restore, RestoreFails
  <2>2. QED  BY <1>2, <2>1
<1>13. CASE Verify \/ WriteFails \/ VerifyFails
  <2>1. /\ job # Idle
        /\ \/ job' = Idle \/ job'.kind = "due"
           \/ job'.kind = job.kind /\ session' = session
    BY <1>5, <1>6, <1>13 DEF Verify, WriteFails, VerifyFails
  <2>2. QED  BY <2>1 DEF SessionInv
<1>14. QED
  BY <1>1, <1>7, <1>8, <1>9, <1>10, <1>11, <1>12, <1>13, NoneUnsaved
  DEF Next, DaemonStep, Trouble

-----------------------------------------------------------------------------
(* The state file is an OperationLedger. *)

(***************************************************************************)
(* What a state says of a set is what its only record says.                *)
(***************************************************************************)
LEMMA Lookup ==
  ASSUME NEW s, UniqueIds(s), NEW i \in DOMAIN s.operationSets
  PROVE  LET r == s.operationSets[i]
         IN  /\ StatusIn(s, r.id) = r.status
             /\ ExpectedIn(s, r.id) =
                  IF r.status = "queued" THEN r.input.expected ELSE 0
<1> DEFINE r == s.operationSets[i]
<1>1. r.id \in IdsOf(s) /\ r \in Records(s)
  BY DEF IdsOf, Records
<1>2. \A q \in Records(s) : q.id = r.id => q = r
  BY OneIndex DEF Records
<1>3. RecordOf(s, r.id) = r
  BY <1>1, <1>2 DEF RecordOf
<1>4. QED  BY <1>1, <1>3 DEF StatusIn, ExpectedIn

LEMMA LookupUnknown ==
  ASSUME NEW s, NEW id, id \notin IdsOf(s)
  PROVE  StatusIn(s, id) = "unknown" /\ ExpectedIn(s, id) = 0
  BY DEF StatusIn, ExpectedIn

(***************************************************************************)
(* The sets that wait in s and are rejected in t.                          *)
(***************************************************************************)
Rejections(s, t) ==
  {id \in Ids : StatusIn(s, id) = "queued" /\ StatusIn(t, id) = "rejected"}

LEMMA Folded ==
  ASSUME NEW s, StateOK(s), UniqueIds(s), NEW t, StateOK(t), KeepsSets(s, t),
         NEW id \in Ids
  PROVE  LET R == Rejections(s, t)
         IN  /\ StatusIn(t, id) = IF id \in R THEN "rejected" ELSE StatusIn(s, id)
             /\ ExpectedIn(t, id) = IF id \in R THEN 0 ELSE ExpectedIn(s, id)
<1>1. UniqueIds(t) /\ IdsOf(t) = IdsOf(s)
  BY KeepsSetsIds
<1>2. CASE id \notin IdsOf(s)
  BY <1>1, <1>2, LookupUnknown DEF Rejections
<1>3. CASE id \in IdsOf(s)
  <2>1. PICK i \in DOMAIN s.operationSets : id = s.operationSets[i].id
    BY <1>3 DEF IdsOf
  <2> DEFINE r == s.operationSets[i]
             q == t.operationSets[i]
  <2>2. i \in DOMAIN t.operationSets /\ SameSet(r, q)
    BY DEF KeepsSets
  <2>3. q \in OperationSet /\ r \in OperationSet
    <3>1. s.operationSets \in Seq(OperationSet) /\ t.operationSets \in Seq(OperationSet)
      BY DEF StateOK, State
    <3>2. QED  BY <2>2, <3>1
  <2>4. /\ StatusIn(s, id) = r.status
        /\ ExpectedIn(s, id) = IF r.status = "queued" THEN r.input.expected ELSE 0
    BY <2>1, Lookup
  <2>5. q.id = id
    BY <2>1, <2>2 DEF SameSet
  <2>6. /\ StatusIn(t, id) = q.status
        /\ ExpectedIn(t, id) = IF q.status = "queued" THEN q.input.expected ELSE 0
    BY <1>1, <2>2, <2>5, Lookup
  <2>7. {r.status, q.status} \subseteq {"queued", "applied", "rejected"}
    BY <2>3 DEF OperationSet, Statuses
  <2>8. \/ q.status = r.status /\ q.input = r.input
        \/ r.status = "queued" /\ q.status = "rejected"
    BY <2>2, <2>7 DEF SameSet, IsTerminal
  <2> HIDE DEF r, q
  <2>9. QED  BY <2>4, <2>6, <2>7, <2>8 DEF Rejections
<1>4. QED  BY <1>2, <1>3


(***************************************************************************)
(* The file with the rejections, and with one more or one other record.    *)
(***************************************************************************)
LEMMA FoldedBesides ==
  ASSUME NEW s, StateOK(s), UniqueIds(s), NEW t, StateOK(t), KeepsSets(s, t),
         NEW u, UniqueIds(u), NEW n \in DOMAIN u.operationSets,
         DOMAIN u.operationSets = DOMAIN t.operationSets \cup {n},
         \A k \in DOMAIN t.operationSets \ {n} : u.operationSets[k] = t.operationSets[k],
         n \in DOMAIN t.operationSets => u.operationSets[n].id = t.operationSets[n].id,
         NEW id \in Ids, id # u.operationSets[n].id
  PROVE  LET R == Rejections(s, t)
         IN  /\ StatusIn(u, id) = IF id \in R THEN "rejected" ELSE StatusIn(s, id)
             /\ ExpectedIn(u, id) = IF id \in R THEN 0 ELSE ExpectedIn(s, id)
<1>1. UniqueIds(t)
  BY KeepsSetsIds
<1>2. StatusIn(u, id) = StatusIn(t, id) /\ ExpectedIn(u, id) = ExpectedIn(t, id)
  <2>1. CASE id \notin IdsOf(t)
    <3>1. id \notin IdsOf(u)
      BY <2>1 DEF IdsOf
    <3>2. QED  BY <2>1, <3>1, LookupUnknown
  <2>2. CASE id \in IdsOf(t)
    <3>1. PICK i \in DOMAIN t.operationSets : id = t.operationSets[i].id
      BY <2>2 DEF IdsOf
    <3>2. i \in DOMAIN u.operationSets /\ u.operationSets[i] = t.operationSets[i]
      BY <3>1
    <3> DEFINE r == t.operationSets[i]
    <3>3. /\ StatusIn(t, id) = r.status
          /\ ExpectedIn(t, id) = IF r.status = "queued" THEN r.input.expected ELSE 0
      BY <1>1, <3>1, Lookup
    <3>4. /\ StatusIn(u, id) = r.status
          /\ ExpectedIn(u, id) = IF r.status = "queued" THEN r.input.expected ELSE 0
      BY <3>1, <3>2, Lookup
    <3>5. QED  BY <3>3, <3>4
  <2>3. QED  BY <2>1, <2>2
<1>3. QED  BY <1>2, Folded

LEMMA Primed ==
  /\ \A id : StatusIn(disk, id)' = StatusIn(disk', id)
  /\ \A id : ExpectedIn(disk, id)' = ExpectedIn(disk', id)
  BY DEF StatusIn, ExpectedIn, RecordOf, Records, IdsOf

(***************************************************************************)
(* What the file says after a step, and how the ledger comes to say it.    *)
(***************************************************************************)
Turns(R, S, st) ==
  \A id \in Ids :
    /\ StatusIn(disk', id) = IF id \in S THEN st
                             ELSE IF id \in R THEN "rejected" ELSE StatusIn(disk, id)
    /\ ExpectedIn(disk', id) = IF id \in S /\ st = "queued" THEN disk.revision
                               ELSE IF id \in R \cup S THEN 0 ELSE ExpectedIn(disk, id)

LEMMA TurnsBecome ==
  ASSUME NEW R, NEW S, NEW st, Turns(R, S, st)
  PROVE  Ledger!Become(R, S, st)
<1>1. \A id \in Ids :
        /\ StatusIn(disk, id)' = IF id \in S THEN st
                                 ELSE IF id \in R THEN "rejected" ELSE StatusIn(disk, id)
        /\ ExpectedIn(disk, id)' = IF id \in S /\ st = "queued" THEN disk.revision
                                   ELSE IF id \in R \cup S THEN 0 ELSE ExpectedIn(disk, id)
  BY Primed DEF Turns
<1>2. QED  BY <1>1 DEF Ledger!Become

LEMMA WaitingRejections ==
  ASSUME NEW t
  PROVE  Rejections(disk, t) \in SUBSET Ledger!Waiting
  BY DEF Rejections, Ledger!Waiting

LEMMA LedgerInit == Init => Ledger!Init
<1> SUFFICES ASSUME Init  PROVE  Ledger!Init
  OBVIOUS
<1>1. disk.revision = 0 /\ disk.operationSets = <<>>
  BY DEF Init, EmptyState
<1>2. IdsOf(disk) = {}
  BY <1>1 DEF IdsOf
<1>3. \A id \in Ids : StatusIn(disk, id) = "unknown" /\ ExpectedIn(disk, id) = 0
  BY <1>2, LookupUnknown
<1>4. QED  BY <1>1, <1>3 DEF Ledger!Init

LEMMA LedgerNext ==
  ASSUME ScheduleInv, ScheduleInv', SessionInv, [Next]_vars,
         ~FailingSaves, NothingDropped, ~SlowPersists
  PROVE  [Ledger!Next]_(Ledger!vars)
<1>1. Quiet \/ Crashed \/ Adds \/ Marks \/ Rolls
  BY NextFine DEF ScheduleInv
<1>2. /\ StateOK(disk) /\ StateOK(mem) /\ UniqueIds(disk) /\ UniqueIds(mem)
      /\ KeepsSets(disk, mem) /\ disk.revision = mem.revision
      /\ IdsOf(disk) = IdsOf(mem)
  <2>1. /\ StateOK(disk) /\ StateOK(mem) /\ UniqueIds(mem)
        /\ KeepsSets(disk, mem) /\ disk.revision = mem.revision
    BY DEF ScheduleInv, TypeInv, SyncInv, BindInv
  <2>2. QED  BY <2>1, KeepsSetsIds
<1>3. StateOK(mem') /\ UniqueIds(mem')
  BY DEF ScheduleInv, TypeInv, BindInv, UniqueIds
<1>4. CASE disk' = disk
  <2>1. \A id \in Ids : /\ StatusIn(disk, id)' = StatusIn(disk, id)
                        /\ ExpectedIn(disk, id)' = ExpectedIn(disk, id)
    BY <1>4, Primed
  <2>2. QED  BY <1>4, <2>1 DEF Ledger!vars
<1>5. ASSUME KeepsSets(mem, mem'), disk' = mem',
             mem'.revision \in {mem.revision, mem.revision + 1}
      PROVE  Ledger!Next
  <2> DEFINE R == Rejections(disk, mem')
  <2>1. KeepsSets(disk, mem')
    BY <1>2, <1>5, KeepsSetsTrans
  <2>2. Turns(R, {}, "rejected")
    BY <1>2, <1>3, <1>5, <2>1, Folded DEF Turns
  <2>3. Ledger!Advance
    BY <1>2, <1>5 DEF Ledger!Advance
  <2>4. R \in SUBSET Ledger!Waiting
    BY WaitingRejections
  <2> HIDE DEF R
  <2>5. Ledger!Observe(R)
    BY <2>2, <2>3, TurnsBecome DEF Ledger!Observe
  <2>6. QED  BY <2>4, <2>5 DEF Ledger!Next
<1>6. CASE Quiet
  BY <1>4, <1>5, <1>6 DEF Quiet, Steady
<1>7. CASE Rolls
  <2>1. PICK s : From(s) /\ mem'.operationSets = s.operationSets
    BY <1>7 DEF Rolls
  <2>2. KeepsSets(mem, mem')
    BY <2>1 DEF From, Steady, KeepsSets
  <2>3. QED  BY <1>5, <2>1, <2>2 DEF From
<1>8. CASE Marks
  <2>1. PICK i \in DOMAIN mem.operationSets :
          LET r == mem.operationSets[i]
              q == mem'.operationSets[i]
          IN  /\ DOMAIN mem'.operationSets = DOMAIN mem.operationSets
              /\ \A k \in DOMAIN mem.operationSets \ {i} :
                   mem'.operationSets[k] = mem.operationSets[k]
              /\ r.status = "queued" /\ r.input.expected = mem.revision
              /\ q.id = r.id /\ q.input = r.input /\ q.status = "applied"
              /\ mem'.revision \in {mem.revision, mem.revision + 1}
              /\ disk' = mem'
    BY <1>8 DEF Marks, DueNow
  <2> DEFINE id == mem.operationSets[i].id
             R == Rejections(disk, mem)
  <2>2. /\ i \in DOMAIN mem'.operationSets /\ i \in DOMAIN disk.operationSets
        /\ disk.operationSets[i].id = id /\ mem'.operationSets[i].id = id
        /\ disk.operationSets[i].status = "queued"
        /\ disk.operationSets[i].input.expected = disk.revision
    BY <1>2, <2>1 DEF KeepsSets, SameSet, IsTerminal
  <2>3. StatusIn(mem', id) = "applied" /\ ExpectedIn(mem', id) = 0
    BY <1>3, <2>1, <2>2, Lookup
  <2>4. StatusIn(disk, id) = "queued" /\ ExpectedIn(disk, id) = disk.revision
    BY <1>2, <2>2, Lookup
  <2>5. StatusIn(mem, id) = "queued"
    BY <1>2, <2>1, Lookup
  <2>6. id \in Ids
    <3>1. mem.operationSets \in Seq(OperationSet)
      BY <1>2 DEF StateOK, State
    <3>2. mem.operationSets[i] \in OperationSet
      BY <3>1
    <3>3. QED  BY <3>2 DEF OperationSet
  <2>7. \A k \in Ids \ {id} :
          /\ StatusIn(mem', k) = IF k \in R THEN "rejected" ELSE StatusIn(disk, k)
          /\ ExpectedIn(mem', k) = IF k \in R THEN 0 ELSE ExpectedIn(disk, k)
    BY <1>2, <1>3, <2>1, <2>2, FoldedBesides
  <2>8. id \in Ledger!Waiting \ R
    BY <2>4, <2>5, <2>6 DEF Ledger!Waiting, Rejections
  <2>9. R \in SUBSET Ledger!Waiting
    BY WaitingRejections
  <2> HIDE DEF R, id
  <2>10. Turns(R, {id}, "applied")
    BY <2>1, <2>3, <2>7 DEF Turns
  <2>11. Ledger!ApplyWaiting(id, R)
    <3>1. Ledger!Advance
      BY <1>2, <2>1 DEF Ledger!Advance
    <3>2. Ledger!Become(R, {id}, "applied")
      BY <2>10, TurnsBecome
    <3>3. QED  BY <2>4, <2>6, <2>8, <3>1, <3>2 DEF Ledger!ApplyWaiting
  <2>12. QED  BY <2>6, <2>9, <2>11 DEF Ledger!Next
<1>9. CASE Adds
  <2>1. PICK s, n, r :
          /\ KeepsSets(mem, s) /\ s.revision = mem.revision
          /\ mem'.revision \in {s.revision, s.revision + 1}
          /\ disk' = mem'
          /\ n \notin DOMAIN mem.operationSets
          /\ DOMAIN mem'.operationSets = DOMAIN mem.operationSets \cup {n}
          /\ \A k \in DOMAIN mem.operationSets :
               mem'.operationSets[k] = s.operationSets[k]
          /\ mem'.operationSets[n] = r
          /\ r \in OperationSet /\ r.id \notin IdsOf(mem) /\ StateOK(s)
          /\ \/ r.status = "applied"
             \/ /\ r.status = "queued" /\ r.input.expected = mem.revision
                /\ mem'.revision = mem.revision
    BY <1>9 DEF Adds, From, Steady
  <2> DEFINE id == r.id
             R == Rejections(disk, s)
  <2>2. KeepsSets(disk, s) /\ DOMAIN s.operationSets = DOMAIN mem.operationSets
    <3>1. KeepsSets(disk, s)
      BY <1>2, <2>1, KeepsSetsTrans
    <3>2. QED  BY <2>1, <3>1 DEF KeepsSets
  <2>3. n \in DOMAIN mem'.operationSets
    BY <2>1
  <2>4. /\ StatusIn(mem', id) = r.status
        /\ ExpectedIn(mem', id) = IF r.status = "queued" THEN r.input.expected ELSE 0
    BY <1>3, <2>1, <2>3, Lookup
  <2>5. id \in Ids /\ StatusIn(disk, id) = "unknown"
    BY <1>2, <2>1, LookupUnknown DEF OperationSet
  <2>6. \A k \in Ids \ {id} :
          /\ StatusIn(mem', k) = IF k \in R THEN "rejected" ELSE StatusIn(disk, k)
          /\ ExpectedIn(mem', k) = IF k \in R THEN 0 ELSE ExpectedIn(disk, k)
    BY <1>2, <1>3, <2>1, <2>2, <2>3, FoldedBesides
  <2>7. R \in SUBSET Ledger!Waiting
    BY WaitingRejections
  <2> HIDE DEF R, id
  <2>8. CASE r.status = "applied"
    <3>1. Turns(R, {id}, "applied")
      BY <2>1, <2>4, <2>6, <2>8 DEF Turns
    <3>2. Ledger!Become(R, {id}, "applied")
      BY <3>1, TurnsBecome
    <3>3. Ledger!Advance
      BY <1>2, <2>1 DEF Ledger!Advance
    <3>4. Ledger!ApplyAtOnce(id, R)
      BY <2>5, <3>2, <3>3 DEF Ledger!ApplyAtOnce
    <3>5. QED  BY <2>5, <2>7, <3>4 DEF Ledger!Next
  <2>9. CASE r.status = "queued" /\ r.input.expected = mem.revision
               /\ mem'.revision = mem.revision
    <3>1. Turns(R, {id}, "queued")
      BY <1>2, <2>1, <2>4, <2>6, <2>9 DEF Turns
    <3>2. Ledger!Become(R, {id}, "queued")
      BY <3>1, TurnsBecome
    <3>3. disk.revision' = disk.revision
      BY <1>2, <2>1, <2>9
    <3>4. Ledger!Accept(id, R)
      BY <2>5, <3>2, <3>3 DEF Ledger!Accept
    <3>5. QED  BY <2>5, <2>7, <3>4 DEF Ledger!Next
  <2>10. QED  BY <2>1, <2>8, <2>9
<1>10. QED  BY <1>1, <1>4, <1>6, <1>7, <1>8, <1>9 DEF Crashed

(***************************************************************************)
(* As long as clients send only to a connected daemon, the state file is   *)
(* an OperationLedger: whatever the device, the clocks, failing calls,     *)
(* reconnections, crashes and restarts do, a set is accepted against the   *)
(* current revision, applied only while it is still current, and settled   *)
(* once and for all, and no save settles two sets but by rejection.        *)
(***************************************************************************)
THEOREM FileIsLedger ==
  ~FailingSaves /\ ListsStayCurrent /\ ~BlindClients => (Spec => IsLedger)
<1> SUFFICES ASSUME ~FailingSaves, ListsStayCurrent, ~BlindClients
             PROVE  Spec => IsLedger
  OBVIOUS
<1>1. Spec => []SessionInv
  <2>1. Init => SessionInv
    BY DEF Init, SessionInv
  <2>2. ScheduleInv /\ SessionInv /\ [Next]_vars => SessionInv'
    BY NextSession DEF ScheduleInv
  <2>3. QED  BY <2>1, <2>2, AlwaysScheduled, PTL DEF Spec
<1>2. Init => Ledger!Init
  BY LedgerInit
<1>3. ScheduleInv /\ ScheduleInv' /\ SessionInv /\ [Next]_vars
        => [Ledger!Next]_(Ledger!vars)
  BY LedgerNext, ListsCurrent
<1>4. QED  BY <1>1, <1>2, <1>3, AlwaysScheduled, PTL DEF Spec, IsLedger, Ledger!Spec

-----------------------------------------------------------------------------
(***************************************************************************)
(* FOURTH PART: no set reaches the device twice.                           *)
(***************************************************************************)

(***************************************************************************)
(* Nothing but the writing of operation sets changes the device.           *)
(***************************************************************************)
SoleWriter == ~Rollbacks /\ MaxPanelEdits = 0

(***************************************************************************)
(* Operation sets change only what every inspection reads.                 *)
(***************************************************************************)
EditsAreSeen == \A edit \in Edits : DOMAIN edit \subseteq WorkBuffer

(***************************************************************************)
(* Then the device is not changed behind the record while there is a       *)
(* session.                                                                *)
(***************************************************************************)
Purses == {"panelEdits", "faults", "restarts", "commands"}

SoleInv ==
  /\ spent \in [Purses -> Nat]
  /\ session => ~foreign
  /\ job # Idle => job.kind # "rollback"

(***************************************************************************)
(* What was last observed according to memory, the file knows too.         *)
(***************************************************************************)
SameSightInv ==
  mem.lastObserved # None =>
    disk.lastObserved # None /\ disk.lastObserved.content = mem.lastObserved.content

(***************************************************************************)
(* From its first write on a job leaves the revision alone and has changed *)
(* something that an inspection would see.                                 *)
(***************************************************************************)
BusyInv ==
  job # Idle /\ job.phase \in {"write", "verify", "restore"} =>
    /\ ChangedObjects(job.want, job.base) # {}
    /\ ChangedObjects(job.want, job.base) \subseteq WorkBuffer
    /\ client[job.id].input.expected = mem.revision
    /\ job.phase = "write" => device = job.base
    /\ job.phase = "verify" => device = job.want
    /\ job.phase = "restore" /\ landed[job.id] # 0 => device = job.want

(***************************************************************************)
(* A set on the device is of a revision that is over; or the next look at  *)
(* the device ends that revision; or the job that wrote it is not done.    *)
(***************************************************************************)
Over(id) == client[id].input.expected < mem.revision

Unseen ==
  ~session /\ mem.lastObserved # None /\ mem.lastObserved.content # Content(device)

OnceInv ==
  \A id \in Ids : landed[id] # 0 =>
    /\ landed[id] = 1
    /\ client[id].input \in Input /\ client[id].input.expected <= mem.revision
    /\ Over(id) \/ Unseen \/ (Writing /\ job.id = id)

(***************************************************************************)
(* A client never asks for something else under the same id, and revisions *)
(* are not taken back.                                                     *)
(***************************************************************************)
LEMMA InputsStay ==
  ASSUME TypeInv, ~FailingSaves, JobInv, SyncInv, [Next]_vars, TypeInv'
  PROVE  /\ mem.revision <= mem'.revision
         /\ \A id \in Ids : client[id].input # None =>
              client'[id].input = client[id].input
<1>0. mem.revision \in Nat /\ StateOK(mem)
  BY RevisionType DEF TypeInv
<1>1. CASE Uneventful
  BY <1>1 DEF Uneventful
<1>2. CASE Turning
  BY <1>0, <1>2 DEF Turning
<1>3. CASE Settling
  <2>1. PICK j \in Job, o \in Observation :
          LET t == SettledState(CapturedState, j, o)
          IN  /\ j.kind = "apply" => j.id \in Ids /\ client[j.id].input \in Input
              /\ StateOK(t) /\ Saved(t)
              /\ t.revision = IF Changes(j) THEN CapturedState.revision + 1
                              ELSE CapturedState.revision
              /\ IF j.kind = "apply" THEN Sent(j.id, client[j.id].input, "saved")
                 ELSE UNCHANGED client
    BY <1>3, SettlingParts
  <2> DEFINE t == SettledState(CapturedState, j, o)
  <2>2. /\ StateOK(CapturedState) /\ mem.revision <= CapturedState.revision
        /\ CapturedState.revision \in Nat
    BY CapturedDerived, RevisionType
  <2>3. mem'.revision = t.revision
    BY <2>1, SavedOK
  <2>4. mem.revision <= mem'.revision
    BY <1>0, <2>1, <2>2, <2>3
  <2>5. \A id \in Ids : client'[id].input = client[id].input
    <3>1. CASE j.kind = "apply"
      <4>1. j.id \in Ids /\ client[j.id].input \in Input /\ client \in Clients
            /\ Sent(j.id, client[j.id].input, "saved")
        BY <2>1, <3>1 DEF TypeInv
      <4>2. /\ client'[j.id].input = client[j.id].input
            /\ \A k \in Ids \ {j.id} : client'[k] = client[k]
        BY <4>1, SentOK DEF Answers
      <4>3. QED  BY <4>2
    <3>2. CASE j.kind # "apply"
      BY <2>1, <3>2
    <3>3. QED  BY <3>1, <3>2
  <2>6. QED  BY <2>4, <2>5
<1>4. CASE Queue
  <2>1. PICK id \in Ids, edit \in Edits, kind \in QueueKinds, policy \in Policies :
           LET input == QueueInput(edit, kind, policy)
           IN  /\ MaySend(id, input)
               /\ Saved(WithRecord(mem, QueuedRecord(mem, id, input)))
               /\ Sent(id, input, "saved")
    BY <1>4, QueueSaves
  <2>2. mem'.revision = mem.revision
    BY <2>1, <1>0 DEF Saved, Pruned, WithRecord, StateOK, State
  <2>3. QueueInput(edit, kind, policy) \in Input
    BY InputsOK DEF TypeInv
  <2>4. ASSUME NEW k \in Ids, client[k].input # None
        PROVE  client'[k].input = client[k].input
    <3>1. CASE k = id
      <4>1. client[id].input = QueueInput(edit, kind, policy)
        BY <2>1, <2>4, <3>1 DEF MaySend
      <4>2. client'[id].input = QueueInput(edit, kind, policy)
        BY <2>1, <2>3, SentOK DEF TypeInv, Answers
      <4>3. QED  BY <3>1, <4>1, <4>2
    <3>2. CASE k # id
      BY <2>1, <2>3, <3>2, SentOK DEF TypeInv, Answers
    <3>3. QED  BY <3>1, <3>2
  <2>5. QED  BY <1>0, <2>2, <2>4
<1>5. CASE ApplyNow
  <2>1. PICK id \in Ids, edit \in Edits :
           /\ MaySend(id, ApplyInput(edit))
           /\ Sent(id, ApplyInput(edit), "none")
           /\ UNCHANGED mem
    BY <1>5, ApplyNowParts
  <2>2. ApplyInput(edit) \in Input
    BY InputsOK DEF TypeInv
  <2>3. ASSUME NEW k \in Ids, client[k].input # None
        PROVE  client'[k].input = client[k].input
    <3>1. CASE k = id
      <4>1. client[id].input = ApplyInput(edit)
        BY <2>1, <2>3, <3>1 DEF MaySend
      <4>2. client'[id].input = ApplyInput(edit)
        BY <2>1, <2>2, SentOK DEF TypeInv, Answers
      <4>3. QED  BY <3>1, <4>1, <4>2
    <3>2. CASE k # id
      BY <2>1, <2>2, <3>2, SentOK DEF TypeInv, Answers
    <3>3. QED  BY <3>1, <3>2
  <2>4. QED  BY <1>0, <2>1, <2>3
<1>6. QED  BY <1>1, <1>2, <1>3, <1>4, <1>5, StepCases

LEMMA NextSole ==
  ASSUME TypeInv, ~FailingSaves, JobInv, SoleInv, SoleWriter, [Next]_vars, TypeInv'
  PROVE  SoleInv'
<1>1. ASSUME NEW what \in Purses, Spend(what)
      PROVE  spent' \in [Purses -> Nat]
  BY <1>1 DEF Spend, SoleInv
<1>2. ~PanelEdit
  <2>1. Budget["panelEdits"] = 0
    BY DEF Budget, SoleWriter
  <2>2. spent["panelEdits"] \in Nat
    BY DEF SoleInv, Purses
  <2>3. QED  BY <2>1, <2>2 DEF PanelEdit, Spend
<1>3. spent' \in [Purses -> Nat]
  <2>1. CASE UNCHANGED spent
    BY <2>1 DEF SoleInv
  <2>2. CASE Client \/ Reconnect \/ Poll \/ DaemonStep
    BY <1>1, <2>1, <2>2, NoneUnsaved
    DEF Client, Inspect, CreateSnapshot, RollbackSnapshot, Queue,
      ApplyNow, StartTransport, StopOrContinue, RequestPattern, SetActiveScene, Reconnect,
      Poll, DaemonStep, NextDue, Capture, Write, Verify, Restore, Purses
  <2>3. CASE LoseSession \/ CaptureFails \/ WriteFails \/ VerifyFails \/ RestoreFails
                \/ Restart
    BY <1>1, <2>1, <2>3 DEF LoseSession, CaptureFails, WriteFails, VerifyFails,
      RestoreFails, Restart, Crash, Shutdown, Purses
  <2>4. QED  BY <1>2, <2>1, <2>2, <2>3, NoneUnsaved DEF Next, Trouble, vars
<1>4. ASSUME NEW lost, NEW ack, Fail(job, lost, ack)
      PROVE  (job' # Idle => job'.kind # "rollback") /\ (session' => session /\ ~lost)
  BY <1>4, RestIsDue DEF Fail, GoOn
<1>5. ASSUME NEW s, NEW j, NEW o, Settle(s, j, o)
      PROVE  (job' # Idle => job'.kind # "rollback") /\ ~foreign'
  BY <1>5, RestIsDue DEF Settle, GoOn
<1>6. ASSUME job # Idle, NEW lost, Unverified(lost)
      PROVE  /\ job' # Idle => job'.kind # "rollback"
             /\ session' = session
  <2>1. job \in Job /\ job.kind # "rollback"
    BY <1>6 DEF TypeInv, SoleInv
  <2>2. job' = [job EXCEPT !.phase = "restore", !.lost = lost] /\ session' = session
    BY <1>6, <2>1 DEF Unverified
  <2>3. QED  BY <2>1, <2>2 DEF Job
<1>7. (session' => ~foreign') /\ (job' # Idle => job'.kind # "rollback")
  <2> USE DEF SoleInv
  <2>1. CASE UNCHANGED vars
    BY <2>1 DEF vars
  <2>2. CASE Client \/ Reconnect \/ LoseSession \/ Restart
    <3>1. CASE ApplyNow
      BY <3>1 DEF ApplyNow, NewJob
    <3>2. ~RollbackSnapshot
      BY DEF RollbackSnapshot, SoleWriter
    <3>3. CASE Inspect \/ CreateSnapshot \/ Queue \/ StartTransport \/ StopOrContinue
                 \/ RequestPattern \/ SetActiveScene
      <4>1. /\ job' = Idle /\ session' = session
            /\ foreign' = FALSE \/ foreign' = foreign
        BY <3>3 DEF Inspect, CreateSnapshot, Queue, StartTransport, StopOrContinue,
          RequestPattern, SetActiveScene, history
      <4>2. QED  BY <4>1
    <3>4. CASE Reconnect \/ LoseSession \/ Restart
      BY <3>4 DEF Reconnect, LoseSession, Restart
    <3>5. QED  BY <2>2, <3>1, <3>2, <3>3, <3>4, NoneUnsaved DEF Client
  <2>3. CASE Poll \/ NextDue
    BY <2>3, RestIsDue DEF Poll, NextDue, NewJob, GoOn, history
  <2>4. CASE Capture
    <3>1. CASE Settle(CapturedState, CapturedJob, CapturedSummary)
      BY <1>5, <3>1
    <3>2. CASE /\ job' = [CapturedJob EXCEPT !.phase = "write"]
               /\ IF session THEN UNCHANGED <<mem, disk, saved, foreign>>
                  ELSE Saved(CapturedState) /\ foreign' = FALSE
      <4>1. CapturedJob \in Job /\ CapturedJob.kind = job.kind /\ job # Idle
        BY <2>4, CapturedOK DEF Capture
      <4>2. job'.kind = job.kind
        BY <3>2, <4>1 DEF Job
      <4>3. QED  BY <3>2, <4>1, <4>2
    <3>3. QED  BY <2>4, <3>1, <3>2, CaptureParts
  <2>5. CASE Write
    <3>1. job \in Job /\ job # Idle
      BY <2>5 DEF TypeInv, Write
    <3>2. job'.kind = job.kind /\ UNCHANGED <<session, foreign>>
      BY <2>5, <3>1 DEF Write, Job
    <3>3. QED  BY <3>1, <3>2
  <2>6. CASE CaptureFails \/ Restore
    <3>1. (\E lost, ack : Fail(job, lost, ack)) /\ UNCHANGED foreign
      BY <2>6 DEF CaptureFails, Restore, history
    <3>2. QED  BY <1>4, <3>1
  <2>7. CASE RestoreFails
    BY <1>4, <2>7 DEF RestoreFails
  <2>8. CASE Verify \/ WriteFails \/ VerifyFails
    BY <1>5, <1>6, <2>8 DEF Verify, WriteFails, VerifyFails
  <2>9. QED
    BY <1>2, <2>1, <2>2, <2>3, <2>4, <2>5, <2>6, <2>7, <2>8, NoneUnsaved
    DEF Next, DaemonStep, Trouble
<1>8. QED  BY <1>3, <1>7 DEF SoleInv

(***************************************************************************)
(* A step saves what it changed, or leaves the last observation alone, but *)
(* for the choice of a scene, which takes the device for what was last     *)
(* observed already.                                                       *)
(***************************************************************************)
LEMMA SavedOrSame ==
  ASSUME TypeInv, ~FailingSaves, JobInv, [Next]_vars
  PROVE  \/ disk' = mem'
         \/ disk' = disk /\ mem'.lastObserved = mem.lastObserved
         \/ SetActiveScene
<1>0. StateOK(mem) /\ mem \in State
  BY DEF TypeInv, StateOK
<1>1. CASE UNCHANGED vars
  BY <1>1 DEF vars
<1>2. CASE Reconnect \/ LoseSession \/ Inspect \/ CreateSnapshot
  BY <1>2
  DEF Reconnect, LoseSession, Inspect, CreateSnapshot, Persist, PersistFrom, Saved
<1>3. CASE StartTransport
  <2>1. Started(mem).lastObserved = mem.lastObserved
    BY <1>0, StartedOK
  <2>2. QED  BY <1>3, <2>1 DEF StartTransport, Persist, PersistFrom, Saved, InMemory
<1>4. CASE StopOrContinue
  <2>1. PICK b \in BOOLEAN :
          LET s == [mem EXCEPT !.transport = Playing(@, b)]
          IN  InMemory(s) \/ Saved(s)
    BY <1>4 DEF StopOrContinue, Persist, PersistFrom
  <2>2. QED  BY <1>0, <2>1 DEF Saved, InMemory, State
<1>5. CASE RequestPattern
  BY <1>0, <1>5 DEF RequestPattern, InMemory, State
<1>6. CASE Queue
  BY <1>6, QueueSaves DEF Saved
<1>7. CASE ApplyNow \/ RollbackSnapshot \/ Write \/ PanelEdit
  BY <1>7 DEF ApplyNow, RollbackSnapshot, Write, PanelEdit
<1>8. CASE Poll
  BY <1>8, PollParts, PolledOK DEF SameButTransport
<1>9. CASE NextDue
  BY <1>9 DEF NextDue, Persist, PersistFrom, Saved
<1>10. ASSUME NEW s, NEW j, NEW o, Settle(s, j, o)
       PROVE  disk' = mem'
  BY <1>10 DEF Settle, PersistFrom, Saved
<1>11. ASSUME NEW j, NEW lost, NEW ack, Fail(j, lost, ack)
       PROVE  disk' = mem' \/ UNCHANGED <<mem, disk, saved>>
  BY <1>11 DEF Fail, Persist, PersistFrom, Saved
<1>12. ASSUME NEW lost, Unverified(lost)
       PROVE  disk' = mem' \/ UNCHANGED <<mem, disk, saved>>
  BY <1>11, <1>12 DEF Unverified
<1>13. CASE Capture
  BY <1>10, <1>13, CaptureParts DEF Saved
<1>14. CASE CaptureFails \/ Restore \/ RestoreFails
  BY <1>11, <1>14 DEF CaptureFails, Restore, RestoreFails
<1>15. CASE Verify \/ WriteFails \/ VerifyFails
  BY <1>10, <1>12, <1>15 DEF Verify, WriteFails, VerifyFails
<1>16. CASE Restart
  BY <1>16 DEF Restart, Crash, Shutdown, Saved
<1>17. QED
  BY <1>1, <1>2, <1>3, <1>4, <1>5, <1>6, <1>7, <1>8, <1>9, <1>13, <1>14, <1>15, <1>16,
     NoneUnsaved
  DEF Next, Client, DaemonStep, Trouble

LEMMA NextSameSight ==
  ASSUME TypeInv, ~FailingSaves, JobInv, ObservedInv, SoleInv, SameSightInv, [Next]_vars
  PROVE  SameSightInv'
<1>1. CASE disk' = mem'
  BY <1>1 DEF SameSightInv
<1>2. CASE disk' = disk /\ mem'.lastObserved = mem.lastObserved
  BY <1>2 DEF SameSightInv
<1>3. CASE SetActiveScene
  <2>1. session /\ job = Idle /\ disk' = disk
    BY <1>3 DEF SetActiveScene, InMemory
  <2>2. /\ mem.lastObserved # None
        /\ mem.lastObserved.content = Content(device)
    BY <2>1 DEF ObservedInv, SoleInv, Writing
  <2>3. mem'.lastObserved = [content |-> Content(device), kits |-> FALSE]
    BY <1>3 DEF SetActiveScene, InMemory, TypeInv, StateOK, State
  <2>4. mem'.lastObserved.content = Content(device)
    BY <2>3
  <2>5. QED  BY <2>1, <2>2, <2>4 DEF SameSightInv
<1>4. QED  BY <1>1, <1>2, <1>3, SavedOrSame

(***************************************************************************)
(* Opening a session ends the revision when the device is not what was     *)
(* last observed.                                                          *)
(***************************************************************************)
LEMMA DriftIsSeen ==
  ASSUME NEW s, StateOK(s), NEW d \in Device, s.lastObserved # None,
         s.lastObserved.content # Content(d)
  PROVE  Reconnected(s, d).revision = s.revision + 1
<1>1. SeesDrift(s, d)
  BY DEF SeesDrift
<1> DEFINE u == Seen(s, d)
           w == BeginEpoch(u.transport, u.idCounter, Slot(d), MasterLength(d))
           v == [u EXCEPT !.idCounter = u.idCounter + 1, !.transport = w]
<1>2. u.revision = s.revision + 1 /\ u \in State
  BY <1>1, SeenOK DEF Seen, StateOK, State
<1>3. Reconnected(s, d) = ReconcileQueuedEpochs(v)
  BY <1>2 DEF Reconnected, State
<1> HIDE DEF u, w
<1>4. v.revision = u.revision
  BY <1>2 DEF State
<1> HIDE DEF v
<1>5. Reconnected(s, d).revision = v.revision
  <2>1. DOMAIN v = {"revision", "idCounter", "transport", "operationSets",
                    "lastObserved", "snapshot"}
    BY <1>2 DEF v, State
  <2>2. QED  BY <1>3, <2>1 DEF ReconcileQueuedEpochs
<1>6. QED  BY <1>2, <1>4, <1>5

(***************************************************************************)
(* Steps outside of verification and restoration: with a session every set *)
(* on the device is of a revision that is over and stays so; without one,  *)
(* the change stays unseen, or is seen and ends the revision.              *)
(***************************************************************************)
LEMMA OnceStays ==
  ASSUME TypeInv, OnceInv, TypeInv', ~Writing, UNCHANGED landed,
         mem.revision <= mem'.revision,
         \A id \in Ids : client[id].input # None => client'[id].input = client[id].input,
         \/ session
         \/ Unseen => Unseen'
         \/ Unseen => mem.revision < mem'.revision
  PROVE  OnceInv'
<1>1. mem.revision \in Nat /\ mem'.revision \in Nat
  BY RevisionType DEF TypeInv
<1>2. SUFFICES ASSUME NEW id \in Ids, landed'[id] # 0
               PROVE  /\ landed'[id] = 1
                      /\ client'[id].input \in Input
                      /\ client'[id].input.expected <= mem'.revision
                      /\ Over(id)' \/ Unseen'
  BY DEF OnceInv
<1>3. /\ landed'[id] = 1 /\ client[id].input \in Input
      /\ client[id].input.expected <= mem.revision
      /\ Over(id) \/ Unseen
  BY <1>2 DEF OnceInv
<1>4. client'[id].input = client[id].input /\ client[id].input.expected \in Nat
  BY <1>3, NoneAssumption DEF Input
<1>5. CASE Over(id)
  BY <1>1, <1>3, <1>4, <1>5 DEF Over
<1>6. CASE ~session /\ Unseen
  BY <1>1, <1>3, <1>4, <1>6 DEF Over
<1>7. QED  BY <1>3, <1>5, <1>6 DEF Unseen

(***************************************************************************)
(* While there is a session, every set on the device but the one being     *)
(* written is of a revision that is over.                                  *)
(***************************************************************************)
LEMMA OthersAreOver ==
  ASSUME TypeInv, OnceInv, session, NEW id \in Ids, landed[id] # 0,
         Writing => job.id # id
  PROVE  /\ landed[id] = 1 /\ client[id].input \in Input
         /\ client[id].input.expected \in Nat
         /\ client[id].input.expected < mem.revision
  BY DEF OnceInv, Unseen, Over, Input

(***************************************************************************)
(* Written or restored, the device differs from the baseline in an object  *)
(* of the work buffer.                                                     *)
(***************************************************************************)
LEMMA DiffersVisibly ==
  ASSUME NEW d \in Device, NEW e \in Device, NEW o \in WorkBuffer, d[o] # e[o]
  PROVE  Content(d) # Content(e)
  BY ContentFacts

(***************************************************************************)
(* Steps of verification and restoration, and crashes in between: the set  *)
(* being written leaves the device, or its revision ends, or it is there   *)
(* for the next look to see, or the job goes on.                           *)
(***************************************************************************)
LEMMA WritingOnce ==
  ASSUME TypeInv, JobInv, ObservedInv, BindInv, IndexInv, SoleInv, SameSightInv,
         BusyInv, OnceInv, TypeInv', SyncInv, Writing,
         mem.revision <= mem'.revision,
         \A id \in Ids : client[id].input # None => client'[id].input = client[id].input,
         \A id \in Ids : id # job.id => landed'[id] = landed[id],
         landed'[job.id] # 0 =>
           /\ landed'[job.id] = landed[job.id]
           /\ \/ mem.revision < mem'.revision
              \/ Unseen'
              \/ Writing' /\ job'.id = job.id
  PROVE  OnceInv'
<1>1. mem.revision \in Nat /\ mem'.revision \in Nat
  BY RevisionType DEF TypeInv
<1>2. job # Idle /\ session /\ job.phase \in {"verify", "restore"}
  BY DEF Writing, JobInv
<1>3. /\ job.id \in Ids /\ client[job.id].input \in Input
      /\ client[job.id].input.expected \in Nat
  BY <1>2, JobInput DEF SoleInv
<1>4. client[job.id].input.expected = mem.revision
  BY <1>2 DEF BusyInv
<1>5. SUFFICES ASSUME NEW id \in Ids, landed'[id] # 0
               PROVE  /\ landed'[id] = 1
                      /\ client'[id].input \in Input
                      /\ client'[id].input.expected <= mem'.revision
                      /\ Over(id)' \/ Unseen' \/ (Writing' /\ job'.id = id)
  BY DEF OnceInv
<1>6. CASE id # job.id
  <2>1. /\ landed'[id] = 1 /\ client[id].input \in Input
        /\ client[id].input.expected \in Nat
        /\ client[id].input.expected < mem.revision
    BY <1>2, <1>5, <1>6, OthersAreOver
  <2>2. client'[id].input = client[id].input
    BY <2>1, NoneAssumption
  <2>3. QED  BY <1>1, <2>1, <2>2 DEF Over
<1>7. CASE id = job.id
  <2>1. landed'[id] = landed[id] /\ landed[id] = 1
    BY <1>5, <1>7 DEF OnceInv
  <2>2. client'[id].input = client[id].input
    BY <1>3, <1>7, NoneAssumption
  <2>3. QED  BY <1>1, <1>3, <1>4, <1>5, <1>7, <2>1, <2>2 DEF Over
<1>8. QED  BY <1>6, <1>7

(***************************************************************************)
(* What memory and file saw last, while a job writes, is its baseline; so  *)
(* if the device is not restored, it differs from both.                    *)
(***************************************************************************)
LEMMA BaselineIsSeen ==
  ASSUME TypeInv, JobInv, ObservedInv, SoleInv, SameSightInv, Writing
  PROVE  /\ session /\ {job.base, job.want} \subseteq Device
         /\ mem.lastObserved # None /\ disk.lastObserved # None
         /\ mem.lastObserved.content = Content(job.base)
         /\ disk.lastObserved.content = Content(job.base)
<1>1. session /\ {job.base, job.want} \subseteq Device
  BY DEF Writing, JobInv
<1>2. QED  BY <1>1 DEF ObservedInv, SoleInv, SameSightInv

LEMMA WrittenShows ==
  ASSUME TypeInv, JobInv, BusyInv, Writing, landed[job.id] # 0
  PROVE  Content(device) # Content(job.base)
<1>1. /\ device = job.want /\ ChangedObjects(job.want, job.base) # {}
      /\ ChangedObjects(job.want, job.base) \subseteq WorkBuffer
      /\ {job.base, job.want} \subseteq Device
  BY DEF Writing, BusyInv, JobInv
<1>2. PICK o \in WorkBuffer : job.want[o] # job.base[o]
  BY <1>1 DEF ChangedObjects
<1>3. QED  BY <1>1, <1>2, DiffersVisibly

LEMMA NextDueSight ==
  ASSUME TypeInv, ~FailingSaves, JobInv, NextDue
  PROVE  mem'.lastObserved = mem.lastObserved
<1> DEFINE index == First(job.todo)
<1>1. /\ index \in DOMAIN mem.operationSets
      /\ \/ Saved(RejectedAt(mem, index, "not_applied"))
         \/ UNCHANGED mem
  BY NextDueSaves
<1>2. StateOK(RejectedAt(mem, index, "not_applied"))
      /\ SameButSets(mem, RejectedAt(mem, index, "not_applied"))
  BY <1>1, RejectedAtOK DEF TypeInv, Acks
<1>3. QED  BY <1>1, <1>2, SavedOK DEF SameButSets

(***************************************************************************)
(* A verified write ends its revision.                                     *)
(***************************************************************************)
LEMMA VerifyRaises ==
  ASSUME TypeInv, ~FailingSaves, JobInv, BusyInv, job # Idle, job.phase = "verify",
         Settle(mem, job, [content |-> Content(device), kits |-> WritesKits])
  PROVE  mem.revision < mem'.revision
<1> DEFINE o == [content |-> Content(device), kits |-> WritesKits]
<1>1. o \in Observation /\ job \in Job /\ StateOK(mem) /\ mem.revision \in Nat
  BY ShownOK, RevisionType DEF Observation, WritesKits, TypeInv
<1>2. Changes(job)
  BY DEF BusyInv, Changes
<1>3. Settle(mem, job, o)
  OBVIOUS
<1> HIDE DEF o
<1>4. /\ Saved(SettledState(mem, job, o))
      /\ job.kind = "due" => job.index \in DOMAIN mem.operationSets
  BY <1>3, SettleSaves
<1>5. job.kind = "apply" => job.id \in Ids /\ client[job.id].input \in Input
  BY DEF JobInv
<1> DEFINE t == SettledState(mem, job, o)
<1>6. /\ StateOK(t)
      /\ t.revision = mem.revision + 1
  BY <1>1, <1>2, <1>4, <1>5, SettledOK DEF SameButSets
<1> HIDE DEF t
<1>7. mem'.revision = t.revision
  BY <1>4, <1>6, SavedOK DEF t
<1>8. QED  BY <1>1, <1>6, <1>7

LEMMA NextOnce ==
  ASSUME TypeInv, ~FailingSaves,
         JobInv, ObservedInv, SyncInv, BindInv, IndexInv, StaleInv, SessionInv,
         SoleInv, SameSightInv, BusyInv, OnceInv,
         ~SlowPersists, ~BlindClients, SoleWriter, [Next]_vars, TypeInv'
  PROVE  OnceInv'
<1>0. /\ mem.revision <= mem'.revision
      /\ \A id \in Ids : client[id].input # None => client'[id].input = client[id].input
  BY InputsStay
<1>1. ~PanelEdit /\ ~RollbackSnapshot
  <2>1. Budget["panelEdits"] = 0
    BY DEF Budget, SoleWriter
  <2>2. spent["panelEdits"] \in Nat
    BY DEF SoleInv, Purses
  <2>3. QED  BY <2>1, <2>2 DEF PanelEdit, Spend, RollbackSnapshot, SoleWriter
<1>2. CASE UNCHANGED vars
  BY <1>2 DEF vars, OnceInv, Over, Unseen, Writing
<1>3. CASE LoseSession \/ Inspect \/ CreateSnapshot \/ StartTransport \/ StopOrContinue
             \/ RequestPattern \/ SetActiveScene \/ Queue \/ ApplyNow \/ Poll
  <2>1. job = Idle /\ UNCHANGED landed
    BY <1>3 DEF LoseSession, Inspect, CreateSnapshot, StartTransport, StopOrContinue,
      RequestPattern, SetActiveScene, Queue, ApplyNow, Poll, history
  <2>2. session
    BY <1>3 DEF LoseSession, Inspect, CreateSnapshot, StartTransport, StopOrContinue,
      RequestPattern, SetActiveScene, Queue, ApplyNow, Poll
  <2>3. QED  BY <1>0, <2>1, <2>2, OnceStays DEF Writing
<1>4. CASE Reconnect
  <2>1. job = Idle /\ UNCHANGED landed /\ Saved(Reconnected(mem, device))
    BY <1>4, NoFailure DEF Reconnect
  <2>2. StateOK(Reconnected(mem, device)) /\ mem.revision \in Nat
    BY ReconnectedOK, RevisionType DEF TypeInv
  <2>3. Unseen => mem.revision < mem'.revision
    BY <2>1, <2>2, DriftIsSeen, SavedOK DEF Unseen, TypeInv
  <2>4. QED  BY <1>0, <2>1, <2>3, OnceStays DEF Writing
<1>5. CASE NextDue
  <2>1. job # Idle /\ job.phase = "next" /\ UNCHANGED <<device, session, landed>>
    BY <1>5 DEF NextDue, history
  <2>2. mem'.lastObserved = mem.lastObserved
    BY <1>5, NextDueSight
  <2>3. QED  BY <1>0, <2>1, <2>2, OnceStays DEF Writing, Unseen
<1>6. CASE Capture
  <2>1. /\ job # Idle /\ job.phase = "read" /\ UNCHANGED landed
        /\ session \/ job.kind # "due" \/ SlowPersists
    BY <1>6 DEF Capture
  <2>2. session
    BY <2>1 DEF SessionInv
  <2>3. QED  BY <1>0, <2>1, <2>2, OnceStays DEF Writing
<1>7. CASE CaptureFails
  <2>1. PICK lost \in BOOLEAN : Fail(job, lost, "not_applied")
    BY <1>7 DEF CaptureFails, TypeInv
  <2>2. job # Idle /\ job.phase = "read" /\ UNCHANGED <<device, landed>>
    BY <1>7 DEF CaptureFails, history
  <2>3. mem'.lastObserved = mem.lastObserved /\ session' = (session /\ ~lost)
    BY <2>1, FailKeeps DEF Acks
  <2>4. QED  BY <1>0, <2>2, <2>3, OnceStays DEF Writing, Unseen
<1>8. CASE Write
  <2>1. /\ job # Idle /\ job.phase = "write" /\ job \in Job /\ session
        /\ UNCHANGED <<mem, client, session>>
    BY <1>8 DEF Write, TypeInv, JobInv
  <2>2. job.id \in Ids /\ client[job.id].input \in Input
    BY <2>1, JobInput DEF SoleInv
  <2>3. client[job.id].input.expected = mem.revision /\ mem.revision \in Nat
    BY <2>1, RevisionType DEF BusyInv, TypeInv
  <2>4. landed[job.id] = 0
    BY <2>1, <2>2, <2>3, OthersAreOver DEF Writing
  <2>5. landed' = [landed EXCEPT ![job.id] = @ + 1]
    BY <1>8, <2>2, NoneAssumption DEF Write
  <2>6. job'.phase = "verify" /\ job'.id = job.id /\ job' # Idle
    BY <1>8, <2>1, IdleAssumption DEF Write, Job
  <2>7. SUFFICES ASSUME NEW id \in Ids, landed'[id] # 0
                 PROVE  /\ landed'[id] = 1
                        /\ client[id].input \in Input
                        /\ client[id].input.expected <= mem.revision
                        /\ Over(id) \/ (Writing' /\ job'.id = id)
    BY <2>1 DEF OnceInv, Over
  <2>8. CASE id = job.id
    BY <2>2, <2>3, <2>4, <2>5, <2>6, <2>8 DEF Writing, TypeInv
  <2>9. CASE id # job.id
    <3>1. landed'[id] = landed[id]
      BY <2>5, <2>9 DEF TypeInv
    <3>2. ~Writing
      BY <2>1 DEF Writing
    <3>3. QED  BY <2>1, <2>3, <2>7, <3>1, <3>2, OthersAreOver DEF Over
  <2>10. QED  BY <2>8, <2>9
<1>9. CASE WriteFails
  <2>1. job # Idle /\ job.phase = "write" /\ UNCHANGED landed /\ session
    BY <1>9 DEF WriteFails, JobInv
  <2>2. QED  BY <1>0, <2>1, OnceStays DEF Writing
<1>10. CASE Verify
  <2>1. /\ job # Idle /\ job.phase = "verify" /\ job \in Job /\ Writing
        /\ UNCHANGED landed /\ device = job.want
    BY <1>10 DEF Verify, TypeInv, Writing, BusyInv
  <2>2. Settle(mem, job, [content |-> Content(device), kits |-> WritesKits])
    BY <1>10, <2>1 DEF Verify, Matches
  <2>3. mem.revision < mem'.revision
    BY <2>1, <2>2, VerifyRaises
  <2>4. QED  BY <1>0, <2>1, <2>3, WritingOnce
<1>11. CASE VerifyFails
  <2>1. /\ job # Idle /\ job.phase = "verify" /\ job \in Job /\ Writing
        /\ UNCHANGED landed
    BY <1>11 DEF VerifyFails, TypeInv, Writing
  <2>2. PICK lost \in BOOLEAN : job' = Restoring(lost)
    BY <1>11, <2>1 DEF VerifyFails, Unverified, SoleInv, Restoring
  <2>3. job'.phase = "restore" /\ job'.id = job.id /\ job' # Idle
    BY <2>1, <2>2, RestoringOK, IdleAssumption
  <2>4. QED  BY <1>0, <2>1, <2>3, WritingOnce DEF Writing
<1>12. CASE Restore
  <2>1. Writing /\ landed' = Undone(job.id) /\ job # Idle /\ job.phase = "restore"
    BY <1>12 DEF Restore, Writing
  <2>2. job.id \in Ids
    BY <2>1, JobInput DEF SoleInv
  <2>3. landed[job.id] \in {0, 1}
    BY <2>2 DEF OnceInv
  <2>4. landed'[job.id] = 0 /\ \A id \in Ids : id # job.id => landed'[id] = landed[id]
    BY <2>1, <2>2, <2>3, UndoneOK
  <2>5. QED  BY <1>0, <2>1, <2>4, WritingOnce
<1>13. CASE RestoreFails
  <2> DEFINE S == ChangedObjects(job.want, job.base)
  <2>1. /\ Writing /\ job # Idle /\ job.phase = "restore"
        /\ Fail(job, TRUE, "rollback_failed")
    BY <1>13 DEF RestoreFails, Writing
  <2>2. PICK P \in SUBSET S :
          /\ device' = Written(device, job.base, P)
          /\ landed' = IF P = S THEN Undone(job.id) ELSE landed
    BY <1>13 DEF RestoreFails, SentBefore
  <2>3. job.id \in Ids
    BY <2>1, JobInput DEF SoleInv
  <2>4. landed[job.id] \in {0, 1}
    BY <2>3 DEF OnceInv
  <2>5. CASE P = S
    <3>1. landed'[job.id] = 0 /\ \A id \in Ids : id # job.id => landed'[id] = landed[id]
      BY <2>2, <2>3, <2>4, <2>5, UndoneOK
    <3>2. QED  BY <1>0, <2>1, <3>1, WritingOnce
  <2>6. CASE P # S
    <3>1. landed' = landed
      BY <2>2, <2>6
    <3>2. /\ mem'.lastObserved = mem.lastObserved /\ session' = FALSE
      BY <2>1, FailKeeps DEF Acks
    <3>3. /\ {job.base, job.want} \subseteq Device
          /\ mem.lastObserved # None /\ mem.lastObserved.content = Content(job.base)
      BY <2>1, BaselineIsSeen
    <3>4. ASSUME landed[job.id] # 0  PROVE  Content(device') # Content(job.base)
      <4>1. device = job.want /\ S \subseteq WorkBuffer
        BY <2>1, <3>4 DEF BusyInv
      <4>2. PICK o \in WorkBuffer : o \in S /\ o \notin P
        BY <2>2, <2>6, <4>1
      <4>3. device'[o] = job.want[o]
        BY <2>2, <3>3, <4>1, <4>2, ContentFacts
      <4>4. job.want[o] # job.base[o]
        BY <4>2 DEF ChangedObjects
      <4>5. device' \in Device
        BY DEF TypeInv
      <4>6. QED  BY <3>3, <4>3, <4>4, <4>5, DiffersVisibly
    <3>5. landed[job.id] # 0 => Unseen'
      BY <3>2, <3>3, <3>4 DEF Unseen
    <3>6. QED  BY <1>0, <2>1, <3>1, <3>5, WritingOnce
  <2>7. QED  BY <2>5, <2>6
<1>14. CASE Restart
  <2>1. UNCHANGED <<device, landed>> /\ session' = FALSE
    BY <1>14 DEF Restart, history
  <2>2. CASE Crash
    <3>1. mem' = disk
      BY <2>2 DEF Crash
    <3>2. CASE ~Writing
      <4>1. Unseen => Unseen'
        BY <2>1, <3>1 DEF Unseen, SameSightInv
      <4>2. QED  BY <1>0, <2>1, <3>2, <4>1, OnceStays
    <3>3. CASE Writing
      <4>1. /\ disk.lastObserved # None
            /\ disk.lastObserved.content = Content(job.base)
        BY <3>3, BaselineIsSeen
      <4>2. landed[job.id] # 0 => Unseen'
        BY <2>1, <3>1, <3>3, <4>1, WrittenShows DEF Unseen
      <4>3. QED  BY <1>0, <2>1, <3>3, <4>2, WritingOnce
    <3>4. QED  BY <3>2, <3>3
  <2>3. CASE Shutdown
    <3>1. job = Idle /\ Saved(Silent(mem))
      BY <2>3 DEF Shutdown
    <3>2. mem'.lastObserved = mem.lastObserved
      BY <3>1, SilentOK, SavedOK DEF TypeInv, SameButTransport
    <3>3. Unseen => Unseen'
      BY <2>1, <3>2 DEF Unseen
    <3>4. QED  BY <1>0, <2>1, <3>1, <3>3, OnceStays DEF Writing
  <2>4. QED  BY <1>14, <2>2, <2>3 DEF Restart
<1>15. QED
  BY <1>1, <1>2, <1>3, <1>4, <1>5, <1>6, <1>7, <1>8, <1>9, <1>10, <1>11, <1>12, <1>13,
     <1>14, NoneUnsaved
  DEF Next, Client, DaemonStep, Trouble

(***************************************************************************)
(* A set whose write is about to begin is not on the device.               *)
(***************************************************************************)
LEMMA NotYetLanded ==
  ASSUME TypeInv, JobInv, BindInv, IndexInv, SoleInv, BusyInv, OnceInv,
         job # Idle, job.phase = "write"
  PROVE  job.id \in Ids /\ landed[job.id] = 0
<1>1. job.id \in Ids /\ client[job.id].input.expected \in Nat /\ session
  BY JobInput DEF SoleInv, JobInv
<1>2. client[job.id].input.expected = mem.revision
  BY DEF BusyInv
<1>3. QED  BY <1>1, <1>2, OthersAreOver DEF Writing

(***************************************************************************)
(* What a set wants differs from what was read in the objects it edits, at *)
(* most.                                                                   *)
(***************************************************************************)
LEMMA WantsVisible ==
  ASSUME TypeInv, JobInv, EditsAreSeen, job # Idle, job.phase = "read",
         job.kind # "rollback"
  PROVE  ChangedObjects(Wanted(job), device) \subseteq WorkBuffer
<1>1. job.kind \in {"apply", "due"}
  BY DEF TypeInv, Job
<1>2. PICK edit \in Edits : Wanted(job) = Edited(device, edit)
  <2>1. CASE job.kind = "apply"
    <3>1. client[job.id].input.edit \in Edits
      BY <2>1 DEF JobInv, Input
    <3>2. QED  BY <2>1, <3>1 DEF Wanted
  <2>2. CASE job.kind = "due"
    <3>1. mem.operationSets \in Seq(OperationSet)
          /\ job.index \in DOMAIN mem.operationSets
      BY <2>2 DEF JobInv, TypeInv, StateOK, State
    <3>2. mem.operationSets[job.index] \in OperationSet
      BY <3>1
    <3>3. mem.operationSets[job.index].input.edit \in Edits
      BY <3>2 DEF OperationSet, Input
    <3>4. QED  BY <2>2, <3>3 DEF Wanted
  <2>3. QED  BY <1>1, <2>1, <2>2
<1>3. \A o \in Objects \ DOMAIN edit : Edited(device, edit)[o] = device[o]
  BY DEF Edited
<1>4. QED  BY <1>2, <1>3 DEF ChangedObjects, EditsAreSeen

LEMMA CaptureBusy ==
  ASSUME TypeInv, ~FailingSaves,
         JobInv, SessionInv, StaleInv, BindInv, IndexInv, SoleInv, EditsAreSeen,
         ~SlowPersists, Capture
  PROVE  BusyInv'
<1>1. /\ job # Idle /\ job.phase = "read" /\ job.kind # "rollback"
      /\ session
      /\ \/ Settle(CapturedState, CapturedJob, CapturedSummary)
         \/ /\ CapturedJob.want # CapturedJob.base
            /\ job' = [CapturedJob EXCEPT !.phase = "write"]
            /\ UNCHANGED <<mem, client, device>>
  BY CaptureParts DEF SessionInv, SoleInv
<1>2. /\ CapturedJob \in Job /\ CapturedJob.id = job.id
      /\ CapturedJob.base = device /\ CapturedJob.want = Wanted(job)
      /\ Wanted(job) \in Device
  BY <1>1, CapturedOK
<1>3. CASE Settle(CapturedState, CapturedJob, CapturedSummary)
  BY <1>2, <1>3, RestOK DEF Settle, GoOn, BusyInv
<1>4. CASE /\ CapturedJob.want # CapturedJob.base
           /\ job' = [CapturedJob EXCEPT !.phase = "write"]
           /\ UNCHANGED <<mem, client, device>>
  <2>1. /\ job'.phase = "write" /\ job'.id = job.id
        /\ job'.base = device /\ job'.want = Wanted(job)
    BY <1>2, <1>4 DEF Job
  <2>2. client[job.id].input.expected = mem.revision
    BY <1>1, JobInput DEF StaleInv
  <2>3. ChangedObjects(Wanted(job), device) # {}
    BY <1>2, <1>4 DEF ChangedObjects, Device, TypeInv
  <2>4. ChangedObjects(Wanted(job), device) \subseteq WorkBuffer
    BY <1>1, WantsVisible
  <2>5. QED  BY <1>4, <2>1, <2>2, <2>3, <2>4 DEF BusyInv
<1>5. QED  BY <1>1, <1>3, <1>4

LEMMA NextBusy ==
  ASSUME TypeInv, ~FailingSaves, JobInv, BindInv, IndexInv, StaleInv, SessionInv,
         SoleInv, BusyInv, OnceInv,
         ~SlowPersists, SoleWriter, EditsAreSeen, [Next]_vars
  PROVE  BusyInv'
<1>1. ~PanelEdit
  <2>1. Budget["panelEdits"] = 0
    BY DEF Budget, SoleWriter
  <2>2. spent["panelEdits"] \in Nat
    BY DEF SoleInv, Purses
  <2>3. QED  BY <2>1, <2>2 DEF PanelEdit, Spend
<1>2. CASE UNCHANGED vars
  BY <1>2 DEF vars, BusyInv
<1>3. ASSUME NEW j, j \in Job, job' = Rest(j)
      PROVE  BusyInv'
  BY <1>3, RestOK DEF BusyInv
<1>4. ASSUME NEW lost, NEW ack, Fail(job, lost, ack), job # Idle
      PROVE  BusyInv'
  BY <1>3, <1>4 DEF Fail, GoOn, TypeInv, BusyInv
<1>5. CASE Client \/ Reconnect \/ LoseSession \/ Restart
  <2>1. CASE ApplyNow \/ RollbackSnapshot
    <3>1. \E kind, id : job' = NewJob(kind, "read", id, 0, {})
      BY <2>1, ApplyNowParts DEF RollbackSnapshot
    <3>2. job'.phase = "read"
      BY <3>1 DEF NewJob
    <3>3. QED  BY <3>2 DEF BusyInv
  <2>2. CASE Inspect \/ CreateSnapshot \/ Queue \/ StartTransport \/ StopOrContinue
               \/ RequestPattern \/ SetActiveScene \/ Reconnect \/ LoseSession \/ Restart
    <3>1. job' = Idle
      BY <2>2 DEF Inspect, CreateSnapshot, Queue, StartTransport, StopOrContinue,
        RequestPattern, SetActiveScene, Reconnect, LoseSession, Restart
    <3>2. QED  BY <3>1 DEF BusyInv
  <2>3. QED  BY <1>5, <2>1, <2>2, NoneUnsaved DEF Client
<1>6. CASE Poll
  BY <1>6 DEF Poll, NewJob, BusyInv
<1>7. CASE NextDue
  <2>1. [job EXCEPT !.todo = Remaining(job)] \in Job
    BY <1>7, NextDueSaves
  <2>2. CASE job' = Rest([job EXCEPT !.todo = Remaining(job)])
    BY <1>3, <2>1, <2>2
  <2>3. CASE job' # Idle => job'.phase = "read"
    BY <2>3 DEF BusyInv
  <2>4. QED  BY <1>7, <2>2, <2>3, NextDueSaves DEF NewJob
<1>8. CASE Capture
  BY <1>8, CaptureBusy
<1>9. CASE Write
  <2>1. /\ job # Idle /\ job.phase = "write" /\ job \in Job
        /\ {job.base, job.want} \subseteq Device /\ device = job.base
        /\ UNCHANGED <<mem, client>>
    BY <1>9 DEF Write, TypeInv, JobInv, BusyInv
  <2>2. /\ job'.phase = "verify" /\ job'.id = job.id
        /\ job'.base = job.base /\ job'.want = job.want
    BY <1>9, <2>1 DEF Write, Job
  <2>3. device' = job.want
    BY <1>9, <2>1 DEF Write, Written, ChangedObjects, Device
  <2>4. QED  BY <2>1, <2>2, <2>3 DEF BusyInv
<1>10. ASSUME job # Idle, NEW lost \in BOOLEAN, Unverified(lost), UNCHANGED <<client, landed>>,
              job.phase \in {"write", "verify"},
              landed[job.id] # 0 => device' = job.want
       PROVE  BusyInv'
  <2>1. job' = Restoring(lost) /\ UNCHANGED mem /\ job \in Job
    BY <1>10 DEF Unverified, SoleInv, Restoring, TypeInv
  <2>2. /\ job'.phase = "restore" /\ job'.id = job.id
        /\ job'.base = job.base /\ job'.want = job.want
    BY <2>1 DEF Restoring, Job
  <2>3. QED  BY <1>10, <2>1, <2>2 DEF BusyInv
<1>11. CASE WriteFails
  <2>1. job # Idle /\ job.phase = "write" /\ landed[job.id] = 0
    BY <1>11, NotYetLanded DEF WriteFails
  <2>2. QED  BY <1>10, <1>11, <2>1 DEF WriteFails
<1>12. CASE VerifyFails
  BY <1>10, <1>12 DEF VerifyFails, BusyInv
<1>13. CASE Verify
  <2>1. job # Idle /\ device = job.want /\ job \in Job
    BY <1>13 DEF Verify, BusyInv, TypeInv
  <2>2. job' = Rest(job)
    BY <1>13, <2>1, SettleSaves DEF Verify, Matches
  <2>3. QED  BY <1>3, <2>1, <2>2
<1>14. CASE CaptureFails \/ Restore \/ RestoreFails
  BY <1>4, <1>14 DEF CaptureFails, Restore, RestoreFails
<1>15. QED
  BY <1>1, <1>2, <1>5, <1>6, <1>7, <1>8, <1>9, <1>11, <1>12, <1>13, <1>14,
     NoneUnsaved
  DEF Next, DaemonStep, Trouble

LEMMA InitOnce == Init => SoleInv /\ SameSightInv /\ BusyInv /\ OnceInv /\ SessionInv
<1> SUFFICES ASSUME Init
             PROVE  SoleInv /\ SameSightInv /\ BusyInv /\ OnceInv /\ SessionInv
  OBVIOUS
<1>1. spent \in [Purses -> Nat]
  BY DEF Init, Budget, Purses
<1>2. mem.lastObserved = None
  BY DEF Init, EmptyState
<1>3. QED
  BY <1>1, <1>2 DEF Init, SoleInv, SameSightInv, BusyInv, OnceInv, SessionInv

(***************************************************************************)
(* No operation set is on the device twice, though the request for it may  *)
(* be repeated, writes and restorations may break off, and the daemon may  *)
(* die between any two steps of a write: whoever finds the device changed  *)
(* by a write that nobody acknowledged ends the revision the write was     *)
(* prepared against, and no write is started against one that is over.     *)
(* This takes that sets change only what every inspection reads and that   *)
(* nobody else, nor a rollback, moves the device back to what was last     *)
(* observed; it excludes what lets a write start in a revision that is     *)
(* over, a session opened between the check and the write; and it takes    *)
(* that saves succeed: a set that was applied and whose save failed is     *)
(* unknown after a crash.                                                  *)
(***************************************************************************)
THEOREM WritesLandOnce ==
  /\ ~FailingSaves /\ ~SlowPersists /\ ~BlindClients
  /\ SoleWriter /\ EditsAreSeen
  => (Spec => []WrittenOnce)
<1> DEFINE IInv == /\ TypeInv /\ JobInv /\ ObservedInv /\ SyncInv /\ BindInv
                   /\ IndexInv /\ StaleInv /\ SessionInv
                   /\ SoleInv /\ SameSightInv /\ BusyInv /\ OnceInv
<1> SUFFICES ASSUME ~FailingSaves, ~SlowPersists, ~BlindClients, SoleWriter,
                    EditsAreSeen
             PROVE  Spec => []WrittenOnce
  OBVIOUS
<1>1. Init => IInv
  BY InitTypes, InitObserved, InitSync, InitBind, InitIndex, InitStale, InitOnce
<1>2. IInv /\ [Next]_vars => IInv'
  <2>1. ASSUME IInv, [Next]_vars  PROVE  IInv'
    <3>1. TypeInv' /\ JobInv'
      BY <2>1, NextTypes
    <3>2. ObservedInv' /\ SyncInv' /\ BindInv' /\ IndexInv'
      BY <2>1, NextObserved, NextSync, NextBind, NextIndex
    <3>3. StaleInv' /\ SessionInv'
      BY <2>1, NextStale, NextSession
    <3>4. SoleInv' /\ SameSightInv'
      BY <2>1, <3>1, NextSole, NextSameSight
    <3>5. BusyInv' /\ OnceInv'
      BY <2>1, <3>1, NextBusy, NextOnce
    <3>6. QED  BY <3>1, <3>2, <3>3, <3>4, <3>5
  <2>2. QED  BY <2>1
<1>3. IInv => WrittenOnce
  BY DEF OnceInv, WrittenOnce, TypeInv
<1>4. QED  BY <1>1, <1>2, <1>3, PTL DEF Spec
=============================================================================
