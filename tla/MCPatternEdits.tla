-------------------------- MODULE MCPatternEdits ---------------------------
(***************************************************************************)
(* Model-checking instances of PatternEdits: the operations on one track   *)
(* of two steps, alone, in pairs of one on a trig and one on a lock, and a *)
(* purge between two locks.                                                *)
(***************************************************************************)
EXTENDS PatternEdits

Ats == Tracks \X Steps

TrigOps ==
  [op: {"set_trig"}, pattern: {None}, at: Ats, velocity: {1},
   condition: {None}]
    \cup [op: {"set_trig"}, pattern: {None}, at: Ats, velocity: {None},
          condition: {TRUE}]
    \cup [op: {"clear_trig"}, pattern: {None}, at: Ats]

LockOps ==
  [op: {"set_parameter_lock"}, pattern: {None}, at: Ats,
   parameter: Parameters, value: {0, Top}]
    \cup [op: {"clear_parameter_lock"}, pattern: {None}, at: Ats,
          parameter: Parameters]

FullLocks ==
  {a \in LockOps : a.op = "set_parameter_lock" /\ a.value = Top}

Purge == [op |-> "clear_pattern_plocks", pattern |-> None]

OtherOps ==
  [op: {"clear_pattern_plocks", "copy_pattern"}, pattern: {None}]
    \cup [op: {"set_track_length"}, pattern: {"other"}, at: {<<0, 1>>},
          value: {1}]
    \cup [op: {"set_track_length"}, pattern: {"work buffer"}, at: {<<0, 1>>},
          value: {1}]
    \cup [op: {"set_pattern_kit"}, pattern: {None}, value: {2}]
    \cup [op: {"set_parameter_lock"}, pattern: {None}, at: {<<0, 1>>},
          parameter: {"synth"}, value: {0}]

Pairs(A, B) == {<<a, b>> : a \in A, b \in B}

MCSets ==
  {<<a>> : a \in TrigOps \cup LockOps \cup OtherOps}
    \cup {<<a, b>> \in Pairs(TrigOps, LockOps) \cup Pairs(LockOps, TrigOps) :
            a.at = b.at}
    \cup Pairs({a \in TrigOps : a.op = "set_trig"}, OtherOps)
    \cup {<<a, Purge, b>> : a \in FullLocks, b \in FullLocks}
=============================================================================
