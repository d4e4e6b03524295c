---------------------------- MODULE MCMockBridge ----------------------------
(***************************************************************************)
(* Model-checking instance of MockBridge: two Patterns of four steps, a    *)
(* Song of at most two rows, and two sets out of eleven.                   *)
(***************************************************************************)
EXTENDS MockBridge

CONSTANTS A, B

SetTrig(p, v) == [op |-> "set_trig", pattern |-> p, velocity |-> v]
SetKit(k, v) == [op |-> "set_kit_parameter", kit |-> k, value |-> v]
InsertRow(n) == [op |-> "insert_song_row", row |-> n, value |-> 1]
On(kind) == [kind |-> kind]
AtStep(n) == [kind |-> "pattern_step", epoch |-> 0, pattern |-> A, step |-> n]

Set(at, ops) == [at |-> at, ops |-> ops]

MCSets ==
  {Set(On("next_step"), <<SetTrig(None, None)>>),
   Set(On("next_step"), <<[op |-> "set_parameter_lock", pattern |-> B,
                           value |-> 1],
                          [op |-> "copy_pattern", source |-> B, target |-> A]>>),
   Set(On("next_beat"), <<SetKit(1, 0)>>),
   Set(On("next_measure"), <<SetKit(None, 1), SetTrig(A, 1)>>),
   Set(On("next_pattern"), <<[op |-> "clear_trig", pattern |-> None]>>),
   Set(AtStep(1), <<InsertRow(0)>>),
   Set(AtStep(1), <<SetTrig(B, 0),
                    [op |-> "clear_pattern_plocks", pattern |-> B]>>),
   Set(On("next_step"), <<InsertRow(0), [op |-> "copy_song_row", row |-> 0,
                                         target |-> 1]>>),
   Set(On("next_step"), <<SetTrig(A, 0), [op |-> "remove_song_row", row |-> 0]>>),
   Set(On("next_beat"), <<[op |-> "update_song_row", row |-> 1, value |-> 0],
                          [op |-> "move_song_row", row |-> 1, target |-> 0]>>),
   Set(AtStep(3), <<[op |-> "replace_song", rows |-> <<0>>]>>)}

Symmetry == Permutations(Ids)
=============================================================================
