------------------------- MODULE MCHardwareControl -------------------------
(***************************************************************************)
(* Model-checking instances of HardwareControl: contents are numbers, of   *)
(* which one makes the pattern shorter, and clients ask for edits that set *)
(* an object to a content (idempotent), change it whatever it is, or move  *)
(* it on (like the insertion of a Song row).                               *)
(***************************************************************************)
EXTENDS HardwareControl, TLC

CONSTANTS a, b, c, A01, pattern, song, kit, MaxValue

Symmetry == Permutations(Ids)

MCValues == 0..MaxValue

MCSlotOf == [v \in MCValues |-> A01]

MCLengthOf == [v \in MCValues |-> IF v = MaxValue THEN 1 ELSE 2]

SetTo(v) == [w \in MCValues |-> v]

Insert == [w \in MCValues |-> IF w < MaxValue THEN w + 1 ELSE w]

On(o, f) == [p \in {o} |-> f]

PatternSet == {On(pattern, SetTo(1))}

PatternInserts == {On(pattern, Insert)}

PatternFlip == {On(pattern, [w \in MCValues |-> MaxValue - w])}

SongEdits == {On(song, Insert)}

KitSet == {On(kit, SetTo(1))}

PatternAndKitSet == {[o \in {pattern, kit} |-> SetTo(1)]}
=============================================================================
