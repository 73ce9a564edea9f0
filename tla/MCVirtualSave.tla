--------------------------- MODULE MCVirtualSave ----------------------------
(* Two games, a save of two blocks of one line. *)
EXTENDS VirtualSave, TLC
CONSTANTS g, h, a, b
MCLines == {a, b}
MCValues == {g, h} \X (0 .. MaxWrites)
MCBlockOf == [l \in MCLines |-> IF l = a THEN 0 ELSE 1]
MCNextBlock == [n \in {0, 1} |-> IF n = 0 THEN 1 ELSE None]
Symmetry == Permutations({g, h})
MCNextSequence == [q \in {1, 2} |-> 3 - q]
=============================================================================
