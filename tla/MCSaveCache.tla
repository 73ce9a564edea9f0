---------------------------- MODULE MCSaveCache -----------------------------
(* Two sets of one slot.  Lines a and b compete for the first, so that     *)
(* evictions happen; c has the second to itself and can be written while   *)
(* the first is being flushed.                                             *)
EXTENDS SaveCache
CONSTANTS a, b, c
MCLines == {a, b, c}
MCValues == {0, 1}
MCBlockOf == [l \in MCLines |-> IF l = b THEN 1 ELSE 0]
MCSetOf == [l \in MCLines |-> IF l = c THEN 1 ELSE 0]
=============================================================================
