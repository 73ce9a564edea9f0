------------------------------ MODULE RangeRead -----------------------------
(* What a range read promises its caller: the blocks of the range, each    *)
(* once and in order, or a failure.  Nothing of another range, nothing     *)
(* twice, and no success before the last block.                            *)
EXTENDS Naturals

CONSTANTS Counts

VARIABLES
  size,      (* blocks of the range being read, 0 if there is none *)
  taken      (* blocks the caller has got of it *)

RInit == size = 0 /\ taken = 0

Begin == /\ size = 0
         /\ size' \in Counts
         /\ taken' = 0

Take == /\ taken < size
        /\ taken' = taken + 1
        /\ size' = size

Finish == /\ size # 0 /\ taken = size
          /\ size' = 0 /\ taken' = 0

Fail == /\ size # 0
        /\ size' = 0 /\ taken' = 0

RNext == Begin \/ Take \/ Finish \/ Fail

RSpec == RInit /\ [][RNext]_<<size, taken>>
=============================================================================
