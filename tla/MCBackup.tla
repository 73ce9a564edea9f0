------------------------------ MODULE MCBackup ------------------------------
(* Every mapper with its largest ROM and RAM is read once without errors;  *)
(* one error at any bank is tried on the MBC1, whose plans are the most    *)
(* intricate; runs that fail and are repeated need two banks only, with    *)
(* and without a clock.                                                    *)
EXTENDS Backup
CONSTANTS MaxRuns, MaxFaults, MaxCuts

H(type, romCode, ramCode) == [type |-> type, romCode |-> romCode, ramCode |-> ramCode]
Once(errors) == [runs |-> 1, faults |-> errors, cuts |-> 0]
Again(errors) == [runs |-> MaxRuns, faults |-> errors, cuts |-> MaxCuts]

Twice == {H(\h03, 0, 2)}
Clock == {H(\h10, 0, 2)}
Long == {H(\h03, 6, 3)}
Single == {H(\h01, \h52, 0), H(\h06, 3, 0), H(\h09, 0, 2), H(\h19, 0, 0),
           H(\h10, 7, 5), H(\h13, 6, 3), H(\h1B, 8, 4), H(\h1E, 4, 5),
           H(\hFF, 5, 3), H(\h0B, 1, 0), H(\h06, 4, 0)}

MCLimits == [h \in Twice \cup Clock \cup Long \cup Single |->
               CASE h \in Twice  -> Again(MaxFaults)
                 [] h \in Clock  -> Again(1)
                 [] h \in Long   -> Once(1)
                 [] h \in Single -> Once(0)]
=============================================================================
