---------------------------- MODULE MCCartImport ----------------------------
(* Every mapper with RAM in several banks, clocks with and without a save, *)
(* and cartridges that claim a clock and have none.  The clocks and the    *)
(* states sent stand before every carry, at zero, halted, and out of range.*)
EXTENDS CartImport

C(type, romCode, ramCode, chip) ==
  [type |-> type, romCode |-> romCode, ramCode |-> ramCode, chip |-> chip]
T(d, h, m, s, halt, carry) ==
  [d |-> d, h |-> h, m |-> m, s |-> s, halt |-> halt, carry |-> carry]

MCCarts == {C(\h10, 2, 3, "clock"), C(\h10, 7, 5, "clock"), C(\h0F, 1, 0, "clock"),
            C(\h10, 2, 2, "ram"), C(\h10, 2, 3, "ram"), C(\h03, 2, 3, "none"),
            C(\h06, 2, 0, "none"), C(\h1B, 2, 4, "none"), C(\hFF, 2, 3, "none"),
            C(\h09, 0, 2, "none")}
MCClocks == {T(0, 0, 0, 0, FALSE, FALSE), T(511, 23, 59, 59, FALSE, FALSE),
             T(300, 4, 0, 7, TRUE, TRUE)}
MCSent == {T(511, 23, 59, 59, FALSE, FALSE), T(255, 23, 59, 59, FALSE, TRUE),
           T(7, 8, 59, 59, TRUE, FALSE), T(0, 0, 0, 0, FALSE, FALSE),
           T(1, 2, 3, 60, FALSE, FALSE)}
=============================================================================
