CONSTANTS
  Carts <- MCCarts
  Clocks <- MCClocks
  Sent <- MCSent
  MaxFaults = 2
  MaxTicks = 2
SPECIFICATION Spec
INVARIANTS
  ImportIsExact
  UntouchedUntilChecked
  ClockNeverCostsSave
  FailsForAReason
CHECK_DEADLOCK FALSE
