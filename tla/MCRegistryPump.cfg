SPECIFICATION PumpFairSpec
CONSTANTS
  Updates = {a, b}
  Nil = Nil
  MaxPushes = 4
INVARIANTS PumpTypeOK NoSleepOnUpdates
PROPERTIES ImplementsLosslessQueue AllDelivered StopEndsPump
CHECK_DEADLOCK FALSE
