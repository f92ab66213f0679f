CONSTANTS
  Slots       = 2
  IntMax      = 3
  DatagramCap = 1
  Fds         = {3, 4, 5}
  Programs    <- MCPrograms
  Datagrams   <- MCDatagrams
  MaxSignals  = 1
  MaxTime     = 6
SPECIFICATION Spec
INVARIANTS
  TimeoutsAreExact
  OnlySharersOverstay
  SlotsBelong
  StagedIsOurs
  NoSocketLeaks
PROPERTY WaitsEnd
\* A read that blocks on a discarded datagram may wait for ever.
CHECK_DEADLOCK FALSE
