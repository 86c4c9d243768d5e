SPECIFICATION PolledSpec
INVARIANTS InOrder StatusSettles
PROPERTIES LifecycleSpec UpdatesEnd PollingGetsAll
CONSTANTS
  Conv = {c1}
  Updater = {u1, u2}
  Direct = {u1}
  Observer = {o1, o2}
  Waiter = {w1}
  Watches <- WaitsForAny
  Polled = {o1}
  NDEBUG = TRUE
  Reopens = TRUE
  MaxMessages = 2
  Free = Free
CHECK_DEADLOCK FALSE
