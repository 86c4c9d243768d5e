SPECIFICATION Spec
INVARIANT ReturnsNextMessage
CONSTANTS
  Conv = {c1}
  Updater = {u1}
  Direct = {u1}
  Observer = {o1}
  Waiter = {w1}
  Watches <- WaitsForAny
  Polled = {}
  NDEBUG = TRUE
  Reopens = FALSE
  MaxMessages = 1
  Free = Free
CHECK_DEADLOCK FALSE
