SPECIFICATION Spec
INVARIANT IteratorValid
CONSTANTS
  Conv = {c1}
  Updater = {u1}
  Direct = {u1}
  Observer = {o1}
  Waiter = {}
  Watches <- WaitsForAny
  Polled = {o1}
  NDEBUG = TRUE
  Reopens = FALSE
  MaxMessages = 1
  Free = Free
CHECK_DEADLOCK FALSE
