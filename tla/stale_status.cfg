SPECIFICATION Spec
INVARIANT StatusReflectsNotifications
CONSTANTS
  Conv = {c1}
  Updater = {u1}
  Direct = {}
  Observer = {o1}
  Waiter = {w1}
  Watches <- WaitsForAny
  Polled = {}
  NDEBUG = FALSE
  Reopens = FALSE
  MaxMessages = 2
  Free = Free
CHECK_DEADLOCK FALSE
