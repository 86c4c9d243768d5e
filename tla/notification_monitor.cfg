SPECIFICATION Spec
INVARIANTS TypeOK NothingLost NoCrash
CONSTANTS
  Conv = {c1}
  Updater = {u1, u2}
  Direct = {}
  Observer = {o1, o2}
  Waiter = {w1}
  Watches <- WaitsAlone
  Polled = {o2}
  NDEBUG = FALSE
  Reopens = FALSE
  MaxMessages = 3
  Free = Free
CHECK_DEADLOCK FALSE
