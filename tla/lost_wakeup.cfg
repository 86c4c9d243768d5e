SPECIFICATION FairSpec
PROPERTY SleeperWakes
CONSTANTS
  Conv = {c1}
  Updater = {u1}
  Direct = {u1}
  Observer = {o1}
  Waiter = {w1}
  Watches <- WaitsForAny
  Polled = {}
  NDEBUG = FALSE
  Reopens = FALSE
  MaxMessages = 1
  Free = Free
CHECK_DEADLOCK FALSE
