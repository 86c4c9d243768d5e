SPECIFICATION Spec
CONSTANTS
  d1 = d1
  d2 = d2
  p1 = p1
  p2 = p2
  v1 = v1
  v2 = v2
  Threads = {t1}
  Dirs <- MCDirs
  Protocols <- MCProtocols
  Machines <- MCMachines
  Unloadable = Unloadable
  NoMachine = NoMachine
SYMMETRY MCSymmetry
INVARIANTS
  NothingHidden
  FoundWhereSearched
CHECK_DEADLOCK FALSE
