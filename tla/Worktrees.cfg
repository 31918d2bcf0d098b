CONSTANTS
  r1 = r1
  r2 = r2
  k1 = k1
  c1 = c1
  Clearer <- Clear
  Runner <- Two
  Cleaner <- Clean
  MaxFiles = 2
  MaxCommits = 1
SYMMETRY Sym
SPECIFICATION WtSpec
CHECK_DEADLOCK FALSE
INVARIANTS SharedOnlyIfRemade
PROPERTIES WorkIsKept
