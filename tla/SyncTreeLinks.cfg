SPECIFICATION Spec
CONSTANTS
  a = a
  b = b
  x = x
  v1 = v1
  v2 = v2
  Name = {a, b}
  SubName = {x}
  Version = {v1, v2}
  Elsewhere = Elsewhere
  Writable = Writable
  ReadOnly = ReadOnly
  Nil = Nil
  Worker = {w1, w2}
  WalkOrder <- Order
  SrcTrees <- Sources
  DstTrees <- Dests
  Excludes <- Excluding
  MaxTroubles = 2
SYMMETRY WorkerSymmetry
CHECK_DEADLOCK FALSE
INVARIANT OneWayMirror
