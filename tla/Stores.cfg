SPECIFICATION Spec
CONSTANTS
  pA = pA
  pB = pB
  pId = pId
  rel = rel
  abs = abs
  other = other
  id1 = id1
  short = short
  p1 = p1
  p2 = p2
  None = None
  Proc = {p1, p2}
  Path = {pA, pB, pId}
  Real <- MCReal
  Arg = {rel, abs, other, id1, short}
  AbsOf <- MCAbsOf
  Id = {1, 2, 3}
  IdsOf <- MCIdsOf
  FullId = {id1}
  Asked <- Documents
  Inode = {1, 2, 3, 4, 5, 6, 7, 8, 9, 10, 11}
  MaxCommands = 3
  MaxKills = 1
  MaxChanges = 1
CHECK_DEADLOCK FALSE
INVARIANTS
  AloneRegisters
  OneLayoutPerStore
PROPERTIES
  AloneForgetsNone
