SPECIFICATION FairSpec
CONSTANTS
  p1 = p1
  p2 = p2
  p3 = p3
  d1 = d1
  d2 = d2
  c1 = c1
  c2 = c2
  c3 = c3
  Proc = {p1, p2}
  Digest = {d1, d2}
  Sized = {d1}
  Ctx = {c1, c2}
  CtxOf <- TwoOwn
  Permits = 1
  InitFiles <- AnyFile
  None = None
INVARIANTS
  OkMeansStored
PROPERTIES
  FinalOnlyImproves
  CallsReturn
