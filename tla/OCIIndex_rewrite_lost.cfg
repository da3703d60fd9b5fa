SPECIFICATION Spec
CONSTANTS
  d1 = d1
  d2 = d2
  d3 = d3
  tagA = tagA
  tagB = tagB
  tagC = tagC
  bad = bad
  nA = nA
  nB = nB
  nC = nC
  Missing = Missing
  Torn = Torn
  None = None
  Canon <- MCCanon
  Raw <- MCRaw
  Digest = {d1, d2, d3}
  Ref = {tagA, tagC}
  Name = {nA, nC}
  Uses <- RenameLost
INVARIANTS
  AckedInIndex
