SPECIFICATION Spec
CONSTANTS
  hA = hA
  h1 = h1
  h2 = h2
  haul = haul
  rX = rX
  rY = rY
  None = None
  Torn = Torn
  Haul = {hA, h1, h2}
  Joined <- MCJoined
  Number <- MCNumber
  Hinted = {h1, h2}
  Ref = {rX, rY}
  MaxSaves = 3
  Size <- MCSize
  Content <- MCContent
  Logged = {1}
  Asked = {0, 4, 9}
  Word = 8
  Arguments <- MCArguments
INVARIANTS
  SavedIsWhole
  LatestIsLoaded
  LoadedAll
PROPERTIES
  LogFollowsContent
CONSTRAINT
  FewChunkSizes
