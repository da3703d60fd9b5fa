SPECIFICATION FairSpec
CONSTANTS
  list = list
  amd = amd
  art = art
  lay = lay
  cfg = cfg
  odd = odd
  eList = eList
  eImage = eImage
  eArt = eArt
  eOdd = eOdd
  None = None
  Digest = {list, amd, art, lay, cfg, odd}
  Parts <- MCParts
  Children <- MCChildren
  States <- MCStates
  Platform = {amd, art}
  Entry = {eList, eImage, eArt, eOdd}
  Root <- MCRoot
  Media <- MCMedia
  Named = {eList, eImage, eArt}
  Limit = 2
CHECK_DEADLOCK FALSE
INVARIANTS
  DamageReported
  ReadOnce
PROPERTIES
  CommandEnds
