SPECIFICATION Spec
CONSTANTS
  j1 = j1
  j2 = j2
  imgA = imgA
  imgB = imgB
  list = list
  sig = sig
  repA = repA
  repB = repB
  repList = repList
  layA = layA
  layB = layB
  cfg = cfg
  nA = nA
  nB = nB
  None = None
  Digest = {imgA, imgB, list, sig, repA, repB, repList, layA, layB, cfg}
  Manifest <- MCManifest
  Layers <- MCLayers
  Config <- MCConfig
  Children <- MCChildren
  Name = {nA, nB}
  Job = {j1, j2}
  First = j1
  Uses <- Unreadable
INVARIANT
  EntriesWhole
