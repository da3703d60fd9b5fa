SPECIFICATION Spec
CONSTANTS
  rA = rA
  rB = rB
  rC = rC
  rD = rD
  rE = rE
  d1 = d1
  d2 = d2
  key = key
  app = app
  lib = lib
  sub = sub
  core = core
  leaf = leaf
  pA = pA
  pB = pB
  nA = nA
  nB = nB
  bX = bX
  bY = bY
  bZ = bZ
  None = None
  Nothing = Nothing
  Path = {pA, pB}
  FileName = {nA, nB}
  Bytes = {bX, bY, bZ}
  Holds <- MCHolds
  FileRetries = 2
  FileConcurrency = 2
  Ref = {rA, rB, rC, rD, rE}
  ImageRef = {rA, rB, rC, rD, rE}
  Digest = {d1, d2}
  Config = {key}
  Names <- MCNames
  Classic <- MCClassic
  Bundle <- MCBundle
  Retries = 2
  Concurrency = 2
  Chart = {app, lib, sub, core, leaf}
  Deps <- MCDeps
  Inside <- MCInside
  Images <- MCImages
  MaxChartDepth = 4
  ChartConcurrency = 2
  Manifests <- MCManifests
CHECK_DEADLOCK FALSE
INVARIANTS
  StoredIsChecked
  RunErrIsReal
  ScheduledOnce
  FileDepsReadable
  TreeComplete
  PromisesKept
  FilesAreTheirSource
  HashedOnce
PROPERTIES
  NothingNewAfterError
  CommandEnds
