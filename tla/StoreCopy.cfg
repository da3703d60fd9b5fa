SPECIFICATION Spec
CONSTANTS
  list = list
  old = old
  new = new
  cfg = cfg
  lay = lay
  sig = sig
  doc = doc
  odd = odd
  nest = nest
  kit = kit
  page = page
  raw = raw
  rA = rA
  rB = rB
  rFile = rFile
  rBad = rBad
  library = library
  hauler = hauler
  pageName = pageName
  rawName = rawName
  None = None
  Modes = {"registry", "directory", "extract"}
  Digest = {list, old, new, cfg, lay, sig, doc, odd, nest, kit, page, raw}
  Parts <- MCParts
  Index = {list, odd, nest}
  ImageConfig = {old, new, kit}
  Image = {old, new}
  FileName <- MCFileName
  SignatureOf <- MCSignatureOf
  Ref = {rA, rB, rFile, rBad}
  Repo = {library, hauler}
  RepoOf <- MCRepoOf
  Kind = {"image", "index", "sigs", "referrer"}
  Stores <- MCStores
  Additions <- MCAdditions
  Skipped = {rFile}
  Unparsable = {rBad}
  Fragile = {old, lay, page}
  Retries = 2
  MaxFailures = 2
CHECK_DEADLOCK FALSE
INVARIANTS
  TargetWhole
  SuccessIsComplete
  FilesWholeOrReported

