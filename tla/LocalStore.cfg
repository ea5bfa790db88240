SPECIFICATION Spec
CONSTANTS
  Clients = {c1, c2}
  spec = spec
  config = config
  x = x
  y = y
  Kinds <- MCKinds
  Managed <- MCManaged
  Blobs <- MCBlobs
  Bundles <- MCBundles
  MaxRevisions = 1
  MaxSeq = 2
  MaxIssued = 2
SYMMETRY Symmetry
INVARIANTS
  RefsKeepTheirContent
PROPERTIES
  PromiseSpec
