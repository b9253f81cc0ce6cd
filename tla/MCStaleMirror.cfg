\* Overlapping writers of one object: the last one to commit may have the older source_version.
SPECIFICATION Spec
CONSTANTS
  Objects = {x1}
  Txs = {t1, t2, t3}
  Labels = {a, b}
  Kinds <- AllKinds
  NoMutation = NoMutation
  Watchers = {}
  Interest <- Everything
  MaxStreams = 1
  BatchSize = 1
  MaxAttempts = 2
SYMMETRY Symmetry
INVARIANT MirrorConverges
