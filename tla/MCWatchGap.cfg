\* A transaction that takes its sequence_no first and commits last.
SPECIFICATION Spec
CONSTANTS
  Objects = {x1, x2}
  Txs = {t1, t2, t3}
  Labels = {a}
  Kinds = {"Touch"}
  NoMutation = NoMutation
  Watchers = {w1, w2}
  Interest <- Some
  MaxStreams = 1
  BatchSize = 2
  MaxAttempts = 1
SYMMETRY Symmetry
INVARIANT WatchMissesNothing
