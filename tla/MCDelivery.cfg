\* Two writers of one object, replicas of the drainer that fail and overtake each other, a watcher.
SPECIFICATION FairSpec
CONSTANTS
  Objects = {x1}
  Txs = {t1, t2}
  Labels = {a, b}
  Kinds <- AllKinds
  NoMutation = NoMutation
  Watchers = {w1}
  Interest <- Everything
  MaxStreams = 1
  BatchSize = 1
  MaxAttempts = 2
INVARIANT TypeOK
INVARIANT MirrorIsCommitted
INVARIANT SequentialMirror
INVARIANT WatchFollowsCommits
PROPERTY IntentsDelivered
PROPERTY WatchDelivers
