\* Two concurrent operations of any kind on one instance with a volume and a NIC,
\* lost workers and the reconciler; no symmetry because of the liveness property.
SPECIFICATION FairSpec
CONSTANTS
  Instances = {i1}
  Volumes = {v1}
  Nics = {n1}
  Ops = {o1, o2}
  Values = {a, b}
  MetaKeys = {k1}
  Kinds <- AllKinds
  NoInstance = NoInstance
  NoRequest = NoRequest
  Place = Place
INVARIANT TypeOK
INVARIANT NoLostUpdate
INVARIANT PublishedRow
INVARIANT DeleteOkMeansGone
INVARIANT NoLeakedAttachment
PROPERTY DeletingIsFinal
PROPERTY SizingOnlyWhenStopped
PROPERTY AttachmentsStay
PROPERTY ImplementsTable
PROPERTY OrphansSettle
