\* A lost worker of a NIC operation.
SPECIFICATION FairSpec
CONSTANTS
  Instances = {i1}
  Volumes = {}
  Nics = {n1}
  Ops = {o1}
  Values = {a}
  MetaKeys = {}
  Kinds <- AttachmentKinds
  NoInstance = NoInstance
  NoRequest = NoRequest
  Place = Place
PROPERTY OperationsSettle
