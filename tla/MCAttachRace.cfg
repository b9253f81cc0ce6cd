\* An attach that passed its gate races a whole Delete.
SPECIFICATION Spec
CONSTANTS
  Instances = {i1}
  Volumes = {v1}
  Nics = {n1}
  Ops = {o1, o2}
  Values = {a}
  MetaKeys = {}
  Kinds <- AttachmentKinds
  NoInstance = NoInstance
  NoRequest = NoRequest
  Place = Place
SYMMETRY Symmetry
INVARIANT NoDanglingAttachment
