\* Concurrent writers of disks, an image and a snapshot in two projects: copies, resizes, names that collide.
SPECIFICATION Spec
CONSTANTS
  Disks = {d1, d2}
  Images = {m1}
  Snapshots = {s1}
  Projects = {p1, p2}
  Names = {NoName, n1}
  NoName = NoName
  Labels = {a, b}
  Zones = {z1, z2}
  MaxCreate = 2
  MaxUpdate = 2
  Ops = {o1, o2}
  Kinds <- AllKinds
  Masked = {"name", "labels", "size"}
  NoSource = NoSource
  NoRequest = NoRequest
SYMMETRY Symmetry
INVARIANT TypeOK
INVARIANT NoLostUpdate
INVARIANT PublishedRow
INVARIANT SourcesFit
PROPERTY DiskNeverShrinks
