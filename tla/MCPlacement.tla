---------------------------- MODULE MCPlacement ----------------------------
(* Placement for TLC. *)
EXTENDS Placement

CONSTANTS p1, p2, z1, t1

\* All checks for the project that comes and goes, the first one for the other.
SomeRequests ==
  [kind : {"CreateDisk"}, project : {p1}, zone : {z1}, type : {t1}] \cup
  [kind : {"CreateSnapshot"}, project : {p2}, zone : {z1}, type : {t1}]
=============================================================================
