------------------------- MODULE MCInstanceService -------------------------
(* Model-checking instances of InstanceService. *)
EXTENDS InstanceService, TLC

\* Identifiers are interchangeable: only equality between them matters.
Symmetry == Permutations(Instances) \cup Permutations(Volumes) \cup
            Permutations(Nics) \cup Permutations(Ops)

\* The RPCs that move attachments, and the saga that must release them.
AttachmentKinds == {"AttachDisk", "DetachDisk", "AttachNetworkInterface",
                    "DetachNetworkInterface", "Delete"}
=============================================================================
