--------------------------- MODULE MCBlockStorage ---------------------------
(* Model-checking instances of BlockStorage. *)
EXTENDS BlockStorage, TLC

\* Identifiers of one kind are interchangeable.
Symmetry == Permutations(Disks) \cup Permutations(Images) \cup Permutations(Snapshots) \cup
            Permutations(Ops)

AllKinds == {"Create", "Update", "Relocate", "Delete"}
=============================================================================
