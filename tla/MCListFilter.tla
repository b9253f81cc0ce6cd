---------------------------- MODULE MCListFilter ----------------------------
(* Model-checking instances of ListFilter. *)
EXTENDS ListFilter, TLC

CONSTANTS u1, x1

\* One caller gains and loses one id; what else is granted stays so.
OneGrant == {<<u1, x1>>}

\* Requests are interchangeable.
Symmetry == Permutations(Requests)
=============================================================================
