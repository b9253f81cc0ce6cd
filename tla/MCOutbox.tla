------------------------------ MODULE MCOutbox ------------------------------
(* Model-checking instances of Outbox. *)
EXTENDS Outbox, TLC

\* Transactions are interchangeable.
Symmetry == Permutations(Txs)

AllKinds == {"Insert", "Update", "Touch", "Delete"}

\* Every watcher asks for everything.
Everything == [w \in Watchers |-> Objects]

\* One watcher asks for the kind of one object, the others for everything.
Some == LET w == CHOOSE w \in Watchers : TRUE
            x == CHOOSE x \in Objects : TRUE
        IN  [Everything EXCEPT ![w] = {x}]
=============================================================================
