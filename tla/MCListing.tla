----------------------------- MODULE MCListing -----------------------------
(* Model-checking instances of Listing. *)
EXTENDS Listing

\* Ids that are not times: a key whose parts are swapped does not pass for one.
Rows == {MaxTime + 1, MaxTime + 2, MaxTime + 3}
=============================================================================
