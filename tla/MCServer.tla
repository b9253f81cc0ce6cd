------------------------------ MODULE MCServer ------------------------------
(* Model-checking instance of Server. *)
EXTENDS Server

\* The default, the gate closed for good, and no diagnostic listener.
SomeConfigs ==
  {[drainer |-> TRUE,  requireIAM |-> TRUE,  diag |-> TRUE],
   [drainer |-> FALSE, requireIAM |-> TRUE,  diag |-> TRUE],
   [drainer |-> TRUE,  requireIAM |-> FALSE, diag |-> FALSE]}
=============================================================================
