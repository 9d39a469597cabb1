------------------------------- MODULE MCDag -------------------------------
(* DAGs on small platforms.                                                  *)
EXTENDS DagInv, Instances
=============================================================================
