----------------------------- MODULE MCPolicies -----------------------------
(* The engine under each scheduler of the repository, on small platforms.    *)
EXTENDS EngineClaims, Instances
=============================================================================
