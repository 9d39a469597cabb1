------------------------------ MODULE MCEngine ------------------------------
(* The engine under any scheduler of its class, on small platforms.          *)
EXTENDS EngineInv, Instances
=============================================================================
