--------------------------- MODULE MCDeviceManager ---------------------------
(* Two jobs of one priority and one of another, on two devices.              *)
EXTENDS DeviceManager, TLC
JobPriority == 1 :> 5 @@ 2 :> 5 @@ 3 :> 2
=============================================================================
