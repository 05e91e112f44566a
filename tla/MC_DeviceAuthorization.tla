----------------------- MODULE MC_DeviceAuthorization -----------------------
(* Instances of DeviceAuthorization for TLC.                               *)
EXTENDS DeviceAuthorization
=============================================================================
