------------------------------ MODULE MCBridge ------------------------------
(* A v1 and an SV2 listener beside the block template listener.             *)
EXTENDS Bridge
=============================================================================
