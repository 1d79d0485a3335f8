-------------------------- MODULE MCClientRegistry --------------------------
(* A v1 and an SV2 listener and three connections, with a channel for one   *)
(* event and two extranonces.                                               *)
EXTENDS ClientRegistry
=============================================================================
