------------------------- MODULE MCConnectionWriter -------------------------
(* Two goroutines that send three messages each to one connection.          *)
EXTENDS ConnectionWriter
=============================================================================
