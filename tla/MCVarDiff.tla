----------------------------- MODULE MCVarDiff -----------------------------
(* A ladder of four windows, an expected rate of two shares a minute and a   *)
(* clock of half minutes.                                                    *)
EXTENDS VarDiff

MCWindows == <<1, 2, 3, 0>>
MCTolerances == <<50, 50, 25, 10>>
=============================================================================
