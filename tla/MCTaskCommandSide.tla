------------------------- MODULE MCTaskCommandSide -------------------------
(* Requests are finite: the instance runs out of them and stops.           *)
EXTENDS TaskCommandSide
=============================================================================
