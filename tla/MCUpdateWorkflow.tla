------------------------- MODULE MCUpdateWorkflow -------------------------
(***************************************************************************)
(* Three releases of the lane 1.x and a prerelease between them.            *)
(***************************************************************************)
EXTENDS UpdateWorkflow

MCVersion == 1 .. 4
MCLaneOf == <<"1.x", None, "1.x", "1.x">>

===========================================================================
