--------------------------- MODULE MCDisplayName ---------------------------
(* DisplayName on a device that two accounts use, one of which changes its *)
(* name.                                                                   *)
EXTENDS DisplayName, TLC

CONSTANTS u1, u2

OnlyU1 == u1 :> 2 @@ u2 :> 0
=============================================================================
