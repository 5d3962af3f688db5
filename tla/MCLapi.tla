------------------------------- MODULE MCLapi --------------------------------
(***************************************************************************)
(* Instance of Lapi for TLC: three alerts, a list of two and one detail.   *)
(* Alert 2 bans a range and carries a ban of the community; alert 3 bans a *)
(* range and shows its source only in its events.                          *)
(***************************************************************************)
EXTENDS Lapi, TLC

CONSTANTS b1, b2, b3, c2, i1, i2, i3

MCAlerts   == 1..3
MCAlertOf  == (b1 :> 1) @@ (b2 :> 2) @@ (c2 :> 2) @@ (b3 :> 3)
MCValue    == (b1 :> i1) @@ (b2 :> None) @@ (c2 :> i3) @@ (b3 :> None)
MCSourceIp == (1 :> i1) @@ (2 :> i2) @@ (3 :> None)
MCEventIp  == (1 :> i1) @@ (2 :> i3) @@ (3 :> i3)
=============================================================================
