---------------------------- MODULE MCSelection -----------------------------
(***************************************************************************)
(* Instances of Selection for TLC.  Alert 1 bans an address and a range,   *)
(* alert 2 a second address of the same subnet and an internal one; alert  *)
(* 3, raised for an address of system a1, bans one of a2 and carries a     *)
(* community ban.                                                          *)
(***************************************************************************)
EXTENDS Selection, TLC

CONSTANTS b1, b2, b3, b4, b5, b6, i1, i2, i3, i4, i5, s1, s2, a1, a2

Of(table) == [b \in Bans |-> table[b]]

MCAlertOf    == Of((b1 :> 1) @@ (b2 :> 1) @@ (b3 :> 2) @@ (b4 :> 3) @@ (b5 :> 3) @@ (b6 :> 2))
MCValue      == Of((b1 :> i1) @@ (b2 :> None) @@ (b3 :> i2) @@ (b4 :> i3) @@ (b5 :> i4) @@ (b6 :> i5))
MCConfidence == Of((b1 :> 1) @@ (b2 :> 1) @@ (b3 :> 1) @@ (b4 :> 0) @@ (b5 :> 2) @@ (b6 :> 2))
MCAlerts     == 1..3
MCIps        == {i1, i2, i3, i4, i5}
MCSourceIp   == (1 :> i1) @@ (2 :> i2) @@ (3 :> i1)
MCSourceAsn  == [a \in MCAlerts |-> a1]
MCSubnetOf   == (i1 :> s1) @@ (i2 :> s1) @@ (i3 :> s2) @@ (i4 :> s2) @@ (i5 :> s2)
MCAsnOf      == (i1 :> a1) @@ (i2 :> a1) @@ (i3 :> a2) @@ (i4 :> a2) @@ (i5 :> a1)
=============================================================================
