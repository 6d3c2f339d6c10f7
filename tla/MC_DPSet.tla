------------------------------ MODULE MC_DPSet ------------------------------
(* Three connections: two of switch d1, which can overlap, and one of d2.   *)
EXTENDS DPSet, TLC

CONSTANTS c1, c2, c3, d1, d2

MCDp == {c1, c2, c3}
MC2Dp == {c1, c2}
MCDpid == {d1, d2}
MC2Dpid == {d1}
MC2IdOf == (c1 :> d1) @@ (c2 :> d1)
MCIdOf == (c1 :> d1) @@ (c2 :> d1) @@ (c3 :> d2)
=============================================================================
