---------------------------- MODULE MC_QoSRules ----------------------------
(* At most one VLAN and rules of no VLAN; v10 is its id, t10 the text.  z1 *)
(* is m1 and a field of value 0, such as ip_dscp.                          *)
EXTENDS QoSRules, TLC

CONSTANTS v10, t10, m1, z1

MCTextOf == [v \in Vlan |-> t10]
MCMod == [m \in Match \cup Fwd \cup {AnyMatch} |-> IF m = z1 THEN m1 ELSE m]

Symmetry == Permutations(Req)
=============================================================================
