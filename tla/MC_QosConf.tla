---------------------------- MODULE MC_QosConf ----------------------------
(***************************************************************************)
(* The OVSDB of the access switch has a tunnel port and another one; the   *)
(* second address leads to a switch with the tunnel port only.             *)
(***************************************************************************)
EXTENDS QosConf

CONSTANTS a1, a2, tun, eth

MCPortsAt == [a \in Addr |-> IF a = a1 THEN {tun, eth} ELSE {tun}]
=============================================================================
