--------------------------- MODULE MC_VRRPRouter ---------------------------
(***************************************************************************)
(* Two routers, the better of which waits before it preempts; one of them  *)
(* may become the owner of the address, get the lower priority or stop     *)
(* preempting.                                                             *)
(***************************************************************************)
EXTENDS VRRPRouter

Cfg(p, d) == [priority |-> p, preempt_mode |-> TRUE, preempt_delay |-> d]
Req(k, v) == [ev |-> "change", key |-> k, val |-> v]

MCConfigs == {<<Cfg(1, FALSE), Cfg(2, TRUE)>>}
MCChanges == {Req("priority", 3), Req("priority", 1), Req("preempt_mode", FALSE)}
=============================================================================
