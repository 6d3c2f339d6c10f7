-------------------------- MODULE AddressRegister --------------------------
(***************************************************************************)
(* What the configuration of a switch promises about the OVSDB address:    *)
(* PUT requests are numbered; one in effect may be skipped or withdrawn,   *)
(* but an address that takes effect is always that of a later PUT than any *)
(* that was in effect before.                                              *)
(***************************************************************************)
EXTENDS Naturals

VARIABLES puts,   \* PUT requests so far
          last,   \* the latest that ever took effect, 0 if none
          effect  \* the one in effect, 0 if none

rvars == <<puts, last, effect>>

RInit == puts = 0 /\ last = 0 /\ effect = 0

RPut == puts' = puts + 1 /\ UNCHANGED <<last, effect>>

RApply ==
  /\ \E n \in (last + 1)..puts : last' = n /\ effect' = n
  /\ UNCHANGED puts

RWithdraw == effect' = 0 /\ UNCHANGED <<puts, last>>

RNext == RPut \/ RApply \/ RWithdraw

RSpec == RInit /\ [][RNext]_rvars
=============================================================================
