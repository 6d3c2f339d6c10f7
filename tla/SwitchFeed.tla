----------------------------- MODULE SwitchFeed -----------------------------
(***************************************************************************)
(* What dpset promises the observers of EventDP: it announces that a       *)
(* switch has come and that it has gone by turns, and an observer that     *)
(* keeps a list follows every announcement, in order and one at a time.    *)
(* Its list is what dpset had announced lag changes ago.                   *)
(***************************************************************************)
EXTENDS Naturals

CONSTANT Switch

VARIABLES announced, \* the last announcement about each switch: it is there
          known,     \* the observer's list holds the switch
          lag        \* announcements the observer has still to follow

svars == <<announced, known, lag>>

SInit ==
  /\ announced = [d \in Switch |-> FALSE]
  /\ known = [d \in Switch |-> FALSE]
  /\ lag = [d \in Switch |-> 0]

Announce(d) ==
  /\ announced' = [announced EXCEPT ![d] = ~@]
  /\ lag' = [lag EXCEPT ![d] = @ + 1]
  /\ UNCHANGED known

Follow(d) ==
  /\ lag[d] > 0
  /\ known' = [known EXCEPT ![d] = ~@]
  /\ lag' = [lag EXCEPT ![d] = @ - 1]
  /\ UNCHANGED announced

SNext == \E d \in Switch : Announce(d) \/ Follow(d)

SSpec == SInit /\ [][SNext]_svars
=============================================================================
