---------------------------- MODULE DPSet_proofs ----------------------------
(***************************************************************************)
(* Theorems about DPSet, for every set of connections, switches and ports  *)
(* and every size of the two queues.                                       *)
(***************************************************************************)
EXTENDS DPSet, SequenceTheorems, FiniteSetTheorems, TLAPS

\* The events the greenlets post are events.
LEMMA EventTypes ==
  ASSUME NEW c \in Dp
  PROVE  /\ MAIN(c) \in Event
         /\ DEAD(c) \in Event
         /\ \A r \in PortReason, p \in Port : PORT(c, r, p) \in Event
         /\ Enter(c) \in EventDP
         /\ Leave(c) \in EventDP
BY DEF MAIN, DEAD, PORT, Enter, Leave, Event, EventDP

\* What a port event does to a set of ports leaves a set of ports.
LEMMA PortsAfterType ==
  ASSUME NEW S \in SUBSET Port, NEW e \in Event, e.type \in PortReason
  PROVE  PortsAfter(S, e.type, e.port) \in SUBSET Port
BY DEF PortsAfter, Event, PortReason

\* Taking the first element of a line leaves a line, and the element is typed.
LEMMA TakeType ==
  ASSUME NEW S, NEW s \in Seq(S), s # <<>>
  PROVE  Head(s) \in S /\ Tail(s) \in Seq(S)
BY HeadTailProperties

\* The tail of _register keeps the types.
LEMMA InstallType ==
  ASSUME TypeOK, NEW c \in Dp, Install(c)
  PROVE  /\ dps' \in [Dpid -> Dp \cup {None}]
         /\ port_state' \in [Dpid -> (SUBSET Port) \cup {NoPorts}]
         /\ aq' \in Seq(EventDP)
<1>1. IdOf[c] \in Dpid /\ ports[c] \in SUBSET Port
  BY IdOfAssumption DEF TypeOK
<1>2. Append(aq, Enter(c)) \in Seq(EventDP)
  BY EventTypes, AppendProperties DEF TypeOK
<1> QED
  BY <1>1, <1>2 DEF TypeOK, Install

\* No step leaves the types.
LEMMA TypeStep == TypeOK /\ [Next]_vars => TypeOK'
<1> SUFFICES ASSUME TypeOK, [Next]_vars PROVE TypeOK'
  OBVIOUS
<1>1. ASSUME NEW c \in Dp, Connect(c) PROVE TypeOK'
  BY <1>1 DEF Connect, TypeOK
<1>2. ASSUME NEW c \in Dp, NEW S \in SUBSET Port, PortDescMore(c, S) PROVE TypeOK'
  BY <1>2 DEF PortDescMore, TypeOK
<1>3. ASSUME NEW c \in Dp, NEW S \in SUBSET Port, PortDescLast(c, S) PROVE TypeOK'
  <2>1. q' \in Seq(Event) /\ parked' \in [Dp -> Event \cup {None}]
    BY <1>3, EventTypes, AppendProperties DEF PortDescLast, Park, TypeOK
  <2> QED
    BY <1>3, <2>1 DEF PortDescLast, TypeOK
<1>4. ASSUME NEW c \in Dp, NEW r \in PortReason, NEW p \in Port, PortStatus(c, r, p)
      PROVE TypeOK'
  <2>1. q' \in Seq(Event) /\ parked' \in [Dp -> Event \cup {None}]
    BY <1>4, EventTypes, AppendProperties DEF PortStatus, Park, TypeOK
  <2>2. ports' \in [Dp -> SUBSET Port]
    BY <1>4 DEF PortStatus, PortsAfter, TypeOK
  <2> QED
    BY <1>4, <2>1, <2>2 DEF PortStatus, TypeOK
<1>5. ASSUME NEW c \in Dp, Resume(c) PROVE TypeOK'
  <2>1. ports' \in [Dp -> SUBSET Port]
    <3>1. parked[c] \in Event /\ ports[c] \in SUBSET Port
      BY <1>5 DEF Resume, TypeOK
    <3> QED
      BY <1>5, <3>1, PortsAfterType DEF Resume, TypeOK
  <2> QED
    BY <1>5, <2>1 DEF Resume, TypeOK
<1>6. ASSUME NEW c \in Dp, Close(c) PROVE TypeOK'
  <2>1. q' \in Seq(Event)
    BY <1>6, EventTypes, AppendProperties DEF Close, TypeOK
  <2> QED
    BY <1>6, <2>1 DEF Close, TypeOK
<1>7. ASSUME NEW c \in Dp, RegisterNew(c) PROVE TypeOK'
  <2>1. q' \in Seq(Event)
    BY <1>7, TakeType DEF RegisterNew, Taking, TypeOK
  <2> QED
    BY <1>7, <2>1, InstallType DEF RegisterNew, TypeOK
<1>8. ASSUME NEW c \in Dp, RegisterReplace(c) \/ RegisterStuck(c) PROVE TypeOK'
  <2> DEFINE old == dps[IdOf[c]]
  <2>1. old \in Dp
    BY <1>8, IdOfAssumption DEF RegisterReplace, RegisterStuck, HasLiveOlder, TypeOK
  <2>2. q' \in Seq(Event)
    <3>1. Tail(q) \in Seq(Event)
      BY <1>8, TakeType DEF RegisterReplace, RegisterStuck, Taking, TypeOK
    <3>2. DEAD(old) \in Event
      BY <2>1, EventTypes
    <3>3. Append(Tail(q), DEAD(old)) \in Seq(Event)
      BY <3>1, <3>2, AppendProperties
    <3>4. q' = Append(Tail(q), DEAD(old))
      BY <1>8 DEF RegisterReplace, RegisterStuck
    <3> QED
      BY <3>3, <3>4
  <2>3. state' \in [Dp -> {"none", "config", "main", "dead"}]
    BY <1>8, <2>1 DEF RegisterReplace, RegisterStuck, TypeOK
  <2>4. CASE RegisterReplace(c)
    BY <2>2, <2>3, <2>4, InstallType DEF RegisterReplace, TypeOK
  <2>5. CASE RegisterStuck(c)
    BY <2>2, <2>3, <2>5 DEF RegisterStuck, TypeOK
  <2> QED
    BY <1>8, <2>4, <2>5
<1>9. ASSUME NEW c \in Dp, UnregisterForgotten(c) PROVE TypeOK'
  BY <1>9, TakeType DEF UnregisterForgotten, Taking, TypeOK
<1>10. ASSUME NEW c \in Dp, Unregister(c) PROVE TypeOK'
  <2>1. q' \in Seq(Event)
    BY <1>10, TakeType DEF Unregister, Taking, TypeOK
  <2>2. aq' \in Seq(EventDP)
    BY <1>10, EventTypes, AppendProperties DEF Unregister, TypeOK
  <2>3. IdOf[c] \in Dpid
    BY IdOfAssumption
  <2> QED
    BY <1>10, <2>1, <2>2, <2>3 DEF Unregister, conns, TypeOK
<1>11. ASSUME UnregisterEnd PROVE TypeOK'
  BY <1>11, IdOfAssumption DEF UnregisterEnd, conns, TypeOK
<1>12. ASSUME NEW e \in Event, PortStatusHandler(e) PROVE TypeOK'
  <2>1. q' \in Seq(Event)
    BY <1>12, TakeType DEF PortStatusHandler, Taking, TypeOK
  <2>2. port_state' \in [Dpid -> (SUBSET Port) \cup {NoPorts}]
    <3>1. CASE PortKeyError(e)
      BY <1>12, <3>1 DEF PortStatusHandler, TypeOK
    <3>2. CASE ~PortKeyError(e)
      <4>1. e.dp \in Dp
        BY DEF Event
      <4>2. port_state[IdOf[e.dp]] \in SUBSET Port
        BY <3>2, <4>1, IdOfAssumption DEF PortKeyError, TypeOK
      <4> QED
        BY <1>12, <3>2, <4>1, <4>2, PortsAfterType, IdOfAssumption
        DEF PortStatusHandler, TypeOK
    <3> QED
      BY <3>1, <3>2
  <2> QED
    BY <1>12, <2>1, <2>2 DEF PortStatusHandler, conns, TypeOK
<1>13. ASSUME HandlerDatapath PROVE TypeOK'
  <2>1. Head(aq) \in EventDP /\ aq' \in Seq(EventDP)
    BY <1>13, TakeType DEF HandlerDatapath, TypeOK
  <2>2. ofs' \in [Dpid -> Dp \cup {None}]
    <3>1. Head(aq).dp \in Dp
      BY <2>1 DEF EventDP
    <3> QED
      BY <1>13, <3>1, IdOfAssumption DEF HandlerDatapath, TypeOK
  <2> QED
    BY <1>13, <2>1, <2>2 DEF HandlerDatapath, conns, TypeOK
<1>14. CASE UNCHANGED vars
  BY <1>14 DEF vars, TypeOK
<1> QED
  BY <1>1, <1>2, <1>3, <1>4, <1>5, <1>6, <1>7, <1>8, <1>9, <1>10, <1>11,
     <1>12, <1>13, <1>14
  DEF Next, DpStep, DpsetStep, Register

\* Every variable of the registry keeps its type, whatever the connections do.
THEOREM TypeCorrect == Spec => []TypeOK
<1>1. Init => TypeOK
  BY DEF Init, TypeOK
<1> QED
  BY <1>1, TypeStep, PTL DEF Spec

-----------------------------------------------------------------------------
(* The invariant that is inductive: what the line of events says about the *)
(* connections, and what dps says about them.                              *)

\* dps files a connection under the dpid it announced, once in MAIN.
Registered ==
  \A d \in Dpid : dps[d] # None =>
    IdOf[dps[d]] = d /\ state[dps[d]] \in {"main", "dead"}

\* A DEAD event in line is true.
DeadIsTrue == \A c \in Dp : In(DEAD(c), q) => state[c] = "dead"

\* A connection whose MAIN event is in line is not registered yet, and if it
\* has died since, its DEAD event is in line too.
MainIsPending ==
  \A c \in Dp : In(MAIN(c), q) =>
    /\ dps[IdOf[c]] # c
    /\ state[c] \in {"main", "dead"}
    /\ state[c] = "dead" => In(DEAD(c), q)

\* The MAIN event of a connection is in line once, and before its DEAD event.
MainFirst(s) ==
  \A i, j \in 1..Len(s), c \in Dp :
    j < i /\ s[i] = MAIN(c) => s[j] # MAIN(c) /\ s[j] # DEAD(c)

\* The connection dpset is removing is dead and still in dps.
LeavingIsDead == pc = "leaving" => dps[IdOf[cur]] = cur /\ state[cur] = "dead"

IInv ==
  /\ TypeOK
  /\ PortStateFollowsDps
  /\ DeadIsOnItsWay
  /\ LiveIsRegistered
  /\ Registered
  /\ DeadIsTrue
  /\ MainIsPending
  /\ MainFirst(q)
  /\ LeavingIsDead

-----------------------------------------------------------------------------
(* Lines of events: what appending and taking do to them.                  *)

\* Events of different kinds or connections differ.
LEMMA EventsDiffer ==
  ASSUME NEW c \in Dp, NEW k \in Dp
  PROVE  /\ MAIN(c) # DEAD(k)
         /\ MAIN(c) = MAIN(k) => c = k
         /\ DEAD(c) = DEAD(k) => c = k
         /\ \A e \in Event : e.type \in PortReason => e # MAIN(c) /\ e # DEAD(c)
BY DEF MAIN, DEAD, Event, PortReason

\* A port event is one.
LEMMA PortIsPort ==
  ASSUME NEW c \in Dp, NEW r \in PortReason, NEW p \in Port
  PROVE  PORT(c, r, p) \in Event /\ PORT(c, r, p).type \in PortReason
BY DEF PORT, Event

\* A longer line holds the same events and the new one.
LEMMA InAppend ==
  ASSUME NEW s \in Seq(Event), NEW x \in Event, NEW e
  PROVE  In(e, Append(s, x)) <=> In(e, s) \/ e = x
<1>1. /\ Len(Append(s, x)) = Len(s) + 1
      /\ \A i \in 1..Len(s) : Append(s, x)[i] = s[i]
      /\ Append(s, x)[Len(s) + 1] = x
      /\ Len(s) \in Nat
  BY AppendProperties, LenProperties
<1>2. ASSUME In(e, Append(s, x)) PROVE In(e, s) \/ e = x
  <2>1. PICK i \in 1..Len(s) + 1 : Append(s, x)[i] = e
    BY <1>1, <1>2 DEF In
  <2>2. CASE i = Len(s) + 1
    BY <1>1, <2>1, <2>2
  <2>3. CASE i # Len(s) + 1
    <3>1. i \in 1..Len(s)
      BY <1>1, <2>3
    <3> QED
      BY <1>1, <2>1, <3>1 DEF In
  <2> QED
    BY <2>2, <2>3
<1>3. ASSUME In(e, s) PROVE In(e, Append(s, x))
  <2>1. PICK i \in 1..Len(s) : s[i] = e
    BY <1>3 DEF In
  <2>2. i \in 1..Len(Append(s, x)) /\ Append(s, x)[i] = e
    BY <1>1, <2>1
  <2> QED
    BY <2>2 DEF In
<1>4. ASSUME e = x PROVE In(e, Append(s, x))
  <2>1. Len(s) + 1 \in 1..Len(Append(s, x))
    BY <1>1
  <2> QED
    BY <1>1, <1>4, <2>1 DEF In
<1> QED
  BY <1>2, <1>3, <1>4

\* Taking the first event leaves the others.
LEMMA InTail ==
  ASSUME NEW s \in Seq(Event), s # <<>>, NEW e
  PROVE  In(e, s) <=> e = Head(s) \/ In(e, Tail(s))
<1>1. /\ Len(s) \in Nat \ {0} /\ Len(Tail(s)) = Len(s) - 1
      /\ Head(s) = s[1]
      /\ \A i \in 1..Len(Tail(s)) : Tail(s)[i] = s[i + 1]
  BY HeadTailProperties, LenProperties, EmptySeq
<1>2. ASSUME In(e, s), e # Head(s) PROVE In(e, Tail(s))
  <2>1. PICK i \in 1..Len(s) : s[i] = e
    BY <1>2 DEF In
  <2>2. i # 1
    BY <1>1, <1>2, <2>1
  <2>3. i - 1 \in 1..Len(Tail(s)) /\ (i - 1) + 1 = i
    BY <1>1, <2>2
  <2>4. Tail(s)[i - 1] = e
    BY <1>1, <2>1, <2>3
  <2> QED
    BY <2>3, <2>4 DEF In
<1>3. ASSUME In(e, Tail(s)) PROVE In(e, s)
  <2>1. PICK i \in 1..Len(Tail(s)) : Tail(s)[i] = e
    BY <1>3 DEF In
  <2>2. i + 1 \in 1..Len(s) /\ s[i + 1] = e
    BY <1>1, <2>1
  <2> QED
    BY <2>2 DEF In
<1>4. ASSUME e = Head(s) PROVE In(e, s)
  <2>1. 1 \in 1..Len(s)
    BY <1>1
  <2> QED
    BY <1>1, <1>4, <2>1 DEF In
<1> QED
  BY <1>2, <1>3, <1>4

\* A new event keeps the order if it is no MAIN event of a connection that has
\* events in line.
LEMMA MainFirstAppend ==
  ASSUME NEW s \in Seq(Event), NEW x \in Event, MainFirst(s),
         \A c \in Dp : x = MAIN(c) => ~In(MAIN(c), s) /\ ~In(DEAD(c), s)
  PROVE  MainFirst(Append(s, x))
<1>1. /\ Len(Append(s, x)) = Len(s) + 1
      /\ \A i \in 1..Len(s) : Append(s, x)[i] = s[i]
      /\ Append(s, x)[Len(s) + 1] = x
      /\ Len(s) \in Nat
  BY AppendProperties, LenProperties
<1> SUFFICES ASSUME NEW i \in 1..Len(s) + 1, NEW j \in 1..Len(s) + 1, NEW c \in Dp,
                    j < i, Append(s, x)[i] = MAIN(c)
             PROVE  Append(s, x)[j] # MAIN(c) /\ Append(s, x)[j] # DEAD(c)
  BY <1>1 DEF MainFirst
<1>2. j \in 1..Len(s) /\ Append(s, x)[j] = s[j]
  BY <1>1
<1>3. CASE i = Len(s) + 1
  BY <1>1, <1>2, <1>3 DEF In
<1>4. CASE i # Len(s) + 1
  <2>1. i \in 1..Len(s) /\ s[i] = MAIN(c)
    BY <1>1, <1>4
  <2> QED
    BY <1>2, <2>1 DEF MainFirst
<1> QED
  BY <1>3, <1>4

\* Taking the first event keeps the order, and after the first event of a
\* connection its MAIN event is not in line.
LEMMA MainFirstTail ==
  ASSUME NEW s \in Seq(Event), s # <<>>, MainFirst(s)
  PROVE  /\ MainFirst(Tail(s))
         /\ \A c \in Dp : Head(s) \in {MAIN(c), DEAD(c)} => ~In(MAIN(c), Tail(s))
<1>1. /\ Len(s) \in Nat \ {0} /\ Len(Tail(s)) = Len(s) - 1
      /\ Head(s) = s[1]
      /\ \A i \in 1..Len(Tail(s)) : Tail(s)[i] = s[i + 1] /\ i + 1 \in 1..Len(s)
      /\ 1 \in 1..Len(s)
  BY HeadTailProperties, LenProperties, EmptySeq
<1>2. MainFirst(Tail(s))
  <2> SUFFICES ASSUME NEW i \in 1..Len(Tail(s)), NEW j \in 1..Len(Tail(s)), NEW c \in Dp,
                      j < i, Tail(s)[i] = MAIN(c)
               PROVE  Tail(s)[j] # MAIN(c) /\ Tail(s)[j] # DEAD(c)
    BY DEF MainFirst
  <2>1. j + 1 < i + 1 /\ s[i + 1] = MAIN(c) /\ Tail(s)[j] = s[j + 1]
    BY <1>1
  <2> QED
    BY <1>1, <2>1 DEF MainFirst
<1>3. ASSUME NEW c \in Dp, Head(s) \in {MAIN(c), DEAD(c)}, In(MAIN(c), Tail(s))
      PROVE  FALSE
  <2>1. PICK i \in 1..Len(Tail(s)) : Tail(s)[i] = MAIN(c)
    BY <1>3 DEF In
  <2>2. 1 < i + 1 /\ s[i + 1] = MAIN(c)
    BY <1>1, <2>1
  <2> QED
    BY <1>1, <1>3, <2>2 DEF MainFirst
<1> QED
  BY <1>2, <1>3

-----------------------------------------------------------------------------
(* The invariant, action by action.                                        *)

\* Posting an event that is no MAIN event of a connection in line.
LEMMA PostLine ==
  ASSUME IInv, NEW x \in Event, q' = Append(q, x),
         \A c \in Dp : x = MAIN(c) => ~In(MAIN(c), q) /\ ~In(DEAD(c), q)
  PROVE  /\ \A e : In(e, q') <=> In(e, q) \/ e = x
         /\ MainFirst(q')
BY InAppend, MainFirstAppend DEF IInv, TypeOK

\* Taking the first event.
LEMMA TakeLine ==
  ASSUME IInv, NEW e, Taking(e)
  PROVE  /\ pc = "idle"
         /\ Tail(q) \in Seq(Event)
         /\ In(e, q)
         /\ \A x : In(x, q) <=> x = e \/ In(x, Tail(q))
         /\ MainFirst(Tail(q))
         /\ \A c \in Dp : e \in {MAIN(c), DEAD(c)} => ~In(MAIN(c), Tail(q))
BY InTail, MainFirstTail, TakeType DEF IInv, TypeOK, Taking, Idle

\* The steps of a receive greenlet that post nothing and keep its state.
LEMMA QuietStep ==
  ASSUME IInv, UNCHANGED <<state, q, pc, cur, dps, port_state>>, TypeOK'
  PROVE  IInv'
BY DEF IInv, PortStateFollowsDps, DeadIsOnItsWay, LiveIsRegistered, Registered,
       DeadIsTrue, MainIsPending, MainFirst, LeavingIsDead, In

\* A new connection keeps the invariant: dpset does not know it yet.
LEMMA ConnectStep ==
  ASSUME IInv, TypeOK', NEW c \in Dp, Connect(c)
  PROVE  IInv'
<1> USE DEF Connect
<1>1. \A k \in Dp : state'[k] = IF k = c THEN "config" ELSE state[k]
  BY DEF IInv, TypeOK
<1>2. ~In(MAIN(c), q) /\ ~In(DEAD(c), q)
  BY DEF IInv, MainIsPending, DeadIsTrue
<1>3. \A d \in Dpid : dps[d] # c
  BY NoneAssumption DEF IInv, Registered
<1>4. PortStateFollowsDps'
  BY DEF IInv, PortStateFollowsDps
<1>5. DeadIsOnItsWay' /\ Registered'
  BY <1>1, <1>3 DEF IInv, TypeOK, DeadIsOnItsWay, Registered
<1>6. LiveIsRegistered' /\ DeadIsTrue' /\ MainIsPending'
  BY <1>1, <1>2 DEF IInv, LiveIsRegistered, DeadIsTrue, MainIsPending
<1>7. MainFirst(q)' /\ LeavingIsDead'
  BY <1>1 DEF IInv, TypeOK, MainFirst, LeavingIsDead
<1> QED
  BY <1>4, <1>5, <1>6, <1>7 DEF IInv

\* Entering MAIN keeps the invariant: the MAIN event joins the line.
LEMMA PortDescLastStep ==
  ASSUME IInv, TypeOK', NEW c \in Dp, NEW S \in SUBSET Port, PortDescLast(c, S)
  PROVE  IInv'
<1> USE DEF PortDescLast
<1>1. \A k \in Dp : state'[k] = IF k = c THEN "main" ELSE state[k]
  BY DEF IInv, TypeOK
<1>2. ~In(MAIN(c), q) /\ ~In(DEAD(c), q) /\ MAIN(c) \in Event
  BY EventTypes DEF IInv, MainIsPending, DeadIsTrue
<1>3. (\A e : In(e, q') <=> In(e, q) \/ e = MAIN(c)) /\ MainFirst(q')
  <2>1. \A k \in Dp : MAIN(c) = MAIN(k) => ~In(MAIN(k), q) /\ ~In(DEAD(k), q)
    BY <1>2, EventsDiffer
  <2> QED
    BY <1>2, <2>1, PostLine
<1>4. \A d \in Dpid : dps[d] # c
  BY NoneAssumption DEF IInv, Registered
<1>5. PortStateFollowsDps'
  BY DEF IInv, PortStateFollowsDps
<1>6. DeadIsOnItsWay' /\ Registered'
  BY <1>1, <1>3, <1>4 DEF IInv, TypeOK, DeadIsOnItsWay, Registered
<1>7. LiveIsRegistered' /\ DeadIsTrue' /\ MainIsPending'
  <2>1. IdOf[c] \in Dpid
    BY IdOfAssumption
  <2> QED
    BY <1>1, <1>2, <1>3, <1>4, <2>1, EventsDiffer
    DEF IInv, LiveIsRegistered, DeadIsTrue, MainIsPending
<1>8. LeavingIsDead'
  BY <1>1 DEF IInv, TypeOK, LeavingIsDead
<1> QED
  BY <1>3, <1>5, <1>6, <1>7, <1>8 DEF IInv

\* Posting a port event keeps the invariant.
LEMMA PortStatusStep ==
  ASSUME IInv, TypeOK', NEW c \in Dp, NEW r \in PortReason, NEW p \in Port,
         PortStatus(c, r, p)
  PROVE  IInv'
<1> USE DEF PortStatus
<1>1. /\ PORT(c, r, p) \in Event
      /\ \A k \in Dp : PORT(c, r, p) # MAIN(k) /\ PORT(c, r, p) # DEAD(k)
  BY PortIsPort, EventsDiffer
<1>2. (\A e : In(e, q') <=> In(e, q) \/ e = PORT(c, r, p)) /\ MainFirst(q')
  BY <1>1, PostLine
<1>3. PortStateFollowsDps' /\ Registered' /\ LeavingIsDead'
  BY DEF IInv, PortStateFollowsDps, Registered, LeavingIsDead
<1>4. \A k \in Dp : /\ In(MAIN(k), q') <=> In(MAIN(k), q)
                    /\ In(DEAD(k), q') <=> In(DEAD(k), q)
  BY <1>1, <1>2
<1>5. DeadIsOnItsWay'
  BY <1>4 DEF IInv, TypeOK, DeadIsOnItsWay
<1>6. LiveIsRegistered' /\ DeadIsTrue' /\ MainIsPending'
  BY <1>4 DEF IInv, LiveIsRegistered, DeadIsTrue, MainIsPending
<1> QED
  BY <1>2, <1>3, <1>5, <1>6 DEF IInv

\* Closing a connection keeps the invariant: its DEAD event joins the line.
LEMMA CloseStep ==
  ASSUME IInv, TypeOK', NEW c \in Dp, Close(c)
  PROVE  IInv'
<1> USE DEF Close
<1>1. \A k \in Dp : state'[k] = IF k = c THEN "dead" ELSE state[k]
  BY DEF IInv, TypeOK
<1>2. CASE state[c] = "dead"
  <2>1. state' = state /\ q' = q
    BY <1>2 DEF IInv, TypeOK
  <2> QED
    BY <2>1, QuietStep
<1>3. CASE state[c] # "dead"
  <2>1. DEAD(c) \in Event /\ \A k \in Dp : DEAD(c) # MAIN(k)
    BY EventTypes, EventsDiffer
  <2>2. (\A e : In(e, q') <=> In(e, q) \/ e = DEAD(c)) /\ MainFirst(q')
    BY <1>3, <2>1, PostLine
  <2>3. PortStateFollowsDps'
    BY DEF IInv, PortStateFollowsDps
  <2>4. Registered' /\ LeavingIsDead'
    BY <1>1 DEF IInv, TypeOK, Registered, LeavingIsDead
  <2>5. DeadIsOnItsWay'
    BY <1>1, <2>2 DEF IInv, TypeOK, DeadIsOnItsWay
  <2>6. LiveIsRegistered' /\ DeadIsTrue' /\ MainIsPending'
    BY <1>1, <2>1, <2>2, EventsDiffer
    DEF IInv, LiveIsRegistered, DeadIsTrue, MainIsPending
  <2> QED
    BY <2>2, <2>3, <2>4, <2>5, <2>6 DEF IInv
<1> QED
  BY <1>2, <1>3

\* A port or an installed connection is not the mark of an absent entry.
LEMMA NoPortsIsNoSet == \A S \in SUBSET Port : S # NoPorts
BY NoneAssumption DEF NoPorts

\* The tail of _register keeps the dpids of dps and port_state the same.
LEMMA InstallFollows ==
  ASSUME TypeOK, PortStateFollowsDps, NEW c \in Dp, Install(c)
  PROVE  /\ PortStateFollowsDps'
         /\ \A d \in Dpid : dps'[d] = IF d = IdOf[c] THEN c ELSE dps[d]
<1>1. IdOf[c] \in Dpid /\ ports[c] \in SUBSET Port /\ c # None
  BY IdOfAssumption, NoneAssumption DEF TypeOK
<1> QED
  BY <1>1, NoPortsIsNoSet DEF TypeOK, PortStateFollowsDps, Install

\* _register of a switch without a live older connection keeps the invariant.
LEMMA RegisterNewStep ==
  ASSUME IInv, TypeOK', NEW c \in Dp, RegisterNew(c)
  PROVE  IInv'
<1> USE DEF RegisterNew
<1>1. /\ pc = "idle"
      /\ In(MAIN(c), q)
      /\ \A x : In(x, q) <=> x = MAIN(c) \/ In(x, q')
      /\ MainFirst(q')
      /\ ~In(MAIN(c), q')
  BY TakeLine
<1>2. /\ state[c] \in {"main", "dead"}
      /\ state[c] = "dead" => In(DEAD(c), q')
  BY <1>1, EventsDiffer DEF IInv, MainIsPending
<1>3. /\ PortStateFollowsDps'
      /\ \A d \in Dpid : dps'[d] = IF d = IdOf[c] THEN c ELSE dps[d]
  BY InstallFollows DEF IInv
<1>4. \A k \in Dp : /\ In(DEAD(k), q') <=> In(DEAD(k), q)
                    /\ In(MAIN(k), q') <=> In(MAIN(k), q) /\ k # c
  BY <1>1, EventsDiffer
<1>5. IdOf \in [Dp -> Dpid] /\ IdOf[c] \in Dpid
  BY IdOfAssumption
<1>6. DeadIsOnItsWay'
  BY <1>1, <1>2, <1>3, <1>4 DEF IInv, TypeOK, DeadIsOnItsWay
<1>7. Registered' /\ LeavingIsDead'
  BY <1>1, <1>2, <1>3 DEF IInv, Registered, LeavingIsDead
<1>8. LiveIsRegistered'
  <2> SUFFICES ASSUME NEW k \in Dp, state[k] = "main", ~In(MAIN(k), q')
               PROVE  dps'[IdOf[k]] = k
    BY <1>1 DEF LiveIsRegistered
  <2>1. CASE k = c
    BY <1>3, <1>5, <2>1
  <2>2. CASE k # c
    <3>1. dps[IdOf[k]] = k
      BY <1>1, <1>4, <2>2 DEF IInv, LiveIsRegistered
    <3>2. IdOf[k] # IdOf[c]
      BY <3>1, NoneAssumption DEF HasLiveOlder
    <3> QED
      BY <1>3, <1>5, <3>1, <3>2
  <2> QED
    BY <2>1, <2>2
<1>9. DeadIsTrue' /\ MainIsPending'
  BY <1>3, <1>4, <1>5 DEF IInv, DeadIsTrue, MainIsPending
<1> QED
  BY <1>1, <1>3, <1>6, <1>7, <1>8, <1>9 DEF IInv

\* What both ways of closing an older connection do to the line and the states.
LEMMA ReplaceLine ==
  ASSUME IInv, TypeOK', NEW c \in Dp, NEW old, old = dps[IdOf[c]],
         Taking(MAIN(c)), HasLiveOlder(c),
         state' = [state EXCEPT ![old] = "dead"],
         q' = Append(Tail(q), DEAD(old))
  PROVE  /\ old \in Dp /\ old # c /\ IdOf[old] = IdOf[c] /\ state[old] = "main"
         /\ pc = "idle"
         /\ In(MAIN(c), q)
         /\ \A k \in Dp : state'[k] = IF k = old THEN "dead" ELSE state[k]
         /\ \A k \in Dp : /\ In(DEAD(k), q') <=> In(DEAD(k), q) \/ k = old
                          /\ In(MAIN(k), q') <=> In(MAIN(k), q) /\ k # c
         /\ MainFirst(q')
<1>1. IdOf[c] \in Dpid
  BY IdOfAssumption
<1>2. /\ pc = "idle" /\ In(MAIN(c), q)
      /\ Tail(q) \in Seq(Event)
      /\ \A x : In(x, q) <=> x = MAIN(c) \/ In(x, Tail(q))
      /\ MainFirst(Tail(q))
      /\ ~In(MAIN(c), Tail(q))
  BY TakeLine
<1>3. old \in Dp /\ old # None /\ IdOf[old] = IdOf[c] /\ state[old] = "main"
  BY <1>1 DEF HasLiveOlder, IInv, TypeOK, Registered
<1>4. old # c
  BY <1>2 DEF IInv, MainIsPending
<1>5. \A k \in Dp : state'[k] = IF k = old THEN "dead" ELSE state[k]
  BY <1>3 DEF IInv, TypeOK
<1>6. DEAD(old) \in Event /\ \A k \in Dp : DEAD(old) # MAIN(k)
  BY <1>3, EventTypes, EventsDiffer
<1>7. MainFirst(q')
  BY <1>2, <1>6, MainFirstAppend
<1>8. \A e : In(e, q') <=> In(e, Tail(q)) \/ e = DEAD(old)
  BY <1>2, <1>6, InAppend
<1>9. \A k \in Dp : /\ In(DEAD(k), q') <=> In(DEAD(k), q) \/ k = old
                    /\ In(MAIN(k), q') <=> In(MAIN(k), q) /\ k # c
  BY <1>2, <1>3, <1>8, EventsDiffer
<1> QED
  BY <1>2, <1>3, <1>4, <1>5, <1>7, <1>9

\* _register that closes an older connection keeps the invariant: the DEAD
\* event of the older one is behind the new one in the line.
LEMMA RegisterReplaceStep ==
  ASSUME IInv, TypeOK', NEW c \in Dp, RegisterReplace(c)
  PROVE  IInv'
<1> DEFINE old == dps[IdOf[c]]
<1>0. /\ Taking(MAIN(c)) /\ HasLiveOlder(c)
      /\ state' = [state EXCEPT ![old] = "dead"]
      /\ q' = Append(Tail(q), DEAD(old))
      /\ Install(c)
      /\ UNCHANGED <<ports, parked, gone, pc, cur, ofs>>
  BY DEF RegisterReplace
<1>1. /\ old \in Dp /\ old # c /\ IdOf[old] = IdOf[c] /\ state[old] = "main"
      /\ pc = "idle"
      /\ In(MAIN(c), q)
      /\ \A k \in Dp : state'[k] = IF k = old THEN "dead" ELSE state[k]
      /\ \A k \in Dp : /\ In(DEAD(k), q') <=> In(DEAD(k), q) \/ k = old
                       /\ In(MAIN(k), q') <=> In(MAIN(k), q) /\ k # c
      /\ MainFirst(q')
  BY <1>0, ReplaceLine
<1>2. /\ PortStateFollowsDps'
      /\ \A d \in Dpid : dps'[d] = IF d = IdOf[c] THEN c ELSE dps[d]
  BY <1>0, InstallFollows DEF IInv
<1>3. IdOf \in [Dp -> Dpid] /\ IdOf[c] \in Dpid
  BY IdOfAssumption
<1>4. /\ state[c] \in {"main", "dead"}
      /\ state[c] = "dead" => In(DEAD(c), q)
  BY <1>1 DEF IInv, MainIsPending
<1> HIDE DEF old
<1>5. DeadIsOnItsWay'
  <2> SUFFICES ASSUME NEW d \in Dpid, dps'[d] # None, state'[dps'[d]] = "dead"
               PROVE  In(DEAD(dps'[d]), q')
    BY DEF DeadIsOnItsWay
  <2>1. CASE d = IdOf[c]
    BY <1>1, <1>2, <1>4, <2>1
  <2>2. CASE d # IdOf[c]
    <3>1. dps'[d] = dps[d] /\ dps[d] \in Dp
      BY <1>2, <2>2 DEF IInv, TypeOK
    <3> QED
      BY <1>1, <3>1 DEF IInv, TypeOK, DeadIsOnItsWay
  <2> QED
    BY <2>1, <2>2
<1>6. Registered' /\ LeavingIsDead'
  BY <1>0, <1>1, <1>2, <1>3, <1>4 DEF IInv, TypeOK, Registered, LeavingIsDead
<1>7. LiveIsRegistered'
  <2> SUFFICES ASSUME NEW k \in Dp, state'[k] = "main", ~In(MAIN(k), q')
               PROVE  dps'[IdOf[k]] = k
    BY <1>0, <1>1 DEF LiveIsRegistered
  <2>1. CASE k = c
    BY <1>2, <1>3, <2>1
  <2>2. CASE k # c
    <3>1. k # old /\ dps[IdOf[k]] = k
      BY <1>1, <2>2 DEF IInv, LiveIsRegistered
    <3>2. IdOf[k] # IdOf[c]
      BY <3>1 DEF old
    <3> QED
      BY <1>2, <1>3, <3>1, <3>2
  <2> QED
    BY <2>1, <2>2
<1>8. DeadIsTrue'
  BY <1>1 DEF IInv, DeadIsTrue
<1>9. MainIsPending'
  BY <1>1, <1>2, <1>3 DEF IInv, MainIsPending
<1> QED
  BY <1>1, <1>2, <1>5, <1>6, <1>7, <1>8, <1>9 DEF IInv

\* dpset waiting for a slot of its own queue keeps the invariant.
LEMMA RegisterStuckStep ==
  ASSUME IInv, TypeOK', NEW c \in Dp, RegisterStuck(c)
  PROVE  IInv'
<1> DEFINE old == dps[IdOf[c]]
<1>0. /\ Taking(MAIN(c)) /\ HasLiveOlder(c)
      /\ state' = [state EXCEPT ![old] = "dead"]
      /\ q' = Append(Tail(q), DEAD(old))
      /\ pc' = "closing" /\ cur' = c
      /\ UNCHANGED <<ports, parked, gone, dps, port_state, aq, ofs>>
  BY DEF RegisterStuck
<1>1. /\ old \in Dp /\ old # c /\ IdOf[old] = IdOf[c] /\ state[old] = "main"
      /\ pc = "idle"
      /\ In(MAIN(c), q)
      /\ \A k \in Dp : state'[k] = IF k = old THEN "dead" ELSE state[k]
      /\ \A k \in Dp : /\ In(DEAD(k), q') <=> In(DEAD(k), q) \/ k = old
                       /\ In(MAIN(k), q') <=> In(MAIN(k), q) /\ k # c
      /\ MainFirst(q')
  BY <1>0, ReplaceLine
<1> HIDE DEF old
<1>2. PortStateFollowsDps' /\ LeavingIsDead'
  BY <1>0 DEF IInv, PortStateFollowsDps, LeavingIsDead
<1>3. DeadIsOnItsWay' /\ Registered'
  BY <1>0, <1>1 DEF IInv, TypeOK, DeadIsOnItsWay, Registered
<1>4. LiveIsRegistered'
  BY <1>0, <1>1 DEF IInv, LiveIsRegistered
<1>5. DeadIsTrue' /\ MainIsPending'
  BY <1>0, <1>1 DEF IInv, DeadIsTrue, MainIsPending
<1> QED
  BY <1>1, <1>2, <1>3, <1>4, <1>5 DEF IInv

\* _unregister of a connection that was replaced keeps the invariant.
LEMMA UnregisterForgottenStep ==
  ASSUME IInv, TypeOK', NEW c \in Dp, UnregisterForgotten(c)
  PROVE  IInv'
<1> USE DEF UnregisterForgotten
<1>1. /\ pc = "idle" /\ MainFirst(q')
      /\ In(DEAD(c), q) /\ ~In(MAIN(c), q')
      /\ \A x : In(x, q) <=> x = DEAD(c) \/ In(x, q')
  BY TakeLine
<1>2. \A k \in Dp : /\ k # c => (In(DEAD(k), q') <=> In(DEAD(k), q))
                    /\ In(DEAD(k), q') => In(DEAD(k), q)
                    /\ In(MAIN(k), q') <=> In(MAIN(k), q)
  BY <1>1, EventsDiffer
<1>3. PortStateFollowsDps' /\ Registered' /\ LeavingIsDead' /\ DeadIsTrue'
  BY <1>2 DEF IInv, PortStateFollowsDps, Registered, LeavingIsDead, DeadIsTrue
<1>4. DeadIsOnItsWay'
  <2>1. \A d \in Dpid : dps[d] # None => dps[d] \in Dp /\ dps[d] # c
    BY DEF IInv, TypeOK, Registered
  <2> QED
    BY <1>2, <2>1 DEF IInv, DeadIsOnItsWay
<1>5. LiveIsRegistered' /\ MainIsPending'
  BY <1>1, <1>2 DEF IInv, LiveIsRegistered, MainIsPending
<1> QED
  BY <1>1, <1>3, <1>4, <1>5 DEF IInv

\* The first half of _unregister keeps the invariant.
LEMMA UnregisterStep ==
  ASSUME IInv, TypeOK', NEW c \in Dp, Unregister(c)
  PROVE  IInv'
<1> USE DEF Unregister
<1>1. /\ pc = "idle" /\ MainFirst(q')
      /\ In(DEAD(c), q) /\ ~In(MAIN(c), q')
      /\ \A x : In(x, q) <=> x = DEAD(c) \/ In(x, q')
  BY TakeLine
<1>2. \A k \in Dp : /\ k # c => (In(DEAD(k), q') <=> In(DEAD(k), q))
                    /\ In(DEAD(k), q') => In(DEAD(k), q)
                    /\ In(MAIN(k), q') <=> In(MAIN(k), q)
  BY <1>1, EventsDiffer
<1>3. /\ state[c] = "dead" /\ state' = state
      /\ IdOf[c] \in Dpid /\ dps[IdOf[c]] = c
      /\ c # None
  BY <1>1, IdOfAssumption, NoneAssumption DEF conns, IInv, DeadIsTrue
<1>4. \A d \in Dpid : d # IdOf[c] => dps[d] # c
  BY NoneAssumption DEF IInv, Registered
<1>5. CASE Len(aq) < AppMax
  <2>1. /\ pc' = pc
        /\ \A d \in Dpid : /\ dps'[d] = IF d = IdOf[c] THEN None ELSE dps[d]
                           /\ port_state'[d] = IF d = IdOf[c] THEN NoPorts
                                               ELSE port_state[d]
    BY <1>5 DEF IInv, TypeOK
  <2>2. PortStateFollowsDps'
    BY <2>1 DEF IInv, PortStateFollowsDps
  <2>3. Registered' /\ LeavingIsDead' /\ DeadIsTrue'
    BY <1>1, <1>2, <1>3, <2>1 DEF IInv, Registered, LeavingIsDead, DeadIsTrue
  <2>4. DeadIsOnItsWay'
    <3> SUFFICES ASSUME NEW d \in Dpid, dps'[d] # None, state'[dps'[d]] = "dead"
                 PROVE  In(DEAD(dps'[d]), q')
      BY DEF DeadIsOnItsWay
    <3>1. dps'[d] = dps[d] /\ dps[d] \in Dp /\ dps[d] # c
      BY <1>4, <2>1 DEF IInv, TypeOK
    <3> QED
      BY <1>1, <1>2, <1>3, <3>1 DEF IInv, DeadIsOnItsWay
  <2>5. LiveIsRegistered'
    <3> SUFFICES ASSUME NEW k \in Dp, state[k] = "main", ~In(MAIN(k), q')
                 PROVE  dps'[IdOf[k]] = k
      BY <1>3 DEF LiveIsRegistered
    <3>1. dps[IdOf[k]] = k /\ k # c
      BY <1>1, <1>2, <1>3 DEF IInv, LiveIsRegistered
    <3>2. IdOf[k] # IdOf[c] /\ IdOf[k] \in Dpid
      BY <1>3, <3>1, IdOfAssumption
    <3> QED
      BY <2>1, <3>1, <3>2
  <2>6. MainIsPending'
    <3> SUFFICES ASSUME NEW k \in Dp, In(MAIN(k), q')
                 PROVE  /\ dps'[IdOf[k]] # k
                        /\ state[k] \in {"main", "dead"}
                        /\ state[k] = "dead" => In(DEAD(k), q')
      BY <1>3 DEF MainIsPending
    <3>1. k # c /\ IdOf[k] \in Dpid /\ k # None
      BY <1>1, IdOfAssumption, NoneAssumption
    <3> QED
      BY <1>2, <2>1, <3>1 DEF IInv, MainIsPending
  <2> QED
    BY <1>1, <2>2, <2>3, <2>4, <2>5, <2>6 DEF IInv
<1>6. CASE ~(Len(aq) < AppMax)
  <2>1. /\ pc' = "leaving" /\ cur' = c /\ dps' = dps
        /\ \A d \in Dpid : port_state'[d] = IF d = IdOf[c] THEN {} ELSE port_state[d]
    BY <1>6 DEF IInv, TypeOK
  <2>2. PortStateFollowsDps'
    BY <1>3, <2>1, NoPortsIsNoSet DEF IInv, PortStateFollowsDps
  <2>3. Registered' /\ LeavingIsDead' /\ DeadIsTrue'
    BY <1>2, <1>3, <2>1 DEF IInv, Registered, LeavingIsDead, DeadIsTrue
  <2>4. DeadIsOnItsWay'
    BY <1>1, <1>2, <1>3, <2>1 DEF IInv, TypeOK, DeadIsOnItsWay
  <2>5. LiveIsRegistered' /\ MainIsPending'
    BY <1>1, <1>2, <1>3, <2>1 DEF IInv, LiveIsRegistered, MainIsPending
  <2> QED
    BY <1>1, <2>2, <2>3, <2>4, <2>5 DEF IInv
<1> QED
  BY <1>5, <1>6

\* The second half of _unregister keeps the invariant.
LEMMA UnregisterEndStep ==
  ASSUME IInv, TypeOK', UnregisterEnd
  PROVE  IInv'
<1> USE DEF UnregisterEnd, conns
<1>1. /\ cur \in Dp /\ dps[IdOf[cur]] = cur /\ state[cur] = "dead"
      /\ IdOf[cur] \in Dpid /\ cur # None
  BY IdOfAssumption, NoneAssumption DEF IInv, TypeOK, LeavingIsDead
<1>2. \A d \in Dpid : /\ dps'[d] = IF d = IdOf[cur] THEN None ELSE dps[d]
                      /\ port_state'[d] = IF d = IdOf[cur] THEN NoPorts
                                          ELSE port_state[d]
  BY DEF IInv, TypeOK
<1>3. PortStateFollowsDps'
  BY <1>2 DEF IInv, PortStateFollowsDps
<1>4. Registered' /\ LeavingIsDead' /\ DeadIsTrue' /\ MainFirst(q)'
  BY <1>2 DEF IInv, Registered, LeavingIsDead, DeadIsTrue, MainFirst
<1>5. DeadIsOnItsWay'
  BY <1>1, <1>2 DEF IInv, Registered, DeadIsOnItsWay
<1>6. LiveIsRegistered'
  <2> SUFFICES ASSUME NEW k \in Dp, state[k] = "main", ~In(MAIN(k), q)
               PROVE  dps'[IdOf[k]] = k
    BY DEF LiveIsRegistered
  <2>1. dps[IdOf[k]] = k /\ IdOf[k] \in Dpid
    BY IdOfAssumption DEF IInv, LiveIsRegistered
  <2> QED
    BY <1>1, <1>2, <2>1
<1>7. MainIsPending'
  BY <1>2, IdOfAssumption, NoneAssumption DEF IInv, MainIsPending
<1> QED
  BY <1>3, <1>4, <1>5, <1>6, <1>7 DEF IInv

\* port_status_handler keeps the invariant, whether it raises or not.
LEMMA PortStatusHandlerStep ==
  ASSUME IInv, TypeOK', NEW e \in Event, PortStatusHandler(e)
  PROVE  IInv'
<1> USE DEF PortStatusHandler, conns
<1>1. \A k \in Dp : e # MAIN(k) /\ e # DEAD(k)
  BY EventsDiffer
<1>2. /\ MainFirst(q')
      /\ \A x : In(x, q) <=> x = e \/ In(x, q')
  BY TakeLine
<1>3. \A k \in Dp : /\ In(DEAD(k), q') <=> In(DEAD(k), q)
                    /\ In(MAIN(k), q') <=> In(MAIN(k), q)
  BY <1>1, <1>2
<1>4. PortStateFollowsDps'
  <2>1. CASE PortKeyError(e)
    BY <2>1 DEF IInv, PortStateFollowsDps
  <2>2. CASE ~PortKeyError(e)
    <3>1. e.dp \in Dp /\ IdOf[e.dp] \in Dpid
      BY IdOfAssumption DEF Event
    <3>2. port_state[IdOf[e.dp]] \in SUBSET Port /\ port_state[IdOf[e.dp]] # NoPorts
      BY <2>2, <3>1 DEF PortKeyError, IInv, TypeOK
    <3>3. PortsAfter(port_state[IdOf[e.dp]], e.type, e.port) # NoPorts
      BY <3>2, PortsAfterType, NoPortsIsNoSet
    <3> QED
      BY <2>2, <3>1, <3>2, <3>3 DEF IInv, TypeOK, PortStateFollowsDps
  <2> QED
    BY <2>1, <2>2
<1>5. Registered' /\ LeavingIsDead' /\ DeadIsTrue'
  BY <1>3 DEF IInv, Registered, LeavingIsDead, DeadIsTrue
<1>6. DeadIsOnItsWay'
  BY <1>3 DEF IInv, TypeOK, DeadIsOnItsWay
<1>7. LiveIsRegistered' /\ MainIsPending'
  BY <1>3 DEF IInv, LiveIsRegistered, MainIsPending
<1> QED
  BY <1>2, <1>4, <1>5, <1>6, <1>7 DEF IInv

-----------------------------------------------------------------------------
(* The theorems.                                                           *)

\* Every step keeps the invariant: one case per action.
LEMMA InvStep == IInv /\ [Next]_vars => IInv'
<1> SUFFICES ASSUME IInv, [Next]_vars PROVE IInv'
  OBVIOUS
<1>0. TypeOK'
  BY TypeStep DEF IInv
<1>1. ASSUME NEW c \in Dp, DpStep(c) PROVE IInv'
  <2>1. CASE Connect(c)
    BY <1>0, <2>1, ConnectStep
  <2>2. ASSUME NEW S \in SUBSET Port, PortDescMore(c, S) PROVE IInv'
    BY <1>0, <2>2, QuietStep DEF PortDescMore
  <2>3. ASSUME NEW S \in SUBSET Port, PortDescLast(c, S) PROVE IInv'
    BY <1>0, <2>3, PortDescLastStep
  <2>4. ASSUME NEW r \in PortReason, NEW p \in Port, PortStatus(c, r, p) PROVE IInv'
    BY <1>0, <2>4, PortStatusStep
  <2>5. CASE Resume(c)
    BY <1>0, <2>5, QuietStep DEF Resume
  <2>6. CASE Close(c)
    BY <1>0, <2>6, CloseStep
  <2> QED
    BY <1>1, <2>1, <2>2, <2>3, <2>4, <2>5, <2>6 DEF DpStep
<1>2. ASSUME DpsetStep PROVE IInv'
  <2>1. ASSUME NEW c \in Dp, Register(c) \/ UnregisterForgotten(c) \/ Unregister(c)
        PROVE  IInv'
    BY <1>0, <2>1, RegisterNewStep, RegisterReplaceStep, RegisterStuckStep,
       UnregisterForgottenStep, UnregisterStep DEF Register
  <2>2. CASE UnregisterEnd
    BY <1>0, <2>2, UnregisterEndStep
  <2>3. ASSUME NEW e \in Event, PortStatusHandler(e) PROVE IInv'
    BY <1>0, <2>3, PortStatusHandlerStep
  <2> QED
    BY <1>2, <2>1, <2>2, <2>3 DEF DpsetStep
<1>3. CASE HandlerDatapath
  BY <1>0, <1>3, QuietStep DEF HandlerDatapath, conns
<1>4. CASE UNCHANGED vars
  BY <1>0, <1>4, QuietStep DEF vars
<1> QED
  BY <1>1, <1>2, <1>3, <1>4 DEF Next

\* The invariant holds when ryu-manager starts.
LEMMA InvInit == Init => IInv
<1> SUFFICES ASSUME Init PROVE IInv
  OBVIOUS
<1>1. TypeOK
  BY DEF Init, TypeOK
<1>2. \A e : ~In(e, q)
  BY DEF Init, In
<1> QED
  BY <1>1, <1>2
  DEF Init, IInv, PortStateFollowsDps, DeadIsOnItsWay, LiveIsRegistered, Registered,
      DeadIsTrue, MainIsPending, MainFirst, LeavingIsDead

\* The registry keeps the whole invariant.
THEOREM Invariant == Spec => []IInv
BY InvInit, InvStep, PTL DEF Spec

\* A dead connection that dps holds is always about to be removed: its DEAD
\* event is in dpset's line, or dpset is removing it.
THEOREM DeadIsRemoved == Spec => []DeadIsOnItsWay
BY Invariant, PTL DEF IInv

\* A live connection is always registered once its MAIN event has been handled:
\* no late event of another connection of the switch drops it.
THEOREM LiveStays == Spec => []LiveIsRegistered
BY Invariant, PTL DEF IInv

\* dps and port_state always hold the same switches.
THEOREM SamePortState == Spec => []PortStateFollowsDps
BY Invariant, PTL DEF IInv

\* Two connections of one switch are never both live and registered-or-done:
\* once dpset has caught up, at most one connection per dpid is in MAIN.
OneLivePerSwitch ==
  q = <<>> /\ Idle =>
    \A c1, c2 \in Dp : state[c1] = "main" /\ state[c2] = "main" /\ IdOf[c1] = IdOf[c2]
                         => c1 = c2

\* When dpset has handled every event, at most one connection of a switch is live.
THEOREM OneLive == Spec => []OneLivePerSwitch
<1>1. IInv => OneLivePerSwitch
  <2> SUFFICES ASSUME IInv, q = <<>>, Idle, NEW c1 \in Dp, NEW c2 \in Dp,
                      state[c1] = "main", state[c2] = "main", IdOf[c1] = IdOf[c2]
               PROVE  c1 = c2
    BY DEF OneLivePerSwitch
  <2>1. \A e : ~In(e, q)
    BY DEF In
  <2> QED
    BY <2>1 DEF IInv, LiveIsRegistered, Idle
<1> QED
  BY <1>1, Invariant, PTL

-----------------------------------------------------------------------------
(* EventDP.  The events about a dpid in RestQoSAPI's line lead from what    *)
(* _OFS_LIST says of it to what dpset has announced, entering and leaving   *)
(* by turns.                                                                *)

\* Positions of the events about d in the line s.
At(s, d) == {i \in 1..Len(s) : IdOf[s[i].dp] = d}

\* The events about d in s lead from "entered is o" to "entered is a" by turns.
Turns(s, d, o, a) ==
  /\ At(s, d) = {} => (a <=> o)
  /\ \A i \in At(s, d) :
       /\ (\A j \in At(s, d) : i <= j) => (s[i].enter <=> ~o)
       /\ (\A j \in At(s, d) : j <= i) => (s[i].enter <=> a)
       /\ \A j \in At(s, d) : (i < j /\ \A k \in At(s, d) : k <= i \/ j <= k)
                                => (s[i].enter <=> ~s[j].enter)

\* Where the events about d are after one has been added.
LEMMA AtAppend ==
  ASSUME NEW s \in Seq(EventDP), NEW x \in EventDP, NEW d
  PROVE  /\ Len(s) \in Nat
         /\ \A i \in 1..Len(s) : Append(s, x)[i] = s[i]
         /\ Append(s, x)[Len(s) + 1] = x
         /\ IdOf[x.dp] = d => At(Append(s, x), d) = At(s, d) \cup {Len(s) + 1}
         /\ IdOf[x.dp] # d => At(Append(s, x), d) = At(s, d)
<1>1. /\ Len(Append(s, x)) = Len(s) + 1
      /\ \A i \in 1..Len(s) : Append(s, x)[i] = s[i]
      /\ Append(s, x)[Len(s) + 1] = x
      /\ Len(s) \in Nat
  BY AppendProperties, LenProperties
<1>2. \A i : i \in 1..Len(s) + 1 <=> i \in 1..Len(s) \/ i = Len(s) + 1
  BY <1>1
<1> QED
  BY <1>1, <1>2 DEF At

\* An event about another dpid changes nothing for d.
LEMMA TurnsOther ==
  ASSUME NEW s \in Seq(EventDP), NEW x \in EventDP, NEW d, IdOf[x.dp] # d,
         NEW o, NEW a, Turns(s, d, o, a)
  PROVE  Turns(Append(s, x), d, o, a)
<1>1. /\ \A i \in At(s, d) : Append(s, x)[i] = s[i]
      /\ At(Append(s, x), d) = At(s, d)
  BY AtAppend DEF At
<1> QED
  BY <1>1 DEF Turns

\* An event about d that changes what is announced keeps the turns.
LEMMA TurnsAppend ==
  ASSUME NEW s \in Seq(EventDP), NEW x \in EventDP, NEW d, IdOf[x.dp] = d,
         NEW o, NEW a, Turns(s, d, o, a), x.enter <=> ~a
  PROVE  Turns(Append(s, x), d, o, x.enter)
<1> DEFINE n == Len(s) + 1
           t == Append(s, x)
<1>1. /\ \A i \in At(s, d) : t[i] = s[i] /\ i \in Nat /\ i < n
      /\ t[n] = x /\ n \in Nat
      /\ At(t, d) = At(s, d) \cup {n}
  BY AtAppend DEF At
<1>2. ASSUME NEW i \in At(t, d), \A j \in At(t, d) : i <= j
      PROVE  t[i].enter <=> ~o
  <2>1. CASE i = n
    <3>1. ASSUME NEW j \in At(s, d) PROVE FALSE
      <4>1. j \in At(t, d) /\ j < n /\ j \in Nat
        BY <1>1
      <4>2. n <= j
        BY <1>2, <2>1, <4>1
      <4> QED
        BY <1>1, <4>1, <4>2
    <3>2. At(s, d) = {}
      BY <3>1
    <3> QED
      BY <1>1, <2>1, <3>2 DEF Turns
  <2>2. CASE i # n
    <3>1. i \in At(s, d) /\ \A j \in At(s, d) : i <= j
      BY <1>1, <1>2, <2>2
    <3> QED
      BY <1>1, <3>1 DEF Turns
  <2> QED
    BY <2>1, <2>2
<1>3. ASSUME NEW i \in At(t, d), \A j \in At(t, d) : j <= i
      PROVE  t[i].enter <=> x.enter
  BY <1>1, <1>3
<1>4. ASSUME NEW i \in At(t, d), NEW j \in At(t, d), i < j,
             \A k \in At(t, d) : k <= i \/ j <= k
      PROVE  t[i].enter <=> ~t[j].enter
  <2>1. i \in At(s, d)
    BY <1>1, <1>4
  <2>2. CASE j = n
    <3>1. \A k \in At(s, d) : k <= i
      BY <1>1, <1>4, <2>2
    <3> QED
      BY <1>1, <2>1, <2>2, <3>1 DEF Turns
  <2>3. CASE j # n
    <3>1. j \in At(s, d) /\ \A k \in At(s, d) : k <= i \/ j <= k
      BY <1>1, <1>4, <2>3
    <3> QED
      BY <1>1, <1>4, <2>1, <3>1 DEF Turns
  <2> QED
    BY <2>2, <2>3
<1>5. At(t, d) # {}
  BY <1>1
<1> HIDE DEF t
<1>6. Turns(t, d, o, x.enter)
  BY <1>2, <1>3, <1>4, <1>5 DEF Turns
<1> QED
  BY <1>6 DEF t

\* Taking the first event: one about d moves what _OFS_LIST says.
LEMMA TurnsTail ==
  ASSUME NEW s \in Seq(EventDP), s # <<>>, NEW d, NEW o, NEW a, Turns(s, d, o, a)
  PROVE  /\ IdOf[Head(s).dp] # d => Turns(Tail(s), d, o, a)
         /\ IdOf[Head(s).dp] = d => /\ Head(s).enter <=> ~o
                                    /\ Turns(Tail(s), d, Head(s).enter, a)
<1> DEFINE t == Tail(s)
<1>1. /\ Len(s) \in Nat \ {0} /\ Len(t) = Len(s) - 1
      /\ Head(s) = s[1]
      /\ \A i \in 1..Len(t) : t[i] = s[i + 1]
  BY HeadTailProperties, LenProperties, EmptySeq
<1>2. \A i \in At(t, d) : i \in Nat /\ i >= 1 /\ i + 1 \in At(s, d) /\ t[i] = s[i + 1]
  BY <1>1 DEF At
<1>3. \A k \in At(s, d) : k \in Nat /\ (k = 1 \/ k - 1 \in At(t, d))
  BY <1>1 DEF At
<1>4. 1 \in At(s, d) <=> IdOf[Head(s).dp] = d
  BY <1>1 DEF At
<1> HIDE DEF t
<1>5. ASSUME NEW i \in At(t, d), \A j \in At(t, d) : j <= i
      PROVE  t[i].enter <=> a
  <2>1. \A k \in At(s, d) : k <= i + 1
    BY <1>2, <1>3, <1>5
  <2> QED
    BY <1>2, <2>1 DEF Turns
<1>6. ASSUME NEW i \in At(t, d), NEW j \in At(t, d), i < j,
             \A k \in At(t, d) : k <= i \/ j <= k
      PROVE  t[i].enter <=> ~t[j].enter
  <2>1. i + 1 < j + 1
    BY <1>2, <1>6
  <2>2. ASSUME NEW k \in At(s, d) PROVE k <= i + 1 \/ j + 1 <= k
    <3>1. CASE k = 1
      BY <1>2, <3>1
    <3>2. CASE k # 1
      <4>1. k - 1 <= i \/ j <= k - 1
        BY <1>3, <1>6, <3>2
      <4> QED
        BY <1>2, <1>3, <4>1
    <3> QED
      BY <3>1, <3>2
  <2> QED
    BY <1>2, <2>1, <2>2 DEF Turns
<1>7. CASE IdOf[Head(s).dp] # d
  <2>1. ASSUME NEW i \in At(t, d), \A j \in At(t, d) : i <= j
        PROVE  t[i].enter <=> ~o
    <3>1. \A k \in At(s, d) : i + 1 <= k
      BY <1>2, <1>3, <1>4, <1>7, <2>1
    <3> QED
      BY <1>2, <3>1 DEF Turns
  <2>2. At(t, d) = {} => At(s, d) = {}
    BY <1>3, <1>4, <1>7
  <2>3. Turns(t, d, o, a)
    BY <1>5, <1>6, <2>1, <2>2 DEF Turns
  <2> QED
    BY <1>7, <2>3 DEF t
<1>8. CASE IdOf[Head(s).dp] = d
  <2>0. 1 \in At(s, d) /\ \A k \in At(s, d) : 1 <= k
    BY <1>4, <1>8 DEF At
  <2>1. Head(s).enter <=> ~o
    BY <1>1, <2>0 DEF Turns
  <2>2. ASSUME NEW i \in At(t, d), \A j \in At(t, d) : i <= j
        PROVE  t[i].enter <=> ~Head(s).enter
    <3>1. 1 < i + 1 /\ \A k \in At(s, d) : k <= 1 \/ i + 1 <= k
      BY <1>2, <1>3, <2>2
    <3> QED
      BY <1>1, <1>2, <2>0, <3>1 DEF Turns
  <2>3. ASSUME At(t, d) = {} PROVE a <=> Head(s).enter
    <3>1. \A k \in At(s, d) : k <= 1
      BY <1>3, <2>3
    <3> QED
      BY <1>1, <2>0, <3>1 DEF Turns
  <2>4. Turns(t, d, Head(s).enter, a)
    BY <1>5, <1>6, <2>2, <2>3 DEF Turns
  <2> QED
    BY <1>8, <2>1, <2>4 DEF t
<1> QED
  BY <1>7, <1>8

\* For every dpid the events in line lead from _OFS_LIST to what is announced.
Alternating == \A d \in Dpid : Turns(aq, d, ofs[d] # None, Announced(d))

\* A step that neither posts nor takes an EventDP and announces nothing.
LEMMA TurnsKept ==
  ASSUME Alternating, aq' = aq, ofs' = ofs, \A d \in Dpid : Announced(d)' <=> Announced(d)
  PROVE  Alternating'
BY DEF Alternating, Turns

\* The tail of _register posts the enter of a dpid that was not announced, or
\* nothing.
LEMMA InstallTurns ==
  ASSUME IInv, Alternating, NEW c \in Dp, Install(c), pc = "idle", UNCHANGED <<pc, cur, ofs>>
  PROVE  Alternating'
<1>1. /\ IdOf[c] \in Dpid /\ c # None
      /\ \A d \in Dpid : dps'[d] = IF d = IdOf[c] THEN c ELSE dps[d]
      /\ port_state[IdOf[c]] = NoPorts <=> dps[IdOf[c]] = None
  BY InstallFollows, IdOfAssumption, NoneAssumption DEF IInv, PortStateFollowsDps
<1>2. \A d \in Dpid : /\ Announced(d) <=> dps[d] # None
                      /\ Announced(d)' <=> dps'[d] # None
  BY DEF Announced
<1>3. CASE port_state[IdOf[c]] # NoPorts
  <2>1. aq' = aq /\ \A d \in Dpid : Announced(d)' <=> Announced(d)
    BY <1>1, <1>2, <1>3 DEF Install
  <2> QED
    BY <2>1, TurnsKept
<1>4. CASE port_state[IdOf[c]] = NoPorts
  <2>1. /\ aq' = Append(aq, Enter(c)) /\ aq \in Seq(EventDP) /\ Enter(c) \in EventDP
        /\ Enter(c).dp = c /\ Enter(c).enter = TRUE
    BY <1>4, EventTypes DEF Install, IInv, TypeOK, Enter
  <2> SUFFICES ASSUME NEW d \in Dpid PROVE Turns(aq', d, ofs[d] # None, Announced(d)')
    BY DEF Alternating
  <2>2. Turns(aq, d, ofs[d] # None, Announced(d))
    BY DEF Alternating
  <2>3. CASE d = IdOf[c]
    <3>1. ~Announced(d) /\ Announced(d)'
      BY <1>1, <1>2, <1>4, <2>3
    <3>2. Turns(aq', d, ofs[d] # None, Enter(c).enter)
      BY <2>1, <2>2, <2>3, <3>1, TurnsAppend
    <3> QED
      BY <2>1, <3>1, <3>2 DEF Turns
  <2>4. CASE d # IdOf[c]
    <3>1. Announced(d)' <=> Announced(d)
      BY <1>1, <1>2, <2>4
    <3>2. Turns(aq', d, ofs[d] # None, Announced(d))
      BY <2>1, <2>2, <2>4, TurnsOther
    <3> QED
      BY <3>1, <3>2 DEF Turns
  <2> QED
    BY <2>3, <2>4
<1> QED
  BY <1>3, <1>4

\* _unregister posts the leave of a dpid that was announced.
LEMMA UnregisterTurns ==
  ASSUME IInv, Alternating, NEW c \in Dp, Unregister(c)
  PROVE  Alternating'
<1>1. /\ IdOf[c] \in Dpid /\ dps[IdOf[c]] = c /\ c # None /\ pc = "idle" /\ ofs' = ofs
      /\ aq' = Append(aq, Leave(c)) /\ aq \in Seq(EventDP) /\ Leave(c) \in EventDP
      /\ Leave(c).dp = c /\ Leave(c).enter = FALSE
  BY IdOfAssumption, NoneAssumption, EventTypes DEF Unregister, Taking, Idle, IInv, TypeOK, Leave
<1>2. \A d \in Dpid : Announced(d)' <=> (Announced(d) /\ d # IdOf[c])
  BY <1>1 DEF Unregister, Announced, IInv, TypeOK
<1>3. Announced(IdOf[c])
  BY <1>1 DEF Announced
<1> SUFFICES ASSUME NEW d \in Dpid PROVE Turns(aq', d, ofs[d] # None, Announced(d)')
  BY <1>1 DEF Alternating
<1>4. Turns(aq, d, ofs[d] # None, Announced(d))
  BY DEF Alternating
<1>5. CASE d = IdOf[c]
  <2>1. Turns(aq', d, ofs[d] # None, Leave(c).enter)
    BY <1>1, <1>3, <1>4, <1>5, TurnsAppend
  <2> QED
    BY <1>1, <1>2, <1>5, <2>1 DEF Turns
<1>6. CASE d # IdOf[c]
  <2>1. Turns(aq', d, ofs[d] # None, Announced(d))
    BY <1>1, <1>4, <1>6, TurnsOther
  <2> QED
    BY <1>2, <1>6, <2>1 DEF Turns
<1> QED
  BY <1>5, <1>6

\* handler_datapath makes _OFS_LIST follow the first event in line.
LEMMA HandlerTurns ==
  ASSUME IInv, Alternating, HandlerDatapath
  PROVE  Alternating'
<1> DEFINE e == Head(aq)
<1>0. aq \in Seq(EventDP) /\ aq # <<>> /\ aq' = Tail(aq)
  BY DEF HandlerDatapath, IInv, TypeOK
<1>1. e \in EventDP /\ e.dp \in Dp /\ IdOf[e.dp] \in Dpid /\ e.dp # None
  <2>1. e \in EventDP
    BY <1>0, TakeType
  <2> QED
    BY <2>1, IdOfAssumption, NoneAssumption DEF EventDP
<1>2. \A d \in Dpid : Announced(d)' <=> Announced(d)
  BY DEF HandlerDatapath, Announced
<1> SUFFICES ASSUME NEW d \in Dpid PROVE Turns(aq', d, ofs'[d] # None, Announced(d)')
  BY DEF Alternating
<1>3. Turns(aq, d, ofs[d] # None, Announced(d))
  BY DEF Alternating
<1>4. CASE IdOf[e.dp] = d
  <2>1. (e.enter <=> ~(ofs[d] # None)) /\ Turns(aq', d, e.enter, Announced(d))
    BY <1>0, <1>3, <1>4, TurnsTail
  <2>2. ofs'[d] # None <=> e.enter
    BY <1>1, <1>4, <2>1 DEF HandlerDatapath, IInv, TypeOK
  <2> QED
    BY <1>2, <2>1, <2>2 DEF Turns
<1>5. CASE IdOf[e.dp] # d
  <2>1. Turns(aq', d, ofs[d] # None, Announced(d))
    BY <1>0, <1>3, <1>5, TurnsTail
  <2>2. ofs'[d] = ofs[d]
    BY <1>1, <1>5 DEF HandlerDatapath, IInv, TypeOK
  <2> QED
    BY <1>2, <2>1, <2>2 DEF Turns
<1> QED
  BY <1>4, <1>5

\* Every step keeps the turns.
LEMMA TurnsStep == IInv /\ Alternating /\ [Next]_vars => Alternating'
<1> SUFFICES ASSUME IInv, Alternating, [Next]_vars PROVE Alternating'
  OBVIOUS
<1>1. ASSUME UNCHANGED <<pc, cur, dps, aq, ofs>> PROVE Alternating'
  BY <1>1, TurnsKept DEF Announced
<1>2. ASSUME NEW c \in Dp, DpStep(c) PROVE Alternating'
  BY <1>1, <1>2 DEF DpStep, Connect, PortDescMore, PortDescLast, PortStatus, Resume, Close
<1>3. ASSUME NEW c \in Dp, RegisterNew(c) \/ RegisterReplace(c) PROVE Alternating'
  BY <1>3, InstallTurns DEF RegisterNew, RegisterReplace, Taking, Idle
<1>4. ASSUME NEW c \in Dp, RegisterStuck(c) PROVE Alternating'
  BY <1>4, TurnsKept DEF RegisterStuck, Taking, Idle, Announced
<1>5. ASSUME NEW c \in Dp, UnregisterForgotten(c) PROVE Alternating'
  BY <1>1, <1>5 DEF UnregisterForgotten
<1>6. ASSUME UnregisterEnd PROVE Alternating'
  <2>1. cur \in Dp /\ IdOf[cur] \in Dpid
    BY <1>6, IdOfAssumption DEF UnregisterEnd, IInv, TypeOK
  <2>2. \A d \in Dpid : Announced(d)' <=> Announced(d)
    BY <1>6, <2>1 DEF UnregisterEnd, Announced, IInv, TypeOK
  <2> QED
    BY <1>6, <2>2, TurnsKept DEF UnregisterEnd
<1>7. ASSUME NEW e \in Event, PortStatusHandler(e) PROVE Alternating'
  BY <1>1, <1>7 DEF PortStatusHandler
<1>8. CASE UNCHANGED vars
  BY <1>1, <1>8 DEF vars
<1> QED
  BY <1>2, <1>3, <1>4, <1>5, <1>6, <1>7, <1>8, UnregisterTurns, HandlerTurns
  DEF Next, DpsetStep, Register

\* RestQoSAPI sees EventDP enter and leave of a dpid by turns, from what it
\* holds to what dpset holds, however the connections of a switch overlap.
THEOREM EventDPInTurns == Spec => []EventDPAlternates
<1>1. Init => Alternating
  <2> SUFFICES ASSUME Init, NEW d \in Dpid PROVE Turns(aq, d, ofs[d] # None, Announced(d))
    BY DEF Alternating
  <2>1. At(aq, d) = {} /\ ofs[d] = None /\ ~Announced(d)
    BY DEF Init, At, Announced
  <2> QED
    BY <2>1 DEF Turns
<1>2. TypeOK /\ Alternating => EventDPAlternates
  <2> SUFFICES ASSUME TypeOK, Alternating, NEW d \in Dpid
               PROVE  LET I == About(d) IN
                        IF I = {} THEN Announced(d) <=> ofs[d] # None
                        ELSE \A i \in I :
                          /\ (\A j \in I : i <= j) => (aq[i].enter <=> ofs[d] = None)
                          /\ (\A j \in I : j <= i) => (aq[i].enter <=> Announced(d))
                          /\ \A j \in I : (i < j /\ \A k \in I : k <= i \/ j <= k)
                                           => aq[i].enter # aq[j].enter
    BY DEF EventDPAlternates
  <2>1. About(d) = At(aq, d)
    BY DEF About, At
  <2>2. \A i \in At(aq, d) : aq[i].enter \in BOOLEAN
    <3>1. aq \in Seq(EventDP) /\ \A e \in EventDP : e.enter \in BOOLEAN
      BY DEF TypeOK, EventDP
    <3>2. \A i \in 1..Len(aq) : aq[i] \in EventDP
      BY <3>1, ElementOfSeq
    <3> QED
      BY <3>1, <3>2 DEF At
  <2>3. Turns(aq, d, ofs[d] # None, Announced(d))
    BY DEF Alternating
  <2>4. \A x, y \in BOOLEAN : (x <=> ~y) => x # y
    OBVIOUS
  <2>5. \A i, j \in At(aq, d) : (aq[i].enter <=> ~aq[j].enter) => aq[i].enter # aq[j].enter
    BY <2>2, <2>4
  <2> QED
    BY <2>1, <2>3, <2>5 DEF Turns
<1>3. Spec => []Alternating
  BY <1>1, Invariant, TurnsStep, PTL DEF Spec
<1> QED
  BY <1>2, <1>3, TypeCorrect, PTL

-----------------------------------------------------------------------------
(* Ports.  The port events in line about a connection, and the one its     *)
(* receive greenlet still has to apply, lead from what port_state holds to  *)
(* what Datapath.ports will hold.                                           *)

\* The greenlets post events of connections that have been in MAIN.
Sent(s, st) == \A i \in 1..Len(s) : st[s[i].dp] \in {"main", "dead"}

\* A receive greenlet waits with an event of its own connection.
ParkedOwn == \A c \in Dp : parked[c] # None => parked[c].dp = c

\* The MAIN event of a connection is in line before all its other events.
MainOpens(s) ==
  \A i, j \in 1..Len(s), c \in Dp : j < i /\ s[i] = MAIN(c) => s[j].dp # c

\* As long as the MAIN event is in line, so is the event the greenlet waits with.
Behind == \A c \in Dp : In(MAIN(c), q) /\ parked[c] # None => In(parked[c], q)

\* Positions of the events about port p of connection c.
Pending(s, c, p) == {i \in 1..Len(s) : s[i].dp = c /\ s[i].port = p}

\* The last event about the port in s, if there is one, leaves it there iff b.
Decided(s, c, p, b) ==
  \A i \in Pending(s, c, p) :
    (\A j \in Pending(s, c, p) : j <= i) => (s[i].type = "set" <=> b)

\* Port p is in Datapath.ports once the receive greenlet has caught up.
On(c, p) ==
  IF parked[c] # None /\ parked[c].type \in PortReason /\ parked[c].port = p
  THEN parked[c].type = "set" ELSE p \in ports[c]

\* No other connection has ever announced the dpid of c.
Solo(c) == \A k \in Dp : IdOf[k] = IdOf[c] /\ state[k] # "none" => k = c

\* What the line and port_state say of a port of a connection alone in MAIN.
Tracked(c, p) ==
  /\ Decided(q, c, p, On(c, p))
  /\ dps[IdOf[c]] = c /\ Pending(q, c, p) = {} => (p \in port_state[IdOf[c]] <=> On(c, p))

Tracks == \A c \in Dp : Solo(c) /\ state[c] = "main" => \A p \in Port : Tracked(c, p)

TInv == Sent(q, state) /\ ParkedOwn /\ MainOpens(q) /\ Behind /\ Tracks

\* Which events about a port are in a line after one has been added.
LEMMA PendingAppend ==
  ASSUME NEW s \in Seq(Event), NEW x \in Event, NEW c, NEW p
  PROVE  /\ Len(s) \in Nat
         /\ \A i \in 1..Len(s) : Append(s, x)[i] = s[i]
         /\ Append(s, x)[Len(s) + 1] = x
         /\ x.dp = c /\ x.port = p
              => Pending(Append(s, x), c, p) = Pending(s, c, p) \cup {Len(s) + 1}
         /\ ~(x.dp = c /\ x.port = p) => Pending(Append(s, x), c, p) = Pending(s, c, p)
<1>1. /\ Len(Append(s, x)) = Len(s) + 1
      /\ \A i \in 1..Len(s) : Append(s, x)[i] = s[i]
      /\ Append(s, x)[Len(s) + 1] = x
      /\ Len(s) \in Nat
  BY AppendProperties, LenProperties
<1>2. \A i : i \in 1..Len(s) + 1 <=> i \in 1..Len(s) \/ i = Len(s) + 1
  BY <1>1
<1> QED
  BY <1>1, <1>2 DEF Pending

\* An event about something else decides nothing about the port.
LEMMA DecidedOther ==
  ASSUME NEW s \in Seq(Event), NEW x \in Event, NEW c, NEW p, NEW b,
         ~(x.dp = c /\ x.port = p), Decided(s, c, p, b)
  PROVE  /\ Decided(Append(s, x), c, p, b)
         /\ Pending(Append(s, x), c, p) = Pending(s, c, p)
<1>1. /\ Pending(Append(s, x), c, p) = Pending(s, c, p)
      /\ \A i \in Pending(s, c, p) : Append(s, x)[i] = s[i]
  BY PendingAppend DEF Pending
<1> QED
  BY <1>1 DEF Decided

\* The last event about the port decides.
LEMMA DecidedLast ==
  ASSUME NEW s \in Seq(Event), NEW x \in Event, NEW c, NEW p, x.dp = c, x.port = p
  PROVE  /\ Decided(Append(s, x), c, p, x.type = "set")
         /\ Pending(Append(s, x), c, p) # {}
<1> DEFINE n == Len(s) + 1
           t == Append(s, x)
<1>1. /\ Pending(t, c, p) = Pending(s, c, p) \cup {n}
      /\ \A i \in Pending(s, c, p) : i \in Nat /\ i < n
      /\ t[n] = x /\ n \in Nat
  BY PendingAppend DEF Pending
<1> HIDE DEF t
<1>2. ASSUME NEW i \in Pending(t, c, p), \A j \in Pending(t, c, p) : j <= i
      PROVE  i = n
  BY <1>1, <1>2
<1>3. Decided(t, c, p, x.type = "set")
  BY <1>1, <1>2 DEF Decided
<1>4. Pending(t, c, p) # {}
  BY <1>1
<1> QED
  BY <1>3, <1>4 DEF t

\* Taking the first event: what the rest decides, and what it was if the rest
\* says nothing.
LEMMA DecidedTail ==
  ASSUME NEW s \in Seq(Event), s # <<>>, NEW c, NEW p, NEW b, Decided(s, c, p, b)
  PROVE  /\ Decided(Tail(s), c, p, b)
         /\ Pending(Tail(s), c, p) = {} /\ Head(s).dp = c /\ Head(s).port = p
              => (Head(s).type = "set" <=> b)
         /\ Pending(Tail(s), c, p) = {} /\ ~(Head(s).dp = c /\ Head(s).port = p)
              => Pending(s, c, p) = {}
<1> DEFINE t == Tail(s)
<1>1. /\ Len(s) \in Nat \ {0} /\ Len(t) = Len(s) - 1
      /\ Head(s) = s[1]
      /\ \A i \in 1..Len(t) : t[i] = s[i + 1]
  BY HeadTailProperties, LenProperties, EmptySeq
<1>2. \A i \in Pending(t, c, p) : i \in Nat /\ i + 1 \in Pending(s, c, p) /\ t[i] = s[i + 1]
  BY <1>1 DEF Pending
<1>3. \A k \in Pending(s, c, p) : k \in Nat /\ (k = 1 \/ k - 1 \in Pending(t, c, p))
  BY <1>1 DEF Pending
<1>4. 1 \in Pending(s, c, p) <=> Head(s).dp = c /\ Head(s).port = p
  BY <1>1 DEF Pending
<1> HIDE DEF t
<1>5. ASSUME NEW i \in Pending(t, c, p), \A j \in Pending(t, c, p) : j <= i
      PROVE  t[i].type = "set" <=> b
  <2>1. \A k \in Pending(s, c, p) : k <= i + 1
    BY <1>2, <1>3, <1>5
  <2> QED
    BY <1>2, <2>1 DEF Decided
<1>6. ASSUME Pending(t, c, p) = {}, Head(s).dp = c, Head(s).port = p
      PROVE  Head(s).type = "set" <=> b
  <2>1. 1 \in Pending(s, c, p) /\ \A k \in Pending(s, c, p) : k <= 1
    BY <1>3, <1>4, <1>6
  <2> QED
    BY <1>1, <2>1 DEF Decided
<1>7. ASSUME Pending(t, c, p) = {}, ~(Head(s).dp = c /\ Head(s).port = p)
      PROVE  Pending(s, c, p) = {}
  BY <1>3, <1>4, <1>7
<1>8. Decided(t, c, p, b)
  BY <1>5 DEF Decided
<1> QED
  BY <1>6, <1>7, <1>8 DEF t

\* A new event keeps every MAIN event in front of the others of its connection
\* unless it is one of a connection with events in line.
LEMMA MainOpensAppend ==
  ASSUME NEW s \in Seq(Event), NEW x \in Event, MainOpens(s),
         \A c \in Dp : x = MAIN(c) => \A i \in 1..Len(s) : s[i].dp # c
  PROVE  MainOpens(Append(s, x))
<1>1. /\ Len(Append(s, x)) = Len(s) + 1
      /\ \A i \in 1..Len(s) : Append(s, x)[i] = s[i]
      /\ Append(s, x)[Len(s) + 1] = x
      /\ Len(s) \in Nat
  BY AppendProperties, LenProperties
<1> SUFFICES ASSUME NEW i \in 1..Len(s) + 1, NEW j \in 1..Len(s) + 1, NEW c \in Dp,
                    j < i, Append(s, x)[i] = MAIN(c)
             PROVE  Append(s, x)[j].dp # c
  BY <1>1 DEF MainOpens
<1>2. j \in 1..Len(s) /\ Append(s, x)[j] = s[j]
  BY <1>1
<1>3. CASE i = Len(s) + 1
  BY <1>1, <1>2, <1>3
<1>4. CASE i # Len(s) + 1
  <2>1. i \in 1..Len(s) /\ s[i] = MAIN(c)
    BY <1>1, <1>4
  <2> QED
    BY <1>2, <2>1 DEF MainOpens
<1> QED
  BY <1>3, <1>4

\* Taking an event keeps it, and no event comes before the MAIN event of its
\* connection.
LEMMA MainOpensTail ==
  ASSUME NEW s \in Seq(Event), s # <<>>, MainOpens(s)
  PROVE  /\ MainOpens(Tail(s))
         /\ \A c \in Dp : Head(s).dp = c => ~In(MAIN(c), Tail(s))
<1>1. /\ Len(s) \in Nat \ {0} /\ Len(Tail(s)) = Len(s) - 1
      /\ Head(s) = s[1]
      /\ \A i \in 1..Len(Tail(s)) : Tail(s)[i] = s[i + 1] /\ i + 1 \in 1..Len(s)
      /\ 1 \in 1..Len(s)
  BY HeadTailProperties, LenProperties, EmptySeq
<1>2. MainOpens(Tail(s))
  <2> SUFFICES ASSUME NEW i \in 1..Len(Tail(s)), NEW j \in 1..Len(Tail(s)), NEW c \in Dp,
                      j < i, Tail(s)[i] = MAIN(c)
               PROVE  Tail(s)[j].dp # c
    BY DEF MainOpens
  <2>1. j + 1 < i + 1 /\ s[i + 1] = MAIN(c) /\ Tail(s)[j] = s[j + 1]
    BY <1>1
  <2> QED
    BY <1>1, <2>1 DEF MainOpens
<1>3. ASSUME NEW c \in Dp, Head(s).dp = c, In(MAIN(c), Tail(s))
      PROVE  FALSE
  <2>1. PICK i \in 1..Len(Tail(s)) : Tail(s)[i] = MAIN(c)
    BY <1>3 DEF In
  <2>2. 1 < i + 1 /\ s[i + 1] = MAIN(c)
    BY <1>1, <2>1
  <2> QED
    BY <1>1, <1>3, <2>2 DEF MainOpens
<1> QED
  BY <1>2, <1>3

\* Connections stay in MAIN or DEAD, and the new event is of one that is.
LEMMA SentAppend ==
  ASSUME NEW s \in Seq(Event), NEW x \in Event, NEW f, NEW g, Sent(s, f),
         \A k \in Dp : f[k] \in {"main", "dead"} => g[k] \in {"main", "dead"},
         g[x.dp] \in {"main", "dead"}
  PROVE  Sent(Append(s, x), g)
<1>1. /\ Len(Append(s, x)) = Len(s) + 1
      /\ \A i \in 1..Len(s) : Append(s, x)[i] = s[i] /\ s[i] \in Event
      /\ Append(s, x)[Len(s) + 1] = x
      /\ Len(s) \in Nat
  BY AppendProperties, LenProperties, ElementOfSeq
<1>2. \A e \in Event : e.dp \in Dp
  BY DEF Event
<1>3. ASSUME NEW i \in 1..Len(s) + 1 PROVE g[Append(s, x)[i].dp] \in {"main", "dead"}
  <2>1. CASE i = Len(s) + 1
    BY <1>1, <2>1
  <2>2. CASE i # Len(s) + 1
    <3>1. i \in 1..Len(s)
      BY <1>1, <2>2
    <3> QED
      BY <1>1, <1>2, <3>1 DEF Sent
  <2> QED
    BY <2>1, <2>2
<1> QED
  BY <1>1, <1>3 DEF Sent

\* The events left are of connections that stay in MAIN or DEAD.
LEMMA SentTail ==
  ASSUME NEW s \in Seq(Event), s # <<>>, NEW f, NEW g, Sent(s, f),
         \A k \in Dp : f[k] \in {"main", "dead"} => g[k] \in {"main", "dead"}
  PROVE  Sent(Tail(s), g) /\ f[Head(s).dp] \in {"main", "dead"}
<1>1. /\ Len(s) \in Nat \ {0} /\ Len(Tail(s)) = Len(s) - 1
      /\ Head(s) = s[1] /\ 1 \in 1..Len(s)
      /\ \A i \in 1..Len(Tail(s)) : Tail(s)[i] = s[i + 1] /\ i + 1 \in 1..Len(s)
      /\ \A i \in 1..Len(s) : s[i] \in Event
  BY HeadTailProperties, LenProperties, EmptySeq, ElementOfSeq
<1>2. \A e \in Event : e.dp \in Dp
  BY DEF Event
<1> QED
  BY <1>1, <1>2 DEF Sent

\* Posting an event of a connection that is, or gets, in MAIN or DEAD.
LEMMA PostSent ==
  ASSUME IInv, TInv, NEW x \in Event, q' = Append(q, x),
         \A k \in Dp : state[k] \in {"main", "dead"} => state'[k] \in {"main", "dead"},
         state'[x.dp] \in {"main", "dead"},
         \A c \in Dp : x = MAIN(c) => state[c] \notin {"main", "dead"}
  PROVE  Sent(q, state)' /\ MainOpens(q)'
<1>1. q \in Seq(Event) /\ Sent(q, state) /\ MainOpens(q)
  BY DEF IInv, TypeOK, TInv
<1>2. \A c \in Dp : x = MAIN(c) => \A i \in 1..Len(q) : q[i].dp # c
  BY <1>1 DEF Sent
<1>3. Sent(Append(q, x), state')
  BY <1>1, SentAppend
<1>4. MainOpens(Append(q, x))
  BY <1>1, <1>2, MainOpensAppend
<1> QED
  BY <1>3, <1>4

\* Taking an event of the line.
LEMMA TakeSent ==
  ASSUME IInv, TInv, NEW e, Taking(e)
  PROVE  /\ q \in Seq(Event) /\ q # <<>> /\ Head(q) = e /\ Tail(q) \in Seq(Event)
         /\ e \in Event /\ e.dp \in Dp /\ state[e.dp] \in {"main", "dead"}
         /\ Sent(Tail(q), state) /\ MainOpens(Tail(q))
         /\ \A c \in Dp : e.dp = c => ~In(MAIN(c), Tail(q))
         /\ \A c \in Dp : In(MAIN(c), Tail(q)) /\ parked[c] # None => In(parked[c], Tail(q))
<1>1. q \in Seq(Event) /\ q # <<>> /\ Head(q) = e /\ Sent(q, state) /\ MainOpens(q)
  BY DEF IInv, TypeOK, TInv, Taking
<1>2. e \in Event /\ Tail(q) \in Seq(Event)
  BY <1>1, TakeType
<1>3. e.dp \in Dp
  BY <1>2 DEF Event
<1>4. Sent(Tail(q), state) /\ state[e.dp] \in {"main", "dead"}
  BY <1>1, SentTail
<1>5. MainOpens(Tail(q)) /\ \A c \in Dp : e.dp = c => ~In(MAIN(c), Tail(q))
  BY <1>1, MainOpensTail
<1>6. ASSUME NEW c \in Dp, In(MAIN(c), Tail(q)), parked[c] # None
      PROVE  In(parked[c], Tail(q))
  <2>1. In(parked[c], q) /\ parked[c].dp = c /\ e.dp # c
    BY <1>1, <1>3, <1>5, <1>6, InTail DEF TInv, Behind, ParkedOwn
  <2> QED
    BY <1>1, <2>1, InTail
<1> QED
  BY <1>1, <1>2, <1>3, <1>4, <1>5, <1>6

\* A port whose events, registration and Datapath a step leaves alone.
LEMMA TrackedKept ==
  ASSUME NEW c, NEW p, Tracked(c, p),
         Decided(q', c, p, On(c, p)), Pending(q', c, p) = {} => Pending(q, c, p) = {},
         On(c, p)' <=> On(c, p),
         dps'[IdOf[c]] = c => dps[IdOf[c]] = c /\ port_state'[IdOf[c]] = port_state[IdOf[c]]
  PROVE  Tracked(c, p)'
<1>1. Decided(q', c, p, On(c, p)')
  BY DEF Decided
<1>2. ASSUME dps'[IdOf[c]] = c, Pending(q', c, p) = {}
      PROVE  p \in port_state'[IdOf[c]] <=> On(c, p)'
  BY <1>2 DEF Tracked
<1> QED
  BY <1>1, <1>2 DEF Tracked

\* A connection is alone after a step only if it was before.
LEMMA SoloBefore ==
  ASSUME TypeOK, \A k \in Dp : state[k] # "none" => state'[k] # "none", NEW c \in Dp, Solo(c)'
  PROVE  Solo(c)
BY DEF Solo

\* The events that are no port events.
LEMMA NoPortEvent ==
  ASSUME NEW c \in Dp
  PROVE  /\ MAIN(c).port \notin Port /\ MAIN(c).dp = c /\ MAIN(c).type \notin PortReason
         /\ DEAD(c).port \notin Port /\ DEAD(c).dp = c /\ DEAD(c).type \notin PortReason
         /\ MAIN(c) \in Event /\ DEAD(c) \in Event
BY EventTypes, NoneAssumption DEF MAIN, DEAD, PortReason

\* A step that leaves the line, the ports, the greenlets and the registry alone.
LEMMA QuietTracks ==
  ASSUME IInv, TInv, UNCHANGED <<state, q, parked, ports, dps, port_state>>
  PROVE  TInv'
BY DEF TInv, Sent, ParkedOwn, MainOpens, Behind, In, Tracks, Solo, Tracked, Decided, Pending, On

\* A new connection, or one that learns its ports before it is in MAIN.
LEMMA BeforeMainTracks ==
  ASSUME IInv, TInv, NEW c \in Dp, Connect(c) \/ \E S \in SUBSET Port : PortDescMore(c, S)
  PROVE  TInv'
<1>1. /\ UNCHANGED <<q, parked, dps, port_state>>
      /\ \A k \in Dp : k # c => state'[k] = state[k] /\ ports'[k] = ports[k]
      /\ state[c] \in {"none", "config"} /\ state'[c] = "config"
  BY DEF Connect, PortDescMore, IInv, TypeOK
<1>2. \A i \in 1..Len(q) : q[i].dp \in Dp
  <2>1. \A i \in 1..Len(q) : q[i] \in Event
    BY ElementOfSeq DEF IInv, TypeOK
  <2> QED
    BY <2>1 DEF Event
<1>3. Sent(q, state)'
  BY <1>1, <1>2 DEF TInv, Sent
<1>4. ParkedOwn' /\ MainOpens(q)' /\ Behind'
  BY <1>1 DEF TInv, ParkedOwn, MainOpens, Behind, In
<1>5. Tracks'
  <2> SUFFICES ASSUME NEW k \in Dp, Solo(k)', state'[k] = "main", NEW p \in Port
               PROVE  Tracked(k, p)'
    BY DEF Tracks
  <2>1. k # c /\ state[k] = "main" /\ Solo(k)
    BY <1>1, SoloBefore DEF IInv, TypeOK
  <2>2. Tracked(k, p)
    BY <2>1 DEF TInv, Tracks
  <2> QED
    BY <1>1, <2>1, <2>2 DEF Tracked, Decided, Pending, On
<1> QED
  BY <1>3, <1>4, <1>5 DEF TInv

\* Entering MAIN: no port event of the connection is in line yet.
LEMMA EnterMainTracks ==
  ASSUME IInv, TInv, NEW c \in Dp, NEW S \in SUBSET Port, PortDescLast(c, S)
  PROVE  TInv'
<1>1. /\ q' = Append(q, MAIN(c)) /\ UNCHANGED <<dps, port_state>>
      /\ \A k \in Dp : k # c => state'[k] = state[k] /\ ports'[k] = ports[k]
                                /\ parked'[k] = parked[k]
      /\ state[c] = "config" /\ state'[c] = "main" /\ parked[c] = None
      /\ parked'[c] \in {None, MAIN(c)}
      /\ q \in Seq(Event)
  BY DEF PortDescLast, Park, Running, IInv, TypeOK
<1>2. /\ MAIN(c) \in Event /\ MAIN(c).dp = c /\ MAIN(c).port \notin Port
      /\ MAIN(c).type \notin PortReason
  BY NoPortEvent
<1>3. Sent(q, state)' /\ MainOpens(q)'
  <2>1. \A k \in Dp : MAIN(c) = MAIN(k) => k = c
    BY EventsDiffer
  <2>2. \A k \in Dp : state[k] \in {"main", "dead"} => state'[k] \in {"main", "dead"}
    BY <1>1
  <2> QED
    BY <1>1, <1>2, <2>1, <2>2, PostSent
<1>4. ParkedOwn'
  BY <1>1, <1>2 DEF TInv, ParkedOwn
<1>5. \A e : In(e, q') <=> In(e, q) \/ e = MAIN(c)
  BY <1>1, <1>2, InAppend
<1>6. Behind'
  <2> SUFFICES ASSUME NEW k \in Dp, In(MAIN(k), q'), parked'[k] # None
               PROVE  In(parked'[k], q')
    BY DEF Behind
  <2>1. CASE k = c
    BY <1>1, <1>5, <2>1
  <2>2. CASE k # c
    BY <1>1, <1>5, <2>2, EventsDiffer DEF TInv, Behind
  <2> QED
    BY <2>1, <2>2
<1>7. Tracks'
  <2> SUFFICES ASSUME NEW k \in Dp, Solo(k)', state'[k] = "main", NEW p \in Port
               PROVE  Tracked(k, p)'
    BY DEF Tracks
  <2>1. CASE k = c
    <3>1. Pending(q, c, p) = {}
      BY <1>1 DEF TInv, Sent, Pending
    <3>2. Pending(q', c, p) = {}
      BY <1>1, <1>2, <3>1, PendingAppend
    <3>3. dps'[IdOf[c]] # c
      BY <1>1, IdOfAssumption, NoneAssumption DEF IInv, Registered
    <3> QED
      BY <2>1, <3>2, <3>3 DEF Tracked, Decided
  <2>2. CASE k # c
    <3>1. state[k] = "main" /\ Solo(k)
      BY <1>1, <2>2, SoloBefore DEF IInv
    <3>2. Tracked(k, p) /\ Decided(q, k, p, On(k, p))
      BY <3>1 DEF TInv, Tracks, Tracked
    <3>3. Decided(q', k, p, On(k, p)) /\ Pending(q', k, p) = Pending(q, k, p)
      BY <1>1, <1>2, <2>2, <3>2, DecidedOther
    <3>4. On(k, p)' <=> On(k, p)
      BY <1>1, <2>2 DEF On
    <3> QED
      BY <1>1, <3>2, <3>3, <3>4, TrackedKept
  <2> QED
    BY <2>1, <2>2
<1> QED
  BY <1>3, <1>4, <1>6, <1>7 DEF TInv

\* A port status message is the last word on its port.
LEMMA PortStatusTracks ==
  ASSUME IInv, TInv, NEW c \in Dp, NEW r \in PortReason, NEW x \in Port, PortStatus(c, r, x)
  PROVE  TInv'
<1> DEFINE e == PORT(c, r, x)
<1>1. /\ q' = Append(q, e) /\ UNCHANGED <<state, dps, port_state>>
      /\ \A k \in Dp : k # c => ports'[k] = ports[k] /\ parked'[k] = parked[k]
      /\ state[c] = "main" /\ parked[c] = None
      /\ \/ parked'[c] = None /\ ports'[c] = PortsAfter(ports[c], r, x)
         \/ parked'[c] = e /\ ports'[c] = ports[c]
      /\ q \in Seq(Event)
  BY DEF PortStatus, Park, Running, IInv, TypeOK
<1>2. /\ e \in Event /\ e.dp = c /\ e.port = x /\ e.type = r /\ e # None
      /\ \A k \in Dp : e # MAIN(k)
  <2>1. e \in Event /\ e.type \in PortReason
    BY PortIsPort
  <2>2. e.dp = c /\ e.port = x /\ e.type = r
    BY DEF PORT
  <2>3. \A k \in Dp : e # MAIN(k)
    BY <2>1, EventsDiffer
  <2> QED
    BY <2>1, <2>2, <2>3, EventAssumption
<1> HIDE DEF e
<1>3. Sent(q, state)' /\ MainOpens(q)'
  BY <1>1, <1>2, PostSent
<1>4. ParkedOwn'
  BY <1>1, <1>2 DEF TInv, ParkedOwn
<1>5. \A y : In(y, q') <=> In(y, q) \/ y = e
  BY <1>1, <1>2, InAppend
<1>6. Behind'
  BY <1>1, <1>2, <1>5 DEF TInv, Behind
<1>7. Tracks'
  <2> SUFFICES ASSUME NEW k \in Dp, Solo(k)', state'[k] = "main", NEW p \in Port
               PROVE  Tracked(k, p)'
    BY DEF Tracks
  <2>1. Tracked(k, p) /\ Decided(q, k, p, On(k, p))
    BY <1>1, SoloBefore DEF IInv, TInv, Tracks, Tracked
  <2>2. CASE k = c /\ p = x
    <3>1. On(c, x)' <=> e.type = "set"
      BY <1>1, <1>2 DEF On, PortsAfter, PortReason
    <3>2. Decided(q', c, x, e.type = "set") /\ Pending(q', c, x) # {}
      BY <1>1, <1>2, DecidedLast
    <3> QED
      BY <2>2, <3>1, <3>2 DEF Tracked, Decided
  <2>3. CASE ~(k = c /\ p = x)
    <3>1. Decided(q', k, p, On(k, p)) /\ Pending(q', k, p) = Pending(q, k, p)
      BY <1>1, <1>2, <2>1, <2>3, DecidedOther
    <3>2. On(k, p)' <=> On(k, p)
      BY <1>1, <1>2, <2>3 DEF On, PortsAfter
    <3> QED
      BY <1>1, <2>1, <3>1, <3>2, TrackedKept
  <2> QED
    BY <2>2, <2>3
<1> QED
  BY <1>3, <1>4, <1>6, <1>7 DEF TInv

\* The receive greenlet catches up: the ports become what they were to be.
LEMMA ResumeTracks ==
  ASSUME IInv, TInv, NEW c \in Dp, Resume(c)
  PROVE  TInv'
<1>1. /\ UNCHANGED <<state, q, dps, port_state>>
      /\ \A k \in Dp : k # c => ports'[k] = ports[k] /\ parked'[k] = parked[k]
      /\ parked[c] # None /\ parked'[c] = None
      /\ ports'[c] = IF parked[c].type \in PortReason /\ state[c] = "main"
                     THEN PortsAfter(ports[c], parked[c].type, parked[c].port) ELSE ports[c]
  BY DEF Resume, IInv, TypeOK
<1>2. Sent(q, state)' /\ MainOpens(q)' /\ ParkedOwn' /\ Behind'
  BY <1>1 DEF TInv, Sent, MainOpens, ParkedOwn, Behind, In
<1>3. Tracks'
  <2> SUFFICES ASSUME NEW k \in Dp, Solo(k)', state'[k] = "main", NEW p \in Port
               PROVE  Tracked(k, p)'
    BY DEF Tracks
  <2>1. Tracked(k, p) /\ Decided(q, k, p, On(k, p))
    BY <1>1, SoloBefore DEF IInv, TInv, Tracks, Tracked
  <2>2. On(k, p)' <=> On(k, p)
    <3>1. CASE k = c
      BY <1>1, <3>1 DEF On, PortsAfter, PortReason
    <3>2. CASE k # c
      BY <1>1, <3>2 DEF On
    <3> QED
      BY <3>1, <3>2
  <2> QED
    BY <1>1, <2>1, <2>2, TrackedKept
<1> QED
  BY <1>2, <1>3 DEF TInv

\* A connection that closes is no longer in MAIN.
LEMMA CloseTracks ==
  ASSUME IInv, TInv, NEW c \in Dp, Close(c)
  PROVE  TInv'
<1>1. /\ UNCHANGED <<ports, parked, dps, port_state>>
      /\ \A k \in Dp : state'[k] = IF k = c THEN "dead" ELSE state[k]
      /\ state[c] # "none"
      /\ q' = q \/ q' = Append(q, DEAD(c))
      /\ q \in Seq(Event)
  BY DEF Close, Running, IInv, TypeOK
<1>2. /\ DEAD(c) \in Event /\ DEAD(c).dp = c /\ DEAD(c).port \notin Port
      /\ \A k \in Dp : DEAD(c) # MAIN(k)
  BY NoPortEvent, EventsDiffer
<1>3. Sent(q, state)' /\ MainOpens(q)'
  <2>1. CASE q' = q
    <3>1. \A i \in 1..Len(q) : q[i].dp \in Dp
      <4>1. \A i \in 1..Len(q) : q[i] \in Event
        BY <1>1, ElementOfSeq
      <4> QED
        BY <4>1 DEF Event
    <3> QED
      BY <1>1, <2>1, <3>1 DEF TInv, Sent, MainOpens
  <2>2. CASE q' = Append(q, DEAD(c))
    <3>1. \A k \in Dp : state[k] \in {"main", "dead"} => state'[k] \in {"main", "dead"}
      BY <1>1
    <3>2. state'[DEAD(c).dp] \in {"main", "dead"}
      BY <1>1, <1>2
    <3> QED
      BY <1>2, <2>2, <3>1, <3>2, PostSent
  <2> QED
    BY <1>1, <2>1, <2>2
<1>4. \A e : /\ In(e, q) => In(e, q')
             /\ In(e, q') => In(e, q) \/ e = DEAD(c)
  <2>1. CASE q' = q
    BY <2>1
  <2>2. CASE q' = Append(q, DEAD(c))
    BY <1>1, <1>2, <2>2, InAppend
  <2> QED
    BY <1>1, <2>1, <2>2
<1>5. ParkedOwn' /\ Behind'
  BY <1>1, <1>2, <1>4 DEF TInv, ParkedOwn, Behind
<1>6. Tracks'
  <2> SUFFICES ASSUME NEW k \in Dp, Solo(k)', state'[k] = "main", NEW p \in Port
               PROVE  Tracked(k, p)'
    BY DEF Tracks
  <2>1. k # c /\ state[k] = "main" /\ Solo(k)
    BY <1>1, SoloBefore DEF IInv
  <2>2. Tracked(k, p) /\ Decided(q, k, p, On(k, p))
    BY <2>1 DEF TInv, Tracks, Tracked
  <2>3. Decided(q', k, p, On(k, p)) /\ Pending(q', k, p) = Pending(q, k, p)
    <3>1. CASE q' = q
      BY <2>2, <3>1
    <3>2. CASE q' = Append(q, DEAD(c))
      BY <1>1, <1>2, <2>2, <3>2, DecidedOther
    <3> QED
      BY <1>1, <3>1, <3>2
  <2>4. On(k, p)' <=> On(k, p)
    BY <1>1 DEF On
  <2> QED
    BY <1>1, <2>2, <2>3, <2>4, TrackedKept
<1> QED
  BY <1>3, <1>5, <1>6 DEF TInv

\* The events left after one is taken still decide the port; if none is left,
\* the one taken was the last about it, or there was none.
LEMMA TakeDecided ==
  ASSUME IInv, TInv, NEW e, Taking(e), NEW k \in Dp, NEW p \in Port, Tracked(k, p)
  PROVE  /\ Decided(Tail(q), k, p, On(k, p))
         /\ Pending(Tail(q), k, p) = {} /\ e.port # p => Pending(q, k, p) = {}
         /\ Pending(Tail(q), k, p) = {} /\ e.dp # k => Pending(q, k, p) = {}
         /\ Pending(Tail(q), k, p) = {} /\ e.dp = k /\ e.port = p
              => (e.type = "set" <=> On(k, p))
<1>1. q # <<>> /\ q \in Seq(Event) /\ Head(q) = e
  BY TakeSent
<1>2. Decided(q, k, p, On(k, p))
  BY DEF Tracked
<1> QED
  BY <1>1, <1>2, DecidedTail

\* A line with nothing new about the port, or with one event about another.
LEMMA DecidedEither ==
  ASSUME NEW s \in Seq(Event), NEW x \in Event, NEW c, NEW p, NEW b, x.port # p,
         Decided(s, c, p, b), NEW t, t = s \/ t = Append(s, x)
  PROVE  Decided(t, c, p, b) /\ Pending(t, c, p) = Pending(s, c, p)
<1>1. CASE t = s
  BY <1>1
<1>2. CASE t = Append(s, x)
  <2>1. ~(x.dp = c /\ x.port = p)
    OBVIOUS
  <2>2. Decided(Append(s, x), c, p, b) /\ Pending(Append(s, x), c, p) = Pending(s, c, p)
    BY <2>1, DecidedOther
  <2> QED
    BY <1>2, <2>2
<1> QED
  BY <1>1, <1>2

\* _register of a connection alone takes its ports as they are then; of any
\* other connection it leaves the port state of this one alone.
LEMMA RegisterTracks ==
  ASSUME IInv, TInv, NEW c \in Dp, Taking(MAIN(c)), UNCHANGED <<ports, parked>>,
         Sent(q, state)', MainOpens(q)',
         \A k \in Dp : state'[k] # state[k] => state'[k] = "dead" /\ state[k] # "none",
         NEW x \in Event, x.port \notin Port, \A k \in Dp : x # MAIN(k),
         q' = Tail(q) \/ q' = Append(Tail(q), x),
         Install(c) \/ UNCHANGED <<dps, port_state>>
  PROVE  TInv'
<1>1. /\ q \in Seq(Event) /\ Tail(q) \in Seq(Event) /\ state[c] \in {"main", "dead"}
      /\ MAIN(c).dp = c /\ MAIN(c).port \notin Port /\ MAIN(c).type \notin PortReason
      /\ \A k \in Dp : In(MAIN(k), Tail(q)) /\ parked[k] # None => In(parked[k], Tail(q))
      /\ \A e : In(e, q) <=> e = MAIN(c) \/ In(e, Tail(q))
  BY TakeSent, TakeLine, NoPortEvent
<1>2. \A e : /\ In(e, Tail(q)) => In(e, q')
             /\ In(e, q') => In(e, Tail(q)) \/ e = x
  <2>1. CASE q' = Tail(q)
    BY <2>1
  <2>2. CASE q' = Append(Tail(q), x)
    BY <1>1, <2>2, InAppend
  <2> QED
    BY <2>1, <2>2
<1>3. ParkedOwn' /\ Behind'
  BY <1>1, <1>2 DEF TInv, ParkedOwn, Behind
<1>4. Tracks'
  <2> SUFFICES ASSUME NEW k \in Dp, Solo(k)', state'[k] = "main", NEW p \in Port
               PROVE  Tracked(k, p)'
    BY DEF Tracks
  <2>1. state[k] = "main" /\ Solo(k)
    BY SoloBefore DEF IInv
  <2>2. Tracked(k, p)
    BY <2>1 DEF TInv, Tracks
  <2>3. /\ Decided(q', k, p, On(k, p))
        /\ Pending(q', k, p) = Pending(Tail(q), k, p)
    <3>1. Decided(Tail(q), k, p, On(k, p))
      BY <2>2, TakeDecided
    <3> DEFINE s == Tail(q)
               b == On(k, p)
    <3>2. s \in Seq(Event) /\ x.port # p /\ Decided(s, k, p, b)
      BY <1>1, <3>1
    <3>3. q' = s \/ q' = Append(s, x)
      OBVIOUS
    <3> HIDE DEF s, b
    <3>4. Decided(q', k, p, b) /\ Pending(q', k, p) = Pending(s, k, p)
      BY <3>2, <3>3, DecidedEither
    <3> QED
      BY <3>4 DEF s, b
  <2>4. Pending(q', k, p) = {} => Pending(q, k, p) = {}
    BY <1>1, <2>2, <2>3, TakeDecided
  <2>5. On(k, p)' <=> On(k, p)
    BY DEF On
  <2>6. CASE UNCHANGED <<dps, port_state>>
    BY <2>2, <2>3, <2>4, <2>5, <2>6, TrackedKept
  <2>7. CASE Install(c) /\ k # c
    <3>1. IdOf[k] # IdOf[c] /\ IdOf[k] \in Dpid
      BY <1>1, <2>1, <2>7, IdOfAssumption DEF Solo
    <3>2. dps'[IdOf[k]] = dps[IdOf[k]] /\ port_state'[IdOf[k]] = port_state[IdOf[k]]
      BY <2>7, <3>1 DEF Install, IInv, TypeOK
    <3> QED
      BY <2>2, <2>3, <2>4, <2>5, <3>2, TrackedKept
  <2>8. CASE Install(c) /\ k = c
    <3>1. dps[IdOf[c]] = None
      <4>1. IdOf[c] \in Dpid /\ dps[IdOf[c]] # c /\ dps[IdOf[c]] \in Dp \cup {None}
        BY <1>1, IdOfAssumption DEF IInv, MainIsPending, TypeOK
      <4> QED
        BY <2>1, <2>8, <4>1 DEF IInv, Registered, Solo
    <3>2. port_state'[IdOf[c]] = ports[c]
      BY <2>8, <3>1, IdOfAssumption DEF Install, IInv, TypeOK, PortStateFollowsDps
    <3>3. ASSUME Pending(q', c, p) = {} PROVE p \in ports[c] <=> On(c, p)
      <4>1. SUFFICES ASSUME parked[c] # None, parked[c].type \in PortReason, parked[c].port = p
                     PROVE  FALSE
        BY DEF On
      <4>2. In(parked[c], q) /\ parked[c].dp = c
        BY <1>1, <4>1 DEF TInv, Behind, ParkedOwn
      <4>3. In(parked[c], Tail(q))
        BY <1>1, <4>1, <4>2
      <4>4. Pending(Tail(q), c, p) # {}
        BY <4>1, <4>2, <4>3 DEF In, Pending
      <4> QED
        BY <2>3, <2>8, <3>3, <4>4
    <3> QED
      BY <2>3, <2>5, <2>8, <3>2, <3>3 DEF Tracked, Decided
  <2> QED
    BY <2>6, <2>7, <2>8
<1> QED
  BY <1>3, <1>4 DEF TInv

\* The three ways of handling a MAIN event.
LEMMA MainTracks ==
  ASSUME IInv, TInv, NEW c \in Dp, Register(c)
  PROVE  TInv'
<1>1. CASE RegisterNew(c)
  <2>1. Taking(MAIN(c)) /\ q' = Tail(q) /\ Install(c) /\ UNCHANGED <<state, ports, parked>>
    BY <1>1 DEF RegisterNew
  <2>2. Sent(q, state)' /\ MainOpens(q)'
    BY <2>1, TakeSent
  <2>3. DEAD(c) \in Event /\ DEAD(c).port \notin Port /\ \A k \in Dp : DEAD(c) # MAIN(k)
    BY NoPortEvent, EventsDiffer
  <2> QED
    BY <2>1, <2>2, <2>3, RegisterTracks
<1>2. CASE RegisterReplace(c) \/ RegisterStuck(c)
  <2> DEFINE old == dps[IdOf[c]]
  <2>1. /\ Taking(MAIN(c)) /\ HasLiveOlder(c) /\ UNCHANGED <<ports, parked>>
        /\ state' = [state EXCEPT ![old] = "dead"]
        /\ q' = Append(Tail(q), DEAD(old))
        /\ Install(c) \/ UNCHANGED <<dps, port_state>>
    BY <1>2 DEF RegisterReplace, RegisterStuck
  <2>2. old \in Dp /\ state[old] = "main"
    <3>1. IdOf[c] \in Dpid
      BY IdOfAssumption
    <3> QED
      BY <2>1, <3>1 DEF HasLiveOlder, IInv, TypeOK, Registered
  <2>3. \A k \in Dp : state'[k] = IF k = old THEN "dead" ELSE state[k]
    BY <2>1, <2>2 DEF IInv, TypeOK
  <2>4. /\ DEAD(old) \in Event /\ DEAD(old).port \notin Port /\ DEAD(old).dp = old
        /\ \A k \in Dp : DEAD(old) # MAIN(k)
    BY <2>2, NoPortEvent, EventsDiffer
  <2> HIDE DEF old
  <2>5. Tail(q) \in Seq(Event) /\ Sent(Tail(q), state) /\ MainOpens(Tail(q))
    BY <2>1, TakeSent
  <2>6. Sent(q, state)'
    <3>1. \A k \in Dp : state[k] \in {"main", "dead"} => state'[k] \in {"main", "dead"}
      BY <2>3
    <3>2. state'[DEAD(old).dp] \in {"main", "dead"}
      BY <2>2, <2>3, <2>4
    <3> QED
      BY <2>1, <2>4, <2>5, <3>1, <3>2, SentAppend
  <2>7. MainOpens(q)'
    BY <2>1, <2>4, <2>5, MainOpensAppend
  <2>8. \A k \in Dp : state'[k] # state[k] => state'[k] = "dead" /\ state[k] # "none"
    BY <2>2, <2>3
  <2> QED
    BY <2>1, <2>4, <2>6, <2>7, <2>8, RegisterTracks
<1> QED
  BY <1>1, <1>2 DEF Register

\* _unregister of any connection: a live one that is alone keeps its ports.
LEMMA DeadTracks ==
  ASSUME IInv, TInv, NEW c \in Dp, UnregisterForgotten(c) \/ Unregister(c)
  PROVE  TInv'
<1>1. /\ Taking(DEAD(c)) /\ q' = Tail(q) /\ UNCHANGED <<state, ports, parked>>
      /\ \/ UNCHANGED <<dps, port_state>>
         \/ /\ dps[IdOf[c]] = c
            /\ \A d \in Dpid : d # IdOf[c] => dps'[d] = dps[d] /\ port_state'[d] = port_state[d]
            /\ dps'[IdOf[c]] \in {None, c}
  BY IdOfAssumption DEF UnregisterForgotten, Unregister, conns, IInv, TypeOK
<1>2. /\ q \in Seq(Event) /\ q # <<>>
      /\ Sent(q, state)' /\ MainOpens(q)'
      /\ \A k \in Dp : In(MAIN(k), q') /\ parked[k] # None => In(parked[k], q')
      /\ DEAD(c).port \notin Port /\ state[c] = "dead"
  <2>1. In(DEAD(c), q)
    BY <1>1, TakeLine
  <2>2. state[c] = "dead"
    BY <2>1 DEF IInv, DeadIsTrue
  <2> QED
    BY <1>1, <2>2, TakeSent, NoPortEvent
<1>3. ParkedOwn' /\ Behind'
  BY <1>1, <1>2 DEF TInv, ParkedOwn, Behind
<1>4. Tracks'
  <2> SUFFICES ASSUME NEW k \in Dp, Solo(k)', state'[k] = "main", NEW p \in Port
               PROVE  Tracked(k, p)'
    BY DEF Tracks
  <2>1. state[k] = "main" /\ Solo(k) /\ k # c
    BY <1>1, <1>2, SoloBefore DEF IInv
  <2>2. Tracked(k, p)
    BY <2>1 DEF TInv, Tracks
  <2>3. Decided(q', k, p, On(k, p)) /\ (Pending(q', k, p) = {} => Pending(q, k, p) = {})
    BY <1>1, <1>2, <2>2, TakeDecided
  <2>4. On(k, p)' <=> On(k, p)
    BY <1>1 DEF On
  <2>5. IdOf[k] \in Dpid /\ IdOf[c] # IdOf[k]
    BY <1>2, <2>1, IdOfAssumption DEF Solo
  <2> QED
    BY <1>1, <2>2, <2>3, <2>4, <2>5, TrackedKept
<1> QED
  BY <1>2, <1>3, <1>4 DEF TInv

\* The second half of _unregister is about a dead connection.
LEMMA UnregisterEndTracks ==
  ASSUME IInv, TInv, UnregisterEnd
  PROVE  TInv'
<1>1. /\ cur \in Dp /\ state[cur] = "dead" /\ UNCHANGED <<state, ports, parked, q>>
      /\ \A d \in Dpid : d # IdOf[cur] => dps'[d] = dps[d] /\ port_state'[d] = port_state[d]
  BY IdOfAssumption DEF UnregisterEnd, conns, IInv, TypeOK, LeavingIsDead
<1>2. Sent(q, state)' /\ MainOpens(q)' /\ ParkedOwn' /\ Behind'
  BY <1>1 DEF TInv, Sent, MainOpens, ParkedOwn, Behind, In
<1>3. Tracks'
  <2> SUFFICES ASSUME NEW k \in Dp, Solo(k)', state'[k] = "main", NEW p \in Port
               PROVE  Tracked(k, p)'
    BY DEF Tracks
  <2>1. state[k] = "main" /\ Solo(k) /\ k # cur
    BY <1>1, SoloBefore DEF IInv
  <2>2. IdOf[k] \in Dpid /\ IdOf[cur] # IdOf[k]
    BY <1>1, <2>1, IdOfAssumption DEF Solo
  <2> QED
    BY <1>1, <2>1, <2>2 DEF TInv, Tracks, Tracked, Decided, Pending, On
<1> QED
  BY <1>2, <1>3 DEF TInv

\* port_status_handler does what the event says, or raises when that is done
\* already.
LEMMA PortHandlerTracks ==
  ASSUME IInv, TInv, NEW e \in Event, PortStatusHandler(e)
  PROVE  TInv'
<1>1. /\ Taking(e) /\ q' = Tail(q) /\ UNCHANGED <<state, ports, parked, dps>>
      /\ e.type \in PortReason /\ e.port \in Port /\ e.dp \in Dp /\ IdOf[e.dp] \in Dpid
      /\ pc = "idle"
  BY IdOfAssumption DEF PortStatusHandler, conns, Event, PortReason, Taking, Idle
<1>2. /\ q \in Seq(Event) /\ q # <<>>
      /\ Sent(q, state)' /\ MainOpens(q)'
      /\ \A k \in Dp : In(MAIN(k), q') /\ parked[k] # None => In(parked[k], q')
      /\ state[e.dp] \in {"main", "dead"}
  BY <1>1, TakeSent
<1>3. ParkedOwn' /\ Behind'
  BY <1>1, <1>2 DEF TInv, ParkedOwn, Behind
<1>4. Tracks'
  <2> SUFFICES ASSUME NEW k \in Dp, Solo(k)', state'[k] = "main", NEW p \in Port
               PROVE  Tracked(k, p)'
    BY DEF Tracks
  <2>1. state[k] = "main" /\ Solo(k)
    BY <1>1, SoloBefore DEF IInv
  <2>2. Tracked(k, p)
    BY <2>1 DEF TInv, Tracks
  <2>3. Decided(q', k, p, On(k, p))
    BY <1>1, <2>2, TakeDecided
  <2>4. On(k, p)' <=> On(k, p)
    BY <1>1 DEF On
  <2>5. IdOf[k] \in Dpid
    BY IdOfAssumption
  <2>6. CASE e.dp # k
    <3>1. IdOf[e.dp] # IdOf[k]
      BY <1>1, <1>2, <2>1, <2>6 DEF Solo
    <3>2. port_state'[IdOf[k]] = port_state[IdOf[k]]
      BY <1>1, <2>5, <3>1 DEF PortStatusHandler, IInv, TypeOK
    <3> QED
      BY <1>1, <2>2, <2>3, <2>4, <2>6, <3>2, TakeDecided, TrackedKept
  <2>7. CASE e.dp = k
    <3> SUFFICES ASSUME dps[IdOf[k]] = k, Pending(q', k, p) = {}
                 PROVE  p \in port_state'[IdOf[k]] <=> On(k, p)
      BY <1>1, <2>3, <2>4 DEF Tracked, Decided
    <3>1. port_state[IdOf[k]] # NoPorts
      BY <2>5, NoneAssumption DEF IInv, PortStateFollowsDps
    <3>2. port_state'[IdOf[k]] =
            IF e.type = "delete" THEN port_state[IdOf[k]] \ {e.port}
            ELSE port_state[IdOf[k]] \cup {e.port}
      <4>1. CASE PortKeyError(e)
        BY <1>1, <2>5, <2>7, <3>1, <4>1 DEF PortStatusHandler, PortKeyError, IInv, TypeOK
      <4>2. CASE ~PortKeyError(e)
        BY <1>1, <2>5, <2>7, <4>2 DEF PortStatusHandler, PortsAfter, IInv, TypeOK
      <4> QED
        BY <4>1, <4>2
    <3>3. CASE e.port = p
      <4>1. e.type = "set" <=> On(k, p)
        BY <1>1, <2>2, <2>7, <3>3, TakeDecided
      <4> QED
        BY <1>1, <3>2, <3>3, <4>1 DEF PortReason
    <3>4. CASE e.port # p
      <4>1. Pending(q, k, p) = {}
        BY <1>1, <2>2, <3>4, TakeDecided
      <4> QED
        BY <2>2, <3>2, <3>4, <4>1 DEF Tracked
    <3> QED
      BY <3>3, <3>4
  <2> QED
    BY <2>6, <2>7
<1> QED
  BY <1>2, <1>3, <1>4 DEF TInv

\* Every step keeps what the line says about ports.
LEMMA TracksStep == IInv /\ TInv /\ [Next]_vars => TInv'
<1> SUFFICES ASSUME IInv, TInv, [Next]_vars PROVE TInv'
  OBVIOUS
<1>1. ASSUME NEW c \in Dp, DpStep(c) PROVE TInv'
  BY <1>1, BeforeMainTracks, EnterMainTracks, PortStatusTracks, ResumeTracks, CloseTracks
  DEF DpStep
<1>2. ASSUME DpsetStep PROVE TInv'
  BY <1>2, MainTracks, DeadTracks, UnregisterEndTracks, PortHandlerTracks DEF DpsetStep
<1>3. CASE HandlerDatapath
  BY <1>3, QuietTracks DEF HandlerDatapath, conns
<1>4. CASE UNCHANGED vars
  BY <1>4, QuietTracks DEF vars
<1> QED
  BY <1>1, <1>2, <1>3, <1>4 DEF Next

\* Once all events are handled, the registry holds the ports that the Datapath
\* holds, for a switch that connected once: neither the two greenlets nor the
\* KeyError of an early delete make them differ.
THEOREM PortsAgree == Spec => []PortStateTracksPorts
<1>1. Init => TInv
  <2> SUFFICES ASSUME Init PROVE TInv
    OBVIOUS
  <2>1. Len(q) = 0 /\ \A c \in Dp : parked[c] = None /\ state[c] = "none"
    BY DEF Init
  <2> QED
    BY <2>1 DEF TInv, Sent, ParkedOwn, MainOpens, Behind, In, Tracks
<1>2. IInv /\ TInv => PortStateTracksPorts
  <2> SUFFICES ASSUME IInv, TInv, NEW d \in Dpid, Quiescent, dps[d] # None,
                      \A c \in Dp : IdOf[c] = d /\ state[c] # "none" => c = dps[d]
               PROVE  port_state[d] = ports[dps[d]]
    BY DEF PortStateTracksPorts
  <2> DEFINE c == dps[d]
  <2>1. /\ c \in Dp /\ IdOf[c] = d /\ state[c] \in {"main", "dead"} /\ parked[c] = None
        /\ Len(q) = 0 /\ pc = "idle"
    BY DEF IInv, TypeOK, Registered, Quiescent, Idle
  <2>2. state[c] = "main"
    BY <2>1 DEF IInv, DeadIsOnItsWay, In
  <2>3. Solo(c)
    BY <2>1 DEF Solo
  <2>4. \A p \in Port : p \in port_state[d] <=> p \in ports[c]
    <3> SUFFICES ASSUME NEW p \in Port PROVE p \in port_state[d] <=> p \in ports[c]
      OBVIOUS
    <3>1. Tracked(c, p)
      BY <2>1, <2>2, <2>3 DEF TInv, Tracks
    <3>2. Pending(q, c, p) = {}
      BY <2>1 DEF Pending
    <3> QED
      BY <2>1, <3>1, <3>2 DEF Tracked, On
  <2>5. port_state[d] \in SUBSET Port /\ ports[c] \in SUBSET Port
    BY <2>1, NoneAssumption DEF IInv, TypeOK, PortStateFollowsDps
  <2> QED
    BY <2>4, <2>5
<1>3. Spec => []TInv
  BY <1>1, Invariant, TracksStep, PTL DEF Spec
<1> QED
  BY <1>2, <1>3, Invariant, PTL

-----------------------------------------------------------------------------
(* The way of a DEAD event.                                                *)

\* No event overtakes a DEAD event in dpset's line, and when dpset takes it the
\* connection is out of dps or on its way out: with an event loop that goes on
\* this is why DeadIsForgotten holds.
DeadApproaches ==
  [][\A c \in Dp, i \in 1..Len(q) : q[i] = DEAD(c) =>
       \/ i \in 1..Len(q') /\ q'[i] = DEAD(c)
       \/ i > 1 /\ i - 1 \in 1..Len(q') /\ q'[i - 1] = DEAD(c)
       \/ i = 1 /\ (dps'[IdOf[c]] # c \/ (pc = "leaving" /\ cur = c)')]_vars

\* How a step changes dpset's line, and what it takes from it.
LEMMA LineStep ==
  ASSUME IInv, [Next]_vars
  PROVE  \/ q' = q
         \/ \E e \in Event : q' = Append(q, e)
         \/ /\ q # <<>>
            /\ q' = Tail(q) \/ \E e \in Event : q' = Append(Tail(q), e)
            /\ \A c \in Dp : Head(q) = DEAD(c)
                 => dps'[IdOf[c]] # c \/ (pc = "leaving" /\ cur = c)'
<1> DEFINE Posts == \E e \in Event : q' = Append(q, e)
           Taken == /\ q # <<>>
                    /\ q' = Tail(q) \/ \E e \in Event : q' = Append(Tail(q), e)
                    /\ \A c \in Dp : Head(q) = DEAD(c)
                         => dps'[IdOf[c]] # c \/ (pc = "leaving" /\ cur = c)'
<1>1. ASSUME NEW c \in Dp, DpStep(c) PROVE q' = q \/ Posts
  BY <1>1, EventTypes
  DEF DpStep, Connect, PortDescMore, PortDescLast, PortStatus, Resume, Close
<1>2. ASSUME NEW c \in Dp, Register(c) PROVE Taken
  <2>1. q # <<>> /\ Head(q) = MAIN(c)
    BY <1>2 DEF Register, RegisterNew, RegisterReplace, RegisterStuck, Taking
  <2>2. HasLiveOlder(c) => DEAD(dps[IdOf[c]]) \in Event
    BY EventTypes, IdOfAssumption DEF HasLiveOlder, IInv, TypeOK
  <2>3. q' = Tail(q) \/ \E e \in Event : q' = Append(Tail(q), e)
    BY <1>2, <2>2 DEF Register, RegisterNew, RegisterReplace, RegisterStuck
  <2> QED
    BY <2>1, <2>3, EventsDiffer
<1>3. ASSUME NEW c \in Dp, UnregisterForgotten(c) \/ Unregister(c) PROVE Taken
  <2>1. q # <<>> /\ Head(q) = DEAD(c) /\ q' = Tail(q)
    BY <1>3 DEF UnregisterForgotten, Unregister, Taking
  <2>2. dps'[IdOf[c]] # c \/ (pc = "leaving" /\ cur = c)'
    BY <1>3, IdOfAssumption, NoneAssumption DEF UnregisterForgotten, Unregister, IInv, TypeOK
  <2> QED
    BY <2>1, <2>2, EventsDiffer
<1>4. ASSUME NEW e \in Event, PortStatusHandler(e) PROVE Taken
  BY <1>4, EventsDiffer DEF PortStatusHandler, Taking
<1>5. CASE UnregisterEnd \/ HandlerDatapath \/ UNCHANGED vars
  BY <1>5 DEF UnregisterEnd, HandlerDatapath, conns, vars
<1> QED
  BY <1>1, <1>2, <1>3, <1>4, <1>5 DEF Next, DpsetStep

\* A DEAD event only ever comes nearer, and it is never lost.
THEOREM DeadComesNearer == Spec => DeadApproaches
<1>1. ASSUME IInv, [Next]_vars, NEW c \in Dp, NEW i \in 1..Len(q), q[i] = DEAD(c)
      PROVE  \/ i \in 1..Len(q') /\ q'[i] = DEAD(c)
             \/ i > 1 /\ i - 1 \in 1..Len(q') /\ q'[i - 1] = DEAD(c)
             \/ i = 1 /\ (dps'[IdOf[c]] # c \/ (pc = "leaving" /\ cur = c)')
  <2>1. q \in Seq(Event) /\ Len(q) \in Nat
    BY <1>1, LenProperties DEF IInv, TypeOK
  <2>2. CASE q' = q
    BY <1>1, <2>2
  <2>3. ASSUME NEW e \in Event, q' = Append(q, e) PROVE i \in 1..Len(q') /\ q'[i] = DEAD(c)
    BY <1>1, <2>1, <2>3, AppendProperties
  <2>4. CASE /\ q # <<>>
             /\ q' = Tail(q) \/ \E e \in Event : q' = Append(Tail(q), e)
             /\ \A k \in Dp : Head(q) = DEAD(k)
                  => dps'[IdOf[k]] # k \/ (pc = "leaving" /\ cur = k)'
    <3>1. /\ Tail(q) \in Seq(Event) /\ Len(Tail(q)) = Len(q) - 1 /\ Head(q) = q[1]
          /\ \A j \in 1..Len(Tail(q)) : Tail(q)[j] = q[j + 1]
      BY <2>1, <2>4, HeadTailProperties
    <3>2. CASE i = 1
      BY <1>1, <2>4, <3>1, <3>2
    <3>3. CASE i # 1
      <4>1. i - 1 \in 1..Len(Tail(q)) /\ Tail(q)[i - 1] = DEAD(c) /\ i > 1
        <5>1. i - 1 \in 1..Len(Tail(q)) /\ (i - 1) + 1 = i /\ i > 1
          BY <2>1, <3>1, <3>3
        <5> QED
          BY <1>1, <3>1, <5>1
      <4>2. ASSUME NEW e \in Event, q' = Append(Tail(q), e)
            PROVE  i - 1 \in 1..Len(q') /\ q'[i - 1] = DEAD(c)
        BY <3>1, <4>1, <4>2, AppendProperties
      <4> QED
        BY <2>4, <4>1, <4>2
    <3> QED
      BY <3>2, <3>3
  <2> QED
    BY <1>1, <2>2, <2>3, <2>4, LineStep
<1>2. IInv /\ [Next]_vars =>
        [\A c \in Dp, i \in 1..Len(q) : q[i] = DEAD(c) =>
           \/ i \in 1..Len(q') /\ q'[i] = DEAD(c)
           \/ i > 1 /\ i - 1 \in 1..Len(q') /\ q'[i - 1] = DEAD(c)
           \/ i = 1 /\ (dps'[IdOf[c]] # c \/ (pc = "leaving" /\ cur = c)')]_vars
  BY <1>1
<1> QED
  BY <1>2, Invariant, PTL DEF Spec, DeadApproaches

-----------------------------------------------------------------------------
(* The promise to the observers of EventDP: every step of DPSet is a step   *)
(* of SwitchFeed or leaves its variables alone.                             *)

AnnouncedMap == [d \in Dpid |-> Announced(d)]
KnownMap == [d \in Dpid |-> ofs[d] # None]
LagMap == [d \in Dpid |-> Cardinality(About(d))]

\* Which maps are the old ones with one switch turned over.
LEMMA FlipOne ==
  ASSUME NEW S, NEW d \in S, NEW f \in [S -> BOOLEAN], NEW g \in [S -> BOOLEAN],
         \A x \in S \ {d} : g[x] <=> f[x], g[d] <=> ~f[d]
  PROVE  g = [f EXCEPT ![d] = ~@]
<1> DEFINE h == [f EXCEPT ![d] = ~@]
<1>1. h \in [S -> BOOLEAN] /\ h[d] = ~f[d] /\ \A x \in S \ {d} : h[x] = f[x]
  BY Zenon
<1>2. \A x \in S : g[x] \in BOOLEAN /\ f[x] \in BOOLEAN /\ h[x] \in BOOLEAN
  BY <1>1
<1>3. \A x \in S : g[x] = h[x]
  <2> SUFFICES ASSUME NEW x \in S PROVE g[x] = h[x]
    OBVIOUS
  <2>1. \A a, b \in BOOLEAN : (a <=> b) => a = b
    OBVIOUS
  <2>2. \A a, b \in BOOLEAN : (a <=> ~b) => a = ~b
    OBVIOUS
  <2> HIDE DEF h
  <2>3. CASE x = d
    BY <1>1, <1>2, <2>2, <2>3
  <2>4. CASE x # d
    BY <1>1, <1>2, <2>1, <2>4
  <2> QED
    BY <2>3, <2>4
<1> HIDE DEF h
<1>4. g = h
  BY <1>1, <1>3
<1> QED
  BY <1>4 DEF h

\* The events about d are counted by their positions.
LEMMA CountAppend ==
  ASSUME NEW s \in Seq(EventDP), NEW x \in EventDP, NEW d
  PROVE  /\ IsFiniteSet(At(s, d))
         /\ Cardinality(At(Append(s, x), d))
              = IF IdOf[x.dp] = d THEN Cardinality(At(s, d)) + 1 ELSE Cardinality(At(s, d))
<1>1. IsFiniteSet(At(s, d))
  <2>1. IsFiniteSet(1..Len(s)) /\ At(s, d) \in SUBSET (1..Len(s))
    BY FS_Interval, LenProperties DEF At
  <2> QED
    BY <2>1, FS_Subset
<1>2. Len(s) + 1 \notin At(s, d)
  BY LenProperties DEF At
<1>3. Cardinality(At(s, d) \cup {Len(s) + 1}) = Cardinality(At(s, d)) + 1
  BY <1>1, <1>2, FS_AddElement
<1>4. /\ IdOf[x.dp] = d => At(Append(s, x), d) = At(s, d) \cup {Len(s) + 1}
      /\ IdOf[x.dp] # d => At(Append(s, x), d) = At(s, d)
  BY AtAppend DEF At
<1> QED
  BY <1>1, <1>3, <1>4, Zenon

LEMMA CountTail ==
  ASSUME NEW s \in Seq(EventDP), s # <<>>, NEW d
  PROVE  /\ Cardinality(At(s, d)) \in Nat
         /\ IdOf[Head(s).dp] = d => Cardinality(At(s, d)) > 0
         /\ Cardinality(At(Tail(s), d))
              = IF IdOf[Head(s).dp] = d THEN Cardinality(At(s, d)) - 1 ELSE Cardinality(At(s, d))
<1> DEFINE t == Tail(s)
           rest == At(s, d) \ {1}
           f == [i \in rest |-> i - 1]
<1>1. /\ Len(s) \in Nat \ {0} /\ Len(t) = Len(s) - 1
      /\ Head(s) = s[1]
      /\ \A i \in 1..Len(t) : t[i] = s[i + 1]
  BY HeadTailProperties, LenProperties, EmptySeq
<1>2. IsFiniteSet(At(s, d)) /\ Cardinality(At(s, d)) \in Nat
  <2>1. IsFiniteSet(1..Len(s)) /\ At(s, d) \in SUBSET (1..Len(s))
    BY FS_Interval, LenProperties DEF At
  <2> QED
    BY <2>1, FS_Subset, FS_CardinalityType
<1>3. 1 \in At(s, d) <=> IdOf[Head(s).dp] = d
  BY <1>1 DEF At
<1>4. \A i \in rest : i \in Nat /\ i - 1 \in At(t, d)
  BY <1>1 DEF At
<1>5. \A i \in At(t, d) : i \in Nat /\ i + 1 \in rest /\ (i + 1) - 1 = i
  BY <1>1 DEF At
<1>6. f \in Bijection(rest, At(t, d))
  BY <1>4, <1>5 DEF Bijection, Injection, Surjection, IsInjective
<1>7. IsFiniteSet(rest) /\ Cardinality(rest)
                             = IF 1 \in At(s, d) THEN Cardinality(At(s, d)) - 1
                               ELSE Cardinality(At(s, d))
  BY <1>2, FS_RemoveElement
<1>8. Cardinality(At(t, d)) = Cardinality(rest)
  <2>1. ExistsBijection(rest, At(t, d))
    BY <1>6 DEF ExistsBijection
  <2> QED
    BY <1>7, <2>1, FS_Bijection
<1>9. 1 \in At(s, d) => Cardinality(At(s, d)) > 0
  BY <1>2, FS_EmptySet
<1> QED
  BY <1>2, <1>3, <1>7, <1>8, <1>9

\* The maps are typed, and the events about d are those of At.
LEMMA FeedMaps ==
  /\ AnnouncedMap \in [Dpid -> BOOLEAN] /\ KnownMap \in [Dpid -> BOOLEAN]
  /\ \A d \in Dpid : /\ AnnouncedMap[d] <=> Announced(d)
                     /\ KnownMap[d] <=> ofs[d] # None
                     /\ LagMap[d] = Cardinality(At(aq, d))
  /\ DOMAIN LagMap = Dpid
<1>1. \A d : About(d) = At(aq, d)
  BY DEF About, At
<1>2. \A d : Announced(d) \in BOOLEAN /\ (ofs[d] # None) \in BOOLEAN
  BY DEF Announced
<1> QED
  BY <1>1, <1>2 DEF AnnouncedMap, KnownMap, LagMap

\* A step that neither posts nor takes an EventDP and announces nothing.
LEMMA FeedKept ==
  ASSUME aq' = aq, ofs' = ofs, \A d \in Dpid : Announced(d)' <=> Announced(d)
  PROVE  UNCHANGED Feed!svars
<1>1. \A d \in Dpid : Announced(d)' = Announced(d)
  BY DEF Announced
<1>2. AnnouncedMap' = AnnouncedMap /\ KnownMap' = KnownMap /\ LagMap' = LagMap
  BY <1>1 DEF AnnouncedMap, KnownMap, LagMap, About
<1> QED
  BY <1>2 DEF Feed!svars, AnnouncedMap, KnownMap, LagMap

\* A step that posts an event about the switch whose announcement it changes.
LEMMA FeedAnnounces ==
  ASSUME TypeOK, NEW x \in EventDP, NEW d \in Dpid, IdOf[x.dp] = d, aq' = Append(aq, x),
         ofs' = ofs, Announced(d)' <=> ~Announced(d),
         \A k \in Dpid \ {d} : Announced(k)' <=> Announced(k)
  PROVE  Feed!Announce(d)
<1>1. aq \in Seq(EventDP)
  BY DEF TypeOK
<1>2. /\ AnnouncedMap \in [Dpid -> BOOLEAN] /\ AnnouncedMap' \in [Dpid -> BOOLEAN]
      /\ \A k \in Dpid : /\ AnnouncedMap[k] <=> Announced(k)
                         /\ AnnouncedMap'[k] <=> Announced(k)'
                         /\ LagMap[k] = Cardinality(At(aq, k))
                         /\ LagMap'[k] = Cardinality(At(aq', k))
  <2>1. FeedMaps'
    BY FeedMaps, PTL
  <2> QED
    BY <2>1, FeedMaps
<1>3. AnnouncedMap' = [AnnouncedMap EXCEPT ![d] = ~@]
  BY <1>2, FlipOne
<1>4. KnownMap' = KnownMap
  BY DEF KnownMap
<1>5. \A k \in Dpid : LagMap'[k] = IF k = d THEN LagMap[k] + 1 ELSE LagMap[k]
  BY <1>1, <1>2, CountAppend
<1>6. LagMap' = [LagMap EXCEPT ![d] = @ + 1]
  BY <1>5 DEF LagMap
<1> QED
  BY <1>3, <1>4, <1>6 DEF Feed!Announce, AnnouncedMap, KnownMap, LagMap

\* The observer follows the first event in its line, which is about a switch it
\* has if and only if the event says that the switch has gone.
LEMMA FeedFollows ==
  ASSUME IInv, Alternating, HandlerDatapath
  PROVE  \E d \in Dpid : Feed!Follow(d)
<1> DEFINE e == Head(aq)
<1>0. /\ aq \in Seq(EventDP) /\ aq # <<>> /\ aq' = Tail(aq) /\ UNCHANGED <<pc, cur, dps>>
      /\ e \in EventDP /\ e.dp \in Dp /\ e.enter \in BOOLEAN /\ e.dp # None
  <2>1. aq \in Seq(EventDP) /\ aq # <<>>
    BY DEF HandlerDatapath, IInv, TypeOK
  <2>2. e \in EventDP
    BY <2>1, TakeType
  <2> QED
    BY <2>1, <2>2, NoneAssumption DEF HandlerDatapath, EventDP
<1>1. PICK d \in Dpid : d = IdOf[e.dp]
  BY <1>0, IdOfAssumption
<1>2. /\ KnownMap \in [Dpid -> BOOLEAN] /\ KnownMap' \in [Dpid -> BOOLEAN]
      /\ \A k \in Dpid : /\ KnownMap[k] <=> ofs[k] # None
                         /\ KnownMap'[k] <=> ofs'[k] # None
                         /\ LagMap[k] = Cardinality(At(aq, k))
                         /\ LagMap'[k] = Cardinality(At(aq', k))
  <2>1. FeedMaps'
    BY FeedMaps, PTL
  <2> QED
    BY <2>1, FeedMaps
<1>3. e.enter <=> ~(ofs[d] # None)
  BY <1>0, <1>1, TurnsTail DEF Alternating
<1>4. /\ ofs'[d] # None <=> ~(ofs[d] # None)
      /\ \A k \in Dpid \ {d} : ofs'[k] = ofs[k]
  BY <1>0, <1>1, <1>3 DEF HandlerDatapath, IInv, TypeOK
<1>5. KnownMap' = [KnownMap EXCEPT ![d] = ~@]
  <2>1. \A k \in Dpid \ {d} : KnownMap'[k] <=> KnownMap[k]
    BY <1>2, <1>4
  <2>2. KnownMap'[d] <=> ~KnownMap[d]
    BY <1>2, <1>4
  <2> QED
    BY <1>2, <2>1, <2>2, FlipOne
<1>6. LagMap[d] > 0 /\ \A k \in Dpid : LagMap'[k] = IF k = d THEN LagMap[k] - 1 ELSE LagMap[k]
  BY <1>0, <1>1, <1>2, CountTail
<1>7. LagMap' = [LagMap EXCEPT ![d] = @ - 1]
  BY <1>6 DEF LagMap
<1>8. AnnouncedMap' = AnnouncedMap
  BY <1>0 DEF AnnouncedMap, Announced
<1> QED
  BY <1>0, <1>5, <1>6, <1>7, <1>8 DEF Feed!Follow, AnnouncedMap, KnownMap, LagMap

\* The tail of _register announces a switch, or nothing when it replaces the
\* connection of one.
LEMMA InstallFeeds ==
  ASSUME IInv, NEW c \in Dp, Install(c), pc = "idle", UNCHANGED <<pc, cur, ofs>>
  PROVE  Feed!Announce(IdOf[c]) \/ UNCHANGED Feed!svars
<1>1. /\ TypeOK /\ IdOf[c] \in Dpid /\ c # None
      /\ \A d \in Dpid : dps'[d] = IF d = IdOf[c] THEN c ELSE dps[d]
      /\ port_state[IdOf[c]] = NoPorts <=> dps[IdOf[c]] = None
  BY InstallFollows, IdOfAssumption, NoneAssumption DEF IInv, PortStateFollowsDps
<1>2. \A d \in Dpid : /\ Announced(d) <=> dps[d] # None
                      /\ Announced(d)' <=> dps'[d] # None
  BY DEF Announced
<1>3. CASE port_state[IdOf[c]] # NoPorts
  <2>1. aq' = aq /\ \A d \in Dpid : Announced(d)' <=> Announced(d)
    BY <1>1, <1>2, <1>3 DEF Install
  <2> QED
    BY <2>1, FeedKept
<1>4. CASE port_state[IdOf[c]] = NoPorts
  <2>1. aq' = Append(aq, Enter(c)) /\ Enter(c) \in EventDP /\ Enter(c).dp = c
    BY <1>4, EventTypes DEF Install, Enter
  <2>2. /\ Announced(IdOf[c])' <=> ~Announced(IdOf[c])
        /\ \A k \in Dpid \ {IdOf[c]} : Announced(k)' <=> Announced(k)
    BY <1>1, <1>2, <1>4
  <2> QED
    BY <1>1, <2>1, <2>2, FeedAnnounces
<1> QED
  BY <1>3, <1>4

\* _unregister announces that the switch has gone.
LEMMA UnregisterFeeds ==
  ASSUME IInv, NEW c \in Dp, Unregister(c)
  PROVE  Feed!Announce(IdOf[c])
<1>1. /\ TypeOK /\ IdOf[c] \in Dpid /\ dps[IdOf[c]] = c /\ c # None /\ pc = "idle" /\ ofs' = ofs
      /\ aq' = Append(aq, Leave(c)) /\ Leave(c) \in EventDP /\ Leave(c).dp = c
  BY IdOfAssumption, NoneAssumption, EventTypes DEF Unregister, Taking, Idle, IInv, Leave
<1>2. \A d \in Dpid : Announced(d)' <=> (Announced(d) /\ d # IdOf[c])
  BY <1>1 DEF Unregister, Announced, IInv, TypeOK
<1>3. Announced(IdOf[c])
  BY <1>1 DEF Announced
<1> QED
  BY <1>1, <1>2, <1>3, FeedAnnounces

LEMMA FeedStep == IInv /\ Alternating /\ [Next]_vars => [Feed!SNext]_(Feed!svars)
<1> SUFFICES ASSUME IInv, Alternating, [Next]_vars
             PROVE  Feed!SNext \/ UNCHANGED Feed!svars
  OBVIOUS
<1>1. ASSUME UNCHANGED <<pc, cur, dps, aq, ofs>> PROVE UNCHANGED Feed!svars
  BY <1>1, FeedKept DEF Announced
<1>2. ASSUME NEW d \in Dpid, Feed!Announce(d) \/ Feed!Follow(d) PROVE Feed!SNext
  BY <1>2 DEF Feed!SNext
<1>3. \A c \in Dp : IdOf[c] \in Dpid
  BY IdOfAssumption
<1>4. ASSUME NEW c \in Dp, DpStep(c) PROVE UNCHANGED Feed!svars
  BY <1>1, <1>4 DEF DpStep, Connect, PortDescMore, PortDescLast, PortStatus, Resume, Close
<1>5. ASSUME NEW c \in Dp, RegisterNew(c) \/ RegisterReplace(c)
      PROVE  Feed!SNext \/ UNCHANGED Feed!svars
  <2>1. Install(c) /\ pc = "idle" /\ UNCHANGED <<pc, cur, ofs>>
    BY <1>5 DEF RegisterNew, RegisterReplace, Taking, Idle
  <2> QED
    BY <1>2, <1>3, <2>1, InstallFeeds
<1>6. ASSUME NEW c \in Dp, RegisterStuck(c) PROVE UNCHANGED Feed!svars
  BY <1>6, FeedKept DEF RegisterStuck, Taking, Idle, Announced
<1>7. ASSUME NEW c \in Dp, UnregisterForgotten(c) PROVE UNCHANGED Feed!svars
  BY <1>1, <1>7 DEF UnregisterForgotten
<1>8. ASSUME NEW c \in Dp, Unregister(c) PROVE Feed!SNext
  BY <1>2, <1>3, <1>8, UnregisterFeeds
<1>9. CASE UnregisterEnd
  <2>1. cur \in Dp /\ IdOf[cur] \in Dpid
    BY <1>9, IdOfAssumption DEF UnregisterEnd, IInv, TypeOK
  <2>2. \A d \in Dpid : Announced(d)' <=> Announced(d)
    BY <1>9, <2>1 DEF UnregisterEnd, Announced, IInv, TypeOK
  <2> QED
    BY <1>9, <2>2, FeedKept DEF UnregisterEnd
<1>10. ASSUME NEW e \in Event, PortStatusHandler(e) PROVE UNCHANGED Feed!svars
  BY <1>1, <1>10 DEF PortStatusHandler
<1>11. CASE HandlerDatapath
  BY <1>2, <1>11, FeedFollows
<1>12. CASE UNCHANGED vars
  BY <1>1, <1>12 DEF vars
<1> QED
  BY <1>4, <1>5, <1>6, <1>7, <1>8, <1>9, <1>10, <1>11, <1>12 DEF Next, DpsetStep, Register

\* dpset and handler_datapath implement the feed: no reconnect, overlap or wait
\* for a slot lets _OFS_LIST skip, repeat or turn round an announcement.
THEOREM ImplementsSwitchFeed == Spec => RefinesSwitchFeed
<1>1. Init => Feed!SInit /\ Alternating
  <2> SUFFICES ASSUME Init PROVE Feed!SInit /\ Alternating
    OBVIOUS
  <2>1. \A d \in Dpid : At(aq, d) = {} /\ About(d) = {} /\ ofs[d] = None /\ ~Announced(d)
    BY DEF Init, At, About, Announced
  <2>2. \A d \in Dpid : Cardinality(About(d)) = 0
    BY <2>1, FS_EmptySet
  <2>3. \A d \in Dpid : Announced(d) = FALSE /\ (ofs[d] # None) = FALSE
    BY <2>1 DEF Announced
  <2>4. Feed!SInit
    BY <2>2, <2>3 DEF Feed!SInit
  <2> QED
    BY <2>1, <2>4 DEF Alternating, Turns
<1> QED
  BY <1>1, Invariant, TurnsStep, FeedStep, PTL DEF Spec, RefinesSwitchFeed, Feed!SSpec
=============================================================================
