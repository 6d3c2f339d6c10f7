------------------------ MODULE DPSetOverlap_proofs -------------------------
(***************************************************************************)
(* When the registry of DPSet gets stuck and when _OFS_LIST keeps a dead   *)
(* connection: only after two connections of one switch have been in MAIN  *)
(* at the same time.  A switch whose old connection is found dead before   *)
(* the new one is negotiated may reconnect as often as it likes.  For      *)
(* every set of connections, switches and ports and every size of the two  *)
(* queues.                                                                 *)
(***************************************************************************)
EXTENDS DPSet_proofs

-----------------------------------------------------------------------------
(* The deadlock itself.                                                    *)

\* What dpset waits for when _register blocks on its own queue: a slot for the
\* DEAD event of the connection it replaces, which is still in dps and stands
\* in line behind all that dpset would have to take.
WaitsForItself ==
  Stuck => \E i \in QMax+1..Len(q) : q[i] = DEAD(dps[IdOf[cur]])

\* The deadlock is for good, and it freezes the registry: no connection enters
\* or leaves dps or port_state any more.
StuckForGood == [][Stuck => Stuck' /\ UNCHANGED <<dps, port_state, cur>>]_vars

\* Only the receive greenlets and RestQoSAPI go on when dpset is stuck.
LEMMA StuckStep ==
  ASSUME TypeOK, [Next]_vars, Stuck
  PROVE  /\ UNCHANGED <<pc, cur, dps, port_state>>
         /\ q' = q \/ \E e \in Event : q' = Append(q, e)
<1>1. ASSUME NEW c \in Dp, DpStep(c)
      PROVE  /\ UNCHANGED <<pc, cur, dps, port_state>>
             /\ q' = q \/ \E e \in Event : q' = Append(q, e)
  BY <1>1, EventTypes
  DEF DpStep, Connect, PortDescMore, PortDescLast, PortStatus, Resume, Close
<1>2. ~DpsetStep
  BY DEF DpsetStep, Stuck, Register, RegisterNew, RegisterReplace, RegisterStuck,
         UnregisterForgotten, Unregister, UnregisterEnd, PortStatusHandler, Taking, Idle
<1>3. CASE HandlerDatapath
  BY <1>3 DEF HandlerDatapath, conns
<1> QED
  BY <1>1, <1>2, <1>3 DEF Next, vars

\* Nothing wakes a stuck dpset.
THEOREM StuckIsForGood == Spec => StuckForGood
<1>1. TypeOK /\ [Next]_vars => [Stuck => Stuck' /\ UNCHANGED <<dps, port_state, cur>>]_vars
  BY StuckStep DEF Stuck
<1> QED
  BY <1>1, TypeCorrect, PTL DEF Spec, StuckForGood

\* A stuck dpset waits for a slot that only dpset could free.
THEOREM StuckOnOwnQueue == Spec => []WaitsForItself
<1>1. Init => WaitsForItself
  BY DEF Init, WaitsForItself, Stuck
<1>2. IInv /\ WaitsForItself /\ [Next]_vars => WaitsForItself'
  <2> SUFFICES ASSUME IInv, WaitsForItself, [Next]_vars, Stuck'
               PROVE  \E i \in QMax+1..Len(q') : q'[i] = DEAD(dps'[IdOf[cur']])
    BY DEF WaitsForItself
  <2>0. TypeOK /\ Len(q) \in Nat /\ QMax \in Nat
    BY BoundAssumption, LenProperties DEF IInv, TypeOK
  <2>1. CASE Stuck
    <3>1. PICK i \in QMax+1..Len(q) : q[i] = DEAD(dps[IdOf[cur]])
      BY <2>1 DEF WaitsForItself
    <3>2. /\ dps' = dps /\ cur' = cur
          /\ q' = q \/ \E e \in Event : q' = Append(q, e)
      BY <2>0, <2>1, StuckStep
    <3>3. i \in QMax+1..Len(q') /\ q'[i] = q[i]
      BY <2>0, <3>1, <3>2, AppendProperties DEF TypeOK
    <3> QED
      BY <3>1, <3>2, <3>3
  <2>2. CASE ~Stuck
    <3>1. PICK c \in Dp : RegisterStuck(c)
      BY <2>2 DEF Next, vars, Stuck, DpStep, Connect, PortDescMore, PortDescLast, PortStatus,
                  Resume, Close, DpsetStep, Register, RegisterNew, RegisterReplace,
                  UnregisterForgotten, Unregister, UnregisterEnd, PortStatusHandler,
                  HandlerDatapath, conns
    <3>2. dps[IdOf[c]] \in Dp
      BY <2>0, <3>1, IdOfAssumption DEF RegisterStuck, HasLiveOlder, TypeOK
    <3>3. /\ Tail(q) \in Seq(Event) /\ Len(Tail(q)) = Len(q) - 1 /\ Len(q) > QMax
          /\ DEAD(dps[IdOf[c]]) \in Event
      BY <2>0, <3>1, <3>2, EventTypes, HeadTailProperties DEF RegisterStuck, Taking, TypeOK
    <3>4. /\ Len(q') = Len(q) /\ q'[Len(q)] = DEAD(dps[IdOf[c]])
          /\ dps' = dps /\ cur' = c
      BY <2>0, <3>1, <3>3, AppendProperties DEF RegisterStuck
    <3> QED
      BY <2>0, <3>3, <3>4
  <2> QED
    BY <2>1, <2>2
<1> QED
  BY <1>1, <1>2, Invariant, PTL DEF Spec

-----------------------------------------------------------------------------
(* Switches whose connections do not overlap.                              *)

\* At most one connection of a switch is in MAIN.
NoOverlap ==
  \A c, k \in Dp : state[c] = "main" /\ state[k] = "main" /\ IdOf[c] = IdOf[k] => c = k

\* A MAIN event of c in the line s is behind a DEAD event of k.
DeadBefore(s, c, k) ==
  \A i \in 1..Len(s) : s[i] = MAIN(c) => \E j \in 1..i-1 : s[j] = DEAD(k)

\* Of two connections of one switch with MAIN events in s, the first is dead
\* before the second comes.
MainsInTurn(s) ==
  \A i, j \in 1..Len(s), c, k \in Dp :
    i < j /\ s[i] = MAIN(c) /\ s[j] = MAIN(k) /\ IdOf[c] = IdOf[k]
      => \E l \in 1..j-1 : s[l] = DEAD(c)

\* The connection dps holds is removed before the next one is registered.
OldGoesFirst ==
  \A c \in Dp : dps[IdOf[c]] # None =>
    \/ DeadBefore(q, c, dps[IdOf[c]])
    \/ pc = "leaving" /\ cur = dps[IdOf[c]]

LEMMA DeadBeforeAppend ==
  ASSUME NEW s \in Seq(Event), NEW x \in Event, NEW c, NEW k, DeadBefore(s, c, k),
         x = MAIN(c) => In(DEAD(k), s)
  PROVE  DeadBefore(Append(s, x), c, k)
<1>1. /\ Len(Append(s, x)) = Len(s) + 1
      /\ \A i \in 1..Len(s) : Append(s, x)[i] = s[i]
      /\ Append(s, x)[Len(s) + 1] = x
      /\ Len(s) \in Nat
  BY AppendProperties, LenProperties
<1> SUFFICES ASSUME NEW i \in 1..Len(s) + 1, Append(s, x)[i] = MAIN(c)
             PROVE  \E j \in 1..i-1 : Append(s, x)[j] = DEAD(k)
  BY <1>1 DEF DeadBefore
<1>2. CASE i = Len(s) + 1
  <2>1. PICK j \in 1..Len(s) : s[j] = DEAD(k)
    BY <1>1, <1>2 DEF In
  <2> QED
    BY <1>1, <1>2, <2>1
<1>3. CASE i # Len(s) + 1
  <2>1. i \in 1..Len(s) /\ s[i] = MAIN(c)
    BY <1>1, <1>3
  <2>2. PICK j \in 1..i-1 : s[j] = DEAD(k)
    BY <2>1 DEF DeadBefore
  <2> QED
    BY <1>1, <2>1, <2>2
<1> QED
  BY <1>2, <1>3

LEMMA DeadBeforeTail ==
  ASSUME NEW s \in Seq(Event), s # <<>>, NEW c, NEW k, DeadBefore(s, c, k), Head(s) # DEAD(k)
  PROVE  DeadBefore(Tail(s), c, k)
<1>1. /\ Len(s) \in Nat \ {0} /\ Len(Tail(s)) = Len(s) - 1
      /\ Head(s) = s[1]
      /\ \A i \in 1..Len(Tail(s)) : Tail(s)[i] = s[i + 1]
  BY HeadTailProperties, LenProperties, EmptySeq
<1> SUFFICES ASSUME NEW i \in 1..Len(s) - 1, Tail(s)[i] = MAIN(c)
             PROVE  \E j \in 1..i-1 : Tail(s)[j] = DEAD(k)
  BY <1>1 DEF DeadBefore
<1>2. i + 1 \in 1..Len(s) /\ s[i + 1] = MAIN(c)
  BY <1>1
<1>3. PICK j \in 1..(i + 1)-1 : s[j] = DEAD(k)
  BY <1>2 DEF DeadBefore
<1>4. j # 1
  BY <1>1, <1>3
<1>5. j - 1 \in 1..i-1 /\ j - 1 \in 1..Len(Tail(s)) /\ (j - 1) + 1 = j
  BY <1>1, <1>3, <1>4
<1> QED
  BY <1>1, <1>3, <1>5

\* Nobody of the switch of a new MAIN event is in line but with its DEAD event.
LEMMA MainsAppend ==
  ASSUME NEW s \in Seq(Event), NEW x \in Event, MainsInTurn(s),
         \A c, k \in Dp : x = MAIN(k) /\ IdOf[c] = IdOf[k] /\ In(MAIN(c), s) => In(DEAD(c), s)
  PROVE  MainsInTurn(Append(s, x))
<1>1. /\ Len(Append(s, x)) = Len(s) + 1
      /\ \A i \in 1..Len(s) : Append(s, x)[i] = s[i]
      /\ Append(s, x)[Len(s) + 1] = x
      /\ Len(s) \in Nat
  BY AppendProperties, LenProperties
<1> SUFFICES ASSUME NEW i \in 1..Len(s) + 1, NEW j \in 1..Len(s) + 1, NEW c \in Dp, NEW k \in Dp,
                    i < j, Append(s, x)[i] = MAIN(c), Append(s, x)[j] = MAIN(k),
                    IdOf[c] = IdOf[k]
             PROVE  \E l \in 1..j-1 : Append(s, x)[l] = DEAD(c)
  BY <1>1 DEF MainsInTurn
<1>2. i \in 1..Len(s) /\ s[i] = MAIN(c)
  BY <1>1
<1>3. CASE j = Len(s) + 1
  <2>1. In(DEAD(c), s)
    BY <1>1, <1>2, <1>3 DEF In
  <2> QED
    BY <1>1, <1>3, <2>1 DEF In
<1>4. CASE j # Len(s) + 1
  <2>1. j \in 1..Len(s) /\ s[j] = MAIN(k)
    BY <1>1, <1>4
  <2>2. PICK l \in 1..j-1 : s[l] = DEAD(c)
    BY <1>2, <2>1 DEF MainsInTurn
  <2> QED
    BY <1>1, <2>1, <2>2
<1> QED
  BY <1>3, <1>4

\* When the MAIN event of c is taken, its DEAD event is in line before any other
\* connection of the switch.
LEMMA MainsTail ==
  ASSUME NEW s \in Seq(Event), s # <<>>, MainsInTurn(s), MainFirst(s)
  PROVE  /\ MainsInTurn(Tail(s))
         /\ \A c, k \in Dp : Head(s) = MAIN(c) /\ IdOf[c] = IdOf[k]
                               => DeadBefore(Tail(s), k, c)
<1>1. /\ Len(s) \in Nat \ {0} /\ Len(Tail(s)) = Len(s) - 1
      /\ Head(s) = s[1]
      /\ \A i \in 1..Len(Tail(s)) : Tail(s)[i] = s[i + 1]
  BY HeadTailProperties, LenProperties, EmptySeq
<1>2. ASSUME NEW j \in 1..Len(s) - 1, NEW e, s[1] # e,
             \E l \in 1..(j + 1)-1 : s[l] = e
      PROVE  \E l \in 1..j-1 : Tail(s)[l] = e
  <2>1. PICK l \in 1..(j + 1)-1 : s[l] = e
    BY <1>2
  <2>2. l - 1 \in 1..j-1 /\ l - 1 \in 1..Len(Tail(s)) /\ (l - 1) + 1 = l
    BY <1>1, <1>2, <2>1
  <2> QED
    BY <1>1, <2>1, <2>2
<1>3. MainsInTurn(Tail(s))
  <2> SUFFICES ASSUME NEW i \in 1..Len(s) - 1, NEW j \in 1..Len(s) - 1, NEW c \in Dp, NEW k \in Dp,
                      i < j, Tail(s)[i] = MAIN(c), Tail(s)[j] = MAIN(k), IdOf[c] = IdOf[k]
               PROVE  \E l \in 1..j-1 : Tail(s)[l] = DEAD(c)
    BY <1>1 DEF MainsInTurn
  <2>1. /\ i + 1 \in 1..Len(s) /\ j + 1 \in 1..Len(s) /\ i + 1 < j + 1
        /\ s[i + 1] = MAIN(c) /\ s[j + 1] = MAIN(k) /\ 1 < i + 1 /\ 1 \in 1..Len(s)
    BY <1>1
  <2>2. \E l \in 1..(j + 1)-1 : s[l] = DEAD(c)
    BY <2>1 DEF MainsInTurn
  <2>3. s[1] # DEAD(c)
    BY <2>1 DEF MainFirst
  <2> QED
    BY <1>2, <2>2, <2>3
<1>4. ASSUME NEW c \in Dp, NEW k \in Dp, Head(s) = MAIN(c), IdOf[c] = IdOf[k]
      PROVE  DeadBefore(Tail(s), k, c)
  <2> SUFFICES ASSUME NEW j \in 1..Len(s) - 1, Tail(s)[j] = MAIN(k)
               PROVE  \E l \in 1..j-1 : Tail(s)[l] = DEAD(c)
    BY <1>1 DEF DeadBefore
  <2>1. /\ j + 1 \in 1..Len(s) /\ 1 < j + 1 /\ 1 \in 1..Len(s)
        /\ s[j + 1] = MAIN(k) /\ s[1] = MAIN(c)
    BY <1>1, <1>4
  <2>2. \E l \in 1..(j + 1)-1 : s[l] = DEAD(c)
    BY <1>4, <2>1 DEF MainsInTurn
  <2>3. s[1] # DEAD(c)
    BY <2>1, EventsDiffer
  <2> QED
    BY <1>2, <2>2, <2>3
<1> QED
  BY <1>3, <1>4

OInv == MainsInTurn(q) /\ OldGoesFirst

\* A new MAIN event comes when every older connection of the switch is dead.
LEMMA PortDescLastInTurn ==
  ASSUME IInv, OInv, NoOverlap', NEW c \in Dp, NEW S \in SUBSET Port, PortDescLast(c, S)
  PROVE  OInv'
<1>1. /\ q \in Seq(Event) /\ MAIN(c) \in Event /\ q' = Append(q, MAIN(c))
      /\ state[c] = "config" /\ UNCHANGED <<pc, cur, dps>>
      /\ \A k \in Dp : state'[k] = IF k = c THEN "main" ELSE state[k]
  BY EventTypes DEF PortDescLast, IInv, TypeOK
<1>2. ASSUME NEW k \in Dp, IdOf[k] = IdOf[c], state[k] \in {"main", "dead"}
      PROVE  state[k] = "dead"
  BY <1>1, <1>2 DEF NoOverlap
<1>3. MainsInTurn(q')
  <2>1. ASSUME NEW k \in Dp, IdOf[k] = IdOf[c], In(MAIN(k), q) PROVE In(DEAD(k), q)
    BY <1>2, <2>1 DEF IInv, MainIsPending
  <2>2. \A k \in Dp : MAIN(c) = MAIN(k) => k = c
    BY EventsDiffer
  <2> QED
    BY <1>1, <2>1, <2>2, MainsAppend DEF OInv
<1>4. OldGoesFirst'
  <2> SUFFICES ASSUME NEW k \in Dp, dps[IdOf[k]] # None,
                      ~(pc = "leaving" /\ cur = dps[IdOf[k]])
               PROVE  DeadBefore(q', k, dps[IdOf[k]])
    BY <1>1 DEF OldGoesFirst
  <2> DEFINE old == dps[IdOf[k]]
  <2>1. DeadBefore(q, k, old)
    BY DEF OInv, OldGoesFirst
  <2>2. IdOf[k] \in Dpid /\ old \in Dp /\ IdOf[old] = IdOf[k] /\ state[old] \in {"main", "dead"}
    BY IdOfAssumption DEF IInv, TypeOK, Registered
  <2>3. ASSUME MAIN(c) = MAIN(k) PROVE In(DEAD(old), q)
    <3>1. k = c
      BY <2>3, EventsDiffer
    <3>2. state[old] = "dead"
      BY <1>2, <2>2, <3>1
    <3> QED
      BY <2>2, <3>2 DEF IInv, DeadIsOnItsWay
  <2> QED
    BY <1>1, <2>1, <2>3, DeadBeforeAppend
<1> QED
  BY <1>1, <1>3, <1>4 DEF OInv

\* Other posts bring no MAIN event.
LEMMA PostInTurn ==
  ASSUME IInv, OInv, NEW x \in Event, \A c \in Dp : x # MAIN(c), q' = Append(q, x),
         UNCHANGED <<pc, cur, dps>>
  PROVE  OInv'
<1>1. q \in Seq(Event)
  BY DEF IInv, TypeOK
<1>2. MainsInTurn(q')
  BY <1>1, MainsAppend DEF OInv
<1>3. ASSUME NEW c \in Dp, NEW k, DeadBefore(q, c, k) PROVE DeadBefore(q', c, k)
  BY <1>1, <1>3, DeadBeforeAppend
<1> QED
  BY <1>2, <1>3 DEF OInv, OldGoesFirst

\* Registering finds no older connection.
LEMMA NoneOlder ==
  ASSUME IInv, OInv, NEW c \in Dp, Taking(MAIN(c))
  PROVE  dps[IdOf[c]] = None
<1>1. 1 \in 1..Len(q) /\ q[1] = MAIN(c) /\ pc # "leaving"
  <2>1. q \in Seq(Event) /\ q # <<>>
    BY DEF IInv, TypeOK, Taking
  <2> QED
    BY <2>1, LenProperties, EmptySeq, HeadTailProperties DEF Taking, Idle
<1> SUFFICES ASSUME dps[IdOf[c]] # None PROVE FALSE
  OBVIOUS
<1>2. DeadBefore(q, c, dps[IdOf[c]])
  BY <1>1 DEF OInv, OldGoesFirst
<1>3. \E j \in 1..1-1 : q[j] = DEAD(dps[IdOf[c]])
  BY <1>1, <1>2 DEF DeadBefore
<1> QED
  BY <1>3

\* The registered connection is dead before the next one of its switch comes.
LEMMA RegisterNewInTurn ==
  ASSUME IInv, OInv, NEW c \in Dp, RegisterNew(c)
  PROVE  OInv'
<1>1. /\ q \in Seq(Event) /\ q # <<>> /\ Head(q) = MAIN(c) /\ q' = Tail(q) /\ MainFirst(q)
      /\ UNCHANGED <<pc, cur>>
  BY DEF RegisterNew, Taking, IInv, TypeOK
<1>2. /\ MainsInTurn(q')
      /\ \A k \in Dp : IdOf[c] = IdOf[k] => DeadBefore(q', k, c)
  BY <1>1, MainsTail DEF OInv
<1>3. \A d \in Dpid : dps'[d] = IF d = IdOf[c] THEN c ELSE dps[d]
  BY DEF RegisterNew, Install, IInv, TypeOK
<1>4. ASSUME NEW k \in Dp, IdOf[k] # IdOf[c], DeadBefore(q, k, dps[IdOf[k]]),
             dps[IdOf[k]] # None
      PROVE  DeadBefore(q', k, dps[IdOf[k]])
  <2>1. dps[IdOf[k]] \in Dp
    BY <1>4, IdOfAssumption DEF IInv, TypeOK
  <2> QED
    BY <1>1, <1>4, <2>1, DeadBeforeTail, EventsDiffer
<1>5. \A k \in Dp : IdOf[k] \in Dpid
  BY IdOfAssumption
<1>6. OldGoesFirst'
  BY <1>1, <1>2, <1>3, <1>4, <1>5 DEF OInv, OldGoesFirst
<1> QED
  BY <1>2, <1>6 DEF OInv

\* Any other event dpset takes leaves the connections dps holds in their turns.
LEMMA TakeInTurn ==
  ASSUME IInv, OInv, NEW e, Taking(e), q' = Tail(q),
         \A c \in Dp : dps'[IdOf[c]] # None =>
           \/ dps'[IdOf[c]] = dps[IdOf[c]] /\ e # DEAD(dps[IdOf[c]])
           \/ (pc = "leaving" /\ cur = dps[IdOf[c]])'
  PROVE  OInv'
<1>1. q \in Seq(Event) /\ q # <<>> /\ Head(q) = e /\ MainFirst(q) /\ pc # "leaving"
  BY DEF Taking, Idle, IInv, TypeOK
<1>2. MainsInTurn(q')
  BY <1>1, MainsTail DEF OInv
<1>3. ASSUME NEW c \in Dp, dps[IdOf[c]] # None, e # DEAD(dps[IdOf[c]])
      PROVE  DeadBefore(q', c, dps[IdOf[c]])
  <2>1. DeadBefore(q, c, dps[IdOf[c]])
    BY <1>1, <1>3 DEF OInv, OldGoesFirst
  <2> QED
    BY <1>1, <1>3, <2>1, DeadBeforeTail
<1> QED
  BY <1>2, <1>3 DEF OInv, OldGoesFirst

\* Every step keeps the turns as long as no two connections of a switch overlap.
LEMMA OverlapStep == IInv /\ OInv /\ NoOverlap' /\ [Next]_vars => OInv'
<1> SUFFICES ASSUME IInv, OInv, NoOverlap', [Next]_vars PROVE OInv'
  OBVIOUS
<1>1. ASSUME UNCHANGED <<q, pc, cur, dps>> PROVE OInv'
  BY <1>1 DEF OInv, MainsInTurn, OldGoesFirst, DeadBefore
<1>2. ASSUME NEW c \in Dp, DpStep(c) PROVE OInv'
  <2>1. CASE Connect(c) \/ (\E S \in SUBSET Port : PortDescMore(c, S)) \/ Resume(c)
    BY <1>1, <2>1 DEF Connect, PortDescMore, Resume
  <2>2. ASSUME NEW S \in SUBSET Port, PortDescLast(c, S) PROVE OInv'
    BY <2>2, PortDescLastInTurn
  <2>3. ASSUME NEW r \in PortReason, NEW p \in Port, PortStatus(c, r, p) PROVE OInv'
    BY <2>3, PortIsPort, EventsDiffer, PostInTurn DEF PortStatus
  <2>4. CASE Close(c)
    BY <1>1, <2>4, EventTypes, EventsDiffer, PostInTurn DEF Close
  <2> QED
    BY <1>2, <2>1, <2>2, <2>3, <2>4 DEF DpStep
<1>3. ASSUME NEW c \in Dp, Register(c) PROVE OInv'
  <2>1. Taking(MAIN(c))
    BY <1>3 DEF Register, RegisterNew, RegisterReplace, RegisterStuck
  <2>2. ~HasLiveOlder(c)
    BY <2>1, NoneOlder DEF HasLiveOlder
  <2> QED
    BY <1>3, <2>2, RegisterNewInTurn DEF Register, RegisterReplace, RegisterStuck
<1>4. \A c \in Dp : dps[IdOf[c]] # None => dps[IdOf[c]] \in Dp /\ IdOf[dps[IdOf[c]]] = IdOf[c]
  BY IdOfAssumption DEF IInv, TypeOK, Registered
<1>5. ASSUME NEW c \in Dp, UnregisterForgotten(c) PROVE OInv'
  <2>1. \A k \in Dp : dps[IdOf[k]] # None => DEAD(c) # DEAD(dps[IdOf[k]])
    BY <1>4, <1>5, EventsDiffer DEF UnregisterForgotten
  <2> QED
    BY <1>5, <2>1, TakeInTurn DEF UnregisterForgotten
<1>6. ASSUME NEW c \in Dp, Unregister(c) PROVE OInv'
  <2>1. IdOf[c] \in Dpid /\ c # None /\ \A k \in Dp : IdOf[k] \in Dpid
    BY IdOfAssumption, NoneAssumption
  <2>2. ASSUME NEW k \in Dp, dps'[IdOf[k]] # None
        PROVE  \/ dps'[IdOf[k]] = dps[IdOf[k]] /\ DEAD(c) # DEAD(dps[IdOf[k]])
               \/ (pc = "leaving" /\ cur = dps[IdOf[k]])'
    <3>1. CASE IdOf[k] = IdOf[c]
      BY <1>6, <2>1, <2>2, <3>1 DEF Unregister, IInv, TypeOK
    <3>2. CASE IdOf[k] # IdOf[c]
      <4>1. dps'[IdOf[k]] = dps[IdOf[k]]
        BY <1>6, <2>1, <3>2 DEF Unregister, IInv, TypeOK
      <4> QED
        BY <1>4, <2>2, <3>2, <4>1, EventsDiffer
    <3> QED
      BY <3>1, <3>2
  <2> QED
    BY <1>6, <2>2, TakeInTurn DEF Unregister
<1>7. CASE UnregisterEnd
  <2>1. cur \in Dp /\ dps[IdOf[cur]] = cur /\ q' = q
    BY <1>7 DEF UnregisterEnd, IInv, TypeOK, LeavingIsDead
  <2>2. ASSUME NEW c \in Dp, dps'[IdOf[c]] # None
        PROVE  dps'[IdOf[c]] = dps[IdOf[c]] /\ cur # dps[IdOf[c]]
    BY <1>4, <1>7, <2>1, <2>2, IdOfAssumption DEF UnregisterEnd, IInv, TypeOK
  <2> QED
    BY <2>1, <2>2 DEF OInv, OldGoesFirst
<1>8. ASSUME NEW e \in Event, PortStatusHandler(e) PROVE OInv'
  <2>1. \A c \in Dp : dps[IdOf[c]] # None => e # DEAD(dps[IdOf[c]])
    BY <1>4, <1>8, EventsDiffer DEF PortStatusHandler
  <2> QED
    BY <1>8, <2>1, TakeInTurn DEF PortStatusHandler
<1>9. CASE HandlerDatapath \/ UNCHANGED vars
  BY <1>1, <1>9 DEF HandlerDatapath, conns, vars
<1> QED
  BY <1>2, <1>3, <1>5, <1>6, <1>7, <1>8, <1>9 DEF Next, DpsetStep

\* Registering, dpset never finds a live older connection to close.
LEMMA NeverReplaces ==
  IInv /\ OInv => \A c \in Dp : ~RegisterReplace(c) /\ ~RegisterStuck(c)
BY NoneOlder DEF RegisterReplace, RegisterStuck, HasLiveOlder

LEMMA OverlapInit == Init => OInv
BY DEF Init, OInv, MainsInTurn, OldGoesFirst, DeadBefore

\* The deadlock of dpset needs two connections of one switch in MAIN at once:
\* without them it never waits for its own queue, however small and full it is.
THEOREM DeadlockNeedsOverlap == Spec /\ []NoOverlap => []~Stuck
<1>1. Init => OInv /\ ~Stuck
  BY OverlapInit DEF Init, Stuck
<1>2. IInv /\ OInv /\ ~Stuck /\ [Next]_vars => ~Stuck'
  <2> SUFFICES ASSUME IInv, OInv, ~Stuck, [Next]_vars, Stuck' PROVE FALSE
    OBVIOUS
  <2>1. \E c \in Dp : RegisterStuck(c)
    BY DEF Next, vars, Stuck, DpStep, Connect, PortDescMore, PortDescLast, PortStatus,
           Resume, Close, DpsetStep, Register, RegisterNew, RegisterReplace,
           UnregisterForgotten, Unregister, UnregisterEnd, PortStatusHandler,
           HandlerDatapath, conns
  <2> QED
    BY <2>1, NeverReplaces
<1> QED
  BY <1>1, <1>2, OverlapStep, Invariant, PTL DEF Spec

-----------------------------------------------------------------------------
(* What _OFS_LIST holds of such switches.                                  *)

\* The events about d in s lead from connection o to connection c, the last of
\* them being about c.
Names(s, d, o, c) ==
  /\ At(s, d) = {} => o = c
  /\ \A i \in At(s, d) : (\A j \in At(s, d) : j <= i) => s[i].dp = c

\* RestQoSAPI knows the connection that dps holds, or will when it has taken
\* the events in its line.
CurrentIsNamed == \A d \in Dpid : Announced(d) => Names(aq, d, ofs[d], dps[d])

LEMMA NamesAppend ==
  ASSUME NEW s \in Seq(EventDP), NEW x \in EventDP, NEW d, NEW o, NEW c
  PROVE  /\ IdOf[x.dp] # d /\ Names(s, d, o, c) => Names(Append(s, x), d, o, c)
         /\ IdOf[x.dp] = d => Names(Append(s, x), d, o, x.dp)
<1> DEFINE t == Append(s, x)
           n == Len(s) + 1
<1>1. /\ Len(s) \in Nat
      /\ \A i \in 1..Len(s) : t[i] = s[i]
      /\ t[n] = x
      /\ IdOf[x.dp] = d => At(t, d) = At(s, d) \cup {n}
      /\ IdOf[x.dp] # d => At(t, d) = At(s, d)
  BY AtAppend
<1>2. \A i \in At(s, d) : i \in 1..Len(s)
  BY DEF At
<1> HIDE DEF t
<1>3. ASSUME IdOf[x.dp] # d, Names(s, d, o, c) PROVE Names(t, d, o, c)
  BY <1>1, <1>2, <1>3 DEF Names
<1>4. ASSUME IdOf[x.dp] = d PROVE Names(t, d, o, x.dp)
  <2>1. ASSUME NEW i \in At(t, d), \A j \in At(t, d) : j <= i PROVE i = n
    BY <1>1, <1>2, <1>4, <2>1
  <2> QED
    BY <1>1, <1>4, <2>1 DEF Names
<1> QED
  BY <1>3, <1>4 DEF t

LEMMA NamesTail ==
  ASSUME NEW s \in Seq(EventDP), s # <<>>, NEW d, NEW o, NEW c, Names(s, d, o, c)
  PROVE  /\ IdOf[Head(s).dp] # d => Names(Tail(s), d, o, c)
         /\ IdOf[Head(s).dp] = d => Names(Tail(s), d, Head(s).dp, c)
<1> DEFINE t == Tail(s)
<1>1. /\ Len(s) \in Nat \ {0} /\ Len(t) = Len(s) - 1
      /\ Head(s) = s[1]
      /\ \A i \in 1..Len(t) : t[i] = s[i + 1]
  BY HeadTailProperties, LenProperties, EmptySeq
<1>2. \A i \in At(t, d) : i \in Nat /\ i >= 1 /\ i + 1 \in At(s, d) /\ t[i] = s[i + 1]
  BY <1>1 DEF At
<1>3. \A k \in At(s, d) : k \in Nat /\ (k = 1 \/ k - 1 \in At(t, d))
  BY <1>1 DEF At
<1>4. 1 \in At(s, d) <=> IdOf[Head(s).dp] = d
  BY <1>1 DEF At
<1> HIDE DEF t
<1>5. ASSUME NEW i \in At(t, d), \A j \in At(t, d) : j <= i PROVE t[i].dp = c
  <2>1. \A k \in At(s, d) : k <= i + 1
    BY <1>2, <1>3, <1>5
  <2> QED
    BY <1>2, <2>1 DEF Names
<1>6. ASSUME IdOf[Head(s).dp] # d PROVE Names(t, d, o, c)
  <2>1. At(t, d) = {} => At(s, d) = {}
    BY <1>3, <1>4, <1>6
  <2> QED
    BY <1>5, <2>1 DEF Names
<1>7. ASSUME IdOf[Head(s).dp] = d PROVE Names(t, d, Head(s).dp, c)
  <2>1. At(t, d) = {} => \A k \in At(s, d) : k <= 1
    BY <1>3
  <2>2. At(t, d) = {} => Head(s).dp = c
    BY <1>1, <1>4, <1>7, <2>1 DEF Names
  <2> QED
    BY <1>5, <2>2 DEF Names
<1> QED
  BY <1>6, <1>7 DEF t

\* A step that neither posts nor takes an EventDP and announces nothing.
LEMMA NamesKept ==
  ASSUME CurrentIsNamed, aq' = aq, ofs' = ofs,
         \A d \in Dpid : Announced(d)' => Announced(d) /\ dps'[d] = dps[d]
  PROVE  CurrentIsNamed'
BY DEF CurrentIsNamed, Names, At

\* A registered switch is new, so its enter event is posted and names it.
LEMMA RegisterNames ==
  ASSUME IInv, OInv, CurrentIsNamed, NEW c \in Dp, RegisterNew(c)
  PROVE  CurrentIsNamed'
<1>1. /\ dps[IdOf[c]] = None /\ IdOf[c] \in Dpid /\ pc = "idle" /\ UNCHANGED <<pc, ofs>>
      /\ Install(c)
  BY NoneOlder, IdOfAssumption DEF RegisterNew, Taking, Idle
<1>2. /\ aq' = Append(aq, Enter(c)) /\ aq \in Seq(EventDP) /\ Enter(c) \in EventDP
      /\ Enter(c).dp = c
      /\ \A d \in Dpid : dps'[d] = IF d = IdOf[c] THEN c ELSE dps[d]
  BY <1>1, EventTypes DEF Install, IInv, TypeOK, PortStateFollowsDps, Enter
<1> SUFFICES ASSUME NEW d \in Dpid, Announced(d)' PROVE Names(aq', d, ofs[d], dps'[d])
  BY <1>1 DEF CurrentIsNamed
<1>3. CASE d = IdOf[c]
  BY <1>2, <1>3, NamesAppend
<1>4. CASE d # IdOf[c]
  <2>1. Announced(d)
    BY <1>1, <1>2, <1>4 DEF Announced
  <2> QED
    BY <1>2, <1>4, <2>1, NamesAppend DEF CurrentIsNamed
<1> QED
  BY <1>3, <1>4

\* After a leave event the switch is not announced.
LEMMA UnregisterNames ==
  ASSUME IInv, CurrentIsNamed, NEW c \in Dp, Unregister(c)
  PROVE  CurrentIsNamed'
<1>1. /\ IdOf[c] \in Dpid /\ dps[IdOf[c]] = c /\ pc = "idle" /\ ofs' = ofs
      /\ aq' = Append(aq, Leave(c)) /\ aq \in Seq(EventDP) /\ Leave(c) \in EventDP
      /\ Leave(c).dp = c
  BY IdOfAssumption, EventTypes DEF Unregister, Taking, Idle, IInv, TypeOK, Leave
<1>2. ASSUME NEW d \in Dpid, Announced(d)'
      PROVE  d # IdOf[c] /\ Announced(d) /\ dps'[d] = dps[d]
  BY <1>1, <1>2 DEF Unregister, Announced, IInv, TypeOK
<1> QED
  BY <1>1, <1>2, NamesAppend DEF CurrentIsNamed

\* handler_datapath files the connection that the enter event names.
LEMMA HandlerNames ==
  ASSUME IInv, Alternating, CurrentIsNamed, HandlerDatapath
  PROVE  CurrentIsNamed'
<1> DEFINE e == Head(aq)
<1>1. /\ aq \in Seq(EventDP) /\ aq # <<>> /\ aq' = Tail(aq) /\ UNCHANGED <<pc, cur, dps>>
      /\ e \in EventDP /\ e.dp \in Dp /\ e.enter \in BOOLEAN
  <2>1. aq \in Seq(EventDP) /\ aq # <<>>
    BY DEF HandlerDatapath, IInv, TypeOK
  <2>2. e \in EventDP
    BY <2>1, TakeType
  <2> QED
    BY <2>1, <2>2 DEF HandlerDatapath, EventDP
<1> SUFFICES ASSUME NEW d \in Dpid, Announced(d) PROVE Names(aq', d, ofs'[d], dps[d])
  BY <1>1 DEF CurrentIsNamed, Announced
<1>2. Names(aq, d, ofs[d], dps[d])
  BY DEF CurrentIsNamed
<1>3. CASE IdOf[e.dp] # d
  <2>1. ofs'[d] = ofs[d]
    BY <1>1, <1>3, IdOfAssumption DEF HandlerDatapath, IInv, TypeOK
  <2> QED
    BY <1>1, <1>2, <1>3, <2>1, NamesTail
<1>4. CASE IdOf[e.dp] = d
  <2>1. Names(aq', d, e.dp, dps[d])
    BY <1>1, <1>2, <1>4, NamesTail
  <2>2. (e.enter <=> ~(ofs[d] # None)) /\ Turns(aq', d, e.enter, Announced(d))
    BY <1>1, <1>4, TurnsTail DEF Alternating
  <2>3. At(aq', d) = {} => e.enter
    BY <2>2 DEF Turns
  <2>4. e.enter => ofs'[d] = e.dp
    BY <1>1, <1>4, <2>2 DEF HandlerDatapath, IInv, TypeOK
  <2> QED
    BY <2>1, <2>3, <2>4 DEF Names
<1> QED
  BY <1>3, <1>4

LEMMA NamesStep ==
  IInv /\ Alternating /\ OInv /\ CurrentIsNamed /\ [Next]_vars => CurrentIsNamed'
<1> SUFFICES ASSUME IInv, Alternating, OInv, CurrentIsNamed, [Next]_vars PROVE CurrentIsNamed'
  OBVIOUS
<1>1. ASSUME UNCHANGED <<pc, cur, dps, aq, ofs>> PROVE CurrentIsNamed'
  BY <1>1, NamesKept DEF Announced
<1>2. ASSUME NEW c \in Dp, DpStep(c) PROVE CurrentIsNamed'
  BY <1>1, <1>2 DEF DpStep, Connect, PortDescMore, PortDescLast, PortStatus, Resume, Close
<1>3. ASSUME NEW c \in Dp, Register(c) PROVE CurrentIsNamed'
  BY <1>3, RegisterNames, NeverReplaces DEF Register
<1>4. ASSUME NEW c \in Dp, UnregisterForgotten(c) PROVE CurrentIsNamed'
  BY <1>1, <1>4 DEF UnregisterForgotten
<1>5. CASE UnregisterEnd
  <2>1. \A d \in Dpid : Announced(d)' => Announced(d) /\ dps'[d] = dps[d]
    <3>1. cur \in Dp /\ IdOf[cur] \in Dpid
      BY <1>5, IdOfAssumption DEF UnregisterEnd, IInv, TypeOK
    <3> QED
      BY <1>5, <3>1 DEF UnregisterEnd, Announced, IInv, TypeOK
  <2> QED
    BY <1>5, <2>1, NamesKept DEF UnregisterEnd
<1>6. ASSUME NEW e \in Event, PortStatusHandler(e) PROVE CurrentIsNamed'
  BY <1>1, <1>6 DEF PortStatusHandler
<1>7. CASE UNCHANGED vars
  BY <1>1, <1>7 DEF vars
<1> QED
  BY <1>2, <1>3, <1>4, <1>5, <1>6, <1>7, UnregisterNames, HandlerNames DEF Next, DpsetStep

\* _OFS_LIST keeps a connection that is gone only of a switch with two
\* connections in MAIN at once: without them it holds, once all events have
\* been handled, the very connections dps holds.
THEOREM CurrentWithoutOverlap == Spec /\ []NoOverlap => []QosDpIsCurrent
<1>1. Init => OInv /\ Alternating /\ CurrentIsNamed
  <2> SUFFICES ASSUME Init PROVE Alternating /\ CurrentIsNamed
    BY OverlapInit
  <2>1. \A d \in Dpid : At(aq, d) = {} /\ ofs[d] = None /\ ~Announced(d)
    BY DEF Init, At, Announced
  <2> QED
    BY <2>1 DEF Alternating, CurrentIsNamed, Turns
<1>2. IInv /\ Alternating /\ CurrentIsNamed => QosDpIsCurrent
  <2> SUFFICES ASSUME IInv, Alternating, CurrentIsNamed, Quiescent, NEW d \in Dpid
               PROVE  ofs[d] = dps[d]
    BY DEF QosDpIsCurrent
  <2>1. At(aq, d) = {} /\ (Announced(d) <=> dps[d] # None)
    BY DEF Quiescent, Idle, At, Announced
  <2>2. Announced(d) <=> ofs[d] # None
    BY <2>1 DEF Alternating, Turns
  <2> QED
    BY <2>1, <2>2 DEF CurrentIsNamed, Names
<1> QED
  BY <1>1, <1>2, OverlapStep, TurnsStep, NamesStep, Invariant, PTL DEF Spec

=============================================================================
