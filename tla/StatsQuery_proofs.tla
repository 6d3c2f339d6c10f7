--------------------------- MODULE StatsQuery_proofs ---------------------------
(***************************************************************************)
(* Theorems about StatsQuery, for any number of switches, of requests, of  *)
(* connections and of parts of a reply.                                    *)
(*                                                                         *)
(* The invariant has three parts beside the types and the waiters.  Lines  *)
(* says where the parts of the answer to a request are: those not yet in   *)
(* the list of the request are in the queue and on the wire, each once and *)
(* each behind the one before it, unless the rest is lost.  Conns says     *)
(* that connections enter in the order of their numbers, so that none is   *)
(* registered behind the place an iterator has reached; Visits that an     *)
(* iterator has gone through all that are registered up to that place.     *)
(***************************************************************************)
EXTENDS StatsQuery, SequenceTheorems, FiniteSetTheorems, TLAPS

Waits(r) == pc[r].op = "wait"
Open(r) == Waits(r) /\ ~pc[r].set

\* m is a part of the reply to request x.
Piece(m, x) == m \in Part /\ m.xid = x

\* The part before that at place j of q is at an earlier place.
Behind(q, j) ==
  \E i \in 1..j - 1 : Piece(q[i], q[j].xid) /\ q[i].part = q[j].part - 1

\* No part is twice in the queue or on a wire, and no reply on two wires.
Once ==
  /\ \A i, j \in DOMAIN events :
       events[i] \in Part /\ Piece(events[j], events[i].xid) /\ events[i].part = events[j].part
         => i = j
  /\ \A s \in Sw : \A i, j \in DOMAIN wire[s] :
       wire[s][i].xid = wire[s][j].xid /\ wire[s][i].part = wire[s][j].part => i = j
  /\ \A s \in Sw : \A i \in DOMAIN events, j \in DOMAIN wire[s] :
       Piece(events[i], wire[s][j].xid) => events[i].part # wire[s][j].part
  /\ \A s, d \in Sw : \A i \in DOMAIN wire[s], j \in DOMAIN wire[d] :
       wire[s][i].xid = wire[d][j].xid => s = d

\* Parts belong to requests that were sent, and to the switch of their wire.
Known ==
  /\ \A i \in DOMAIN events : events[i] \in Part => events[i].xid <= xid
  /\ \A s \in Sw : \A i \in DOMAIN wire[s] : wire[s][i].sw = s /\ wire[s][i].xid <= xid

\* Waiting requests have xids of their own.
OwnXids ==
  \A r \in Req : Waits(r) =>
    pc[r].xid <= xid /\ \A q \in Req \ {r} : Waits(q) => pc[q].xid # pc[r].xid

\* The list of r.
ListOK(r) ==
  LET k == Len(pc[r].msgs)
  IN  /\ \A i \in 1..k : /\ pc[r].msgs[i].xid = pc[r].xid /\ pc[r].msgs[i].part = i
                         /\ i < k => pc[r].msgs[i].more
      /\ pc[r].set => k > 0 /\ ~pc[r].msgs[k].more
      /\ ~pc[r].set /\ k > 0 => pc[r].msgs[k].more

\* What r still waits for.
LineOK(r) ==
  LET k == Len(pc[r].msgs)
  IN  /\ \A j \in DOMAIN events : Piece(events[j], pc[r].xid) =>
           /\ events[j].sw = pc[r].at.sw /\ events[j].part > k
           /\ events[j].part = k + 1 \/ Behind(events, j)
      /\ \A s \in Sw : \A j \in DOMAIN wire[s] : wire[s][j].xid = pc[r].xid =>
           /\ s = pc[r].at.sw /\ wire[s][j].part > k
           /\ \/ wire[s][j].part = k + 1
              \/ Behind(wire[s], j)
              \/ \E i \in DOMAIN events : /\ Piece(events[i], pc[r].xid)
                                          /\ events[i].part = wire[s][j].part - 1

Lines ==
  /\ Once /\ Known /\ OwnXids
  /\ \A r \in Req : Waits(r) => ListOK(r)
  /\ \A r \in Req : Open(r) => LineOK(r)

\* m is the registration of a connection, waiting in the queue.
Enters(m) == m \in EventDP /\ m.enter

\* Connections enter in the order of their numbers.
Conns ==
  /\ IsFiniteSet(ofs)
  /\ \A e, f \in ofs : e.conn = f.conn => e = f
  /\ \A e \in ofs : e.conn <= conns
  /\ \A i \in DOMAIN events : Enters(events[i]) =>
       /\ events[i].conn <= conns
       /\ \A e \in ofs : e.conn < events[i].conn
       /\ \A j \in DOMAIN events : Enters(events[j]) /\ i < j => events[i].conn < events[j].conn
       /\ \A r \in Req : Waits(r) => pc[r].at.conn < events[i].conn
  /\ \A r \in Req : Waits(r) => pc[r].at.conn <= conns

\* An iterator has gone through what is registered up to its place.
VisitOK(r) ==
  /\ IsFiniteSet(pc[r].visited)
  /\ Cardinality(pc[r].visited) + 1 + pc[r].left = pc[r].size
  /\ \A e \in pc[r].visited : e.conn < pc[r].at.conn
  /\ \A e \in ofs : e.conn <= pc[r].at.conn => e \in pc[r].visited \cup {pc[r].at}
Visits == \A r \in Req : Waits(r) /\ pc[r].target = None => VisitOK(r)

IInv == TypeOK /\ WaitersAreWaiting /\ Lines /\ Conns /\ Visits

-----------------------------------------------------------------------------
(* Records and queues.                                                     *)

\* The two kinds of events are told apart by their fields.
LEMMA Kinds ==
  /\ \A m \in Part : ~IsDP(m)
  /\ \A m \in EventDP : IsDP(m)
  /\ \A m \in Part : m \notin EventDP
<1>1. ASSUME NEW m \in Part PROVE ~IsDP(m)
  <2>1. m = [sw |-> m.sw, xid |-> m.xid, part |-> m.part, more |-> m.more]
    BY DEF Part
  <2>2. DOMAIN m = {"sw", "xid", "part", "more"}
    BY <2>1
  <2> QED
    BY <2>2 DEF IsDP
<1>2. ASSUME NEW m \in EventDP PROVE IsDP(m)
  <2>1. m = [sw |-> m.sw, conn |-> m.conn, enter |-> m.enter]
    BY DEF EventDP
  <2>2. DOMAIN m = {"sw", "conn", "enter"}
    BY <2>1
  <2> QED
    BY <2>2 DEF IsDP
<1> QED
  BY <1>1, <1>2

\* The fields of a request that waits.
LEMMA WaitType ==
  ASSUME TypeOK, NEW r \in Req, Waits(r)
  PROVE  /\ pc[r].target \in Sw \cup {None} /\ pc[r].at \in Entry /\ pc[r].xid \in Nat
         /\ pc[r].seen \in Nat /\ pc[r].set \in BOOLEAN /\ pc[r].msgs \in Seq(Part)
         /\ pc[r].visited \in SUBSET Entry /\ pc[r].size \in Nat /\ pc[r].left \in Nat
         /\ pc[r] \in [op : {"wait"}, target : Sw \cup {None}, at : Entry, xid : Nat,
                       seen : Nat, set : BOOLEAN, msgs : Seq(Part), visited : SUBSET Entry,
                       size : Nat, left : Nat]
<1>1. pc[r] \in Op /\ pc[r].op = "wait"
  BY DEF TypeOK, Waits
<1> QED
  BY <1>1 DEF Op

\* The events of a queue, and one more.
LEMMA AppendPlaces ==
  ASSUME NEW S, NEW q \in Seq(S), NEW x \in S
  PROVE  /\ Append(q, x) \in Seq(S) /\ Len(q) \in Nat
         /\ DOMAIN q = 1..Len(q) /\ DOMAIN Append(q, x) = 1..Len(q) + 1
         /\ \A i \in 1..Len(q) : Append(q, x)[i] = q[i]
         /\ Append(q, x)[Len(q) + 1] = x
BY AppendProperties, LenProperties

\* The head of a queue, and the places behind it.
LEMMA TailPlaces ==
  ASSUME NEW S, NEW q \in Seq(S), q # <<>>
  PROVE  /\ Tail(q) \in Seq(S) /\ Head(q) \in S /\ Head(q) = q[1]
         /\ Len(q) \in Nat \ {0} /\ DOMAIN q = 1..Len(q) /\ DOMAIN Tail(q) = 1..Len(q) - 1
         /\ \A i \in 1..Len(q) : q[i] \in S
         /\ \A i \in 1..Len(q) - 1 : Tail(q)[i] = q[i + 1]
<1>1. /\ Tail(q) \in Seq(S) /\ Head(q) \in S /\ Head(q) = q[1]
      /\ Len(q) \in Nat \ {0} /\ DOMAIN q = 1..Len(q) /\ Len(Tail(q)) = Len(q) - 1
      /\ \A i \in 1..Len(q) - 1 : Tail(q)[i] = q[i + 1]
  BY HeadTailProperties, EmptySeq, LenProperties
<1>2. DOMAIN Tail(q) = 1..Len(q) - 1
  BY <1>1, LenProperties
<1> QED
  BY <1>1, <1>2, ElementOfSeq

-----------------------------------------------------------------------------
(* Types.                                                                  *)

\* The parts of a reply that a switch sends.
Answer(s, x, n) == [i \in 1..n |-> [sw |-> s, xid |-> x, part |-> i, more |-> i < n]]

\* The answer of a switch is a line of parts.
LEMMA AnswerType ==
  ASSUME NEW s \in Sw, NEW x \in Nat, NEW n \in 1..MaxParts
  PROVE  /\ Answer(s, x, n) \in Seq(Part) /\ Len(Answer(s, x, n)) = n
         /\ \A i \in 1..n : Answer(s, x, n)[i] = [sw |-> s, xid |-> x, part |-> i, more |-> i < n]
<1>1. n \in Nat /\ 1..n \subseteq 1..MaxParts
  BY BoundAssumption
<1>2. \A i \in 1..n : [sw |-> s, xid |-> x, part |-> i, more |-> i < n] \in Part
  BY <1>1 DEF Part
<1>3. Answer(s, x, n) \in [1..n -> Part]
  BY <1>2 DEF Answer
<1>4. Answer(s, x, n) \in Seq(Part) /\ Len(Answer(s, x, n)) = n
  BY <1>1, <1>3, IsASeq, LenProperties
<1> QED
  BY <1>4 DEF Answer

\* What Ask does to the wire: nothing, or the reply joins that of its switch.
LEMMA AskWire ==
  ASSUME TypeOK, NEW r \in Req, NEW W, NEW t, NEW e \in Entry, NEW v, NEW z, NEW l,
         Ask(r, W, t, e, v, z, l)
  PROVE  /\ xid' = xid + 1 /\ xid' \in Nat
         /\ wire' = wire \/ \E n \in 1..MaxParts :
                              wire' = [wire EXCEPT ![e.sw] = @ \o Answer(e.sw, xid + 1, n)]
<1>1. xid' = xid + 1 /\ xid' \in Nat
  BY DEF Ask, TypeOK
<1>2. CASE UNCHANGED wire
  BY <1>1, <1>2
<1>3. CASE \E n \in 1..MaxParts :
            wire' = [wire EXCEPT ![e.sw] = @ \o
                       [i \in 1..n |-> [sw |-> e.sw, xid |-> xid', part |-> i, more |-> i < n]]]
  BY <1>1, <1>3 DEF Answer
<1> QED
  BY <1>1, <1>2, <1>3 DEF Ask

\* The places of a wire that got an answer.
LEMMA WirePlaces ==
  ASSUME TypeOK, NEW s \in Sw, NEW n \in 1..MaxParts, NEW x \in Nat
  PROVE  LET w == wire[s] \o Answer(s, x, n)
         IN  /\ wire[s] \in Seq(Part) /\ w \in Seq(Part)
             /\ Len(wire[s]) \in Nat /\ n \in Nat
             /\ DOMAIN wire[s] = 1..Len(wire[s])
             /\ DOMAIN w = 1..Len(wire[s]) + n
             /\ \A i \in 1..Len(wire[s]) : w[i] = wire[s][i]
             /\ \A i \in Len(wire[s]) + 1..Len(wire[s]) + n :
                  w[i] = [sw |-> s, xid |-> x, part |-> i - Len(wire[s]),
                          more |-> i - Len(wire[s]) < n]
<1> DEFINE a == Answer(s, x, n)
           w == wire[s] \o a
<1>1. wire[s] \in Seq(Part) /\ a \in Seq(Part) /\ Len(a) = n /\ n \in Nat /\ Len(wire[s]) \in Nat
  BY AnswerType, BoundAssumption, LenProperties DEF TypeOK
<1>2. \A i \in 1..n : a[i] = [sw |-> s, xid |-> x, part |-> i, more |-> i < n]
  BY AnswerType
<1> HIDE DEF a
<1>3. /\ w \in Seq(Part) /\ Len(w) = Len(wire[s]) + n
      /\ \A i \in 1..Len(w) : w[i] = IF i <= Len(wire[s]) THEN wire[s][i] ELSE a[i - Len(wire[s])]
  BY <1>1, ConcatProperties
<1>4. DOMAIN w = 1..Len(wire[s]) + n /\ DOMAIN wire[s] = 1..Len(wire[s])
  BY <1>1, <1>3, LenProperties
<1>5. \A i \in 1..Len(wire[s]) : w[i] = wire[s][i]
  BY <1>1, <1>3
<1>6. ASSUME NEW i \in Len(wire[s]) + 1..Len(wire[s]) + n
      PROVE  w[i] = [sw |-> s, xid |-> x, part |-> i - Len(wire[s]), more |-> i - Len(wire[s]) < n]
  <2>1. w[i] = a[i - Len(wire[s])] /\ i - Len(wire[s]) \in 1..n
    BY <1>1, <1>3
  <2> QED
    BY <1>2, <2>1
<1> QED
  BY <1>1, <1>3, <1>4, <1>5, <1>6 DEF a

\* Sending a request keeps the types.
LEMMA AskType ==
  ASSUME TypeOK, NEW r \in Req, NEW W \in SUBSET Waiter, NEW t \in Sw \cup {None},
         NEW e \in Entry, NEW v \in SUBSET Entry, NEW z \in Nat, NEW l \in Nat,
         Ask(r, W, t, e, v, z, l), UNCHANGED <<conns, up, events, ofs>>
  PROVE  TypeOK'
<1>1. xid' \in Nat /\ xid' = xid + 1
  BY AskWire
<1>2. waiters' \subseteq Waiter
  BY <1>1 DEF Ask, Waiter, Entry
<1>3. Waiting(t, e, xid', v, z, l) \in Op
  BY <1>1, EmptySeq DEF Waiting, Op
<1>4. pc' \in [Req -> Op]
  BY <1>3 DEF Ask, TypeOK
<1>5. wire' \in [Sw -> Seq(Part)]
  <2>1. CASE wire' = wire
    BY <2>1 DEF TypeOK
  <2>2. CASE \E n \in 1..MaxParts : wire' = [wire EXCEPT ![e.sw] = @ \o Answer(e.sw, xid + 1, n)]
    <3>1. PICK n \in 1..MaxParts : wire' = [wire EXCEPT ![e.sw] = @ \o Answer(e.sw, xid + 1, n)]
      BY <2>2
    <3>2. e.sw \in Sw /\ wire[e.sw] \o Answer(e.sw, xid + 1, n) \in Seq(Part)
      BY <1>1, WirePlaces DEF Entry
    <3> QED
      BY <3>1, <3>2 DEF TypeOK
  <2> QED
    BY <2>1, <2>2, AskWire
<1> QED
  BY <1>1, <1>2, <1>4, <1>5 DEF TypeOK

\* An event posted to the queue.
LEMMA PostType ==
  ASSUME TypeOK, NEW m \in Part \cup EventDP, events' = Append(events, m)
  PROVE  /\ events' \in Seq(Part \cup EventDP) /\ Len(events) \in Nat
         /\ DOMAIN events = 1..Len(events) /\ DOMAIN events' = 1..Len(events) + 1
         /\ \A i \in 1..Len(events) : events'[i] = events[i]
         /\ events'[Len(events) + 1] = m
<1>1. events \in Seq(Part \cup EventDP)
  BY DEF TypeOK
<1> QED
  BY <1>1, AppendPlaces

\* Connections that come and go keep the types.
LEMMA SwitchType ==
  ASSUME TypeOK, NEW s \in Sw, SwitchUp(s) \/ SwitchDown(s) \/ Receive(s)
  PROVE  TypeOK'
<1>1. CASE SwitchUp(s)
  <2>1. conns' \in Nat /\ [sw |-> s, conn |-> conns', enter |-> TRUE] \in EventDP
    BY <1>1 DEF SwitchUp, EventDP, TypeOK
  <2>2. events' \in Seq(Part \cup EventDP)
    BY <1>1, <2>1, PostType DEF SwitchUp
  <2> QED
    BY <1>1, <2>1, <2>2 DEF SwitchUp, TypeOK
<1>2. CASE SwitchDown(s)
  <2>1. [sw |-> s, conn |-> up[s], enter |-> FALSE] \in EventDP
    BY <1>2 DEF SwitchDown, EventDP, TypeOK
  <2>2. events' \in Seq(Part \cup EventDP)
    BY <1>2, <2>1, PostType DEF SwitchDown
  <2>3. wire' \in [Sw -> Seq(Part)]
    BY <1>2, EmptySeq DEF SwitchDown, TypeOK
  <2> QED
    BY <1>2, <2>2, <2>3 DEF SwitchDown, TypeOK
<1>3. CASE Receive(s)
  <2>1. wire[s] \in Seq(Part) /\ wire[s] # <<>>
    BY <1>3 DEF Receive, TypeOK
  <2>2. Head(wire[s]) \in Part /\ Tail(wire[s]) \in Seq(Part)
    BY <2>1, TailPlaces
  <2>3. events' \in Seq(Part \cup EventDP)
    BY <1>3, <2>2, PostType DEF Receive
  <2>4. wire' \in [Sw -> Seq(Part)]
    BY <1>3, <2>2 DEF Receive, TypeOK
  <2> QED
    BY <1>3, <2>3, <2>4 DEF Receive, TypeOK
<1> QED
  BY <1>1, <1>2, <1>3

\* The part a waiting request gets.
LEMMA DeliverOK ==
  ASSUME TypeOK, NEW r \in Req, Waits(r), NEW m \in Part
  PROVE  LET p == Deliver(pc[r], m)
             k == Len(pc[r].msgs)
         IN  /\ p \in Op /\ p.op = "wait" /\ p.set = ~m.more /\ p.xid = pc[r].xid
             /\ p.at = pc[r].at /\ p.target = pc[r].target /\ p.visited = pc[r].visited
             /\ p.size = pc[r].size /\ p.left = pc[r].left /\ p.seen = pc[r].seen
             /\ k \in Nat /\ Len(p.msgs) = k + 1 /\ p.msgs[k + 1] = m
             /\ \A i \in 1..k : p.msgs[i] = pc[r].msgs[i]
<1> DEFINE p == Deliver(pc[r], m)
<1>1. /\ pc[r].msgs \in Seq(Part)
      /\ pc[r] \in [op : {"wait"}, target : Sw \cup {None}, at : Entry, xid : Nat,
                    seen : Nat, set : BOOLEAN, msgs : Seq(Part), visited : SUBSET Entry,
                    size : Nat, left : Nat]
  BY WaitType
<1>2. /\ Append(pc[r].msgs, m) \in Seq(Part) /\ Len(pc[r].msgs) \in Nat
      /\ Len(Append(pc[r].msgs, m)) = Len(pc[r].msgs) + 1
      /\ Append(pc[r].msgs, m)[Len(pc[r].msgs) + 1] = m
      /\ \A i \in 1..Len(pc[r].msgs) : Append(pc[r].msgs, m)[i] = pc[r].msgs[i]
  BY <1>1, AppendProperties, LenProperties
<1>3. (~m.more) \in BOOLEAN
  OBVIOUS
<1>4. p = [pc[r] EXCEPT !.msgs = Append(pc[r].msgs, m), !.set = ~m.more]
  BY <1>1 DEF Deliver
<1>5. /\ p \in [op : {"wait"}, target : Sw \cup {None}, at : Entry, xid : Nat,
                seen : Nat, set : BOOLEAN, msgs : Seq(Part), visited : SUBSET Entry,
                size : Nat, left : Nat]
      /\ p.set = ~m.more /\ p.xid = pc[r].xid /\ p.msgs = Append(pc[r].msgs, m)
      /\ p.at = pc[r].at /\ p.target = pc[r].target /\ p.visited = pc[r].visited
      /\ p.size = pc[r].size /\ p.left = pc[r].left /\ p.seen = pc[r].seen
  BY <1>1, <1>2, <1>3, <1>4
<1>6. p \in Op
  BY <1>5 DEF Op
<1> HIDE DEF p
<1>7. p.op = "wait"
  BY <1>5
<1> QED
  BY <1>2, <1>5, <1>6, <1>7 DEF p

-----------------------------------------------------------------------------
(* The table of waiters, and steps of a request.                           *)

Lock(r) == [sw |-> pc[r].at.sw, xid |-> pc[r].xid, req |-> r]

\* The locks of the others.
WaitersBut(r) == {Lock(q) : q \in {p \in Req \ {r} : Open(p)}}

\* A request takes its own lock out of the table, if it is there, and no other.
LEMMA ForgetOK ==
  ASSUME WaitersAreWaiting, NEW r \in Req, Waits(r)
  PROVE  Forget(r) = WaitersBut(r)
<1>1. waiters = {Lock(q) : q \in {p \in Req : Open(p)}}
  BY DEF WaitersAreWaiting, Lock, Open, Waits
<1>2. \A q \in Req : Lock(q).req = q
  BY DEF Lock
<1>3. CASE pc[r].set
  BY <1>1, <1>3 DEF Forget, WaitersBut, Open
<1>4. CASE ~pc[r].set
  <2>1. Forget(r) = waiters \ {Lock(r)}
    BY <1>4 DEF Forget, Lock
  <2>2. \A w \in Forget(r) : w \in WaitersBut(r)
    BY <1>1, <2>1 DEF WaitersBut
  <2>3. \A w \in WaitersBut(r) : w \in Forget(r)
    BY <1>1, <1>2, <2>1 DEF WaitersBut
  <2> QED
    BY <2>2, <2>3
<1> QED
  BY <1>3, <1>4

\* A request that does not wait adds nothing to the table of waiters.
LEMMA NotWaiting ==
  ASSUME WaitersAreWaiting, NEW r \in Req, ~Waits(r)
  PROVE  waiters = WaitersBut(r)
BY DEF WaitersAreWaiting, WaitersBut, Lock, Open, Waits

\* r asks the switch of e, and is in no one's way.
AskStep(r) ==
  /\ \E t \in Sw \cup {None}, e \in ofs, v \in SUBSET Entry, z \in Nat, l \in Nat :
       /\ Ask(r, WaitersBut(r), t, e, v, z, l)
       /\ t = None => /\ IsFiniteSet(v) /\ Cardinality(v) + 1 + l = z
                      /\ \A x \in v : x.conn < e.conn
                      /\ \A x \in ofs : x.conn <= e.conn => x \in v \cup {e}
  /\ UNCHANGED <<conns, up, events, ofs>>

\* r ends.
LeaveStep(r) ==
  /\ waiters' = WaitersBut(r) /\ pc' = [pc EXCEPT ![r] = Idle]
  /\ UNCHANGED <<conns, up, wire, events, ofs, xid>>

\* A request for one switch sends one request.
LEMMA GetOneIsAsk ==
  ASSUME IInv, NEW r \in Req, NEW s \in Sw, GetOne(r, s)
  PROVE  AskStep(r)
<1>1. waiters = WaitersBut(r)
  BY NotWaiting DEF IInv, GetOne, Waits
<1>2. PICK e \in ofs : Ask(r, waiters, s, e, {}, 1, 0)
  BY DEF GetOne
<1>3. s # None /\ {} \in SUBSET Entry
  BY NoneAssumption
<1> QED
  BY <1>1, <1>2, <1>3 DEF AskStep, GetOne

\* A request for all switches begins with the entry inserted first.
LEMMA GetAllIsAsk ==
  ASSUME IInv, NEW r \in Req, GetAll(r)
  PROVE  AskStep(r)
<1>1. waiters = WaitersBut(r)
  BY NotWaiting DEF IInv, GetAll, Waits
<1> DEFINE z == Cardinality(ofs)
<1>2. z \in Nat /\ z - 1 \in Nat
  <2>1. IsFiniteSet(ofs) /\ ofs # {}
    BY DEF IInv, Conns, GetAll
  <2>2. z \in Nat /\ z # 0
    BY <2>1, FS_CardinalityType, FS_EmptySet
  <2> QED
    BY <2>2
<1>3. PICK e \in ofs : IsEarliest(e, ofs) /\ Ask(r, waiters, None, e, {}, z, z - 1)
  BY DEF GetAll
<1>4. IsFiniteSet({}) /\ Cardinality({}) + 1 + (z - 1) = z
  BY <1>2, FS_EmptySet
<1>5. \A x \in ofs : x.conn <= e.conn => x = e
  <2>1. \A x \in ofs : x.conn \in Nat /\ (x.conn = e.conn => x = e)
    BY DEF IInv, Conns, TypeOK, Entry
  <2> QED
    BY <1>3, <2>1 DEF IsEarliest
<1>6. UNCHANGED <<conns, up, events, ofs>> /\ {} \in SUBSET Entry /\ None \in Sw \cup {None}
  BY DEF GetAll
<1> HIDE DEF z
<1> QED
  BY <1>1, <1>2, <1>3, <1>4, <1>5, <1>6 DEF AskStep

\* The loop over all switches sends the next request.
LEMMA AskNextIsAsk ==
  ASSUME IInv, NEW r \in Req, AskNext(r)
  PROVE  AskStep(r)
<1>1. Waits(r) /\ pc[r].target = None /\ Rest(r) # {} /\ pc[r].left # 0
  BY DEF AskNext, Ready, Waits, TooMany
<1>2. Forget(r) = WaitersBut(r)
  BY <1>1, ForgetOK DEF IInv
<1> DEFINE v == pc[r].visited \cup {pc[r].at}
           z == pc[r].size
           l == pc[r].left - 1
<1>3. PICK e \in Rest(r) : IsEarliest(e, Rest(r)) /\ Ask(r, Forget(r), None, e, v, z, l)
  BY DEF AskNext
<1>4. /\ v \in SUBSET Entry /\ z \in Nat /\ l \in Nat /\ pc[r].at \in Entry
      /\ pc[r].visited \in SUBSET Entry /\ pc[r].left \in Nat
  BY <1>1, WaitType DEF IInv
<1>5. VisitOK(r)
  BY <1>1 DEF IInv, Visits
<1>6. IsFiniteSet(v) /\ Cardinality(v) + 1 + l = z
  <2>1. pc[r].at \notin pc[r].visited
    BY <1>4, <1>5 DEF VisitOK, Entry
  <2>2. IsFiniteSet(v) /\ Cardinality(v) = Cardinality(pc[r].visited) + 1
    BY <1>5, <2>1, FS_AddElement DEF VisitOK
  <2>3. Cardinality(pc[r].visited) \in Nat
    BY <1>5, FS_CardinalityType DEF VisitOK
  <2> QED
    BY <1>4, <1>5, <2>2, <2>3 DEF VisitOK
<1>7. \A x \in ofs : x.conn \in Nat /\ (x.conn = e.conn => x = e)
  BY <1>3 DEF IInv, Conns, TypeOK, Entry, Rest
<1>8. e \in ofs /\ e.conn \in Nat /\ e.conn > pc[r].at.conn /\ pc[r].at.conn \in Nat
  BY <1>3, <1>4, <1>7 DEF Rest, Entry
<1>9. \A x \in v : x.conn < e.conn
  BY <1>4, <1>5, <1>8 DEF VisitOK, Entry
<1>10. ASSUME NEW x \in ofs, x.conn <= e.conn PROVE x \in v \cup {e}
  <2>1. CASE x.conn <= pc[r].at.conn
    BY <1>5, <2>1 DEF VisitOK
  <2>2. CASE x.conn > pc[r].at.conn
    <3>1. e.conn <= x.conn
      BY <1>3, <2>2 DEF Rest, IsEarliest
    <3> QED
      BY <1>7, <1>8, <1>10, <3>1
  <2> QED
    BY <1>7, <1>8, <2>1, <2>2
<1>11. UNCHANGED <<conns, up, events, ofs>> /\ None \in Sw \cup {None}
  BY DEF AskNext
<1> HIDE DEF v, z, l
<1> QED
  BY <1>2, <1>3, <1>4, <1>6, <1>8, <1>9, <1>10, <1>11 DEF AskStep

\* A request that ends, with an answer or an error, leaves send_stats_request.
LEMMA FinishIsLeave ==
  ASSUME IInv, NEW r \in Req, Finish(r) \/ FinishRaises(r)
  PROVE  LeaveStep(r)
<1>1. Waits(r)
  BY DEF Finish, FinishRaises, Ready, Waits
<1>2. Forget(r) = WaitersBut(r)
  BY <1>1, ForgetOK DEF IInv
<1> QED
  BY <1>2 DEF Finish, FinishRaises, LeaveStep

\* Locks of waiting requests.
LEMMA ButType ==
  ASSUME TypeOK, NEW r \in Req
  PROVE  WaitersBut(r) \in SUBSET Waiter
<1>1. ASSUME NEW q \in Req, Open(q) PROVE Lock(q) \in Waiter
  <2>1. pc[q].at \in Entry /\ pc[q].xid \in Nat
    BY <1>1, WaitType DEF Open
  <2> QED
    BY <2>1 DEF Lock, Waiter, Entry
<1> QED
  BY <1>1 DEF WaitersBut

\* A request that ends takes nothing with it but its lock.
LEMMA LeaveOK ==
  ASSUME IInv, NEW r \in Req, LeaveStep(r)
  PROVE  TypeOK' /\ WaitersAreWaiting'
<1>1. TypeOK /\ Idle \in Op
  BY DEF IInv, Idle, Op
<1>2. pc' \in [Req -> Op] /\ pc'[r] = Idle /\ \A q \in Req \ {r} : pc'[q] = pc[q]
  BY <1>1 DEF LeaveStep, TypeOK
<1>3. TypeOK'
  BY <1>1, <1>2, ButType DEF LeaveStep, TypeOK
<1>4. WaitersAreWaiting'
  <2>1. {q \in Req : pc'[q].op = "wait" /\ ~pc'[q].set} = {q \in Req \ {r} : Open(q)}
    BY <1>2 DEF Open, Waits, Idle
  <2> QED
    BY <1>2, <2>1 DEF LeaveStep, WaitersBut, Lock, WaitersAreWaiting
<1> QED
  BY <1>3, <1>4

\* A request that asks leaves its lock and waits.
LEMMA AskOK ==
  ASSUME TypeOK, NEW r \in Req, NEW t \in Sw \cup {None},
         NEW e \in Entry, NEW v \in SUBSET Entry, NEW z \in Nat, NEW l \in Nat,
         Ask(r, WaitersBut(r), t, e, v, z, l), UNCHANGED <<conns, up, events, ofs>>
  PROVE  TypeOK' /\ WaitersAreWaiting'
<1>1. TypeOK'
  BY AskType, ButType
<1>2. /\ pc'[r] = Waiting(t, e, xid', v, z, l)
      /\ \A q \in Req \ {r} : pc'[q] = pc[q]
      /\ waiters' = WaitersBut(r) \cup {[sw |-> e.sw, xid |-> xid', req |-> r]}
  BY DEF Ask, TypeOK
<1>3. {q \in Req : pc'[q].op = "wait" /\ ~pc'[q].set} = {q \in Req \ {r} : Open(q)} \cup {r}
  BY <1>2 DEF Open, Waits, Waiting
<1>4. WaitersBut(r) = {[sw |-> pc'[q].at.sw, xid |-> pc'[q].xid, req |-> q] :
                         q \in {p \in Req \ {r} : Open(p)}}
  BY <1>2 DEF WaitersBut, Lock
<1>5. [sw |-> e.sw, xid |-> xid', req |-> r] = [sw |-> pc'[r].at.sw, xid |-> pc'[r].xid, req |-> r]
  BY <1>2 DEF Waiting
<1>6. WaitersAreWaiting'
  BY <1>2, <1>3, <1>4, <1>5 DEF WaitersAreWaiting
<1> QED
  BY <1>1, <1>6

\* Waiting on keeps the types and the table of waiters.
LEMMA WaitOnOK ==
  ASSUME IInv, NEW r \in Req, WaitOn(r)
  PROVE  TypeOK' /\ WaitersAreWaiting'
<1>1. TypeOK /\ Waits(r) /\ pc' = [pc EXCEPT ![r] = [@ EXCEPT !.seen = Len(pc[r].msgs)]]
  BY DEF IInv, WaitOn, Waits
<1> DEFINE p == [pc[r] EXCEPT !.seen = Len(pc[r].msgs)]
<1>2. Len(pc[r].msgs) \in Nat
  BY <1>1, WaitType, LenProperties
<1>3. /\ p \in [op : {"wait"}, target : Sw \cup {None}, at : Entry, xid : Nat,
                seen : Nat, set : BOOLEAN, msgs : Seq(Part), visited : SUBSET Entry,
                size : Nat, left : Nat]
      /\ p.op = "wait" /\ p.at = pc[r].at /\ p.xid = pc[r].xid /\ p.set = pc[r].set
  BY <1>1, <1>2, WaitType DEF Waits
<1>4. p \in Op
  BY <1>3 DEF Op
<1> HIDE DEF p
<1>5. pc' \in [Req -> Op] /\ pc'[r] = p /\ \A q \in Req \ {r} : pc'[q] = pc[q]
  BY <1>1, <1>4 DEF TypeOK, p
<1>6. TypeOK'
  BY <1>1, <1>5 DEF TypeOK, WaitOn
<1>7. \A q \in Req : /\ pc'[q].op = "wait" /\ ~pc'[q].set <=> pc[q].op = "wait" /\ ~pc[q].set
                     /\ pc'[q].op = "wait" => pc'[q].at = pc[q].at /\ pc'[q].xid = pc[q].xid
  BY <1>1, <1>3, <1>5 DEF Waits
<1>8. UNCHANGED waiters
  BY DEF WaitOn
<1>9. WaitersAreWaiting'
  BY <1>7, <1>8 DEF IInv, WaitersAreWaiting
<1> QED
  BY <1>6, <1>9

-----------------------------------------------------------------------------
(* The event loop.                                                         *)

\* The requests that get a part, of which there is one at most.
Takes(r, m) == Open(r) /\ pc[r].at.sw = m.sw /\ pc[r].xid = m.xid

\* A part goes to the request that waits for its reply.
LEMMA ReplyStep ==
  ASSUME IInv, NEW m \in Part, StatsReplyHandler(m)
  PROVE  /\ pc' = [r \in Req |-> IF Takes(r, m) THEN Deliver(pc[r], m) ELSE pc[r]]
         /\ waiters' = {Lock(r) : r \in {q \in Req : Open(q) /\ ~(Takes(q, m) /\ ~m.more)}}
         /\ UNCHANGED ofs
<1>1. waiters = {Lock(r) : r \in {q \in Req : Open(q)}}
  BY DEF IInv, WaitersAreWaiting, Lock, Open, Waits
<1>2. Of(m) = {Lock(r) : r \in {q \in Req : Takes(q, m)}}
  <2>1. \A w \in Of(m) : w \in {Lock(r) : r \in {q \in Req : Takes(q, m)}}
    BY <1>1 DEF Of, Takes, Lock
  <2>2. \A w \in {Lock(r) : r \in {q \in Req : Takes(q, m)}} : w \in Of(m)
    BY <1>1 DEF Of, Takes, Lock
  <2> QED
    BY <2>1, <2>2
<1>3. ASSUME NEW r \in Req PROVE Takes(r, m) <=> \E w \in Of(m) : w.req = r
  <2>1. \A q \in Req : Lock(q).req = q
    BY DEF Lock
  <2>2. CASE Takes(r, m)
    <3>1. Lock(r) \in Of(m)
      BY <1>2, <2>2
    <3> QED
      BY <2>1, <2>2, <3>1
  <2>3. ASSUME NEW w \in Of(m), w.req = r PROVE Takes(r, m)
    <3>1. PICK q \in Req : Takes(q, m) /\ w = Lock(q)
      BY <1>2
    <3> QED
      BY <2>1, <2>3, <3>1
  <2> QED
    BY <2>2, <2>3
<1>4. pc' = [r \in Req |-> IF Takes(r, m) THEN Deliver(pc[r], m) ELSE pc[r]]
  BY <1>3 DEF StatsReplyHandler
<1>5. waiters' = {Lock(r) : r \in {q \in Req : Open(q) /\ ~(Takes(q, m) /\ ~m.more)}}
  <2>1. CASE m.more
    BY <1>1, <2>1 DEF StatsReplyHandler
  <2>2. CASE ~m.more
    <3>1. waiters' = waiters \ Of(m)
      BY <2>2 DEF StatsReplyHandler
    <3>2. \A q, r \in Req : Lock(q) = Lock(r) => q = r
      BY DEF Lock
    <3>3. \A w \in waiters' : w \in {Lock(r) : r \in {q \in Req : Open(q) /\ ~Takes(q, m)}}
      BY <1>1, <1>2, <3>1
    <3>4. \A w \in {Lock(r) : r \in {q \in Req : Open(q) /\ ~Takes(q, m)}} : w \in waiters'
      BY <1>1, <1>2, <3>1, <3>2
    <3> QED
      BY <2>2, <3>3, <3>4
  <2> QED
    BY <2>1, <2>2
<1> QED
  BY <1>4, <1>5 DEF StatsReplyHandler

\* Handing out a reply keeps the types and the table of waiters.
LEMMA ReplyOK ==
  ASSUME IInv, NEW m \in Part, StatsReplyHandler(m),
         events' \in Seq(Part \cup EventDP), UNCHANGED <<conns, up, wire, xid>>
  PROVE  TypeOK' /\ WaitersAreWaiting'
<1>1. /\ pc' = [r \in Req |-> IF Takes(r, m) THEN Deliver(pc[r], m) ELSE pc[r]]
      /\ waiters' = {Lock(r) : r \in {q \in Req : Open(q) /\ ~(Takes(q, m) /\ ~m.more)}}
      /\ UNCHANGED ofs
  BY ReplyStep
<1>2. ASSUME NEW r \in Req, Takes(r, m)
      PROVE  /\ Deliver(pc[r], m) \in Op /\ Deliver(pc[r], m).op = "wait"
             /\ Deliver(pc[r], m).set = ~m.more /\ Deliver(pc[r], m).xid = pc[r].xid
             /\ Deliver(pc[r], m).at = pc[r].at
  BY <1>2, DeliverOK DEF IInv, Takes, Open
<1>3. pc' \in [Req -> Op]
  BY <1>1, <1>2 DEF IInv, TypeOK
<1>4. waiters' \subseteq Waiter
  <2>1. ASSUME NEW r \in Req, Open(r) PROVE Lock(r) \in waiters
    BY <2>1 DEF IInv, WaitersAreWaiting, Lock, Open, Waits
  <2>2. waiters' \subseteq waiters
    BY <1>1, <2>1
  <2> QED
    BY <2>2 DEF IInv, TypeOK
<1>5. TypeOK'
  BY <1>1, <1>3, <1>4 DEF IInv, TypeOK
<1>6. ASSUME NEW r \in Req
      PROVE  /\ pc'[r].op = "wait" /\ ~pc'[r].set <=> Open(r) /\ ~(Takes(r, m) /\ ~m.more)
             /\ Open(r) => pc'[r].at = pc[r].at /\ pc'[r].xid = pc[r].xid
  <2>1. CASE Takes(r, m)
    <3>1. pc'[r] = Deliver(pc[r], m) /\ Open(r)
      BY <1>1, <2>1 DEF Takes
    <3>2. m.more \in BOOLEAN
      BY DEF Part
    <3> QED
      BY <1>2, <2>1, <3>1, <3>2
  <2>2. CASE ~Takes(r, m)
    <3>1. pc'[r] = pc[r]
      BY <1>1, <2>2
    <3> QED
      BY <2>2, <3>1 DEF Open, Waits
  <2> QED
    BY <2>1, <2>2
<1>7. WaitersAreWaiting'
  <2> DEFINE S == {q \in Req : Open(q) /\ ~(Takes(q, m) /\ ~m.more)}
             L(r) == [sw |-> pc'[r].at.sw, xid |-> pc'[r].xid, req |-> r]
  <2>1. {q \in Req : pc'[q].op = "wait" /\ ~pc'[q].set} = S
    BY <1>6
  <2>2. \A r \in S : Lock(r) = L(r)
    BY <1>6 DEF Lock
  <2>3. waiters' = {Lock(r) : r \in S}
    BY <1>1
  <2> HIDE DEF S
  <2>4. waiters' = {L(r) : r \in S}
    BY <2>2, <2>3
  <2> QED
    BY <2>1, <2>4 DEF WaitersAreWaiting
<1> QED
  BY <1>5, <1>7

\* What handler_datapath leaves alone.
LEMMA DatapathOK ==
  ASSUME IInv, NEW m \in EventDP, HandlerDatapath(m),
         events' \in Seq(Part \cup EventDP), UNCHANGED <<conns, up, wire, xid>>
  PROVE  TypeOK' /\ WaitersAreWaiting'
<1>1. ofs' \subseteq Entry
  BY DEF IInv, TypeOK, HandlerDatapath, EventDP, Entry
<1> QED
  BY <1>1 DEF IInv, TypeOK, WaitersAreWaiting, HandlerDatapath

\* The event loop keeps the types and the table of waiters.
LEMMA HandleEventOK ==
  ASSUME IInv, HandleEvent
  PROVE  TypeOK' /\ WaitersAreWaiting'
<1>1. events \in Seq(Part \cup EventDP) /\ events # <<>> /\ events' = Tail(events)
  BY DEF IInv, TypeOK, HandleEvent
<1>2. Head(events) \in Part \cup EventDP /\ events' \in Seq(Part \cup EventDP)
  BY <1>1, TailPlaces
<1>3. CASE Head(events) \in Part
  BY <1>2, <1>3, Kinds, ReplyOK DEF HandleEvent
<1>4. CASE Head(events) \in EventDP
  BY <1>2, <1>4, Kinds, DatapathOK DEF HandleEvent
<1> QED
  BY <1>2, <1>3, <1>4

-----------------------------------------------------------------------------
(* Where the parts of answers are.                                         *)

\* The invariant says nothing of a request that does not wait.
LEMMA LinesOfFewer ==
  ASSUME Lines, UNCHANGED <<events, wire, xid>>,
         \A q \in Req : Waits(q)' => /\ Waits(q) /\ pc'[q].xid = pc[q].xid /\ pc'[q].at = pc[q].at
                                     /\ pc'[q].msgs = pc[q].msgs /\ pc'[q].set = pc[q].set
  PROVE  Lines'
<1>1. Once' /\ Known' /\ OwnXids'
  BY DEF Lines, Once, Known, OwnXids
<1>2. \A q \in Req : Waits(q)' => ListOK(q)'
  BY DEF Lines, ListOK
<1>3. \A q \in Req : Open(q)' => LineOK(q)'
  BY DEF Lines, LineOK, Open
<1> QED
  BY <1>1, <1>2, <1>3 DEF Lines

\* An event that is no part changes nothing, nor does a wire that is lost.
LEMMA LinesOfLost ==
  ASSUME TypeOK, Lines, NEW m \in EventDP, events' = Append(events, m),
         \A s \in Sw : wire'[s] \in {wire[s], <<>>}, UNCHANGED <<xid, pc>>
  PROVE  Lines'
<1>1. /\ Len(events) \in Nat /\ DOMAIN events = 1..Len(events)
      /\ DOMAIN events' = 1..Len(events) + 1
      /\ \A i \in 1..Len(events) : events'[i] = events[i]
      /\ events'[Len(events) + 1] \notin Part
  BY PostType, Kinds
<1>2. \A s \in Sw : \A j \in DOMAIN wire'[s] : wire'[s] = wire[s]
  OBVIOUS
<1>3. Once'
  <2>1. \A i, j \in DOMAIN events' :
          events'[i] \in Part /\ Piece(events'[j], events'[i].xid) /\ events'[i].part = events'[j].part
            => i = j
    BY <1>1 DEF Lines, Once, Piece
  <2>2. \A s \in Sw : \A i, j \in DOMAIN wire'[s] :
          wire'[s][i].xid = wire'[s][j].xid /\ wire'[s][i].part = wire'[s][j].part => i = j
    BY <1>2 DEF Lines, Once
  <2>3. \A s \in Sw : \A i \in DOMAIN events', j \in DOMAIN wire'[s] :
          Piece(events'[i], wire'[s][j].xid) => events'[i].part # wire'[s][j].part
    BY <1>1, <1>2 DEF Lines, Once, Piece
  <2>4. \A s, d \in Sw : \A i \in DOMAIN wire'[s], j \in DOMAIN wire'[d] :
          wire'[s][i].xid = wire'[d][j].xid => s = d
    BY <1>2 DEF Lines, Once
  <2> QED
    BY <2>1, <2>2, <2>3, <2>4 DEF Once
<1>4. Known'
  BY <1>1, <1>2 DEF Lines, Known
<1>5. OwnXids' /\ \A r \in Req : Waits(r)' => ListOK(r)'
  BY DEF Lines, OwnXids, ListOK, Waits
<1>6. ASSUME NEW r \in Req, Open(r)' PROVE LineOK(r)'
  <2>1. LineOK(r) /\ pc' = pc
    BY <1>6 DEF Lines, Open, Waits
  <2>2. ASSUME NEW j \in DOMAIN events', Piece(events'[j], pc[r].xid)
        PROVE  /\ events'[j].sw = pc[r].at.sw /\ events'[j].part > Len(pc[r].msgs)
               /\ events'[j].part = Len(pc[r].msgs) + 1 \/ Behind(events', j)
    <3>1. j \in DOMAIN events /\ events'[j] = events[j]
      BY <1>1, <2>2 DEF Piece
    <3>2. Behind(events, j) => Behind(events', j)
      BY <1>1, <3>1 DEF Behind
    <3> QED
      BY <2>1, <2>2, <3>1, <3>2 DEF LineOK
  <2>3. ASSUME NEW s \in Sw, NEW j \in DOMAIN wire'[s], wire'[s][j].xid = pc[r].xid
        PROVE  /\ s = pc[r].at.sw /\ wire'[s][j].part > Len(pc[r].msgs)
               /\ \/ wire'[s][j].part = Len(pc[r].msgs) + 1
                  \/ Behind(wire'[s], j)
                  \/ \E i \in DOMAIN events' : /\ Piece(events'[i], pc[r].xid)
                                               /\ events'[i].part = wire'[s][j].part - 1
    BY <1>1, <1>2, <2>1, <2>3 DEF LineOK
  <2> QED
    BY <2>1, <2>2, <2>3 DEF LineOK
<1> QED
  BY <1>3, <1>4, <1>5, <1>6 DEF Lines

\* The first part on a wire goes to the end of the queue.
LEMMA LinesOfReceive ==
  ASSUME TypeOK, Lines, NEW s \in Sw, Receive(s)
  PROVE  Lines'
<1> DEFINE w == wire[s]
           n == Len(events)
<1>1. /\ Tail(w) \in Seq(Part) /\ Head(w) \in Part /\ Head(w) = w[1]
      /\ Len(w) \in Nat \ {0} /\ DOMAIN w = 1..Len(w) /\ DOMAIN Tail(w) = 1..Len(w) - 1
      /\ \A i \in 1..Len(w) : w[i] \in Part
      /\ \A i \in 1..Len(w) - 1 : Tail(w)[i] = w[i + 1]
  BY TailPlaces DEF TypeOK, Receive
<1>2. /\ wire'[s] = Tail(w) /\ \A d \in Sw \ {s} : wire'[d] = wire[d]
      /\ UNCHANGED <<xid, pc>>
  BY DEF Receive, TypeOK
<1>3. /\ n \in Nat /\ DOMAIN events = 1..n /\ DOMAIN events' = 1..n + 1
      /\ \A i \in 1..n : events'[i] = events[i]
      /\ events'[n + 1] = w[1]
  BY <1>1, PostType DEF Receive
<1>4. \A d \in Sw : DOMAIN wire'[d] \subseteq Nat
  <2>1. \A d \in Sw : wire[d] \in Seq(Part)
    BY DEF TypeOK
  <2>2. \A d \in Sw : DOMAIN wire[d] = 1..Len(wire[d]) /\ Len(wire[d]) \in Nat
    BY <2>1, LenProperties
  <2>3. DOMAIN wire'[s] \subseteq Nat
    BY <1>1, <1>2
  <2>4. \A d \in Sw \ {s} : DOMAIN wire'[d] \subseteq Nat
    BY <1>2, <2>2
  <2> QED
    BY <2>3, <2>4
<1>5. ASSUME NEW d \in Sw, NEW j \in DOMAIN wire'[d]
      PROVE  \E k \in DOMAIN wire[d] : wire'[d][j] = wire[d][k] /\ (d = s => k = j + 1) /\ (d # s => k = j)
  <2>1. CASE d = s
    <3>1. j \in 1..Len(w) - 1 /\ wire'[d][j] = Tail(w)[j]
      BY <1>1, <1>2, <1>5, <2>1
    <3> QED
      BY <1>1, <2>1, <3>1
  <2>2. CASE d # s
    BY <1>2, <1>5, <2>2
  <2> QED
    BY <2>1, <2>2
<1>6. w[1].xid <= xid /\ w[1].sw = s /\ 1 \in DOMAIN w
  BY <1>1 DEF Lines, Known
<1>7. Once'
  <2>1. ASSUME NEW i \in DOMAIN events', NEW j \in DOMAIN events', events'[i] \in Part,
               Piece(events'[j], events'[i].xid), events'[i].part = events'[j].part
        PROVE  i = j
    <3>1. \A k, l \in 1..n : events[k] \in Part /\ Piece(events[l], events[k].xid)
                              /\ events[k].part = events[l].part => k = l
      BY <1>3 DEF Lines, Once
    <3>2. \A k \in 1..n : Piece(events[k], w[1].xid) => events[k].part # w[1].part
      BY <1>3, <1>6 DEF Lines, Once
    <3> QED
      BY <1>3, <2>1, <3>1, <3>2 DEF Piece
  <2>2. ASSUME NEW d \in Sw, NEW i \in DOMAIN wire'[d], NEW j \in DOMAIN wire'[d],
               wire'[d][i].xid = wire'[d][j].xid, wire'[d][i].part = wire'[d][j].part
        PROVE  i = j
    <3>1. PICK k \in DOMAIN wire[d] : wire'[d][i] = wire[d][k] /\ (d = s => k = i + 1) /\ (d # s => k = i)
      BY <1>5
    <3>2. PICK l \in DOMAIN wire[d] : wire'[d][j] = wire[d][l] /\ (d = s => l = j + 1) /\ (d # s => l = j)
      BY <1>5
    <3>3. k = l
      BY <2>2, <3>1, <3>2 DEF Lines, Once
    <3> QED
      BY <1>4, <3>1, <3>2, <3>3
  <2>3. ASSUME NEW d \in Sw, NEW i \in DOMAIN events', NEW j \in DOMAIN wire'[d],
               Piece(events'[i], wire'[d][j].xid)
        PROVE  events'[i].part # wire'[d][j].part
    <3>1. PICK k \in DOMAIN wire[d] : wire'[d][j] = wire[d][k] /\ (d = s => k = j + 1) /\ (d # s => k = j)
      BY <1>5
    <3>2. CASE i \in 1..n
      BY <1>3, <2>3, <3>1, <3>2 DEF Lines, Once, Piece
    <3>3. CASE i = n + 1
      <4>1. w[1].xid = wire[d][k].xid
        BY <1>3, <2>3, <3>1, <3>3 DEF Piece
      <4>2. d = s
        <5>1. \A b, c \in Sw : \A h \in DOMAIN wire[b], l \in DOMAIN wire[c] :
                wire[b][h].xid = wire[c][l].xid => b = c
          BY DEF Lines, Once
        <5> QED
          BY <1>6, <3>1, <4>1, <5>1
      <4>3. j \in 1..Len(w) - 1
        <5>1. wire'[d] = Tail(w)
          BY <1>2, <4>2
        <5> QED
          BY <1>1, <5>1, Zenon
      <4>4. k \in DOMAIN w /\ k # 1
        BY <1>1, <3>1, <4>2, <4>3
      <4>5. \A h, l \in DOMAIN w : w[h].xid = w[l].xid /\ w[h].part = w[l].part => h = l
        BY DEF Lines, Once
      <4> QED
        BY <1>3, <1>6, <3>1, <3>3, <4>1, <4>2, <4>4, <4>5
    <3> QED
      BY <1>3, <3>2, <3>3
  <2>4. ASSUME NEW c \in Sw, NEW d \in Sw, NEW i \in DOMAIN wire'[c], NEW j \in DOMAIN wire'[d],
               wire'[c][i].xid = wire'[d][j].xid
        PROVE  c = d
    <3>1. PICK k \in DOMAIN wire[c] : wire'[c][i] = wire[c][k]
      BY <1>5
    <3>2. PICK l \in DOMAIN wire[d] : wire'[d][j] = wire[d][l]
      BY <1>5
    <3> QED
      BY <2>4, <3>1, <3>2 DEF Lines, Once
  <2> QED
    BY <2>1, <2>2, <2>3, <2>4 DEF Once
<1>8. Known'
  <2>1. \A i \in DOMAIN events' : events'[i] \in Part => events'[i].xid <= xid
    BY <1>3, <1>6 DEF Lines, Known
  <2>2. ASSUME NEW d \in Sw, NEW i \in DOMAIN wire'[d]
        PROVE  wire'[d][i].sw = d /\ wire'[d][i].xid <= xid
    BY <1>5 DEF Lines, Known
  <2> QED
    BY <1>2, <2>1, <2>2 DEF Known
<1>9. OwnXids' /\ \A r \in Req : Waits(r)' => ListOK(r)'
  BY <1>2 DEF Lines, OwnXids, ListOK, Waits
<1>10. ASSUME NEW r \in Req, Open(r)' PROVE LineOK(r)'
  <2> DEFINE x == pc[r].xid
             m == Len(pc[r].msgs)
  <2>1. LineOK(r) /\ pc' = pc
    BY <1>2, <1>10 DEF Lines, Open, Waits
  <2>2. ASSUME NEW j \in DOMAIN events', Piece(events'[j], x)
        PROVE  /\ events'[j].sw = pc[r].at.sw /\ events'[j].part > m
               /\ events'[j].part = m + 1 \/ Behind(events', j)
    <3>1. CASE j \in 1..n
      <4>1. Behind(events, j) => Behind(events', j)
        BY <1>3, <3>1 DEF Behind
      <4> QED
        BY <1>3, <2>1, <2>2, <3>1, <4>1 DEF LineOK
    <3>2. CASE j = n + 1
      <4>1. w[1].xid = x /\ events'[j] = w[1]
        BY <1>3, <2>2, <3>2 DEF Piece
      <4>2. /\ s = pc[r].at.sw /\ w[1].part > m
            /\ \/ w[1].part = m + 1 \/ Behind(w, 1)
               \/ \E i \in DOMAIN events : Piece(events[i], x) /\ events[i].part = w[1].part - 1
        BY <1>6, <2>1, <4>1 DEF LineOK
      <4>3. ~Behind(w, 1)
        BY DEF Behind
      <4>4. (\E i \in DOMAIN events : Piece(events[i], x) /\ events[i].part = w[1].part - 1)
              => Behind(events', j)
        BY <1>3, <3>2, <4>1 DEF Behind
      <4> QED
        BY <1>6, <4>1, <4>2, <4>3, <4>4
    <3> QED
      BY <1>3, <3>1, <3>2
  <2>3. ASSUME NEW d \in Sw, NEW j \in DOMAIN wire'[d], wire'[d][j].xid = x
        PROVE  /\ d = pc[r].at.sw /\ wire'[d][j].part > m
               /\ \/ wire'[d][j].part = m + 1
                  \/ Behind(wire'[d], j)
                  \/ \E i \in DOMAIN events' : /\ Piece(events'[i], x)
                                               /\ events'[i].part = wire'[d][j].part - 1
    <3>1. PICK k \in DOMAIN wire[d] : wire'[d][j] = wire[d][k] /\ (d = s => k = j + 1) /\ (d # s => k = j)
      BY <1>5
    <3>2. /\ d = pc[r].at.sw /\ wire'[d][j].part > m
          /\ \/ wire'[d][j].part = m + 1
             \/ Behind(wire[d], k)
             \/ \E i \in DOMAIN events : Piece(events[i], x) /\ events[i].part = wire'[d][j].part - 1
      BY <2>1, <2>3, <3>1 DEF LineOK
    <3>3. (\E i \in DOMAIN events : Piece(events[i], x) /\ events[i].part = wire'[d][j].part - 1)
            => \E i \in DOMAIN events' : Piece(events'[i], x) /\ events'[i].part = wire'[d][j].part - 1
      BY <1>3
    <3>4. ASSUME Behind(wire[d], k)
          PROVE  \/ Behind(wire'[d], j)
                 \/ \E i \in DOMAIN events' : Piece(events'[i], x) /\ events'[i].part = wire'[d][j].part - 1
      <4>1. PICK i \in 1..k - 1 : Piece(wire[d][i], x) /\ wire[d][i].part = wire'[d][j].part - 1
        BY <2>3, <3>1, <3>4 DEF Behind
      <4>2. CASE d # s
        BY <1>2, <3>1, <3>4, <4>2
      <4>3. CASE d = s /\ i = 1
        <5>1. Piece(events'[n + 1], x) /\ events'[n + 1].part = wire'[d][j].part - 1
          BY <1>3, <4>1, <4>3
        <5> QED
          BY <1>3, <5>1
      <4>4. CASE d = s /\ i # 1
        <5>1. j \in 1..Len(w) - 1 /\ k = j + 1
          BY <1>1, <1>2, <2>3, <3>1, <4>4
        <5>2. i - 1 \in 1..j - 1 /\ i - 1 \in 1..Len(w) - 1
          BY <1>1, <4>1, <4>4, <5>1
        <5>3. wire'[d][i - 1] = wire[d][i]
          <6>1. wire'[d] = Tail(w) /\ Tail(w)[i - 1] = w[(i - 1) + 1] /\ (i - 1) + 1 = i
            BY <1>1, <1>2, <4>1, <4>4, <5>2
          <6> QED
            BY <4>4, <6>1
        <5> QED
          BY <2>3, <4>1, <5>2, <5>3 DEF Behind
      <4> QED
        BY <4>2, <4>3, <4>4
    <3> QED
      BY <3>2, <3>3, <3>4
  <2> QED
    BY <2>1, <2>2, <2>3 DEF LineOK
<1> QED
  BY <1>7, <1>8, <1>9, <1>10 DEF Lines

\* An event leaves the queue; a part is put behind those its request has.
LEMMA LinesOfTake ==
  ASSUME TypeOK, Lines, NEW m, m = Head(events), events # <<>>, events' = Tail(events),
         UNCHANGED <<wire, xid>>,
         pc' = [r \in Req |-> IF m \in Part /\ Takes(r, m) THEN Deliver(pc[r], m) ELSE pc[r]]
  PROVE  Lines'
<1> DEFINE n == Len(events)
<1>1. /\ n \in Nat \ {0} /\ DOMAIN events = 1..n /\ DOMAIN events' = 1..n - 1 /\ m = events[1]
      /\ \A i \in 1..n - 1 : events'[i] = events[i + 1] /\ i + 1 \in 1..n
  BY TailPlaces DEF TypeOK
<1>2. \A r \in Req : m \in Part /\ Takes(r, m) =>
        LET p == Deliver(pc[r], m)
            k == Len(pc[r].msgs)
        IN  /\ p.op = "wait" /\ p.set = ~m.more /\ p.xid = pc[r].xid /\ p.at = pc[r].at
            /\ k \in Nat /\ Len(p.msgs) = k + 1 /\ p.msgs[k + 1] = m
            /\ \A i \in 1..k : p.msgs[i] = pc[r].msgs[i]
  BY DeliverOK DEF Takes, Open
<1>3. \A r \in Req : IF m \in Part /\ Takes(r, m) THEN pc'[r] = Deliver(pc[r], m) ELSE pc'[r] = pc[r]
  OBVIOUS
<1>4. Once'
  <2>1. \A i, j \in 1..n - 1 :
          events'[i] \in Part /\ Piece(events'[j], events'[i].xid) /\ events'[i].part = events'[j].part
            => i = j
    <3>1. \A i, j \in 1..n : events[i] \in Part /\ Piece(events[j], events[i].xid)
                              /\ events[i].part = events[j].part => i = j
      BY <1>1 DEF Lines, Once
    <3>2. ASSUME NEW i \in 1..n - 1, NEW j \in 1..n - 1, events'[i] \in Part,
                 Piece(events'[j], events'[i].xid), events'[i].part = events'[j].part
          PROVE  i = j
      <4>1. /\ events'[i] = events[i + 1] /\ i + 1 \in 1..n
            /\ events'[j] = events[j + 1] /\ j + 1 \in 1..n
        BY <1>1
      <4>2. i + 1 = j + 1
        BY <3>1, <3>2, <4>1
      <4> QED
        BY <1>1, <4>2
    <3> QED
      BY <3>2
  <2>2. \A s \in Sw : \A i \in 1..n - 1, j \in DOMAIN wire[s] :
          Piece(events'[i], wire[s][j].xid) => events'[i].part # wire[s][j].part
    BY <1>1 DEF Lines, Once
  <2> QED
    BY <1>1, <2>1, <2>2 DEF Lines, Once
<1>5. Known'
  BY <1>1 DEF Lines, Known
<1>6. \A r \in Req : Waits(r)' => Waits(r) /\ pc'[r].xid = pc[r].xid /\ pc'[r].at = pc[r].at
  BY <1>2, <1>3 DEF Waits, Takes, Open
<1>7. OwnXids'
  BY <1>6 DEF Lines, OwnXids
<1>8. ASSUME NEW r \in Req, Open(r), m \in Part, m.xid = pc[r].xid
      PROVE  Takes(r, m) /\ m.part = Len(pc[r].msgs) + 1
  <2>1. Piece(events[1], pc[r].xid) /\ 1 \in DOMAIN events /\ LineOK(r)
    BY <1>1, <1>8 DEF Piece, Lines
  <2>2. ~Behind(events, 1)
    BY DEF Behind
  <2> QED
    BY <1>1, <1>8, <2>1, <2>2 DEF LineOK, Takes
<1>9. ASSUME NEW r \in Req, Waits(r)' PROVE ListOK(r)'
  <2>1. CASE m \in Part /\ Takes(r, m)
    <3> DEFINE k == Len(pc[r].msgs)
    <3>1. /\ pc'[r].set = ~m.more /\ pc'[r].xid = pc[r].xid
          /\ k \in Nat /\ Len(pc'[r].msgs) = k + 1 /\ pc'[r].msgs[k + 1] = m
          /\ \A i \in 1..k : pc'[r].msgs[i] = pc[r].msgs[i]
      BY <1>2, <1>3, <2>1
    <3>2. m.part = k + 1 /\ m.xid = pc[r].xid /\ ListOK(r) /\ ~pc[r].set
      BY <1>8, <2>1 DEF Takes, Open, Lines
    <3>3. \A i \in 1..k : pc[r].msgs[i].xid = pc[r].xid /\ pc[r].msgs[i].part = i /\ pc[r].msgs[i].more
      BY <3>1, <3>2 DEF ListOK
    <3>4. \A i \in 1..k + 1 : /\ pc'[r].msgs[i].xid = pc'[r].xid /\ pc'[r].msgs[i].part = i
                              /\ i < k + 1 => pc'[r].msgs[i].more
      <4>1. \A i \in 1..k + 1 : i \in 1..k \/ i = k + 1
        BY <3>1
      <4>2. \A i \in 1..k : pc'[r].msgs[i] = pc[r].msgs[i]
        BY <3>1
      <4> QED
        BY <3>1, <3>2, <3>3, <4>1, <4>2
    <3>5. k + 1 > 0 /\ m.more \in BOOLEAN
      BY <2>1, <3>1 DEF Part
    <3>6. pc'[r].set => ~pc'[r].msgs[k + 1].more
      BY <3>1
    <3>7. ~pc'[r].set => pc'[r].msgs[k + 1].more
      BY <3>1, <3>5
    <3>8. Len(pc'[r].msgs) = k + 1
      BY <3>1
    <3> HIDE DEF k
    <3> QED
      BY <3>4, <3>5, <3>6, <3>7, <3>8 DEF ListOK
  <2>2. CASE ~(m \in Part /\ Takes(r, m))
    <3>1. pc'[r] = pc[r] /\ Waits(r)
      BY <1>3, <1>6, <1>9, <2>2
    <3> QED
      BY <3>1 DEF Lines, ListOK
  <2> QED
    BY <2>1, <2>2
<1>10. ASSUME NEW r \in Req, Open(r)' PROVE LineOK(r)'
  <2> DEFINE x == pc[r].xid
             k == Len(pc[r].msgs)
             k2 == Len(pc'[r].msgs)
  <2>1. Waits(r)' /\ Waits(r) /\ ~pc'[r].set
    BY <1>6, <1>10 DEF Open
  <2>2. Open(r)
    <3>1. CASE m \in Part /\ Takes(r, m)
      BY <3>1 DEF Takes
    <3>2. CASE ~(m \in Part /\ Takes(r, m))
      BY <1>3, <2>1, <3>2 DEF Open
    <3> QED
      BY <3>1, <3>2
  <2>3. LineOK(r) /\ pc'[r].xid = x /\ pc'[r].at = pc[r].at /\ k \in Nat
    BY <1>6, <2>1, <2>2, WaitType, LenProperties DEF Lines
  <2>4. \/ Piece(m, x) /\ m.part = k + 1 /\ k2 = k + 1
        \/ ~Piece(m, x) /\ k2 = k
    BY <1>2, <1>3, <1>8, <2>2 DEF Piece, Takes
  <2>5. \A i \in 1..n - 1 : Piece(events[i + 1], x) /\ Piece(m, x) => events[i + 1].part # m.part
    <3>1. \A i, j \in 1..n : events[i] \in Part /\ Piece(events[j], events[i].xid)
                              /\ events[i].part = events[j].part => i = j
      BY <1>1 DEF Lines, Once
    <3>2. \A i \in 1..n - 1 : i + 1 # 1 /\ 1 \in 1..n
      BY <1>1
    <3> QED
      BY <1>1, <3>1, <3>2 DEF Piece
  <2>6. \A j \in 1..n : Piece(events[j], x) => events[j].part \in Nat
    BY BoundAssumption DEF Piece, Part
  <2>7. ASSUME NEW j \in 1..n - 1, Piece(events'[j], x)
        PROVE  /\ events'[j].sw = pc[r].at.sw /\ events'[j].part > k2
               /\ events'[j].part = k2 + 1 \/ Behind(events', j)
    <3>1. /\ events'[j] = events[j + 1] /\ j + 1 \in DOMAIN events
          /\ events[j + 1].sw = pc[r].at.sw /\ events[j + 1].part > k
          /\ events[j + 1].part = k + 1 \/ Behind(events, j + 1)
      BY <1>1, <2>3, <2>7 DEF LineOK
    <3>2. events[j + 1].part \in Nat /\ events[j + 1].part > k2
      BY <1>1, <2>3, <2>4, <2>5, <2>6, <2>7, <3>1
    <3>3. ASSUME Behind(events, j + 1) PROVE events'[j].part = k2 + 1 \/ Behind(events', j)
      <4>1. PICK i \in 1..j : Piece(events[i], x) /\ events[i].part = events[j + 1].part - 1
        BY <1>1, <2>7, <3>1, <3>3 DEF Behind, Piece
      <4>2. CASE i = 1
        <5>1. Piece(m, x) /\ m.part = k + 1 /\ k2 = k + 1
          BY <1>1, <2>4, <4>1, <4>2
        <5>2. events[j + 1].part - 1 = k + 1
          BY <1>1, <4>1, <4>2, <5>1
        <5>3. events[j + 1].part = k2 + 1
          <6> HIDE DEF k, k2
          <6> QED
            BY <2>3, <3>2, <5>1, <5>2
        <5> QED
          BY <3>1, <5>3
      <4>3. CASE i # 1
        <5>1. i - 1 \in 1..j - 1 /\ i - 1 \in 1..n - 1 /\ (i - 1) + 1 = i
          BY <1>1, <4>1, <4>3
        <5>2. events'[i - 1] = events[i]
          BY <1>1, <5>1
        <5> QED
          BY <2>7, <3>1, <4>1, <5>1, <5>2 DEF Behind, Piece
      <4> QED
        BY <4>2, <4>3
    <3> QED
      BY <2>3, <2>4, <3>1, <3>2, <3>3
  <2>8. ASSUME NEW s \in Sw, NEW j \in DOMAIN wire[s], wire[s][j].xid = x
        PROVE  /\ s = pc[r].at.sw /\ wire[s][j].part > k2
               /\ \/ wire[s][j].part = k2 + 1
                  \/ Behind(wire[s], j)
                  \/ \E i \in DOMAIN events' : /\ Piece(events'[i], x)
                                               /\ events'[i].part = wire[s][j].part - 1
    <3>1. /\ s = pc[r].at.sw /\ wire[s][j].part > k
          /\ \/ wire[s][j].part = k + 1
             \/ Behind(wire[s], j)
             \/ \E i \in DOMAIN events : Piece(events[i], x) /\ events[i].part = wire[s][j].part - 1
      BY <2>3, <2>8 DEF LineOK
    <3>2. Piece(m, x) => m.part # wire[s][j].part
      BY <1>1, <2>8 DEF Lines, Once
    <3>3. wire[s][j].part \in Nat
      <4>1. wire[s] \in Seq(Part)
        BY DEF TypeOK
      <4>2. wire[s][j] \in Part
        BY <4>1, ElementOfSeq, LenProperties
      <4> QED
        BY <4>2, BoundAssumption DEF Part
    <3>4. wire[s][j].part > k2
      BY <2>3, <2>4, <3>1, <3>2, <3>3
    <3>5. ASSUME NEW i \in DOMAIN events, Piece(events[i], x), events[i].part = wire[s][j].part - 1
          PROVE  \/ wire[s][j].part = k2 + 1
                 \/ \E h \in DOMAIN events' : Piece(events'[h], x) /\ events'[h].part = wire[s][j].part - 1
      <4>1. CASE i = 1
        <5>1. Piece(m, x) /\ m.part = k + 1 /\ k2 = k + 1 /\ wire[s][j].part - 1 = k + 1
          BY <1>1, <2>4, <3>5, <4>1
        <5>2. wire[s][j].part = k2 + 1
          <6> HIDE DEF k, k2
          <6> QED
            BY <2>3, <3>3, <5>1
        <5> QED
          BY <5>2
      <4>2. CASE i # 1
        <5>1. i - 1 \in 1..n - 1 /\ (i - 1) + 1 = i
          BY <1>1, <4>2
        <5>2. events'[i - 1] = events[i] /\ i - 1 \in DOMAIN events'
          BY <1>1, <5>1
        <5> QED
          BY <3>5, <5>2
      <4> QED
        BY <4>1, <4>2
    <3>6. wire[s][j].part = k + 1 => wire[s][j].part = k2 + 1
      BY <2>3, <2>4, <3>3, <3>4
    <3> QED
      BY <3>1, <3>4, <3>5, <3>6
  <2> QED
    BY <1>1, <2>3, <2>7, <2>8 DEF LineOK
<1> QED
  BY <1>4, <1>5, <1>7, <1>9, <1>10 DEF Lines

\* An answer has an xid of its own, and goes to the wire as a whole.
LEMMA LinesOfAsk ==
  ASSUME TypeOK, Lines, NEW r \in Req, NEW W, NEW t, NEW e \in Entry, NEW v, NEW z, NEW l,
         Ask(r, W, t, e, v, z, l), UNCHANGED events
  PROVE  Lines'
<1> DEFINE x == xid + 1
           s == e.sw
           h == Len(wire[s])
<1>1. xid \in Nat /\ xid' = x /\ s \in Sw /\ x > xid
  <2>1. xid \in Nat /\ s \in Sw
    BY DEF TypeOK, Entry
  <2>2. xid' = x
    BY AskWire
  <2> QED
    BY <2>1, <2>2
<1>2. /\ pc'[r] = Waiting(t, e, x, v, z, l)
      /\ \A q \in Req \ {r} : pc'[q] = pc[q]
  BY <1>1 DEF Ask, TypeOK
<1>3. \A q \in Sw : DOMAIN wire[q] = 1..Len(wire[q]) /\ Len(wire[q]) \in Nat
  BY LenProperties DEF TypeOK
<1>4. \A q \in Sw : \A i \in DOMAIN wire[q] : wire[q][i] \in Part
  <2>1. \A q \in Sw : wire[q] \in Seq(Part)
    BY DEF TypeOK
  <2> QED
    BY <1>3, <2>1, ElementOfSeq
<1>5. PICK n \in Nat :
        /\ DOMAIN wire'[s] = 1..h + n
        /\ \A i \in h + 1..h + n : wire'[s][i] = [sw |-> s, xid |-> x, part |-> i - h, more |-> i - h < n]
        /\ \A q \in Sw : \A i \in DOMAIN wire[q] : i \in DOMAIN wire'[q] /\ wire'[q][i] = wire[q][i]
        /\ \A q \in Sw \ {s} : DOMAIN wire'[q] = DOMAIN wire[q]
        /\ \A i \in h + 1..h + n : wire'[s][i] \in Part
  <2>1. CASE wire' = wire
    <3>1. \A i \in h + 1..h + 0 : FALSE
      BY <1>1, <1>3
    <3> QED
      BY <1>1, <1>3, <2>1, <3>1
  <2>2. CASE \E n \in 1..MaxParts : wire' = [wire EXCEPT ![s] = @ \o Answer(s, x, n)]
    <3>1. PICK n \in 1..MaxParts : wire' = [wire EXCEPT ![s] = @ \o Answer(s, x, n)]
      BY <2>2
    <3>2. wire'[s] = wire[s] \o Answer(s, x, n) /\ \A q \in Sw \ {s} : wire'[q] = wire[q]
      BY <1>1, <3>1 DEF TypeOK
    <3>3. /\ DOMAIN wire'[s] = 1..h + n /\ n \in Nat
          /\ \A i \in h + 1..h + n : wire'[s][i] = [sw |-> s, xid |-> x, part |-> i - h, more |-> i - h < n]
          /\ \A i \in 1..h : wire'[s][i] = wire[s][i]
          /\ wire'[s] \in Seq(Part)
      <4>1. n \in Nat /\ x \in Nat /\ s \in Sw
        BY <1>1, BoundAssumption
      <4> DEFINE w == wire[s] \o Answer(s, x, n)
      <4> HIDE DEF x, s
      <4>2. /\ w \in Seq(Part) /\ DOMAIN w = 1..Len(wire[s]) + n
            /\ \A i \in 1..Len(wire[s]) : w[i] = wire[s][i]
            /\ \A i \in Len(wire[s]) + 1..Len(wire[s]) + n :
                 w[i] = [sw |-> s, xid |-> x, part |-> i - Len(wire[s]), more |-> i - Len(wire[s]) < n]
        BY <4>1, WirePlaces
      <4> HIDE DEF w
      <4>3. wire'[s] = w
        BY <3>2 DEF w
      <4> QED
        BY <4>1, <4>2, <4>3
    <3>4. \A i \in DOMAIN wire[s] : i \in DOMAIN wire'[s] /\ wire'[s][i] = wire[s][i]
      BY <1>1, <1>3, <3>3
    <3>5. \A i \in h + 1..h + n : wire'[s][i] \in Part
      <4>1. \A i \in h + 1..h + n : i \in 1..Len(wire'[s])
        BY <1>1, <1>3, <3>3, LenProperties
      <4> QED
        BY <3>3, <4>1, ElementOfSeq
    <3> QED
      BY <3>2, <3>3, <3>4, <3>5
  <2> QED
    BY <2>1, <2>2, AskWire
<1>6. ASSUME NEW q \in Sw, NEW i \in DOMAIN wire'[q]
      PROVE  \/ i \in DOMAIN wire[q] /\ wire'[q][i] = wire[q][i]
             \/ q = s /\ i \in h + 1..h + n
  <2>1. CASE q = s
    <3>1. i \in 1..h + n
      BY <1>5, <2>1, Zenon
    <3> QED
      BY <1>1, <1>3, <1>5, <2>1, <3>1
  <2>2. CASE q # s
    BY <1>5, <2>2
  <2> QED
    BY <2>1, <2>2
<1>7. \A q \in Sw : \A i \in DOMAIN wire[q] : wire[q][i].xid <= xid /\ wire[q][i].xid # x /\ wire[q][i].sw = q
  <2>1. \A q \in Sw : \A i \in DOMAIN wire[q] : wire[q][i].xid <= xid /\ wire[q][i].sw = q /\ wire[q][i].xid \in Nat
    BY <1>4 DEF Lines, Known, Part
  <2> QED
    BY <1>1, <2>1
<1>8. \A i \in DOMAIN events : events[i] \in Part => events[i].xid < x
  <2>1. \A i \in DOMAIN events : events[i] \in Part => events[i].xid \in Nat /\ events[i].xid <= xid
    BY DEF Lines, Known, Part
  <2> QED
    BY <1>1, <2>1
<1>8a. \A i \in DOMAIN events : ~Piece(events[i], x)
  <2>1. \A i \in DOMAIN events : events[i] \in Part => events[i].xid # x
    <3>1. \A i \in DOMAIN events : events[i] \in Part => events[i].xid \in Nat
      BY DEF Part
    <3> QED
      BY <1>1, <1>8, <3>1
  <2> QED
    BY <2>1 DEF Piece
<1>9. \A i \in h + 1..h + n : wire'[s][i].xid = x /\ wire'[s][i].part = i - h /\ wire'[s][i].sw = s
  <2> HIDE DEF x, s, h
  <2> SUFFICES ASSUME NEW i \in h + 1..h + n
               PROVE  wire'[s][i].xid = x /\ wire'[s][i].part = i - h /\ wire'[s][i].sw = s
    OBVIOUS
  <2>1. wire'[s][i] = [sw |-> s, xid |-> x, part |-> i - h, more |-> i - h < n]
    BY <1>5, Zenon
  <2> QED
    BY <2>1
<1> HIDE DEF x, s, h
<1>10. Once'
  <2>1. ASSUME NEW q \in Sw, NEW d \in Sw, NEW i \in DOMAIN wire'[q], NEW j \in DOMAIN wire'[d],
               wire'[q][i].xid = wire'[d][j].xid
        PROVE  q = d /\ (wire'[q][i].part = wire'[d][j].part => i = j)
    <3>1. CASE i \in DOMAIN wire[q] /\ wire'[q][i] = wire[q][i] /\ j \in DOMAIN wire[d] /\ wire'[d][j] = wire[d][j]
      BY <2>1, <3>1 DEF Lines, Once
    <3>2. CASE q = s /\ i \in h + 1..h + n /\ d = s /\ j \in h + 1..h + n
      <4>1. wire'[q][i].part = i - h /\ wire'[d][j].part = j - h
        BY <1>9, <3>2
      <4>2. h \in Nat
        BY <1>1, <1>3 DEF h
      <4> QED
        BY <3>2, <4>1, <4>2
    <3>3. CASE q = s /\ i \in h + 1..h + n /\ j \in DOMAIN wire[d] /\ wire'[d][j] = wire[d][j]
      BY <1>7, <1>9, <2>1, <3>3
    <3>4. CASE d = s /\ j \in h + 1..h + n /\ i \in DOMAIN wire[q] /\ wire'[q][i] = wire[q][i]
      BY <1>7, <1>9, <2>1, <3>4
    <3> QED
      BY <1>6, <3>1, <3>2, <3>3, <3>4
  <2>2. ASSUME NEW d \in Sw, NEW i \in DOMAIN events, NEW j \in DOMAIN wire'[d],
               Piece(events[i], wire'[d][j].xid)
        PROVE  events[i].part # wire'[d][j].part
    <3>1. CASE j \in DOMAIN wire[d] /\ wire'[d][j] = wire[d][j]
      BY <2>2, <3>1 DEF Lines, Once
    <3>2. CASE d = s /\ j \in h + 1..h + n
      BY <1>9, <1>8a, <2>2, <3>2
    <3> QED
      BY <1>6, <3>1, <3>2
  <2> QED
    BY <2>1, <2>2 DEF Lines, Once
<1>11. Known'
  <2>1. \A i \in DOMAIN events : events[i] \in Part => events[i].xid <= x
    <3>1. \A i \in DOMAIN events : events[i] \in Part => events[i].xid \in Nat
      BY DEF Part
    <3> QED
      BY <1>1, <1>8, <3>1 DEF x
  <2>2. ASSUME NEW q \in Sw, NEW i \in DOMAIN wire'[q]
        PROVE  wire'[q][i].sw = q /\ wire'[q][i].xid <= x
    <3>1. CASE i \in DOMAIN wire[q] /\ wire'[q][i] = wire[q][i]
      <4>1. wire[q][i].xid \in Nat /\ wire[q][i].xid <= xid
        BY <1>4, <1>7, <3>1 DEF Part
      <4> QED
        BY <1>1, <1>7, <3>1, <4>1 DEF x
    <3>2. CASE q = s /\ i \in h + 1..h + n
      BY <1>1, <1>9, <3>2 DEF x
    <3> QED
      BY <1>6, <3>1, <3>2
  <2> QED
    BY <1>1, <2>1, <2>2 DEF Known
<1>12. /\ pc'[r].op = "wait" /\ pc'[r].at = e /\ pc'[r].xid = x /\ pc'[r].msgs = <<>>
       /\ pc'[r].set = FALSE
  BY <1>2 DEF Waiting
<1>13. OwnXids'
  <2>1. \A q \in Req : Waits(q) => pc[q].xid <= x /\ pc[q].xid # x
    <3>1. \A q \in Req : Waits(q) => pc[q].xid \in Nat /\ pc[q].xid <= xid
      BY WaitType DEF Lines, OwnXids
    <3> QED
      BY <1>1, <3>1 DEF x
  <2>2. x <= x
    BY <1>1 DEF x
  <2> QED
    BY <1>1, <1>2, <1>12, <2>1, <2>2 DEF Lines, OwnXids, Waits
<1>14. \A q \in Req : Waits(q)' => ListOK(q)'
  <2>1. ListOK(r)'
    <3>1. Len(pc'[r].msgs) = 0
      BY <1>12, EmptySeq
    <3> QED
      BY <1>12, <3>1 DEF ListOK
  <2>2. ASSUME NEW q \in Req \ {r}, Waits(q)' PROVE ListOK(q)'
    BY <1>2, <2>2 DEF Lines, ListOK, Waits
  <2> QED
    BY <2>1, <2>2
<1>15. LineOK(r)'
  <2>1. Len(pc'[r].msgs) = 0
    BY <1>12, EmptySeq
  <2>2. ASSUME NEW d \in Sw, NEW j \in DOMAIN wire'[d], wire'[d][j].xid = x
        PROVE  /\ d = s /\ wire'[d][j].part > 0
               /\ wire'[d][j].part = 0 + 1 \/ Behind(wire'[d], j)
    <3>1. d = s /\ j \in h + 1..h + n
      BY <1>6, <1>7, <2>2
    <3>2. h \in Nat /\ wire'[d][j].part = j - h /\ j \in Nat
      BY <1>1, <1>3, <1>9, <3>1 DEF h
    <3>3. ASSUME j # h + 1 PROVE Behind(wire'[d], j)
      <4>1. j - 1 \in h + 1..h + n /\ j - 1 \in 1..j - 1
        BY <3>1, <3>2, <3>3
      <4>2. wire'[d][j - 1].part = wire'[d][j].part - 1 /\ wire'[d][j - 1] \in Part /\ wire'[d][j - 1].xid = x
        BY <1>5, <1>9, <3>1, <3>2, <4>1
      <4> QED
        BY <2>2, <4>1, <4>2 DEF Behind, Piece
    <3> QED
      BY <3>1, <3>2, <3>3
  <2> QED
    BY <1>12, <1>8a, <2>1, <2>2 DEF LineOK, s
<1>16. ASSUME NEW q \in Req \ {r}, Open(q)' PROVE LineOK(q)'
  <2> DEFINE y == pc[q].xid
             k == Len(pc[q].msgs)
  <2>1. LineOK(q) /\ pc'[q] = pc[q] /\ y <= xid /\ y \in Nat
    BY <1>2, <1>16, WaitType DEF Lines, OwnXids, Open, Waits
  <2>2. y # x
    BY <1>1, <2>1 DEF x
  <2>3. ASSUME NEW d \in Sw, NEW j \in DOMAIN wire'[d], wire'[d][j].xid = y
        PROVE  /\ d = pc[q].at.sw /\ wire'[d][j].part > k
               /\ \/ wire'[d][j].part = k + 1
                  \/ Behind(wire'[d], j)
                  \/ \E i \in DOMAIN events : /\ Piece(events[i], y)
                                              /\ events[i].part = wire'[d][j].part - 1
    <3>1. j \in DOMAIN wire[d] /\ wire'[d][j] = wire[d][j]
      BY <1>6, <1>9, <2>2, <2>3
    <3>2. Behind(wire[d], j) => Behind(wire'[d], j)
      <4>1. \A i \in 1..j - 1 : i \in DOMAIN wire[d]
        BY <1>3, <3>1
      <4> QED
        BY <1>5, <3>1, <4>1 DEF Behind
    <3> QED
      BY <2>1, <2>3, <3>1, <3>2 DEF LineOK
  <2> QED
    BY <2>1, <2>3 DEF LineOK, Behind
<1> QED
  BY <1>10, <1>11, <1>13, <1>14, <1>15, <1>16 DEF Lines

-----------------------------------------------------------------------------
(* The order of connections, and how far iterators are.                    *)

\* An event joins the queue: the registration of the latest connection, or
\* none at all.
LEMMA ConnsOfPost ==
  ASSUME TypeOK, Conns, NEW m \in Part \cup EventDP, events' = Append(events, m),
         \/ ~Enters(m) /\ conns' = conns
         \/ m.conn = conns + 1 /\ conns' = conns + 1,
         UNCHANGED <<ofs, pc>>
  PROVE  Conns'
<1> DEFINE n == Len(events)
<1>1. /\ n \in Nat /\ DOMAIN events = 1..n /\ DOMAIN events' = 1..n + 1
      /\ \A i \in 1..n : events'[i] = events[i]
      /\ events'[n + 1] = m
  BY PostType
<1>2. conns \in Nat /\ conns' \in Nat /\ conns <= conns'
  BY DEF TypeOK
<1>3. /\ \A e \in ofs : e.conn \in Nat
      /\ \A r \in Req : Waits(r) => pc[r].at.conn \in Nat
      /\ \A i \in 1..n : Enters(events[i]) => events[i].conn \in Nat
  <2>1. \A r \in Req : Waits(r) => pc[r].at \in Entry
    BY WaitType
  <2> QED
    BY <2>1 DEF TypeOK, Entry, Enters, EventDP
<1>4. /\ \A e \in ofs : e.conn <= conns
      /\ \A r \in Req : Waits(r) => pc[r].at.conn <= conns
      /\ \A i \in 1..n : Enters(events[i]) => events[i].conn <= conns
  BY <1>1 DEF Conns
<1>5. ASSUME NEW i \in 1..n + 1, Enters(events'[i])
      PROVE  /\ events'[i].conn <= conns'
             /\ \A e \in ofs : e.conn < events'[i].conn
             /\ \A j \in 1..n + 1 : Enters(events'[j]) /\ i < j => events'[i].conn < events'[j].conn
             /\ \A r \in Req : Waits(r) => pc[r].at.conn < events'[i].conn
  <2>1. CASE i \in 1..n
    <3>1. /\ events'[i] = events[i] /\ Enters(events[i]) /\ events[i].conn <= conns
          /\ \A e \in ofs : e.conn < events[i].conn
          /\ \A j \in 1..n : Enters(events[j]) /\ i < j => events[i].conn < events[j].conn
          /\ \A r \in Req : Waits(r) => pc[r].at.conn < events[i].conn
      BY <1>1, <1>5, <2>1 DEF Conns
    <3>2. events[i].conn \in Nat
      BY <1>3, <2>1, <3>1
    <3>3. Enters(m) => events[i].conn < m.conn
      BY <1>2, <3>1, <3>2
    <3>4. ASSUME NEW j \in 1..n + 1, Enters(events'[j]), i < j PROVE events'[i].conn < events'[j].conn
      <4>1. CASE j \in 1..n
        BY <1>1, <3>1, <3>4, <4>1
      <4>2. CASE j = n + 1
        BY <1>1, <3>1, <3>3, <3>4, <4>2
      <4> QED
        BY <1>1, <4>1, <4>2
    <3>5. events[i].conn <= conns'
      BY <1>2, <3>1, <3>2
    <3> QED
      BY <3>1, <3>4, <3>5
  <2>2. CASE i = n + 1
    <3>1. events'[i] = m /\ m.conn = conns + 1 /\ conns' = conns + 1
      BY <1>1, <1>5, <2>2
    <3>2. \A j \in 1..n + 1 : ~(i < j)
      BY <1>1, <2>2
    <3> QED
      BY <1>2, <1>3, <1>4, <3>1, <3>2
  <2> QED
    BY <1>1, <2>1, <2>2
<1>6. /\ \A e \in ofs : e.conn <= conns'
      /\ \A r \in Req : Waits(r) => pc[r].at.conn <= conns'
  BY <1>2, <1>3, <1>4
<1> HIDE DEF n
<1> QED
  BY <1>1, <1>5, <1>6 DEF Conns, Waits

\* Requests that keep their place or end say nothing new.
LEMMA VisitsOfFewer ==
  ASSUME Conns, Visits, UNCHANGED <<conns, events, ofs>>,
         \A q \in Req : Waits(q)' => /\ Waits(q) /\ pc'[q].at = pc[q].at /\ pc'[q].target = pc[q].target
                                     /\ pc'[q].visited = pc[q].visited /\ pc'[q].size = pc[q].size
                                     /\ pc'[q].left = pc[q].left
  PROVE  Conns' /\ Visits'
<1>1. Conns'
  BY DEF Conns
<1>2. Visits'
  BY DEF Visits, VisitOK
<1> QED
  BY <1>1, <1>2

\* The iterator of r moves to e.
LEMMA VisitsOfAsk ==
  ASSUME TypeOK, Conns, Visits, NEW r \in Req, NEW W, NEW t, NEW e \in ofs, NEW v, NEW z, NEW l,
         Ask(r, W, t, e, v, z, l), UNCHANGED <<conns, up, events, ofs>>,
         t = None => /\ IsFiniteSet(v) /\ Cardinality(v) + 1 + l = z
                     /\ \A x \in v : x.conn < e.conn
                     /\ \A x \in ofs : x.conn <= e.conn => x \in v \cup {e}
  PROVE  Conns' /\ Visits'
<1>1. /\ pc'[r].op = "wait" /\ pc'[r].at = e /\ pc'[r].target = t /\ pc'[r].visited = v
      /\ pc'[r].size = z /\ pc'[r].left = l
      /\ \A q \in Req \ {r} : pc'[q] = pc[q]
  BY DEF Ask, Waiting, TypeOK
<1>2. Conns'
  <2>1. ASSUME NEW i \in DOMAIN events, Enters(events[i]), NEW q \in Req, Waits(q)'
        PROVE  pc'[q].at.conn < events[i].conn
    BY <1>1, <2>1 DEF Conns, Waits
  <2>2. \A q \in Req : Waits(q)' => pc'[q].at.conn <= conns
    BY <1>1 DEF Conns, Waits
  <2> QED
    BY <2>1, <2>2 DEF Conns
<1>3. ASSUME NEW q \in Req, Waits(q)', pc'[q].target = None PROVE VisitOK(q)'
  <2>1. CASE q = r
    BY <1>1, <1>3, <2>1 DEF VisitOK
  <2>2. CASE q # r
    BY <1>1, <1>3, <2>2 DEF Visits, VisitOK, Waits
  <2> QED
    BY <2>1, <2>2
<1> QED
  BY <1>2, <1>3 DEF Visits

\* An event leaves the queue; a registration is of a connection later than all
\* places reached.
LEMMA VisitsOfTake ==
  ASSUME TypeOK, Conns, Visits, NEW m, m = Head(events), events # <<>>, events' = Tail(events),
         UNCHANGED conns, ofs' \subseteq ofs \/ (Enters(m) /\ ofs' = ofs \cup {[sw |-> m.sw, conn |-> m.conn]}),
         \A q \in Req : Waits(q)' => /\ Waits(q) /\ pc'[q].at = pc[q].at /\ pc'[q].target = pc[q].target
                                     /\ pc'[q].visited = pc[q].visited /\ pc'[q].size = pc[q].size
                                     /\ pc'[q].left = pc[q].left
  PROVE  Conns' /\ Visits'
<1> DEFINE n == Len(events)
           new == [sw |-> m.sw, conn |-> m.conn]
<1>1. /\ n \in Nat \ {0} /\ DOMAIN events = 1..n /\ DOMAIN events' = 1..n - 1 /\ m = events[1]
      /\ \A i \in 1..n - 1 : events'[i] = events[i + 1] /\ i + 1 \in 1..n /\ 1 < i + 1
  BY TailPlaces DEF TypeOK
<1>2. \A x \in ofs' : x \in ofs \/ (x = new /\ Enters(m) /\ x.conn = m.conn)
  OBVIOUS
<1>3. Enters(m) => /\ m.conn <= conns /\ m.conn \in Nat
                   /\ \A x \in ofs : x.conn < m.conn
                   /\ \A i \in 1..n - 1 : Enters(events'[i]) => m.conn < events'[i].conn
                   /\ \A q \in Req : Waits(q) => pc[q].at.conn < m.conn
  <2> SUFFICES ASSUME Enters(m)
               PROVE  /\ m.conn <= conns /\ m.conn \in Nat
                      /\ \A x \in ofs : x.conn < m.conn
                      /\ \A i \in 1..n - 1 : Enters(events'[i]) => m.conn < events'[i].conn
                      /\ \A q \in Req : Waits(q) => pc[q].at.conn < m.conn
    OBVIOUS
  <2>1. 1 \in DOMAIN events /\ Enters(events[1])
    BY <1>1
  <2>2. /\ events[1].conn <= conns
        /\ \A x \in ofs : x.conn < events[1].conn
        /\ \A j \in DOMAIN events : Enters(events[j]) /\ 1 < j => events[1].conn < events[j].conn
        /\ \A q \in Req : Waits(q) => pc[q].at.conn < events[1].conn
    BY <2>1 DEF Conns
  <2>3. \A i \in 1..n - 1 : Enters(events'[i]) => m.conn < events'[i].conn
    BY <1>1, <2>2
  <2>4. m.conn \in Nat
    BY DEF Enters, EventDP
  <2> QED
    BY <1>1, <2>2, <2>3, <2>4
<1>4. \A x \in ofs : x.conn \in Nat
  BY DEF TypeOK, Entry
<1>5. IsFiniteSet(ofs')
  <2>1. CASE ofs' \subseteq ofs
    BY <2>1, FS_Subset DEF Conns
  <2>2. CASE ofs' = ofs \cup {new}
    BY <2>2, FS_AddElement DEF Conns
  <2> QED
    BY <2>1, <2>2
<1>6. \A x, y \in ofs' : x.conn = y.conn => x = y
  <2>1. ASSUME NEW x \in ofs', NEW y \in ofs', x.conn = y.conn PROVE x = y
    <3>1. CASE x \in ofs /\ y \in ofs
      BY <2>1, <3>1 DEF Conns
    <3>2. CASE x = new /\ Enters(m) /\ x.conn = m.conn /\ y \in ofs
      BY <1>3, <1>4, <2>1, <3>2
    <3>3. CASE y = new /\ Enters(m) /\ y.conn = m.conn /\ x \in ofs
      BY <1>3, <1>4, <2>1, <3>3
    <3> QED
      BY <1>2, <3>1, <3>2, <3>3
  <2> QED
    BY <2>1
<1>7. \A x \in ofs' : x.conn <= conns
  BY <1>2, <1>3 DEF Conns
<1>8. ASSUME NEW i \in 1..n - 1, Enters(events'[i])
      PROVE  /\ events'[i].conn <= conns
             /\ \A x \in ofs' : x.conn < events'[i].conn
             /\ \A j \in 1..n - 1 : Enters(events'[j]) /\ i < j => events'[i].conn < events'[j].conn
             /\ \A q \in Req : Waits(q)' => pc'[q].at.conn < events'[i].conn
  <2>1. events'[i] = events[i + 1] /\ i + 1 \in DOMAIN events /\ Enters(events[i + 1])
    BY <1>1, <1>8
  <2>2. /\ events[i + 1].conn <= conns
        /\ \A x \in ofs : x.conn < events[i + 1].conn
        /\ \A j \in DOMAIN events : Enters(events[j]) /\ i + 1 < j => events[i + 1].conn < events[j].conn
        /\ \A q \in Req : Waits(q) => pc[q].at.conn < events[i + 1].conn
    BY <2>1 DEF Conns
  <2>3. \A x \in ofs' : x.conn < events'[i].conn
    BY <1>2, <1>3, <1>8, <2>1, <2>2
  <2>4. ASSUME NEW j \in 1..n - 1, Enters(events'[j]), i < j PROVE events'[i].conn < events'[j].conn
    <3>1. events'[j] = events[j + 1] /\ j + 1 \in DOMAIN events /\ i + 1 < j + 1
      BY <1>1, <2>4
    <3> QED
      BY <2>1, <2>2, <2>4, <3>1
  <2> QED
    BY <2>1, <2>2, <2>3, <2>4
<1>9. \A q \in Req : Waits(q)' => pc'[q].at.conn <= conns
  BY DEF Conns
<1>10. Conns'
  <2> HIDE DEF n
  <2> QED
    BY <1>1, <1>5, <1>6, <1>7, <1>8, <1>9 DEF Conns
<1>11. ASSUME NEW q \in Req, Waits(q)', pc'[q].target = None PROVE VisitOK(q)'
  <2>1. /\ Waits(q) /\ pc'[q].at = pc[q].at /\ pc'[q].visited = pc[q].visited
        /\ pc'[q].size = pc[q].size /\ pc'[q].left = pc[q].left /\ VisitOK(q)
    BY <1>11 DEF Visits
  <2>2. pc[q].at.conn \in Nat
    BY <2>1, WaitType DEF Entry
  <2>3. \A x \in ofs' : x.conn <= pc[q].at.conn => x \in ofs
    BY <1>2, <1>3, <2>1, <2>2
  <2> QED
    BY <2>1, <2>3 DEF VisitOK
<1> QED
  BY <1>10, <1>11 DEF Visits

-----------------------------------------------------------------------------
(* The theorems.                                                           *)

\* The invariant holds when RestQoSAPI starts.
LEMMA InitOK == Init => IInv
<1> SUFFICES ASSUME Init PROVE IInv
  OBVIOUS
<1>1. Idle \in Op /\ \A r \in Req : pc[r].op = "idle"
  BY DEF Init, Idle, Op
<1>2. TypeOK
  BY <1>1, EmptySeq DEF Init, TypeOK
<1>3. \A r \in Req : ~Waits(r) /\ ~Open(r)
  BY <1>1 DEF Waits, Open
<1>4. WaitersAreWaiting
  BY <1>1 DEF Init, WaitersAreWaiting
<1>5. DOMAIN events = {} /\ \A s \in Sw : DOMAIN wire[s] = {}
  BY DEF Init
<1>6. Lines
  BY <1>3, <1>5 DEF Lines, Once, Known, OwnXids
<1>7. Conns
  BY <1>3, <1>5, FS_EmptySet DEF Init, Conns
<1>8. Visits
  BY <1>3 DEF Visits
<1> QED
  BY <1>2, <1>4, <1>6, <1>7, <1>8 DEF IInv

\* Connections that come and go keep the invariant.
LEMMA SwitchOK ==
  ASSUME IInv, NEW s \in Sw, SwitchUp(s) \/ SwitchDown(s) \/ Receive(s)
  PROVE  IInv'
<1>1. TypeOK /\ TypeOK' /\ Lines /\ Conns
  BY SwitchType DEF IInv
<1>2. UNCHANGED <<ofs, waiters, xid, pc>>
  BY DEF SwitchUp, SwitchDown, Receive
<1>3. WaitersAreWaiting' /\ Visits'
  BY <1>2 DEF IInv, WaitersAreWaiting, Visits, VisitOK, Waits
<1>4. CASE SwitchUp(s)
  <2> DEFINE m == [sw |-> s, conn |-> conns + 1, enter |-> TRUE]
  <2>1. /\ m \in EventDP /\ m.conn = conns + 1 /\ conns' = conns + 1
        /\ events' = Append(events, m) /\ UNCHANGED wire
    BY <1>1, <1>4 DEF SwitchUp, EventDP, TypeOK
  <2> HIDE DEF m
  <2>2. Lines'
    BY <1>1, <1>2, <2>1, LinesOfLost
  <2>3. Conns'
    BY <1>1, <1>2, <2>1, ConnsOfPost
  <2> QED
    BY <1>1, <1>3, <2>2, <2>3 DEF IInv
<1>5. CASE SwitchDown(s)
  <2> DEFINE m == [sw |-> s, conn |-> up[s], enter |-> FALSE]
  <2>1. m \in EventDP /\ ~Enters(m) /\ conns' = conns /\ events' = Append(events, m)
    BY <1>1, <1>5 DEF SwitchDown, EventDP, TypeOK, Enters
  <2>2. \A d \in Sw : wire'[d] \in {wire[d], <<>>}
    BY <1>1, <1>5 DEF SwitchDown, TypeOK
  <2> HIDE DEF m
  <2>3. Lines'
    BY <1>1, <1>2, <2>1, <2>2, LinesOfLost
  <2>4. Conns'
    BY <1>1, <1>2, <2>1, ConnsOfPost
  <2> QED
    BY <1>1, <1>3, <2>3, <2>4 DEF IInv
<1>6. CASE Receive(s)
  <2>1. Lines'
    BY <1>1, <1>6, LinesOfReceive
  <2>2. Head(wire[s]) \in Part
    BY <1>1, <1>6, TailPlaces DEF Receive, TypeOK
  <2>3. /\ ~Enters(Head(wire[s])) /\ conns' = conns
        /\ events' = Append(events, Head(wire[s]))
    BY <1>6, <2>2, Kinds DEF Receive, Enters
  <2>4. Conns'
    BY <1>1, <1>2, <2>2, <2>3, ConnsOfPost
  <2> QED
    BY <1>1, <1>3, <2>1, <2>4 DEF IInv
<1> QED
  BY <1>4, <1>5, <1>6

\* Sending a request keeps the invariant.
LEMMA AskStepOK ==
  ASSUME IInv, NEW r \in Req, AskStep(r)
  PROVE  IInv'
<1>1. TypeOK /\ Lines /\ Conns /\ Visits /\ UNCHANGED <<conns, up, events, ofs>>
  BY DEF IInv, AskStep
<1>2. PICK t \in Sw \cup {None}, e \in ofs, v \in SUBSET Entry, z \in Nat, l \in Nat :
        /\ Ask(r, WaitersBut(r), t, e, v, z, l)
        /\ t = None => /\ IsFiniteSet(v) /\ Cardinality(v) + 1 + l = z
                       /\ \A x \in v : x.conn < e.conn
                       /\ \A x \in ofs : x.conn <= e.conn => x \in v \cup {e}
  BY DEF AskStep
<1>3. e \in Entry
  BY <1>1 DEF TypeOK
<1>4. TypeOK' /\ WaitersAreWaiting'
  BY <1>1, <1>2, <1>3, AskOK
<1>5. Lines'
  BY <1>1, <1>2, <1>3, LinesOfAsk
<1>6. Conns' /\ Visits'
  BY <1>1, <1>2, VisitsOfAsk
<1> QED
  BY <1>4, <1>5, <1>6 DEF IInv

\* Leaving send_stats_request keeps the invariant.
LEMMA LeaveStepOK ==
  ASSUME IInv, NEW r \in Req, LeaveStep(r)
  PROVE  IInv'
<1>1. \A q \in Req : Waits(q)' => Waits(q) /\ pc'[q] = pc[q]
  BY DEF IInv, TypeOK, LeaveStep, Waits, Idle
<1>2. UNCHANGED <<conns, wire, events, ofs, xid>>
  BY DEF LeaveStep
<1>3. Lines'
  BY <1>1, <1>2, LinesOfFewer DEF IInv
<1>4. Conns' /\ Visits'
  BY <1>1, <1>2, VisitsOfFewer DEF IInv
<1> QED
  BY <1>3, <1>4, LeaveOK DEF IInv

\* Waiting on keeps the invariant.
LEMMA WaitOnStepOK ==
  ASSUME IInv, NEW r \in Req, WaitOn(r)
  PROVE  IInv'
<1>1. \A q \in Req : Waits(q)' =>
        /\ Waits(q) /\ pc'[q].xid = pc[q].xid /\ pc'[q].at = pc[q].at
        /\ pc'[q].msgs = pc[q].msgs /\ pc'[q].set = pc[q].set /\ pc'[q].target = pc[q].target
        /\ pc'[q].visited = pc[q].visited /\ pc'[q].size = pc[q].size /\ pc'[q].left = pc[q].left
  <2>1. /\ Waits(r) /\ pc' = [pc EXCEPT ![r] = [@ EXCEPT !.seen = Len(pc[r].msgs)]]
        /\ pc \in [Req -> Op]
    BY DEF WaitOn, Waits, IInv, TypeOK
  <2>2. pc'[r] = [pc[r] EXCEPT !.seen = Len(pc[r].msgs)] /\ \A q \in Req \ {r} : pc'[q] = pc[q]
    BY <2>1
  <2>3. pc[r] \in [op : {"wait"}, target : Sw \cup {None}, at : Entry, xid : Nat,
                   seen : Nat, set : BOOLEAN, msgs : Seq(Part), visited : SUBSET Entry,
                   size : Nat, left : Nat]
    BY <2>1, WaitType DEF IInv
  <2> QED
    BY <2>1, <2>2, <2>3 DEF Waits
<1>2. UNCHANGED <<conns, wire, events, ofs, xid>>
  BY DEF WaitOn
<1>3. Lines'
  BY <1>1, <1>2, LinesOfFewer DEF IInv
<1>4. Conns' /\ Visits'
  BY <1>1, <1>2, VisitsOfFewer DEF IInv
<1> QED
  BY <1>3, <1>4, WaitOnOK DEF IInv

\* The event loop keeps the invariant.
LEMMA HandleStepOK ==
  ASSUME IInv, HandleEvent
  PROVE  IInv'
<1> DEFINE m == Head(events)
<1>1. /\ TypeOK /\ Lines /\ Conns /\ Visits /\ WaitersAreWaiting
      /\ events # <<>> /\ events' = Tail(events) /\ UNCHANGED <<conns, up, wire, xid>>
  BY DEF IInv, HandleEvent
<1>2. m \in Part \cup EventDP
  BY <1>1, TailPlaces DEF TypeOK
<1>3. /\ pc' = [r \in Req |-> IF m \in Part /\ Takes(r, m) THEN Deliver(pc[r], m) ELSE pc[r]]
      /\ ofs' \subseteq ofs \/ (Enters(m) /\ ofs' = ofs \cup {[sw |-> m.sw, conn |-> m.conn]})
  <2>1. CASE m \in Part
    <3>1. StatsReplyHandler(m)
      BY <2>1, Kinds DEF HandleEvent
    <3>2. pc' = [r \in Req |-> IF Takes(r, m) THEN Deliver(pc[r], m) ELSE pc[r]] /\ ofs' = ofs
      BY <2>1, <3>1, ReplyStep
    <3> QED
      BY <2>1, <3>2
  <2>2. CASE m \in EventDP
    <3>1. HandlerDatapath(m) /\ m \notin Part
      BY <2>2, Kinds DEF HandleEvent
    <3>2. pc' = [r \in Req |-> pc[r]]
      BY <1>1, <3>1 DEF HandlerDatapath, TypeOK
    <3>3. ofs' \subseteq ofs \/ (Enters(m) /\ ofs' = ofs \cup {[sw |-> m.sw, conn |-> m.conn]})
      BY <2>2, <3>1 DEF HandlerDatapath, Enters, EventDP
    <3> QED
      BY <3>1, <3>2, <3>3
  <2> QED
    BY <1>2, <2>1, <2>2
<1> HIDE DEF m
<1>4. Lines'
  BY <1>1, <1>3, LinesOfTake DEF m
<1>5. ASSUME NEW q \in Req, Waits(q)'
      PROVE  /\ Waits(q) /\ pc'[q].at = pc[q].at /\ pc'[q].target = pc[q].target
             /\ pc'[q].visited = pc[q].visited /\ pc'[q].size = pc[q].size /\ pc'[q].left = pc[q].left
  <2>1. CASE m \in Part /\ Takes(q, m)
    <3>1. pc'[q] = Deliver(pc[q], m) /\ Waits(q)
      BY <1>3, <2>1 DEF Takes, Open
    <3> QED
      BY <1>1, <2>1, <3>1, DeliverOK
  <2>2. CASE ~(m \in Part /\ Takes(q, m))
    <3>1. pc'[q] = pc[q]
      BY <1>3, <2>2
    <3> QED
      BY <1>5, <3>1 DEF Waits
  <2> QED
    BY <2>1, <2>2
<1>6. Conns' /\ Visits'
  BY <1>1, <1>3, <1>5, VisitsOfTake DEF m
<1> QED
  BY <1>4, <1>6, HandleEventOK DEF IInv

\* Every step preserves the invariant.
LEMMA NextOK == IInv /\ [Next]_vars => IInv'
<1> SUFFICES ASSUME IInv, [Next]_vars PROVE IInv'
  OBVIOUS
<1>1. CASE UNCHANGED vars
  <2>1. UNCHANGED <<conns, up, wire, events, ofs, waiters, xid, pc>>
    BY <1>1 DEF vars
  <2>2. Lines' /\ Conns' /\ Visits'
    BY <2>1, LinesOfFewer, VisitsOfFewer DEF IInv, Waits
  <2> QED
    BY <2>1, <2>2 DEF IInv, TypeOK, WaitersAreWaiting
<1>2. ASSUME NEW s \in Sw, SwitchUp(s) \/ SwitchDown(s) \/ Receive(s) PROVE IInv'
  BY <1>2, SwitchOK
<1>3. ASSUME NEW r \in Req, GetAll(r) \/ AskNext(r) \/ \E s \in Sw : GetOne(r, s) PROVE IInv'
  BY <1>3, GetAllIsAsk, GetOneIsAsk, AskNextIsAsk, AskStepOK
<1>4. ASSUME NEW r \in Req, Finish(r) \/ FinishRaises(r) PROVE IInv'
  BY <1>4, FinishIsLeave, LeaveStepOK
<1>5. ASSUME NEW r \in Req, WaitOn(r) PROVE IInv'
  BY <1>5, WaitOnStepOK
<1>6. CASE HandleEvent
  BY <1>6, HandleStepOK
<1> QED
  BY <1>1, <1>2, <1>3, <1>4, <1>5, <1>6 DEF Next

\* The invariant holds throughout.
THEOREM Invariant == Spec => []IInv
BY InitOK, NextOK, PTL DEF Spec

\* Every variable keeps its type; what an iterator has left never goes below zero.
THEOREM TypeCorrect == Spec => []TypeOK
<1>1. IInv => TypeOK
  BY DEF IInv
<1> QED
  BY <1>1, Invariant, PTL

\* The locks in the table are those of the requests that wait.
THEOREM LocksAreOfWaiters == Spec => []WaitersAreWaiting
<1>1. IInv => WaitersAreWaiting
  BY DEF IInv
<1> QED
  BY <1>1, Invariant, PTL

\* What a request has is the beginning of the reply to it, in order.
THEOREM OwnAnswer == Spec => []AnswerIsOwnReply
<1>1. ASSUME IInv PROVE AnswerIsOwnReply
  <2>1. ASSUME NEW r \in Req, Waits(r), NEW i \in DOMAIN pc[r].msgs
        PROVE  pc[r].msgs[i].xid = pc[r].xid /\ pc[r].msgs[i].part = i
    <3>1. DOMAIN pc[r].msgs = 1..Len(pc[r].msgs)
      BY <1>1, <2>1, WaitType, LenProperties DEF IInv
    <3>2. ListOK(r)
      BY <1>1, <2>1 DEF IInv, Lines
    <3> QED
      BY <2>1, <3>1, <3>2 DEF ListOK
  <2> QED
    BY <2>1 DEF AnswerIsOwnReply, Waits
<1> QED
  BY <1>1, Invariant, PTL

\* A lock that is set comes with a complete answer.
THEOREM CompleteWhenSet == Spec => []SetMeansComplete
<1>1. ASSUME IInv PROVE SetMeansComplete
  <2>1. ASSUME NEW r \in Req, Waits(r), pc[r].set
        PROVE  LET k == Len(pc[r].msgs)
               IN  /\ k > 0 /\ pc[r].msgs[k].part = k
                   /\ \A i \in 1..k : pc[r].msgs[i].more <=> i < k
    <3> DEFINE k == Len(pc[r].msgs)
    <3>1. ListOK(r) /\ k \in Nat
      BY <1>1, <2>1, WaitType, LenProperties DEF IInv, Lines
    <3>2. k > 0 /\ ~pc[r].msgs[k].more /\ k \in 1..k
      BY <2>1, <3>1 DEF ListOK
    <3>3. \A i \in 1..k : pc[r].msgs[i].part = i /\ (i < k => pc[r].msgs[i].more)
      BY <3>1 DEF ListOK
    <3>4. \A i \in 1..k : i < k \/ i = k
      BY <3>1
    <3> QED
      BY <3>2, <3>3, <3>4
  <2> QED
    BY <2>1 DEF SetMeansComplete, Waits
<1> QED
  BY <1>1, Invariant, PTL

\* A request for all switches that succeeds has asked those that are registered
\* when it ends: it went through all of them, and through no more than that.
THEOREM AllAsked == Spec => AllMeansAll
<1>1. ASSUME IInv, NEW r \in Req, Finish(r), pc[r].target = None
      PROVE  pc[r].visited \cup {pc[r].at} = ofs
  <2> DEFINE V == pc[r].visited \cup {pc[r].at}
  <2>1. Waits(r) /\ ~SizeChanged(r) /\ Rest(r) = {}
    BY <1>1 DEF Finish, Ready, AllVisited, Waits
  <2>2. VisitOK(r) /\ pc[r].at \in Entry /\ pc[r].visited \in SUBSET Entry /\ pc[r].left \in Nat
    BY <1>1, <2>1, WaitType DEF IInv, Visits
  <2>3. ofs \subseteq V
    <3>1. \A e \in ofs : e.conn \in Nat /\ pc[r].at.conn \in Nat
      BY <1>1, <2>2 DEF IInv, TypeOK, Entry
    <3>2. \A e \in ofs : e.conn <= pc[r].at.conn
      BY <2>1, <3>1 DEF Rest
    <3> QED
      BY <2>2, <3>2 DEF VisitOK
  <2>4. IsFiniteSet(V) /\ Cardinality(V) = Cardinality(pc[r].visited) + 1
    <3>1. pc[r].at \notin pc[r].visited
      BY <2>2 DEF VisitOK, Entry
    <3> QED
      BY <2>2, <3>1, FS_AddElement DEF VisitOK
  <2>5. Cardinality(V) <= Cardinality(ofs)
    <3>1. Cardinality(pc[r].visited) \in Nat
      BY <2>2, FS_CardinalityType DEF VisitOK
    <3> QED
      BY <2>1, <2>2, <2>4, <3>1 DEF VisitOK, SizeChanged
  <2>6. Cardinality(ofs) <= Cardinality(V) /\ (Cardinality(V) = Cardinality(ofs) => V = ofs)
    BY <2>3, <2>4, FS_Subset
  <2>7. Cardinality(V) \in Nat /\ Cardinality(ofs) \in Nat
    BY <1>1, <2>4, FS_CardinalityType DEF IInv, Conns
  <2> QED
    BY <2>5, <2>6, <2>7
<1>2. IInv => [\A r \in Req : Finish(r) /\ pc[r].target = None
                               => pc[r].visited \cup {pc[r].at} = ofs]_vars
  BY <1>1
<1> QED
  BY <1>2, Invariant, PTL DEF AllMeansAll

-----------------------------------------------------------------------------
(* The end of a request.                                                   *)

\* A request that waits goes on in a bounded number of steps: each either ends
\* it, or goes to one switch fewer, or waits a second more for one of the parts
\* a reply can have, or adds such a part.  Progress of switches that answer
\* slowly, late or twice cannot keep it waiting: EveryRequestEnds rests on it.
EveryStepCounts ==
  [][\A r \in Req : pc[r].op = "wait" /\ pc'[r] # pc[r] =>
       \/ pc'[r] = Idle
       \/ pc'[r].left < pc[r].left
       \/ pc'[r].left = pc[r].left /\ pc'[r].seen > pc[r].seen /\ pc'[r].seen <= MaxParts
       \/ /\ pc'[r].left = pc[r].left /\ pc'[r].seen = pc[r].seen
          /\ Len(pc'[r].msgs) = Len(pc[r].msgs) + 1 /\ Len(pc'[r].msgs) <= MaxParts]_vars

\* One step of r.
Counts(r) ==
  \/ pc'[r] = Idle
  \/ pc'[r].left < pc[r].left
  \/ pc'[r].left = pc[r].left /\ pc'[r].seen > pc[r].seen /\ pc'[r].seen <= MaxParts
  \/ /\ pc'[r].left = pc[r].left /\ pc'[r].seen = pc[r].seen
     /\ Len(pc'[r].msgs) = Len(pc[r].msgs) + 1 /\ Len(pc'[r].msgs) <= MaxParts

\* Waiting on is for a part more.
LEMMA WaitOnCounts ==
  ASSUME IInv, NEW r \in Req, WaitOn(r)
  PROVE  Counts(r)
<1> DEFINE k == Len(pc[r].msgs)
<1>1. /\ Waits(r) /\ pc' = [pc EXCEPT ![r] = [@ EXCEPT !.seen = k]]
      /\ pc \in [Req -> Op] /\ k > pc[r].seen
  BY DEF WaitOn, Waits, IInv, TypeOK
<1>2. pc[r] \in [op : {"wait"}, target : Sw \cup {None}, at : Entry, xid : Nat,
                 seen : Nat, set : BOOLEAN, msgs : Seq(Part), visited : SUBSET Entry,
                 size : Nat, left : Nat]
  BY <1>1, WaitType DEF IInv
<1>3. pc'[r].seen = k /\ pc'[r].left = pc[r].left
  BY <1>1, <1>2
<1>4. k \in Nat /\ \A i \in 1..k : pc[r].msgs[i] \in Part
  BY <1>2, LenProperties, ElementOfSeq
<1>5. k \in 1..k
  BY <1>1, <1>2, <1>4
<1>6. pc[r].msgs[k].part = k
  BY <1>1, <1>5 DEF IInv, Lines, ListOK
<1>7. k <= MaxParts
  BY <1>4, <1>5, <1>6, BoundAssumption DEF Part
<1> QED
  BY <1>1, <1>3, <1>7 DEF Counts

\* The next switch is one fewer.
LEMMA AskNextCounts ==
  ASSUME IInv, NEW r \in Req, AskNext(r)
  PROVE  Counts(r)
<1>1. Waits(r)
  BY DEF AskNext, Ready, Waits
<1>2. pc[r].left \in Nat
  BY <1>1, WaitType DEF IInv
<1>3. pc'[r].left = pc[r].left - 1
  BY DEF AskNext, Ask, Waiting, IInv, TypeOK
<1> QED
  BY <1>2, <1>3 DEF Counts

\* The event loop hands out parts, to each request the next one.
LEMMA HandleCounts ==
  ASSUME IInv, NEW r \in Req, HandleEvent, Waits(r), pc'[r] # pc[r]
  PROVE  Counts(r)
<1> DEFINE m == Head(events)
<1>1. /\ m \in Part \cup EventDP /\ m = events[1] /\ 1 \in DOMAIN events
  BY TailPlaces DEF HandleEvent, IInv, TypeOK
<1>2. m \in Part
  <2>1. CASE m \in EventDP
    BY <1>1, <2>1, Kinds DEF HandleEvent, HandlerDatapath
  <2> QED
    BY <1>1, <2>1
<1> HIDE DEF m
<1>3. StatsReplyHandler(m)
  BY <1>2, Kinds DEF HandleEvent, m
<1>4. Takes(r, m) /\ pc'[r] = Deliver(pc[r], m)
  BY <1>2, <1>3, ReplyStep
<1>5. m.part = Len(pc[r].msgs) + 1
  <2>1. Piece(events[1], pc[r].xid) /\ LineOK(r)
    BY <1>1, <1>2, <1>4 DEF Piece, IInv, Lines, Takes
  <2>2. ~Behind(events, 1)
    BY DEF Behind
  <2> QED
    BY <1>1, <2>1, <2>2 DEF LineOK
<1>6. m.part <= MaxParts
  BY <1>2, BoundAssumption DEF Part
<1>7. /\ Len(pc'[r].msgs) = Len(pc[r].msgs) + 1
      /\ pc'[r].left = pc[r].left /\ pc'[r].seen = pc[r].seen
  BY <1>2, <1>4, DeliverOK DEF IInv
<1> QED
  BY <1>5, <1>6, <1>7 DEF Counts

\* Every step of a request brings its end nearer.
THEOREM RequestsProgress == Spec => EveryStepCounts
<1>1. ASSUME IInv, [Next]_vars, NEW r \in Req, Waits(r), pc'[r] # pc[r] PROVE Counts(r)
  <2>0. pc \in [Req -> Op]
    BY <1>1 DEF IInv, TypeOK
  <2>1. CASE UNCHANGED pc
    BY <1>1, <2>1
  <2>2. ASSUME NEW q \in Req, GetAll(q) \/ \E s \in Sw : GetOne(q, s) PROVE Counts(r)
    <3>1. q # r
      BY <1>1, <2>2 DEF GetAll, GetOne, Waits
    <3> QED
      BY <1>1, <2>0, <2>2, <3>1 DEF GetAll, GetOne, Ask
  <2>3. ASSUME NEW q \in Req, WaitOn(q) \/ Finish(q) \/ FinishRaises(q) \/ AskNext(q)
        PROVE  Counts(r)
    <3>1. CASE q # r
      BY <1>1, <2>0, <2>3, <3>1 DEF WaitOn, Finish, FinishRaises, AskNext, Ask
    <3>2. CASE q = r /\ (Finish(r) \/ FinishRaises(r))
      BY <2>0, <3>2 DEF Finish, FinishRaises, Counts
    <3> QED
      BY <1>1, <2>3, <3>1, <3>2, WaitOnCounts, AskNextCounts
  <2>4. CASE HandleEvent
    BY <1>1, <2>4, HandleCounts
  <2> QED
    BY <1>1, <2>1, <2>2, <2>3, <2>4 DEF Next, SwitchUp, SwitchDown, Receive, vars
<1>2. IInv /\ [Next]_vars =>
        [\A r \in Req : pc[r].op = "wait" /\ pc'[r] # pc[r] =>
           \/ pc'[r] = Idle
           \/ pc'[r].left < pc[r].left
           \/ pc'[r].left = pc[r].left /\ pc'[r].seen > pc[r].seen /\ pc'[r].seen <= MaxParts
           \/ /\ pc'[r].left = pc[r].left /\ pc'[r].seen = pc[r].seen
              /\ Len(pc'[r].msgs) = Len(pc[r].msgs) + 1 /\ Len(pc'[r].msgs) <= MaxParts]_vars
  BY <1>1 DEF Counts, Waits
<1> QED
  BY <1>2, Invariant, PTL DEF Spec, EveryStepCounts
=============================================================================
