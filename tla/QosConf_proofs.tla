---------------------------- MODULE QosConf_proofs ----------------------------
(***************************************************************************)
(* Theorems about QosConf, for any number of requests, addresses, ports,   *)
(* connections and queues.                                                 *)
(*                                                                         *)
(* The invariant says that the PUT requests in the queue are in the order  *)
(* of their numbers, and later than the one the event loop is at and than  *)
(* those any QoS object has (Ordered), and that what a request is about to *)
(* record of a tunnel port is in the OVSDB (Commands).                     *)
(***************************************************************************)
EXTENDS QosConf, SequenceTheorems, FiniteSetTheorems, TLAPS

\* The events of connections that wait in the queue have room among the objects.
Entering == {i \in DOMAIN events : events[i].ev = "enter"}
Room == IsFiniteSet(Entering) /\ Len(objs) + Cardinality(Entering) <= MaxObj

\* Numbers that are in use are of PUT requests that were made.
Known ==
  /\ loop <= puts
  /\ \A i \in DOMAIN objs : objs[i].put <= puts /\ (objs[i].on => objs[i].put # 0)
  /\ \A i \in DOMAIN events : events[i].ev = "set" => events[i].put <= puts

\* A request works on an object and on the bridge of a PUT that was made.
Serving == \A r \in Req : pc[r] # Idle => pc[r].obj \in DOMAIN objs /\ pc[r].b <= puts

\* PUT requests are worked off in their order.
Ordered ==
  /\ \A i \in DOMAIN events : events[i].ev = "set" =>
       /\ loop < events[i].put
       /\ \A o \in DOMAIN objs : objs[o].put < events[i].put
       /\ \A j \in DOMAIN events : i < j /\ events[j].ev = "set" => events[i].put < events[j].put
  /\ loop # 0 => \A o \in DOMAIN objs : objs[o].put < loop

\* One of the objects has the latest address that ever took effect.
HasLatest(n) == /\ \E i \in DOMAIN objs : objs[i].put = n
                /\ \A i \in DOMAIN objs : objs[i].put <= n
Latest == objs # <<>> => \E n \in 0..MaxPut : HasLatest(n)

\* A request that is deleting queues is at no tunnel port; one that has set them
\* at a tunnel port finds them in the OVSDB when it records them.
Enough(p, k) == \E a \in Addr : db[a][p] >= k
Commands ==
  \A r \in Req :
    /\ pc[r].op \in {"port", "reload"} /\ pc[r].job = "del"
         => pc[r].port \notin Tunnel /\ pc[r].todo \cap Tunnel = {}
    /\ pc[r].op = "reload" /\ pc[r].job = "set" /\ pc[r].port \in Tunnel
         => Enough(pc[r].port, pc[r].k)

IInv == /\ TypeOK /\ Room /\ Known /\ Serving /\ Ordered /\ Latest
        /\ Commands /\ QueuesShownExist

-----------------------------------------------------------------------------
(* Records and queues.                                                     *)

\* The events of a queue, and one more.
LEMMA AppendPlaces ==
  ASSUME NEW S, NEW q \in Seq(S), NEW x \in S
  PROVE  /\ Append(q, x) \in Seq(S) /\ Len(q) \in Nat /\ Len(Append(q, x)) = Len(q) + 1
         /\ DOMAIN q = 1..Len(q) /\ DOMAIN Append(q, x) = 1..Len(q) + 1
         /\ \A i \in 1..Len(q) : Append(q, x)[i] = q[i]
         /\ Append(q, x)[Len(q) + 1] = x
BY AppendProperties, LenProperties

\* The head of a queue, and the places behind it.
LEMMA TailPlaces ==
  ASSUME NEW S, NEW q \in Seq(S), q # <<>>
  PROVE  /\ Tail(q) \in Seq(S) /\ Head(q) \in S /\ Head(q) = q[1]
         /\ Len(q) \in Nat \ {0} /\ DOMAIN q = 1..Len(q) /\ DOMAIN Tail(q) = 1..Len(q) - 1
         /\ \A i \in 1..Len(q) : q[i] \in S
         /\ \A i \in 1..Len(q) - 1 : Tail(q)[i] = q[i + 1]
<1>1. /\ Tail(q) \in Seq(S) /\ Head(q) \in S /\ Head(q) = q[1]
      /\ Len(q) \in Nat \ {0} /\ DOMAIN q = 1..Len(q) /\ Len(Tail(q)) = Len(q) - 1
      /\ \A i \in 1..Len(q) - 1 : Tail(q)[i] = q[i + 1]
  BY HeadTailProperties, EmptySeq, LenProperties
<1>2. DOMAIN Tail(q) = 1..Len(q) - 1
  BY <1>1, LenProperties
<1> QED
  BY <1>1, <1>2, ElementOfSeq

\* The events in the queue; only PUT events have a number.
LEMMA EventFields ==
  ASSUME TypeOK
  PROVE  /\ Len(events) \in Nat /\ DOMAIN events = 1..Len(events)
         /\ \A i \in DOMAIN events : /\ events[i] \in Event
                                     /\ events[i].ev \in {"set", "del", "enter", "leave"}
                                     /\ events[i].ev = "set" => events[i].put \in 1..MaxPut
<1>1. events \in Seq(Event)
  BY DEF TypeOK
<1>2. Len(events) \in Nat /\ DOMAIN events = 1..Len(events) /\ \A i \in DOMAIN events : events[i] \in Event
  BY <1>1, LenProperties, ElementOfSeq
<1>3. ASSUME NEW m \in Event
      PROVE  m.ev \in {"set", "del", "enter", "leave"} /\ (m.ev = "set" => m.put \in 1..MaxPut)
  BY DEF Event
<1> QED
  BY <1>2, <1>3

\* The QoS objects.
LEMMA ObjFields ==
  ASSUME TypeOK
  PROVE  /\ Len(objs) \in Nat /\ DOMAIN objs = 1..Len(objs)
         /\ \A o \in DOMAIN objs : /\ objs[o] \in QoS /\ objs[o].put \in 0..MaxPut
                                   /\ objs[o].on \in BOOLEAN /\ objs[o].list \in [Port -> 0..MaxQ]
<1>1. objs \in Seq(QoS)
  BY DEF TypeOK
<1>2. Len(objs) \in Nat /\ DOMAIN objs = 1..Len(objs) /\ \A o \in DOMAIN objs : objs[o] \in QoS
  BY <1>1, LenProperties, ElementOfSeq
<1> QED
  BY <1>2 DEF QoS

\* One of the QoS objects is changed.
LEMMA ObjChanged ==
  ASSUME TypeOK, NEW o \in DOMAIN objs, NEW q \in QoS, objs' = [objs EXCEPT ![o] = q]
  PROVE  /\ objs' \in Seq(QoS) /\ Len(objs') = Len(objs) /\ DOMAIN objs' = DOMAIN objs
         /\ objs'[o] = q /\ \A i \in DOMAIN objs \ {o} : objs'[i] = objs[i]
<1>1. objs \in Seq(QoS)
  BY DEF TypeOK
<1>2. objs' \in Seq(QoS) /\ Len(objs') = Len(objs)
  BY <1>1, ExceptSeq, ObjFields
<1> QED
  BY <1>1, <1>2, ObjFields, LenProperties

\* What a greenlet is doing.
LEMMA OpFields ==
  ASSUME TypeOK, NEW r \in Req
  PROVE  /\ pc[r] \in Op /\ pc[r].op \in {"idle", "list", "port", "reload"}
         /\ pc[r].op = "idle" <=> pc[r] = Idle
         /\ pc[r] # Idle => /\ pc[r].job \in {"set", "del"} /\ pc[r].obj \in 1..MaxObj
                            /\ pc[r].b \in 1..MaxPut /\ pc[r].k \in 0..MaxQ
         /\ pc[r].op \in {"port", "reload"} =>
              /\ pc[r].port \in Port /\ pc[r].todo \in SUBSET Port
              /\ pc[r] \in [op : {"port", "reload"}, job : {"set", "del"}, obj : 1..MaxObj,
                            b : 1..MaxPut, port : Port, todo : SUBSET Port, k : 0..MaxQ]
<1>1. pc[r] \in Op
  BY DEF TypeOK
<1>2. CASE pc[r] \in [op : {"idle"}]
  BY <1>1, <1>2 DEF Idle
<1>3. CASE pc[r] \in [op : {"list"}, job : {"set", "del"}, obj : 1..MaxObj, b : 1..MaxPut,
                      asked : Port \cup {AnyPort}, k : 0..MaxQ]
  BY <1>1, <1>3 DEF Idle
<1>4. CASE pc[r] \in [op : {"port", "reload"}, job : {"set", "del"}, obj : 1..MaxObj,
                      b : 1..MaxPut, port : Port, todo : SUBSET Port, k : 0..MaxQ]
  BY <1>1, <1>4 DEF Idle
<1> QED
  BY <1>1, <1>2, <1>3, <1>4 DEF Op

\* The bridge of a request leads to the ports of an address.
LEMMA BridgePorts ==
  ASSUME IInv, NEW r \in Req, pc[r] # Idle
  PROVE  addrOf[pc[r].b] \in Addr /\ PortsAt[addrOf[pc[r].b]] \in SUBSET Port
<1>1. TypeOK /\ pc[r].b \in 1..MaxPut /\ pc[r].b <= puts
  BY OpFields DEF IInv, Serving
<1>2. addrOf[pc[r].b] \in Addr
  BY <1>1 DEF TypeOK
<1> QED
  BY <1>2, AddrAssumption

-----------------------------------------------------------------------------
(* The queue of events.                                                    *)

\* The queue as it is (k = 0), or after its head was taken (k = 1).
Advances(k) ==
  /\ DOMAIN events' = 1..Len(events) - k
  /\ \A i \in DOMAIN events' : events'[i] = events[i + k]

\* The objects have the addresses they had, save that bridges may go.
KeepsObjs ==
  /\ DOMAIN objs' = DOMAIN objs /\ Len(objs') = Len(objs)
  /\ \A o \in DOMAIN objs : objs'[o].put = objs[o].put /\ (objs'[o].on => objs[o].on)

\* Nothing was taken.
LEMMA StaysAdvances ==
  ASSUME TypeOK, UNCHANGED events
  PROVE  Advances(0)
BY EventFields DEF Advances

\* An event was taken.
LEMMA TakeAdvances ==
  ASSUME TypeOK, NEW kind, Take(kind)
  PROVE  /\ Advances(1) /\ events' \in Seq(Event) /\ loop = 0
         /\ 1 \in DOMAIN events /\ Head(events) = events[1] /\ events[1].ev = kind
<1>1. events \in Seq(Event) /\ events # <<>> /\ events' = Tail(events) /\ loop = 0
      /\ Head(events).ev = kind
  BY DEF Take, TypeOK
<1> QED
  BY <1>1, TailPlaces, EventFields DEF Advances

\* Events taken make room.
LEMMA RoomAdvances ==
  ASSUME TypeOK, Room, NEW k \in {0, 1}, Advances(k)
  PROVE  /\ IsFiniteSet(Entering') /\ Cardinality(Entering') \in Nat /\ Cardinality(Entering) \in Nat
         /\ Cardinality(Entering') <= Cardinality(Entering)
         /\ k = 1 /\ 1 \in DOMAIN events /\ events[1].ev = "enter"
              => Cardinality(Entering') < Cardinality(Entering)
<1> DEFINE E == Entering
           T == IF k = 1 THEN Entering \ {1} ELSE Entering
           F == [i \in Entering' |-> i + k]
<1>1. IsFiniteSet(E) /\ Cardinality(E) \in Nat
  BY FS_CardinalityType DEF Room
<1>2. /\ IsFiniteSet(T) /\ Cardinality(T) \in Nat /\ Cardinality(T) <= Cardinality(E)
      /\ k = 1 /\ 1 \in E => Cardinality(T) < Cardinality(E)
  <2>1. IsFiniteSet(E \ {1}) /\ Cardinality(E \ {1}) = IF 1 \in E THEN Cardinality(E) - 1 ELSE Cardinality(E)
    BY <1>1, FS_RemoveElement
  <2>2. Cardinality(E \ {1}) \in Nat
    BY <2>1, FS_CardinalityType
  <2> QED
    BY <1>1, <2>1, <2>2
<1>3. \A i \in Entering' : i \in Nat /\ i >= 1 /\ i + k \in T
  <2> SUFFICES ASSUME NEW i \in Entering' PROVE i \in Nat /\ i >= 1 /\ i + k \in T
    OBVIOUS
  <2>1. i \in 1..Len(events) - k /\ Len(events) \in Nat /\ events'[i] = events[i + k]
        /\ events'[i].ev = "enter"
    BY EventFields DEF Entering, Advances
  <2>2. i + k \in DOMAIN events
    BY <2>1, EventFields
  <2>3. i + k \in Entering
    BY <2>1, <2>2 DEF Entering
  <2> QED
    BY <2>1, <2>3
<1>4. F \in Injection(Entering', T)
  BY <1>3 DEF Injection, IsInjective
<1> HIDE DEF F, T
<1>5. IsFiniteSet(Entering') /\ Cardinality(Entering') <= Cardinality(T)
  BY <1>2, <1>4, FS_Injection
<1>6. Cardinality(Entering') \in Nat
  BY <1>5, FS_CardinalityType
<1>7. 1 \in DOMAIN events /\ events[1].ev = "enter" => 1 \in E
  BY DEF Entering
<1> QED
  BY <1>1, <1>2, <1>5, <1>6, <1>7

\* What an event posted adds.
LEMMA RoomPosted ==
  ASSUME TypeOK, Room, NEW e \in Event, events' = Append(events, e)
  PROVE  /\ IsFiniteSet(Entering') /\ Cardinality(Entering) \in Nat
         /\ Cardinality(Entering') <= Cardinality(Entering) + (IF e.ev = "enter" THEN 1 ELSE 0)
<1>1. IsFiniteSet(Entering) /\ Cardinality(Entering) \in Nat
  BY FS_CardinalityType DEF Room
<1>2. /\ Len(events) \in Nat /\ DOMAIN events = 1..Len(events)
      /\ DOMAIN events' = 1..Len(events) + 1 /\ events'[Len(events) + 1] = e
      /\ \A i \in 1..Len(events) : events'[i] = events[i]
  BY AppendPlaces DEF TypeOK
<1>3. Len(events) + 1 \notin Entering
  BY <1>2 DEF Entering
<1>4. Entering' = IF e.ev = "enter" THEN Entering \cup {Len(events) + 1} ELSE Entering
  BY <1>2 DEF Entering
<1>5. IsFiniteSet(Entering \cup {Len(events) + 1})
      /\ Cardinality(Entering \cup {Len(events) + 1}) = Cardinality(Entering) + 1
  BY <1>1, <1>3, FS_AddElement
<1> QED
  BY <1>1, <1>4, <1>5

\* Whatever was taken, and whatever bridges went, the rest is in order.
LEMMA QueueOK ==
  ASSUME IInv, NEW k \in {0, 1}, Advances(k), KeepsObjs, UNCHANGED <<loop, puts>>
  PROVE  Room' /\ Known' /\ Ordered' /\ Latest'
<1>1. TypeOK /\ Room /\ Known /\ Ordered /\ Latest
  BY DEF IInv
<1>2. Room'
  <2>1. Len(objs) \in Nat /\ Len(objs') = Len(objs)
    BY <1>1, ObjFields DEF KeepsObjs
  <2> QED
    BY <1>1, <2>1, RoomAdvances, BoundAssumption DEF Room
<1>3. \A i \in DOMAIN events' : i + k \in DOMAIN events /\ events'[i] = events[i + k] /\ i \in Nat
  BY <1>1, EventFields DEF Advances
<1>4. DOMAIN objs' = DOMAIN objs
      /\ \A o \in DOMAIN objs : objs'[o].put = objs[o].put /\ (objs'[o].on => objs[o].on)
  BY DEF KeepsObjs
<1>5. Known'
  BY <1>1, <1>3, <1>4 DEF Known
<1>6. Ordered'
  <2>1. ASSUME NEW i \in DOMAIN events', events'[i].ev = "set"
        PROVE  /\ loop' < events'[i].put
               /\ \A o \in DOMAIN objs' : objs'[o].put < events'[i].put
               /\ \A j \in DOMAIN events' : i < j /\ events'[j].ev = "set"
                    => events'[i].put < events'[j].put
    <3>1. i + k \in DOMAIN events /\ events[i + k].ev = "set" /\ events'[i] = events[i + k] /\ i \in Nat
      BY <1>3, <2>1
    <3>2. /\ loop < events[i + k].put
          /\ \A o \in DOMAIN objs : objs[o].put < events[i + k].put
          /\ \A j \in DOMAIN events : i + k < j /\ events[j].ev = "set" => events[i + k].put < events[j].put
      BY <1>1, <3>1 DEF Ordered
    <3>3. ASSUME NEW j \in DOMAIN events', i < j, events'[j].ev = "set"
          PROVE  events'[i].put < events'[j].put
      <4>1. j + k \in DOMAIN events /\ events'[j] = events[j + k] /\ j \in Nat
        BY <1>3
      <4>2. i + k < j + k
        BY <3>1, <3>3, <4>1
      <4> QED
        BY <3>1, <3>2, <3>3, <4>1, <4>2
    <3> QED
      BY <1>4, <3>1, <3>2, <3>3
  <2>2. loop' # 0 => \A o \in DOMAIN objs' : objs'[o].put < loop'
    BY <1>1, <1>4 DEF Ordered
  <2> QED
    BY <2>1, <2>2 DEF Ordered
<1>7. Latest'
  <2>1. objs' # <<>> => objs # <<>>
    BY <1>4
  <2> QED
    BY <1>1, <1>4, <2>1 DEF Latest, HasLatest
<1> QED
  BY <1>2, <1>5, <1>6, <1>7

-----------------------------------------------------------------------------
(* Configuration and connection of the switch.                             *)

\* A later PUT joins the queue at its end, or another event does.
LEMMA PostOK ==
  ASSUME IInv, TypeOK', NEW e \in Event, events' = Append(events, e), puts <= puts',
         e.ev = "set" => puts < e.put /\ e.put <= puts',
         e.ev = "enter" => Len(objs) + Cardinality(Entering) < MaxObj,
         UNCHANGED <<loop, objs, cur, db, pc>>
  PROVE  IInv'
<1>1. /\ TypeOK /\ Room /\ Known /\ Serving /\ Ordered /\ Latest /\ Commands /\ QueuesShownExist
      /\ puts \in Nat /\ puts' \in Nat
  BY BoundAssumption DEF IInv, TypeOK
<1>2. /\ Len(events) \in Nat /\ DOMAIN events = 1..Len(events)
      /\ DOMAIN events' = 1..Len(events) + 1 /\ events'[Len(events) + 1] = e
      /\ \A i \in 1..Len(events) : events'[i] = events[i]
  BY <1>1, AppendPlaces DEF TypeOK
<1>3. \A i \in DOMAIN events : events[i].ev = "set" => events[i].put \in Nat /\ events[i].put <= puts
  BY <1>1, EventFields, BoundAssumption DEF Known
<1>4. \A o \in DOMAIN objs : objs[o].put \in Nat /\ objs[o].put <= puts
  BY <1>1, ObjFields, BoundAssumption DEF Known
<1>5. loop \in Nat /\ loop <= puts
  BY <1>1, BoundAssumption DEF TypeOK, Known
<1>6. e.ev = "set" => e.put \in Nat
  BY BoundAssumption DEF Event
<1>7. Room'
  <2>1. Len(objs) \in Nat
    BY <1>1, ObjFields
  <2> QED
    BY <1>1, <2>1, RoomPosted, FS_CardinalityType, BoundAssumption DEF Room
<1>8. Known'
  <2>1. \A i \in DOMAIN events' : events'[i].ev = "set" => events'[i].put <= puts'
    BY <1>1, <1>2, <1>3
  <2> QED
    BY <1>1, <1>4, <1>5, <2>1 DEF Known
<1>9. Serving'
  <2>1. ASSUME NEW r \in Req, pc[r] # Idle PROVE pc[r].obj \in DOMAIN objs /\ pc[r].b <= puts'
    <3>1. pc[r].b \in Nat /\ pc[r].b <= puts /\ pc[r].obj \in DOMAIN objs
      BY <1>1, <2>1, OpFields, BoundAssumption DEF Serving
    <3> QED
      BY <1>1, <3>1
  <2> QED
    BY <2>1 DEF Serving
<1>10. Ordered'
  <2>1. ASSUME NEW i \in DOMAIN events', events'[i].ev = "set"
        PROVE  /\ loop < events'[i].put
               /\ \A o \in DOMAIN objs : objs[o].put < events'[i].put
               /\ \A j \in DOMAIN events' : i < j /\ events'[j].ev = "set"
                    => events'[i].put < events'[j].put
    <3>1. CASE i = Len(events) + 1
      <4>1. events'[i] = e /\ e.put \in Nat /\ puts < e.put
        BY <1>2, <1>6, <2>1, <3>1
      <4> QED
        BY <1>1, <1>2, <1>4, <1>5, <3>1, <4>1
    <3>2. CASE i \in DOMAIN events
      <4>1. events'[i] = events[i] /\ events[i].put \in Nat /\ events[i].put <= puts
        BY <1>2, <1>3, <2>1, <3>2
      <4>2. /\ loop < events[i].put
            /\ \A o \in DOMAIN objs : objs[o].put < events[i].put
            /\ \A j \in DOMAIN events : i < j /\ events[j].ev = "set" => events[i].put < events[j].put
        BY <1>1, <2>1, <3>2, <4>1 DEF Ordered
      <4>3. ASSUME NEW j \in DOMAIN events', i < j, events'[j].ev = "set"
            PROVE  events'[i].put < events'[j].put
        <5>1. CASE j = Len(events) + 1
          BY <1>1, <1>2, <1>6, <4>1, <4>3, <5>1
        <5>2. CASE j \in DOMAIN events
          BY <1>2, <4>1, <4>2, <4>3, <5>2
        <5> QED
          BY <1>2, <5>1, <5>2
      <4> QED
        BY <4>1, <4>2, <4>3
    <3> QED
      BY <1>2, <3>1, <3>2
  <2> QED
    BY <1>1, <2>1 DEF Ordered
<1>11. Latest' /\ Commands' /\ QueuesShownExist'
  BY <1>1 DEF Latest, HasLatest, Commands, Enough, QueuesShownExist
<1> QED
  BY <1>7, <1>8, <1>9, <1>10, <1>11 DEF IInv

\* The type of the queue that an event joins.
LEMMA PostType ==
  ASSUME TypeOK, NEW e \in Event, Post(e)
  PROVE  events' \in Seq(Event) /\ events' = Append(events, e)
BY AppendPlaces DEF Post, TypeOK

\* A PUT is the latest there is.
LEMMA SetKeyOK ==
  ASSUME IInv, NEW a \in Addr, SetKey(a)
  PROVE  IInv'
<1>1. TypeOK /\ puts \in Nat /\ puts' = puts + 1 /\ puts' \in 1..MaxPut
  BY BoundAssumption DEF IInv, TypeOK, SetKey
<1> DEFINE e == [ev |-> "set", put |-> puts']
<1>2. e \in Event /\ e.ev = "set" /\ e.put = puts'
  BY <1>1 DEF Event
<1>3. events' = Append(events, e) /\ events' \in Seq(Event)
  BY <1>1, <1>2, PostType DEF SetKey
<1>4. /\ addrOf' \in [1..MaxPut -> Addr \cup {NoAddr}]
      /\ \A n \in 1..MaxPut : addrOf'[n] \in Addr <=> n <= puts'
  BY <1>1 DEF SetKey, TypeOK
<1>5. TypeOK' /\ UNCHANGED <<loop, objs, cur, db, pc>>
  BY <1>1, <1>3, <1>4 DEF TypeOK, SetKey, objVars
<1> HIDE DEF e
<1> QED
  BY <1>1, <1>2, <1>3, <1>5, PostOK

\* The other events say nothing of addresses.
LEMMA ConfOK ==
  ASSUME IInv, DelKey \/ DelDpid \/ Enter \/ Leave
  PROVE  IInv'
<1>1. TypeOK /\ puts \in Nat
  BY BoundAssumption DEF IInv, TypeOK
<1>2. CASE DelKey
  <2> DEFINE e == [ev |-> "del"]
  <2>1. e \in Event /\ e.ev = "del"
    BY DEF Event
  <2>2. events' = Append(events, e) /\ events' \in Seq(Event)
    BY <1>1, <1>2, <2>1, PostType DEF DelKey
  <2>3. TypeOK' /\ UNCHANGED <<loop, objs, cur, db, pc, puts>>
    BY <1>1, <1>2, <2>2 DEF TypeOK, DelKey, objVars
  <2> HIDE DEF e
  <2> QED
    BY <1>1, <2>1, <2>2, <2>3, PostOK
<1>3. CASE DelDpid
  BY <1>1, <1>3 DEF DelDpid, objVars, IInv, TypeOK, Room, Entering, Known, Serving, Ordered,
                    Latest, HasLatest, Commands, Enough, QueuesShownExist
<1>4. CASE Enter
  <2> DEFINE e == [ev |-> "enter"]
  <2>1. e \in Event /\ e.ev = "enter"
    BY DEF Event
  <2>2. events' = Append(events, e) /\ events' \in Seq(Event)
    BY <1>1, <1>4, <2>1, PostType DEF Enter
  <2>3. TypeOK' /\ UNCHANGED <<loop, objs, cur, db, pc, puts>>
    BY <1>1, <1>4, <2>2 DEF TypeOK, Enter, objVars
  <2>4. Len(objs) + Cardinality(Entering) < MaxObj
    BY <1>4 DEF Enter, Entering
  <2> HIDE DEF e
  <2> QED
    BY <1>1, <2>1, <2>2, <2>3, <2>4, PostOK
<1>5. CASE Leave
  <2> DEFINE e == [ev |-> "leave"]
  <2>1. e \in Event /\ e.ev = "leave"
    BY DEF Event
  <2>2. events' = Append(events, e) /\ events' \in Seq(Event)
    BY <1>1, <1>5, <2>1, PostType DEF Leave
  <2>3. TypeOK' /\ UNCHANGED <<loop, objs, cur, db, pc, puts>>
    BY <1>1, <1>5, <2>2 DEF TypeOK, Leave, objVars
  <2> HIDE DEF e
  <2> QED
    BY <1>1, <2>1, <2>2, <2>3, PostOK
<1> QED
  BY <1>2, <1>3, <1>4, <1>5

-----------------------------------------------------------------------------
(* The event loop.                                                         *)

\* An event that changes no address but may take a bridge away.
LEMMA QuietOK ==
  ASSUME IInv, TypeOK', NEW k \in {0, 1}, Advances(k), KeepsObjs,
         \A o \in DOMAIN objs : objs'[o].list = objs[o].list,
         UNCHANGED <<puts, loop, db, pc>>
  PROVE  IInv'
<1>1. Room' /\ Known' /\ Ordered' /\ Latest'
  BY QueueOK
<1>2. DOMAIN objs' = DOMAIN objs
  BY DEF KeepsObjs
<1>3. Serving' /\ Commands' /\ QueuesShownExist'
  BY <1>2 DEF IInv, Serving, Commands, Enough, QueuesShownExist
<1> QED
  BY <1>1, <1>3 DEF IInv

\* An object without an address joins the others.
LEMMA RegistOfsOK ==
  ASSUME IInv, RegistOfs
  PROVE  IInv'
<1>1. /\ TypeOK /\ Room /\ Known /\ Serving /\ Ordered /\ Latest /\ Commands /\ QueuesShownExist
      /\ Take("enter") /\ UNCHANGED <<conf, puts, addrOf, present, loop, db, pc>>
  BY DEF IInv, RegistOfs, confVars
<1>2. /\ Advances(1) /\ events' \in Seq(Event) /\ loop = 0 /\ 1 \in DOMAIN events
      /\ events[1].ev = "enter"
  BY <1>1, TakeAdvances
<1>3. NewQoS \in QoS /\ NewQoS.put = 0 /\ NewQoS.on = FALSE /\ NewQoS.list = [p \in Port |-> 0]
  BY BoundAssumption DEF NewQoS, QoS
<1>4. objs \in Seq(QoS) /\ objs' = Append(objs, NewQoS) /\ cur' = Len(objs')
  BY <1>1 DEF TypeOK, RegistOfs
<1>5. /\ objs' \in Seq(QoS) /\ Len(objs) \in Nat /\ Len(objs') = Len(objs) + 1
      /\ DOMAIN objs = 1..Len(objs) /\ DOMAIN objs' = 1..Len(objs) + 1
      /\ \A o \in DOMAIN objs : objs'[o] = objs[o]
      /\ objs'[Len(objs) + 1] = NewQoS
  BY <1>3, <1>4, AppendPlaces
<1>6. Room'
  BY <1>1, <1>2, <1>5, RoomAdvances, BoundAssumption DEF Room
<1>7. TypeOK'
  <2>1. Len(objs') <= MaxObj
    <3>1. /\ Len(objs') + Cardinality(Entering') <= MaxObj /\ Cardinality(Entering') \in Nat
      BY <1>1, <1>2, <1>6, RoomAdvances DEF Room
    <3> QED
      BY <1>5, <3>1, BoundAssumption
  <2>2. cur' \in 0..Len(objs')
    BY <1>4, <1>5
  <2> QED
    BY <1>1, <1>2, <1>5, <2>1, <2>2 DEF TypeOK
<1>8. \A i \in DOMAIN events' : i + 1 \in DOMAIN events /\ events'[i] = events[i + 1] /\ i \in Nat
  BY <1>1, <1>2, EventFields DEF Advances
<1>9. \A i \in DOMAIN events : events[i].ev = "set" => events[i].put \in 1..MaxPut
  BY <1>1, EventFields
<1>10. \A o \in DOMAIN objs' : (o \in DOMAIN objs /\ objs'[o] = objs[o]) \/ objs'[o] = NewQoS
  BY <1>5
<1>11. Known' /\ Serving'
  <2>1. ASSUME NEW o \in DOMAIN objs' PROVE objs'[o].put <= puts /\ (objs'[o].on => objs'[o].put # 0)
    BY <1>1, <1>3, <1>10, BoundAssumption DEF Known, TypeOK
  <2>2. \A i \in DOMAIN events' : events'[i].ev = "set" => events'[i].put <= puts
    BY <1>1, <1>8 DEF Known
  <2>3. DOMAIN objs \subseteq DOMAIN objs'
    BY <1>5
  <2> QED
    BY <1>1, <2>1, <2>2, <2>3 DEF Known, Serving
<1>12. Ordered'
  <2>1. ASSUME NEW i \in DOMAIN events', events'[i].ev = "set"
        PROVE  /\ loop' < events'[i].put
               /\ \A o \in DOMAIN objs' : objs'[o].put < events'[i].put
               /\ \A j \in DOMAIN events' : i < j /\ events'[j].ev = "set"
                    => events'[i].put < events'[j].put
    <3>1. i + 1 \in DOMAIN events /\ events'[i] = events[i + 1] /\ events[i + 1].ev = "set" /\ i \in Nat
      BY <1>8, <2>1
    <3>2. /\ loop < events[i + 1].put /\ events[i + 1].put \in 1..MaxPut
          /\ \A o \in DOMAIN objs : objs[o].put < events[i + 1].put
          /\ \A j \in DOMAIN events : i + 1 < j /\ events[j].ev = "set" => events[i + 1].put < events[j].put
      BY <1>1, <1>9, <3>1 DEF Ordered
    <3>3. ASSUME NEW o \in DOMAIN objs' PROVE objs'[o].put < events'[i].put
      BY <1>3, <1>10, <3>1, <3>2, BoundAssumption
    <3>4. ASSUME NEW j \in DOMAIN events', i < j, events'[j].ev = "set"
          PROVE  events'[i].put < events'[j].put
      <4>1. j + 1 \in DOMAIN events /\ events'[j] = events[j + 1] /\ i + 1 < j + 1
        BY <1>8, <3>1, <3>4
      <4> QED
        BY <3>1, <3>2, <3>4, <4>1
    <3> QED
      BY <1>1, <3>1, <3>2, <3>3, <3>4
  <2> QED
    BY <1>1, <1>2, <2>1 DEF Ordered
<1>13. Latest'
  <2>1. CASE objs = <<>>
    <3>1. DOMAIN objs' = {1} /\ objs'[1].put = 0
      BY <1>3, <1>5, <2>1
    <3>2. HasLatest(0)'
      BY <3>1 DEF HasLatest
    <3> QED
      BY <3>2, BoundAssumption DEF Latest
  <2>2. CASE objs # <<>>
    <3>1. PICK n \in 0..MaxPut : HasLatest(n)
      BY <1>1, <2>2 DEF Latest
    <3>2. HasLatest(n)'
      <4>1. \A o \in DOMAIN objs' : objs'[o].put <= n
        BY <1>3, <1>10, <3>1, BoundAssumption DEF HasLatest
      <4>2. \E o \in DOMAIN objs' : objs'[o].put = n
        BY <1>5, <3>1 DEF HasLatest
      <4> QED
        BY <4>1, <4>2 DEF HasLatest
    <3> QED
      BY <3>1, <3>2 DEF Latest
  <2> QED
    BY <2>1, <2>2
<1>14. Commands'
  BY <1>1 DEF Commands, Enough
<1>15. QueuesShownExist'
  <2>1. ASSUME NEW o \in DOMAIN objs', NEW p \in Tunnel
        PROVE  \E a \in Addr : db[a][p] >= objs'[o].list[p]
    <3>1. CASE o \in DOMAIN objs /\ objs'[o] = objs[o]
      BY <1>1, <3>1 DEF QueuesShownExist
    <3>2. CASE objs'[o] = NewQoS
      <4>1. objs'[o].list[p] = 0
        BY <1>3, <3>2, AddrAssumption
      <4>2. PICK a \in Addr : TRUE
        BY AddrAssumption
      <4>3. db[a][p] \in Nat
        BY <1>1, AddrAssumption, BoundAssumption DEF TypeOK
      <4> QED
        BY <4>1, <4>2, <4>3
    <3> QED
      BY <1>10, <3>1, <3>2
  <2> QED
    BY <1>1, <2>1 DEF QueuesShownExist
<1> QED
  BY <1>6, <1>7, <1>11, <1>12, <1>13, <1>14, <1>15 DEF IInv

\* The events that change no address.
LEMMA TakenOK ==
  ASSUME IInv, UnregistOfs \/ DelOvsdbAddr \/ SetOvsdbAddrIgnored
  PROVE  IInv'
<1>1. TypeOK /\ DOMAIN objs = 1..Len(objs) /\ Len(objs) \in Nat
  BY ObjFields DEF IInv
<1>2. /\ Advances(1) /\ events' \in Seq(Event) /\ loop = 0
      /\ UNCHANGED <<conf, puts, addrOf, present, loop, db, pc>>
  BY <1>1, TakeAdvances DEF UnregistOfs, DelOvsdbAddr, SetOvsdbAddrIgnored, confVars
<1>3. CASE UNCHANGED objs /\ cur' \in {0, cur}
  <2>1. TypeOK'
    BY <1>1, <1>2, <1>3 DEF TypeOK
  <2>2. KeepsObjs
    BY <1>3 DEF KeepsObjs
  <2> QED
    BY <1>2, <1>3, <2>1, <2>2, QuietOK
<1>4. CASE cur # 0 /\ objs' = [objs EXCEPT ![cur].on = FALSE] /\ cur' = cur
  <2>1. cur \in DOMAIN objs
    BY <1>1, <1>4 DEF TypeOK
  <2> DEFINE q == [objs[cur] EXCEPT !.on = FALSE]
  <2>2. objs[cur] \in QoS
    BY <1>1, <2>1, ObjFields
  <2>3. q \in QoS /\ q.put = objs[cur].put /\ q.on = FALSE /\ q.list = objs[cur].list
    BY <2>2 DEF QoS
  <2>4. objs' = [objs EXCEPT ![cur] = q]
    BY <1>4
  <2> HIDE DEF q
  <2>5. /\ objs' \in Seq(QoS) /\ Len(objs') = Len(objs) /\ DOMAIN objs' = DOMAIN objs
        /\ objs'[cur] = q /\ \A i \in DOMAIN objs \ {cur} : objs'[i] = objs[i]
    BY <1>1, <2>1, <2>3, <2>4, ObjChanged
  <2>6. TypeOK'
    BY <1>1, <1>2, <1>4, <2>5 DEF TypeOK
  <2>7. KeepsObjs /\ \A o \in DOMAIN objs : objs'[o].list = objs[o].list
    BY <2>3, <2>5 DEF KeepsObjs
  <2> QED
    BY <1>2, <2>6, <2>7, QuietOK
<1> QED
  BY <1>3, <1>4 DEF UnregistOfs, DelOvsdbAddr, SetOvsdbAddrIgnored, objVars

\* The address of the first PUT in the queue is taken up.
LEMMA SetOvsdbAddrOK ==
  ASSUME IInv, SetOvsdbAddr
  PROVE  IInv'
<1>1. /\ TypeOK /\ Room /\ Known /\ Serving /\ Ordered /\ Latest /\ Commands /\ QueuesShownExist
      /\ Take("set") /\ UNCHANGED <<conf, puts, addrOf, present, objs, cur, db, pc>>
      /\ loop' = Head(events).put /\ cur # 0
  BY DEF IInv, SetOvsdbAddr, IsNews, confVars, objVars
<1>2. /\ Advances(1) /\ events' \in Seq(Event) /\ 1 \in DOMAIN events /\ loop' = events[1].put
      /\ events[1].ev = "set"
  BY <1>1, TakeAdvances
<1>3. loop' \in 1..MaxPut /\ loop' <= puts
  BY <1>1, <1>2, EventFields DEF Known
<1>4. TypeOK'
  BY <1>1, <1>2, <1>3 DEF TypeOK
<1>5. Room'
  BY <1>1, <1>2, RoomAdvances, ObjFields, BoundAssumption DEF Room
<1>6. \A i \in DOMAIN events' : /\ i + 1 \in DOMAIN events /\ events'[i] = events[i + 1]
                                /\ i \in Nat /\ i >= 1
  BY <1>1, <1>2, EventFields DEF Advances
<1>7. Known'
  BY <1>1, <1>3, <1>6 DEF Known
<1>8. Ordered'
  <2>1. /\ \A o \in DOMAIN objs : objs[o].put < loop'
        /\ \A j \in DOMAIN events : 1 < j /\ events[j].ev = "set" => loop' < events[j].put
    BY <1>1, <1>2 DEF Ordered
  <2>2. ASSUME NEW i \in DOMAIN events', events'[i].ev = "set"
        PROVE  /\ loop' < events'[i].put
               /\ \A o \in DOMAIN objs' : objs'[o].put < events'[i].put
               /\ \A j \in DOMAIN events' : i < j /\ events'[j].ev = "set"
                    => events'[i].put < events'[j].put
    <3>1. /\ i + 1 \in DOMAIN events /\ events'[i] = events[i + 1] /\ events[i + 1].ev = "set"
          /\ i \in Nat /\ 1 < i + 1
      BY <1>6, <2>2
    <3>2. /\ loop' < events[i + 1].put
          /\ \A o \in DOMAIN objs : objs[o].put < events[i + 1].put
          /\ \A j \in DOMAIN events : i + 1 < j /\ events[j].ev = "set" => events[i + 1].put < events[j].put
      BY <1>1, <2>1, <3>1 DEF Ordered
    <3>3. ASSUME NEW j \in DOMAIN events', i < j, events'[j].ev = "set"
          PROVE  events'[i].put < events'[j].put
      <4>1. j + 1 \in DOMAIN events /\ events'[j] = events[j + 1] /\ i + 1 < j + 1
        BY <1>6, <3>1, <3>3
      <4> QED
        BY <3>1, <3>2, <3>3, <4>1
    <3> QED
      BY <1>1, <3>1, <3>2, <3>3
  <2> QED
    BY <1>1, <2>1, <2>2 DEF Ordered
<1>9. Serving' /\ Latest' /\ Commands' /\ QueuesShownExist'
  BY <1>1 DEF Serving, Latest, HasLatest, Commands, Enough, QueuesShownExist
<1> QED
  BY <1>4, <1>5, <1>7, <1>8, <1>9 DEF IInv

\* Its bridge is there: the address takes effect.
LEMMA InitOkOK ==
  ASSUME IInv, InitOk
  PROVE  /\ IInv' /\ cur \in DOMAIN objs /\ DOMAIN objs' = DOMAIN objs
         /\ objs'[cur].put = loop /\ objs'[cur].on
         /\ \A i \in DOMAIN objs \ {cur} : objs'[i].put = objs[i].put
<1>1. /\ TypeOK /\ Room /\ Known /\ Serving /\ Ordered /\ Latest /\ Commands /\ QueuesShownExist
      /\ UNCHANGED <<conf, puts, addrOf, present, events, cur, db, pc>>
      /\ loop # 0 /\ loop' = 0 /\ objs' = [objs EXCEPT ![cur].put = loop, ![cur].on = TRUE]
  BY DEF IInv, InitOk, confVars
<1>2. loop \in 1..MaxPut /\ cur \in DOMAIN objs /\ DOMAIN objs = 1..Len(objs) /\ loop <= puts
  BY <1>1, ObjFields DEF TypeOK, Known
<1> DEFINE p == [objs[cur] EXCEPT !.put = loop]
           q == [p EXCEPT !.on = TRUE]
<1>3. p \in QoS /\ p.put = loop /\ p.list = objs[cur].list
  <2>1. objs[cur] \in QoS /\ loop \in 0..MaxPut
    BY <1>1, <1>2, ObjFields, BoundAssumption
  <2> QED
    BY <2>1 DEF QoS
<1>4. q \in QoS /\ q.put = loop /\ q.on /\ q.list = objs[cur].list
  <2> HIDE DEF p
  <2>1. q \in QoS /\ q.put = p.put /\ q.on /\ q.list = p.list
    BY <1>3 DEF QoS
  <2> QED
    BY <1>3, <2>1
<1>5. objs' = [objs EXCEPT ![cur] = q]
  BY <1>1, <1>2
<1> HIDE DEF q
<1>6. /\ objs' \in Seq(QoS) /\ Len(objs') = Len(objs) /\ DOMAIN objs' = DOMAIN objs
      /\ objs'[cur] = q /\ \A i \in DOMAIN objs \ {cur} : objs'[i] = objs[i]
  BY <1>1, <1>2, <1>4, <1>5, ObjChanged
<1>7. TypeOK'
  BY <1>1, <1>2, <1>6, BoundAssumption DEF TypeOK
<1>8. Room' /\ Serving' /\ Commands'
  BY <1>1, <1>6 DEF Room, Entering, Serving, Commands, Enough
<1>9. Known'
  <2>1. ASSUME NEW o \in DOMAIN objs' PROVE objs'[o].put <= puts /\ (objs'[o].on => objs'[o].put # 0)
    <3>1. CASE o = cur
      BY <1>1, <1>2, <1>4, <1>6, <3>1
    <3>2. CASE o # cur
      BY <1>1, <1>6, <3>2 DEF Known
    <3> QED
      BY <3>1, <3>2
  <2>2. 0 <= puts
    BY <1>1, BoundAssumption DEF TypeOK
  <2> QED
    BY <1>1, <2>1, <2>2 DEF Known
<1>10. Ordered'
  <2>1. ASSUME NEW i \in DOMAIN events, events[i].ev = "set"
        PROVE  0 < events[i].put /\ \A o \in DOMAIN objs' : objs'[o].put < events[i].put
    BY <1>1, <1>2, <1>4, <1>6, <2>1, EventFields DEF Ordered
  <2> QED
    BY <1>1, <2>1 DEF Ordered
<1>11. Latest'
  <2>1. \A o \in DOMAIN objs : objs[o].put < loop
    BY <1>1 DEF Ordered
  <2>2. PICK n \in 0..MaxPut : n = loop
    BY <1>2, BoundAssumption
  <2>3. ASSUME NEW o \in DOMAIN objs' PROVE objs'[o].put <= n
    <3>1. CASE o = cur
      BY <1>4, <1>6, <2>2, <3>1, BoundAssumption
    <3>2. CASE o # cur
      <4>1. objs'[o] = objs[o] /\ objs[o].put \in 0..MaxPut /\ objs[o].put < loop
        BY <1>1, <1>6, <2>1, <3>2, ObjFields
      <4> QED
        BY <2>2, <4>1, BoundAssumption
    <3> QED
      BY <3>1, <3>2
  <2>4. HasLatest(n)'
    BY <1>2, <1>4, <1>6, <2>2, <2>3 DEF HasLatest
  <2> QED
    BY <2>2, <2>4 DEF Latest
<1>12. QueuesShownExist'
  BY <1>1, <1>2, <1>4, <1>6 DEF QueuesShownExist
<1> QED
  BY <1>2, <1>4, <1>6, <1>7, <1>8, <1>9, <1>10, <1>11, <1>12 DEF IInv

\* It is not: the PUT is lost.
LEMMA InitFailsOK ==
  ASSUME IInv, InitFails
  PROVE  IInv'
<1>1. /\ TypeOK /\ Room /\ Known /\ Serving /\ Ordered /\ Latest /\ Commands /\ QueuesShownExist
      /\ UNCHANGED <<conf, puts, addrOf, present, events, objs, cur, db, pc>> /\ loop' = 0
  BY DEF IInv, InitFails, confVars, objVars
<1>2. TypeOK'
  BY <1>1, BoundAssumption DEF TypeOK
<1>3. 0 <= puts /\ \A i \in DOMAIN events : events[i].ev = "set" => 0 < events[i].put
  BY <1>1, EventFields, BoundAssumption DEF TypeOK
<1>4. Known' /\ Ordered'
  BY <1>1, <1>3 DEF Known, Ordered
<1>5. Room' /\ Serving' /\ Latest' /\ Commands' /\ QueuesShownExist'
  BY <1>1 DEF Room, Entering, Serving, Latest, HasLatest, Commands, Enough, QueuesShownExist
<1> QED
  BY <1>2, <1>4, <1>5 DEF IInv

-----------------------------------------------------------------------------
(* The requests.                                                           *)

\* A greenlet goes on: its new place is in order, and what it recorded exists.
LEMMA RequestOK ==
  ASSUME IInv, TypeOK', NEW r \in Req, NEW p \in Op, pc' = [pc EXCEPT ![r] = p],
         KeepsObjs,
         \A a \in Addr, t \in Tunnel : db'[a][t] >= db[a][t],
         \A o \in DOMAIN objs, t \in Tunnel :
           \/ objs'[o].list[t] \in {0, objs[o].list[t]}
           \/ \E k \in 0..MaxQ : objs'[o].list[t] = k /\ Enough(t, k),
         p # Idle => p.obj \in DOMAIN objs /\ p.b <= puts,
         p.op \in {"port", "reload"} /\ p.job = "del" => p.port \notin Tunnel /\ p.todo \cap Tunnel = {},
         p.op = "reload" /\ p.job = "set" /\ p.port \in Tunnel
           => \E a \in Addr : db'[a][p.port] >= p.k,
         UNCHANGED <<puts, events, loop, cur>>
  PROVE  IInv'
<1>1. TypeOK /\ Serving /\ Commands /\ QueuesShownExist
  BY DEF IInv
<1>2. Advances(0) /\ KeepsObjs
  BY <1>1, StaysAdvances
<1>3. Room' /\ Known' /\ Ordered' /\ Latest'
  BY <1>2, QueueOK
<1>4. pc'[r] = p /\ \A d \in Req \ {r} : pc'[d] = pc[d]
  BY <1>1 DEF TypeOK
<1>5. Serving'
  BY <1>1, <1>4 DEF Serving, KeepsObjs
<1>6. \A a \in Addr, t \in Tunnel : db[a][t] \in Nat /\ db'[a][t] \in Nat /\ db'[a][t] >= db[a][t]
  <2> SUFFICES ASSUME NEW a \in Addr, NEW t \in Tunnel
               PROVE  db[a][t] \in Nat /\ db'[a][t] \in Nat /\ db'[a][t] >= db[a][t]
    OBVIOUS
  <2>1. db[a][t] \in 0..MaxQ /\ db'[a][t] \in 0..MaxQ
    BY <1>1, AddrAssumption DEF TypeOK
  <2> QED
    BY <2>1, BoundAssumption
<1>7. ASSUME NEW t \in Tunnel, NEW k \in 0..MaxQ, Enough(t, k) PROVE Enough(t, k)'
  <2>1. PICK a \in Addr : db[a][t] >= k
    BY <1>7 DEF Enough
  <2>2. db'[a][t] >= k
    BY <1>6, <2>1, BoundAssumption
  <2> QED
    BY <2>2 DEF Enough
<1>8. Commands'
  <2>1. ASSUME NEW d \in Req
        PROVE  /\ pc'[d].op \in {"port", "reload"} /\ pc'[d].job = "del"
                    => pc'[d].port \notin Tunnel /\ pc'[d].todo \cap Tunnel = {}
               /\ pc'[d].op = "reload" /\ pc'[d].job = "set" /\ pc'[d].port \in Tunnel
                    => \E a \in Addr : db'[a][pc'[d].port] >= pc'[d].k
    <3>1. CASE d = r
      BY <1>4, <3>1
    <3>2. CASE d # r
      <4>1. pc'[d] = pc[d]
        BY <1>4, <3>2
      <4>2. pc[d].op \in {"port", "reload"} /\ pc[d].job = "del"
              => pc[d].port \notin Tunnel /\ pc[d].todo \cap Tunnel = {}
        BY <1>1 DEF Commands
      <4>3. ASSUME pc[d].op = "reload", pc[d].job = "set", pc[d].port \in Tunnel
            PROVE  \E a \in Addr : db'[a][pc[d].port] >= pc[d].k
        <5>1. Enough(pc[d].port, pc[d].k)
          BY <1>1, <4>3 DEF Commands
        <5>2. PICK a \in Addr : db[a][pc[d].port] >= pc[d].k
          BY <5>1 DEF Enough
        <5>3. pc[d].k \in Nat
          <6>1. pc[d] # Idle
            BY <4>3 DEF Idle
          <6> QED
            BY <1>1, <6>1, OpFields, BoundAssumption
        <5>4. db[a][pc[d].port] \in Nat /\ db'[a][pc[d].port] \in Nat
              /\ db'[a][pc[d].port] >= db[a][pc[d].port]
          BY <1>6, <4>3
        <5> QED
          BY <5>2, <5>3, <5>4
      <4> QED
        BY <4>1, <4>2, <4>3
    <3> QED
      BY <3>1, <3>2
  <2> QED
    BY <2>1 DEF Commands, Enough
<1>9. QueuesShownExist'
  <2> USE DEF KeepsObjs
  <2>1. ASSUME NEW o \in DOMAIN objs, NEW t \in Tunnel
        PROVE  \E a \in Addr : db'[a][t] >= objs'[o].list[t]
    <3>1. CASE objs'[o].list[t] = 0
      <4>1. PICK a \in Addr : TRUE
        BY AddrAssumption
      <4> QED
        BY <1>6, <3>1, <4>1
    <3>2. CASE objs'[o].list[t] = objs[o].list[t]
      <4>1. PICK a \in Addr : db[a][t] >= objs[o].list[t]
        BY <1>1 DEF QueuesShownExist
      <4>2. objs[o].list[t] \in Nat
        BY <1>1, ObjFields, AddrAssumption, BoundAssumption
      <4> QED
        BY <1>6, <3>2, <4>1, <4>2
    <3>3. CASE \E k \in 0..MaxQ : objs'[o].list[t] = k /\ Enough(t, k)
      BY <1>7, <3>3 DEF Enough
    <3> QED
      BY <3>1, <3>2, <3>3
  <2> QED
    BY <2>1 DEF QueuesShownExist
<1> QED
  BY <1>3, <1>5, <1>8, <1>9 DEF IInv

\* Where a greenlet goes next.
LEMMA ContinueOK ==
  ASSUME TypeOK, Known, Serving, NEW r \in Req, pc[r] # Idle, NEW todo \in SUBSET Port,
         Continue(r, todo), pc[r].job = "del" => todo \cap Tunnel = {},
         KeepsObjs
  PROVE  \E p \in Op : /\ pc' = [pc EXCEPT ![r] = p]
                       /\ p # Idle => p.obj \in DOMAIN objs /\ p.b <= puts
                       /\ p.op \in {"port", "reload"} /\ p.job = "del"
                            => p.port \notin Tunnel /\ p.todo \cap Tunnel = {}
                       /\ p.op # "reload"
<1> DEFINE o == pc[r].obj
<1>1. /\ o \in DOMAIN objs /\ objs'[o].put = objs[o].put /\ (objs'[o].on => objs[o].on)
      /\ pc[r].job \in {"set", "del"} /\ o \in 1..MaxObj /\ pc[r].k \in 0..MaxQ
  <2>1. o \in DOMAIN objs
    BY DEF Serving
  <2>2. objs'[o].put = objs[o].put /\ (objs'[o].on => objs[o].on)
    BY <2>1 DEF KeepsObjs
  <2>3. pc[r].job \in {"set", "del"} /\ o \in 1..MaxObj /\ pc[r].k \in 0..MaxQ
    BY OpFields
  <2> QED
    BY <2>1, <2>2, <2>3
<1>2. CASE pc' = [pc EXCEPT ![r] = Idle]
  <2>1. Idle \in [op : {"idle"}] /\ Idle.op = "idle"
    BY DEF Idle
  <2>2. Idle \in Op
    BY <2>1 DEF Op
  <2> QED
    BY <1>2, <2>1, <2>2
<1>3. CASE /\ objs'[o].on
           /\ \E p \in todo :
                pc' = [pc EXCEPT ![r] = [op |-> "port", job |-> pc[r].job, obj |-> o,
                          b |-> objs'[o].put, port |-> p, todo |-> todo \ {p}, k |-> pc[r].k]]
  <2>1. PICK p \in todo :
          pc' = [pc EXCEPT ![r] = [op |-> "port", job |-> pc[r].job, obj |-> o,
                    b |-> objs'[o].put, port |-> p, todo |-> todo \ {p}, k |-> pc[r].k]]
    BY <1>3
  <2> DEFINE n == [op |-> "port", job |-> pc[r].job, obj |-> o,
                   b |-> objs'[o].put, port |-> p, todo |-> todo \ {p}, k |-> pc[r].k]
  <2>2. objs[o].put \in 0..MaxPut /\ objs[o].put # 0 /\ objs[o].put <= puts
    BY <1>1, <1>3, ObjFields DEF Known
  <2>3. objs'[o].put \in 1..MaxPut /\ objs'[o].put <= puts
    BY <1>1, <2>2, BoundAssumption
  <2>4. n \in Op
    <3>1. p \in Port /\ todo \ {p} \in SUBSET Port
      OBVIOUS
    <3>2. n \in [op : {"port", "reload"}, job : {"set", "del"}, obj : 1..MaxObj,
                 b : 1..MaxPut, port : Port, todo : SUBSET Port, k : 0..MaxQ]
      BY <1>1, <2>3, <3>1
    <3> QED
      BY <3>2 DEF Op
  <2>5. /\ n.obj = o /\ n.b = objs'[o].put /\ n.op = "port" /\ n.job = pc[r].job
        /\ n.port = p /\ n.todo = todo \ {p}
    OBVIOUS
  <2>6. n.job = "del" => n.port \notin Tunnel /\ n.todo \cap Tunnel = {}
    BY <2>5
  <2>7. pc' = [pc EXCEPT ![r] = n]
    BY <2>1
  <2> HIDE DEF n
  <2> QED
    BY <1>1, <2>3, <2>4, <2>5, <2>6, <2>7
<1> QED
  BY <1>2, <1>3 DEF Continue

\* A request begins on the object of the switch and its bridge.
LEMMA BeginOK ==
  ASSUME IInv, NEW r \in Req, NEW job \in {"set", "del"}, NEW asked \in Port \cup {AnyPort},
         NEW k \in 0..MaxQ, Begin(r, job, asked, k)
  PROVE  IInv'
<1> DEFINE p == [op |-> "list", job |-> job, obj |-> cur, b |-> objs[cur].put,
                 asked |-> asked, k |-> k]
<1>1. /\ TypeOK /\ Known /\ cur # 0 /\ objs[cur].on /\ pc' = [pc EXCEPT ![r] = p]
      /\ UNCHANGED <<conf, puts, addrOf, present, events, loop, objs, cur, db>>
  BY DEF IInv, Begin, confVars, objVars
<1>2. cur \in DOMAIN objs /\ cur \in 1..MaxObj
  BY <1>1, ObjFields, BoundAssumption DEF TypeOK
<1>3. objs[cur].put \in 1..MaxPut /\ objs[cur].put <= puts
  <2>1. objs[cur].put \in 0..MaxPut /\ objs[cur].put # 0 /\ objs[cur].put <= puts
    BY <1>1, <1>2, ObjFields DEF Known
  <2> QED
    BY <2>1, BoundAssumption
<1>4. p \in [op : {"list"}, job : {"set", "del"}, obj : 1..MaxObj, b : 1..MaxPut,
             asked : Port \cup {AnyPort}, k : 0..MaxQ]
  BY <1>2, <1>3
<1>5. p \in Op /\ p.op = "list" /\ p.obj = cur /\ p.b = objs[cur].put
  BY <1>4 DEF Op
<1> HIDE DEF p
<1>6. TypeOK'
  BY <1>1, <1>5 DEF TypeOK
<1>7. KeepsObjs
  BY <1>1 DEF KeepsObjs
<1>8. \A a \in Addr, t \in Tunnel : db'[a][t] >= db[a][t]
  <2> SUFFICES ASSUME NEW a \in Addr, NEW t \in Tunnel PROVE db'[a][t] >= db[a][t]
    OBVIOUS
  <2>1. db[a][t] \in 0..MaxQ
    BY <1>1, AddrAssumption DEF TypeOK
  <2> QED
    BY <1>1, <2>1, BoundAssumption
<1>9. \A o \in DOMAIN objs, t \in Tunnel : objs'[o].list[t] \in {0, objs[o].list[t]}
  BY <1>1
<1> QED
  BY <1>1, <1>2, <1>3, <1>5, <1>6, <1>7, <1>8, <1>9, RequestOK

\* What a request records changes no address.
LEMMA RecordOK ==
  ASSUME TypeOK, NEW o \in DOMAIN objs, NEW l \in [Port -> 0..MaxQ],
         objs' = [objs EXCEPT ![o].list = l]
  PROVE  /\ objs' \in Seq(QoS) /\ KeepsObjs /\ objs'[o].list = l
         /\ \A i \in DOMAIN objs \ {o} : objs'[i].list = objs[i].list
         /\ \A i \in DOMAIN objs : objs[i].on => objs'[i].on
<1> DEFINE q == [objs[o] EXCEPT !.list = l]
<1>1. objs[o] \in QoS
  BY ObjFields
<1>2. q \in QoS /\ q.put = objs[o].put /\ (q.on <=> objs[o].on) /\ q.list = l
  BY <1>1 DEF QoS
<1>3. objs' = [objs EXCEPT ![o] = q]
  OBVIOUS
<1> HIDE DEF q
<1>4. /\ objs' \in Seq(QoS) /\ Len(objs') = Len(objs) /\ DOMAIN objs' = DOMAIN objs
      /\ objs'[o] = q /\ \A i \in DOMAIN objs \ {o} : objs'[i] = objs[i]
  BY <1>2, <1>3, ObjChanged
<1> QED
  BY <1>2, <1>4 DEF KeepsObjs

\* An answer of a command, with what was recorded of it.
LEMMA AnsweredOK ==
  ASSUME IInv, NEW r \in Req, pc[r] # Idle, NEW todo \in SUBSET Port, Continue(r, todo),
         pc[r].job = "del" => todo \cap Tunnel = {},
         \/ UNCHANGED objs
         \/ \E l \in [Port -> 0..MaxQ] :
              /\ objs' = [objs EXCEPT ![pc[r].obj].list = l]
              /\ \A t \in Tunnel :
                   l[t] \in {0, objs[pc[r].obj].list[t]} \/ Enough(t, l[t]),
         UNCHANGED <<conf, puts, addrOf, present, events, loop, cur, db>>
  PROVE  IInv' /\ KeepsObjs /\ \A o \in DOMAIN objs : objs[o].on => objs'[o].on
<1> DEFINE o == pc[r].obj
<1>1. TypeOK /\ Known /\ Serving /\ o \in DOMAIN objs
  BY DEF IInv, Serving
<1>2. /\ objs' \in Seq(QoS) /\ KeepsObjs /\ \A i \in DOMAIN objs : objs[i].on => objs'[i].on
      /\ \A i \in DOMAIN objs, t \in Tunnel :
           \/ objs'[i].list[t] \in {0, objs[i].list[t]}
           \/ \E k \in 0..MaxQ : objs'[i].list[t] = k /\ Enough(t, k)
  <2>1. CASE UNCHANGED objs
    BY <1>1, <2>1 DEF TypeOK, KeepsObjs
  <2>2. ASSUME NEW l \in [Port -> 0..MaxQ], objs' = [objs EXCEPT ![o].list = l],
               \A t \in Tunnel : l[t] \in {0, objs[o].list[t]} \/ Enough(t, l[t])
        PROVE  /\ objs' \in Seq(QoS) /\ KeepsObjs
               /\ \A i \in DOMAIN objs : objs[i].on => objs'[i].on
               /\ \A i \in DOMAIN objs, t \in Tunnel :
                    \/ objs'[i].list[t] \in {0, objs[i].list[t]}
                    \/ \E k \in 0..MaxQ : objs'[i].list[t] = k /\ Enough(t, k)
    <3>1. /\ objs' \in Seq(QoS) /\ KeepsObjs /\ objs'[o].list = l
          /\ \A i \in DOMAIN objs \ {o} : objs'[i].list = objs[i].list
          /\ \A i \in DOMAIN objs : objs[i].on => objs'[i].on
      BY <1>1, <2>2, RecordOK
    <3>2. \A t \in Tunnel : l[t] \in 0..MaxQ
      BY AddrAssumption
    <3> QED
      BY <2>2, <3>1, <3>2
  <2> QED
    BY <2>1, <2>2
<1>3. PICK p \in Op : /\ pc' = [pc EXCEPT ![r] = p]
                      /\ p # Idle => p.obj \in DOMAIN objs /\ p.b <= puts
                      /\ p.op \in {"port", "reload"} /\ p.job = "del"
                           => p.port \notin Tunnel /\ p.todo \cap Tunnel = {}
                      /\ p.op # "reload"
  BY <1>1, <1>2, ContinueOK
<1>4. TypeOK'
  <2>1. Len(objs') = Len(objs)
    BY <1>2 DEF KeepsObjs
  <2> QED
    BY <1>1, <1>2, <1>3, <2>1 DEF TypeOK
<1>5. \A a \in Addr, t \in Tunnel : db'[a][t] >= db[a][t]
  <2> SUFFICES ASSUME NEW a \in Addr, NEW t \in Tunnel PROVE db'[a][t] >= db[a][t]
    OBVIOUS
  <2>1. db[a][t] \in 0..MaxQ
    BY <1>1, AddrAssumption DEF TypeOK
  <2> QED
    BY <2>1, BoundAssumption
<1> QED
  BY <1>2, <1>3, <1>4, <1>5, RequestOK

\* queue_list is cleared.
LEMMA Cleared ==
  NewQoS.list \in [Port -> 0..MaxQ] /\ \A t \in Tunnel : NewQoS.list[t] = 0
BY BoundAssumption, AddrAssumption DEF NewQoS

\* The ports are listed: those of a DELETE are no tunnel ports.
LEMMA PortsListedOK ==
  ASSUME IInv, NEW r \in Req, PortsListed(r)
  PROVE  IInv' /\ KeepsObjs /\ \A o \in DOMAIN objs : objs[o].on => objs'[o].on
<1>1. /\ pc[r] # Idle /\ Continue(r, Listed(r))
      /\ UNCHANGED <<conf, puts, addrOf, present, events, loop, cur, db>>
  BY DEF PortsListed, Idle, confVars
<1>2. Listed(r) \in SUBSET Port /\ (pc[r].job = "del" => Listed(r) \cap Tunnel = {})
  BY <1>1, BridgePorts DEF Listed
<1>3. \/ UNCHANGED objs
      \/ \E l \in [Port -> 0..MaxQ] :
           /\ objs' = [objs EXCEPT ![pc[r].obj].list = l]
           /\ \A t \in Tunnel : l[t] \in {0, objs[pc[r].obj].list[t]} \/ Enough(t, l[t])
  <2>1. objs' = objs \/ objs' = [objs EXCEPT ![pc[r].obj].list = NewQoS.list]
    BY DEF PortsListed, Clear
  <2> QED
    BY <2>1, Cleared
<1> QED
  BY <1>1, <1>2, <1>3, AnsweredOK

\* A command returns: the queues of a tunnel port are in the OVSDB by now.
LEMMA CommandReturnsOK ==
  ASSUME IInv, NEW r \in Req, CommandReturns(r)
  PROVE  IInv' /\ KeepsObjs /\ \A o \in DOMAIN objs : objs[o].on => objs'[o].on
<1> DEFINE o == pc[r].obj
<1>1. /\ TypeOK /\ Serving /\ Commands
      /\ pc[r].op = "reload" /\ pc[r] # Idle /\ Continue(r, pc[r].todo)
      /\ UNCHANGED <<conf, puts, addrOf, present, events, loop, cur, db>>
  BY DEF IInv, CommandReturns, Idle, confVars
<1>2. /\ pc[r].todo \in SUBSET Port /\ pc[r].port \in Port /\ pc[r].k \in 0..MaxQ
      /\ (pc[r].job = "del" => pc[r].todo \cap Tunnel = {})
  BY <1>1, OpFields DEF Commands
<1>3. o \in DOMAIN objs /\ objs[o].list \in [Port -> 0..MaxQ]
  BY <1>1, ObjFields DEF Serving
<1>4. \/ UNCHANGED objs
      \/ \E l \in [Port -> 0..MaxQ] :
           /\ objs' = [objs EXCEPT ![o].list = l]
           /\ \A t \in Tunnel : l[t] \in {0, objs[o].list[t]} \/ Enough(t, l[t])
  <2>1. CASE pc[r].job = "set"
    <3> DEFINE l == [objs[o].list EXCEPT ![pc[r].port] = pc[r].k]
    <3>1. objs' = [objs EXCEPT ![o].list = l]
      BY <1>3, <2>1 DEF CommandReturns
    <3>2. l \in [Port -> 0..MaxQ]
      BY <1>2, <1>3
    <3>3. ASSUME NEW t \in Tunnel PROVE l[t] \in {0, objs[o].list[t]} \/ Enough(t, l[t])
      <4>1. t \in Port
        BY AddrAssumption
      <4>2. CASE t = pc[r].port
        <5>1. Enough(t, pc[r].k)
          BY <1>1, <2>1, <4>2 DEF Commands
        <5>2. l[t] = pc[r].k
          BY <1>3, <4>1, <4>2
        <5> QED
          BY <5>1, <5>2
      <4>3. CASE t # pc[r].port
        BY <1>3, <4>1, <4>3
      <4> QED
        BY <4>2, <4>3
    <3> HIDE DEF l
    <3> QED
      BY <3>1, <3>2, <3>3
  <2>2. CASE pc[r].job # "set"
    <3>1. objs' = objs \/ objs' = [objs EXCEPT ![o].list = NewQoS.list]
      BY <2>2 DEF CommandReturns, Clear
    <3> QED
      BY <3>1, Cleared
  <2> QED
    BY <2>1, <2>2
<1> QED
  BY <1>1, <1>2, <1>4, AnsweredOK

\* A transaction is committed: nothing else is lost at a tunnel port.
LEMMA CommitOK ==
  ASSUME IInv, NEW r \in Req, SetQosCommit(r) \/ DelQosCommit(r)
  PROVE  IInv' /\ UNCHANGED objs /\ \A c \in Addr, q \in Tunnel : db'[c][q] >= db[c][q]
<1> DEFINE a == addrOf[pc[r].b]
           p == [pc[r] EXCEPT !.op = "reload"]
           t == pc[r].port
<1>1. /\ TypeOK /\ Serving /\ Commands /\ pc[r].op = "port" /\ pc[r] # Idle
      /\ pc' = [pc EXCEPT ![r] = p]
      /\ UNCHANGED <<conf, puts, addrOf, present, events, loop, objs, cur>>
  BY DEF IInv, SetQosCommit, DelQosCommit, Idle, confVars, objVars
<1>2. a \in Addr
  BY <1>1, BridgePorts
<1>3. /\ pc[r] \in [op : {"port", "reload"}, job : {"set", "del"}, obj : 1..MaxObj,
                    b : 1..MaxPut, port : Port, todo : SUBSET Port, k : 0..MaxQ]
      /\ pc[r].k \in 0..MaxQ /\ t \in Port
  BY <1>1, OpFields
<1>4. /\ p \in [op : {"port", "reload"}, job : {"set", "del"}, obj : 1..MaxObj,
                b : 1..MaxPut, port : Port, todo : SUBSET Port, k : 0..MaxQ]
      /\ p.op = "reload" /\ p.job = pc[r].job /\ p.obj = pc[r].obj /\ p.b = pc[r].b
      /\ p.port = t /\ p.todo = pc[r].todo /\ p.k = pc[r].k
  BY <1>3
<1>5. p \in Op
  BY <1>4 DEF Op
<1> HIDE DEF p
<1>6. db \in [Addr -> [Port -> 0..MaxQ]]
  BY <1>1 DEF TypeOK
<1>7. PICK v \in 0..MaxQ :
        /\ db' = [db EXCEPT ![a][t] = v]
        /\ pc[r].job = "set" => v >= db[a][t] /\ v >= pc[r].k
  <2>1. db[a][t] \in 0..MaxQ
    BY <1>2, <1>3, <1>6
  <2>2. CASE SetQosCommit(r)
    <3> DEFINE v == IF db[a][t] < pc[r].k THEN pc[r].k ELSE db[a][t]
    <3>1. db' = [db EXCEPT ![a][t] = v]
      BY <1>2, <1>3, <1>6, <2>2 DEF SetQosCommit
    <3>2. v \in 0..MaxQ /\ v >= db[a][t] /\ v >= pc[r].k
      BY <1>3, <2>1, BoundAssumption
    <3> HIDE DEF v
    <3> QED
      BY <3>1, <3>2
  <2>3. CASE DelQosCommit(r)
    <3>1. db' = [db EXCEPT ![a][t] = 0] /\ pc[r].job # "set"
      BY <2>3 DEF DelQosCommit
    <3>2. 0 \in 0..MaxQ
      BY BoundAssumption
    <3> QED
      BY <3>1, <3>2
  <2> QED
    BY <2>2, <2>3
<1>8. db' \in [Addr -> [Port -> 0..MaxQ]]
  BY <1>2, <1>3, <1>6, <1>7
<1>9. TypeOK'
  BY <1>1, <1>5, <1>8 DEF TypeOK
<1>10. \A c \in Addr, q \in Tunnel : db'[c][q] >= db[c][q]
  <2> SUFFICES ASSUME NEW c \in Addr, NEW q \in Tunnel PROVE db'[c][q] >= db[c][q]
    OBVIOUS
  <2>1. q \in Port /\ db[c][q] \in 0..MaxQ
    BY <1>6, AddrAssumption
  <2>2. CASE c = a /\ q = t
    <3>1. pc[r].job = "set"
      BY <1>1, <1>3, <2>2 DEF Commands
    <3>2. db'[c][q] = v
      BY <1>2, <1>3, <1>6, <1>7, <2>2
    <3> QED
      BY <1>7, <2>2, <3>1, <3>2
  <2>3. CASE ~(c = a /\ q = t)
    <3>1. db'[c][q] = db[c][q]
      BY <1>2, <1>3, <1>6, <1>7, <2>1, <2>3
    <3> QED
      BY <2>1, <3>1, BoundAssumption
  <2> QED
    BY <2>2, <2>3
<1>11. pc[r].job = "set" => db'[a][t] >= pc[r].k
  BY <1>2, <1>3, <1>6, <1>7
<1>12. KeepsObjs /\ \A o \in DOMAIN objs, q \in Tunnel : objs'[o].list[q] \in {0, objs[o].list[q]}
  BY <1>1 DEF KeepsObjs
<1>13. p.obj \in DOMAIN objs /\ p.b <= puts
  BY <1>1, <1>4 DEF Serving
<1>14. p.job = "del" => p.port \notin Tunnel /\ p.todo \cap Tunnel = {}
  BY <1>1, <1>4 DEF Commands
<1>15. p.job = "set" => \E c \in Addr : db'[c][p.port] >= p.k
  BY <1>2, <1>4, <1>11
<1> QED
  BY <1>1, <1>5, <1>9, <1>10, <1>12, <1>13, <1>14, <1>15, RequestOK

\* A request that ends leaves everything as it is.
LEMMA CommandFailsOK ==
  ASSUME IInv, NEW r \in Req, CommandFails(r)
  PROVE  IInv'
<1>1. /\ TypeOK /\ pc' = [pc EXCEPT ![r] = Idle]
      /\ UNCHANGED <<conf, puts, addrOf, present, events, loop, objs, cur, db>>
  BY DEF IInv, CommandFails, confVars, objVars
<1>2. Idle \in Op /\ Idle.op = "idle"
  <2>1. Idle \in [op : {"idle"}] /\ Idle.op = "idle"
    BY DEF Idle
  <2> QED
    BY <2>1 DEF Op
<1>3. TypeOK'
  BY <1>1, <1>2 DEF TypeOK
<1>4. KeepsObjs /\ \A o \in DOMAIN objs, q \in Tunnel : objs'[o].list[q] \in {0, objs[o].list[q]}
  BY <1>1 DEF KeepsObjs
<1>5. \A c \in Addr, q \in Tunnel : db'[c][q] >= db[c][q]
  <2> SUFFICES ASSUME NEW c \in Addr, NEW q \in Tunnel PROVE db'[c][q] >= db[c][q]
    OBVIOUS
  <2>1. db[c][q] \in 0..MaxQ
    BY <1>1, AddrAssumption DEF TypeOK
  <2> QED
    BY <1>1, <2>1, BoundAssumption
<1> QED
  BY <1>1, <1>2, <1>3, <1>4, <1>5, RequestOK

-----------------------------------------------------------------------------
(* The theorems.                                                           *)

\* In the beginning there are no events and no objects.
LEMMA InitOK == Init => IInv
<1> SUFFICES ASSUME Init PROVE IInv
  OBVIOUS
<1>1. DOMAIN events = {} /\ DOMAIN objs = {} /\ Len(objs) = 0 /\ Len(events) = 0
  BY EmptySeq, LenProperties DEF Init
<1>2. Idle \in Op /\ Idle.op = "idle"
  <2>1. Idle \in [op : {"idle"}] /\ Idle.op = "idle"
    BY DEF Idle
  <2> QED
    BY <2>1 DEF Op
<1>3. TypeOK
  <2>1. events \in Seq(Event) /\ objs \in Seq(QoS)
    BY EmptySeq DEF Init
  <2>2. \A n \in 1..MaxPut : addrOf[n] \in Addr <=> n <= puts
    BY AddrAssumption, BoundAssumption DEF Init
  <2>3. db \in [Addr -> [Port -> 0..MaxQ]]
    BY BoundAssumption DEF Init
  <2>4. pc \in [Req -> Op]
    BY <1>2 DEF Init
  <2>5. conf \in Addr \cup {NoAddr} /\ addrOf \in [1..MaxPut -> Addr \cup {NoAddr}]
    BY DEF Init
  <2>6. puts \in 0..MaxPut /\ loop = 0 /\ loop \in 0..MaxPut /\ cur = 0
    BY BoundAssumption DEF Init
  <2>7. present \in BOOLEAN
    BY DEF Init
  <2>8. Len(objs) <= MaxObj /\ cur \in 0..Len(objs)
    BY <1>1, <2>6, BoundAssumption
  <2> QED
    BY <2>1, <2>2, <2>3, <2>4, <2>5, <2>6, <2>7, <2>8 DEF TypeOK
<1>4. Room
  BY <1>1, FS_EmptySet, BoundAssumption DEF Room, Entering
<1>5. Known /\ Serving /\ Ordered /\ Latest /\ Commands /\ QueuesShownExist
  BY <1>1, <1>2 DEF Init, Known, Serving, Ordered, Latest, Commands, QueuesShownExist
<1> QED
  BY <1>3, <1>4, <1>5 DEF IInv

\* A step of a request.
RequestStep(r) ==
  \/ SetQueue(r) \/ DeleteQueue(r) \/ PortsListed(r) \/ SetQosCommit(r) \/ DelQosCommit(r)
  \/ CommandReturns(r) \/ CommandFails(r)

\* It preserves the invariant.
LEMMA RequestStepOK ==
  ASSUME IInv, NEW r \in Req, RequestStep(r)
  PROVE  IInv'
<1>1. CASE SetQueue(r)
  <2>1. PICK p \in Port \cup {AnyPort}, k \in 1..MaxQ : Begin(r, "set", p, k)
    BY <1>1 DEF SetQueue
  <2>2. k \in 0..MaxQ
    BY BoundAssumption
  <2> QED
    BY <2>1, <2>2, BeginOK
<1>2. CASE DeleteQueue(r)
  <2>1. 0 \in 0..MaxQ
    BY BoundAssumption
  <2> QED
    BY <1>2, <2>1, BeginOK DEF DeleteQueue
<1> QED
  BY <1>1, <1>2, PortsListedOK, CommitOK, CommandReturnsOK, CommandFailsOK DEF RequestStep

\* Every step preserves the invariant.
LEMMA NextOK == IInv /\ [Next]_vars => IInv'
<1> SUFFICES ASSUME IInv, [Next]_vars PROVE IInv'
  OBVIOUS
<1>1. CASE UNCHANGED vars
  BY <1>1 DEF vars, IInv, TypeOK, Room, Entering, Known, Serving, Ordered, Latest, HasLatest,
              Commands, Enough, QueuesShownExist
<1>2. CASE Handle
  BY <1>2, RegistOfsOK, TakenOK, SetOvsdbAddrOK DEF Handle
<1>3. CASE Next /\ ~Handle
  BY <1>3, SetKeyOK, ConfOK, InitOkOK, InitFailsOK, RequestStepOK DEF Next, RequestStep
<1> QED
  BY <1>1, <1>2, <1>3

\* The invariant holds throughout.
THEOREM Invariant == Spec => []IInv
BY InitOK, NextOK, PTL DEF Spec

\* Every variable keeps its type; in particular an address is initialised only
\* for a switch that is there.
THEOREM TypeCorrect == Spec => []TypeOK
<1>1. IInv => TypeOK
  BY DEF IInv
<1> QED
  BY <1>1, Invariant, PTL

\* The queues shown of a tunnel port exist in an OVSDB.
THEOREM ShownQueuesExist == Spec => []QueuesShownExist
<1>1. IInv => QueuesShownExist
  BY DEF IInv
<1> QED
  BY <1>1, Invariant, PTL

-----------------------------------------------------------------------------
(* The addresses of the switch are an AddressRegister.                     *)

\* The greatest of a set of numbers.
Top(S) == IF S = {} THEN 0 ELSE CHOOSE n \in S : \A k \in S : k <= n

\* It is the one no other exceeds.
LEMMA Greatest ==
  ASSUME NEW S \in SUBSET Nat, NEW n \in S, \A k \in S : k <= n
  PROVE  Top(S) = n
<1> DEFINE P(m) == \A k \in S : k <= m
           c == CHOOSE m \in S : P(m)
<1>1. c \in S /\ P(c)
  <2>1. \E m \in S : P(m)
    OBVIOUS
  <2> HIDE DEF P
  <2> QED
    BY <2>1
<1>2. c <= n /\ n <= c /\ c \in Nat /\ n \in Nat
  BY <1>1
<1>3. Top(S) = c
  BY DEF Top
<1> HIDE DEF c
<1> QED
  BY <1>2, <1>3

\* The numbers of the PUTs that objects have.
Puts == {objs[i].put : i \in DOMAIN objs}

\* LastPut is the greatest of them.
LEMMA LastPutIsTop == LastPut = Top(Puts) /\ LastPut' = Top(Puts')
BY DEF LastPut, Puts, Top

\* It is 0 when there is no object.
LEMMA LastPutIs ==
  ASSUME TypeOK
  PROVE  /\ Puts = {} => LastPut = 0
         /\ \A n \in Puts : (\A k \in Puts : k <= n) => LastPut = n
         /\ Puts \in SUBSET Nat
<1>1. Puts \in SUBSET Nat
  BY ObjFields, BoundAssumption DEF Puts
<1>2. Puts = {} => LastPut = 0
  BY LastPutIsTop DEF Top
<1> QED
  BY <1>1, <1>2, LastPutIsTop, Greatest

\* Steps that give no object an address leave LastPut as it is.
LEMMA SameLast ==
  ASSUME KeepsObjs
  PROVE  LastPut' = LastPut
<1>1. Puts' = Puts
  BY DEF KeepsObjs, Puts
<1> QED
  BY <1>1, LastPutIsTop

\* The queue of RestQoSAPI, its event loop and its objects apply addresses in
\* the order of their PUTs, however connections and requests interleave.
LEMMA StepRefines ==
  IInv /\ [Next]_vars => [Register!RNext]_(Register!rvars)
<1> SUFFICES ASSUME IInv, [Next]_vars PROVE [Register!RNext]_(Register!rvars)
  OBVIOUS
<1> USE DEF Register!RNext, Register!rvars
<1>1. TypeOK /\ TypeOK' /\ Known /\ Ordered /\ Latest /\ IInv'
  BY NextOK DEF IInv
<1>2. ASSUME KeepsObjs, UNCHANGED <<puts, cur>>, cur # 0 => objs'[cur].on = objs[cur].on
      PROVE  UNCHANGED <<puts, LastPut, InEffect>>
  <2>1. LastPut' = LastPut
    BY <1>2, SameLast
  <2>2. cur # 0 => cur \in DOMAIN objs
    BY <1>1, ObjFields DEF TypeOK
  <2>3. cur # 0 => objs'[cur].put = objs[cur].put
    BY <1>2, <2>2 DEF KeepsObjs
  <2>4. InEffect' = InEffect
    BY <1>2, <2>3 DEF InEffect
  <2> QED
    BY <1>2, <2>1, <2>4
<1>3. ASSUME UNCHANGED <<puts, objs, cur>> PROVE UNCHANGED <<puts, LastPut, InEffect>>
  BY <1>3 DEF LastPut, InEffect
<1>4. CASE UNCHANGED vars
  BY <1>3, <1>4 DEF vars
<1>5. ASSUME NEW a \in Addr, SetKey(a) PROVE Register!RNext
  <2>1. puts' = puts + 1 /\ UNCHANGED <<objs, cur>>
    BY <1>5 DEF SetKey, objVars
  <2>2. UNCHANGED <<LastPut, InEffect>>
    BY <2>1 DEF LastPut, InEffect
  <2> QED
    BY <2>1, <2>2 DEF Register!RPut
<1>6. CASE DelKey \/ DelDpid \/ Enter \/ Leave \/ SetOvsdbAddrIgnored \/ SetOvsdbAddr \/ InitFails
  <2>1. UNCHANGED <<puts, objs, cur>>
    BY <1>6 DEF DelKey, DelDpid, Enter, Leave, SetOvsdbAddrIgnored, SetOvsdbAddr, InitFails,
                confVars, objVars
  <2> QED
    BY <1>3, <2>1
<1>7. CASE RegistOfs
  <2>1. /\ objs \in Seq(QoS) /\ NewQoS \in QoS /\ NewQoS.put = 0 /\ NewQoS.on = FALSE
        /\ objs' = Append(objs, NewQoS) /\ cur' = Len(objs') /\ puts' = puts
    BY <1>1, <1>7, BoundAssumption DEF TypeOK, RegistOfs, confVars, NewQoS, QoS
  <2>2. /\ Len(objs) \in Nat /\ Len(objs') = Len(objs) + 1
        /\ DOMAIN objs = 1..Len(objs) /\ DOMAIN objs' = 1..Len(objs) + 1
        /\ \A i \in 1..Len(objs) : objs'[i] = objs[i]
        /\ objs'[Len(objs) + 1] = NewQoS
    BY <2>1, AppendPlaces
  <2>3. InEffect' = 0
    BY <2>1, <2>2 DEF InEffect
  <2>4. Puts' = Puts \cup {0}
    BY <2>1, <2>2 DEF Puts
  <2>5. LastPut' = LastPut
    <3>1. /\ \A n \in Puts' : (\A k \in Puts' : k <= n) => LastPut' = n
          /\ Puts' \in SUBSET Nat
      <4>1. Puts' \in SUBSET Nat
        BY <1>1, <2>4, LastPutIs
      <4> QED
        BY <4>1, LastPutIsTop, Greatest
    <3>2. CASE objs = <<>>
      <4>1. Puts = {} /\ Puts' = {0}
        BY <2>2, <2>4, <3>2 DEF Puts
      <4> QED
        BY <1>1, <3>1, <4>1, LastPutIs
    <3>3. CASE objs # <<>>
      <4>1. PICK n \in 0..MaxPut : HasLatest(n)
        BY <1>1, <3>3 DEF Latest
      <4>2. n \in Puts /\ \A k \in Puts : k <= n
        BY <4>1 DEF HasLatest, Puts
      <4>3. n \in Puts' /\ \A k \in Puts' : k <= n
        BY <2>4, <4>1, <4>2, BoundAssumption
      <4> QED
        BY <1>1, <3>1, <4>2, <4>3, LastPutIs
    <3> QED
      BY <3>2, <3>3
  <2> QED
    BY <2>1, <2>3, <2>5 DEF Register!RWithdraw
<1>8. CASE UnregistOfs
  <2>1. cur' = 0 /\ UNCHANGED <<objs, puts>>
    BY <1>8 DEF UnregistOfs, confVars
  <2>2. LastPut' = LastPut /\ InEffect' = 0
    BY <2>1 DEF LastPut, InEffect
  <2> QED
    BY <2>1, <2>2 DEF Register!RWithdraw
<1>9. CASE DelOvsdbAddr
  <2>1. UNCHANGED <<puts, cur>>
    BY <1>9 DEF DelOvsdbAddr, confVars
  <2>2. CASE cur = 0
    BY <1>3, <1>9, <2>1, <2>2 DEF DelOvsdbAddr
  <2>3. CASE cur # 0
    <3>1. cur \in DOMAIN objs /\ objs[cur] \in QoS /\ objs' = [objs EXCEPT ![cur].on = FALSE]
      BY <1>1, <1>9, <2>3, ObjFields DEF DelOvsdbAddr, TypeOK
    <3> DEFINE q == [objs[cur] EXCEPT !.on = FALSE]
    <3>2. q \in QoS /\ q.put = objs[cur].put /\ q.on = FALSE
      BY <3>1 DEF QoS
    <3>3. objs' = [objs EXCEPT ![cur] = q]
      BY <3>1
    <3> HIDE DEF q
    <3>4. /\ Len(objs') = Len(objs) /\ DOMAIN objs' = DOMAIN objs
          /\ objs'[cur] = q /\ \A i \in DOMAIN objs \ {cur} : objs'[i] = objs[i]
      BY <1>1, <3>1, <3>2, <3>3, ObjChanged
    <3>5. KeepsObjs
      BY <3>2, <3>4 DEF KeepsObjs
    <3>6. LastPut' = LastPut /\ InEffect' = 0
      BY <2>1, <3>2, <3>4, <3>5, SameLast DEF InEffect
    <3> QED
      BY <2>1, <3>6 DEF Register!RWithdraw
  <2> QED
    BY <2>2, <2>3
<1>10. CASE InitOk
  <2>1. /\ cur \in DOMAIN objs /\ DOMAIN objs' = DOMAIN objs /\ objs'[cur].put = loop /\ objs'[cur].on
        /\ \A i \in DOMAIN objs \ {cur} : objs'[i].put = objs[i].put
    BY <1>10, InitOkOK
  <2>2. /\ loop # 0 /\ loop \in 1..MaxPut /\ loop <= puts /\ UNCHANGED <<puts, cur>>
        /\ \A o \in DOMAIN objs : objs[o].put < loop
    BY <1>1, <1>10 DEF InitOk, confVars, TypeOK, Known, Ordered
  <2>3. cur # 0
    BY <1>1, <2>1, ObjFields
  <2>4. InEffect' = loop
    BY <2>1, <2>2, <2>3 DEF InEffect
  <2>5. LastPut' = loop
    <3>1. loop \in Puts'
      BY <2>1 DEF Puts
    <3>2. \A k \in Puts' : k \in Nat /\ k <= loop
      <4> SUFFICES ASSUME NEW o \in DOMAIN objs' PROVE objs'[o].put \in Nat /\ objs'[o].put <= loop
        BY DEF Puts
      <4>1. CASE o = cur
        BY <2>1, <2>2, <4>1, BoundAssumption
      <4>2. CASE o # cur
        <5>1. objs'[o].put = objs[o].put /\ objs[o].put \in 0..MaxPut /\ objs[o].put < loop
          BY <1>1, <2>1, <2>2, <4>2, ObjFields
        <5> QED
          BY <2>2, <5>1, BoundAssumption
      <4> QED
        BY <4>1, <4>2
    <3> QED
      BY <3>1, <3>2, LastPutIsTop, Greatest
  <2>6. LastPut < loop /\ LastPut \in Nat
    <3>1. CASE Puts = {}
      BY <1>1, <2>2, <3>1, LastPutIs, BoundAssumption
    <3>2. CASE Puts # {}
      <4>1. objs # <<>>
        BY <2>1
      <4>2. PICK n \in 0..MaxPut : HasLatest(n)
        BY <1>1, <4>1 DEF Latest
      <4>3. n \in Puts /\ \A k \in Puts : k <= n
        BY <4>2 DEF HasLatest, Puts
      <4>4. LastPut = n /\ n < loop
        BY <1>1, <2>2, <4>2, <4>3, LastPutIs DEF HasLatest
      <4> QED
        BY <4>4, BoundAssumption
    <3> QED
      BY <3>1, <3>2
  <2>7. loop \in (LastPut + 1)..puts
    BY <1>1, <2>2, <2>6, BoundAssumption DEF TypeOK
  <2> QED
    BY <2>2, <2>4, <2>5, <2>7 DEF Register!RApply
<1>11. ASSUME NEW r \in Req, RequestStep(r) PROVE UNCHANGED <<puts, LastPut, InEffect>>
  <2>1. CASE SetQueue(r) \/ DeleteQueue(r) \/ CommandFails(r) \/ SetQosCommit(r) \/ DelQosCommit(r)
    <3>1. UNCHANGED <<puts, objs, cur>>
      BY <2>1 DEF SetQueue, DeleteQueue, Begin, CommandFails, SetQosCommit, DelQosCommit,
                  confVars, objVars
    <3> QED
      BY <1>3, <3>1
  <2>2. CASE PortsListed(r) \/ CommandReturns(r)
    <3>1. KeepsObjs /\ \A o \in DOMAIN objs : objs[o].on => objs'[o].on
      BY <2>2, PortsListedOK, CommandReturnsOK
    <3>2. UNCHANGED <<puts, cur>>
      BY <2>2 DEF PortsListed, CommandReturns, confVars
    <3>3. ASSUME cur # 0
          PROVE  objs'[cur].put = objs[cur].put /\ (objs'[cur].on <=> objs[cur].on)
      <4>1. cur \in DOMAIN objs
        BY <1>1, <3>3, ObjFields DEF TypeOK
      <4> QED
        BY <3>1, <4>1 DEF KeepsObjs
    <3>4. InEffect' = InEffect
      BY <3>2, <3>3 DEF InEffect
    <3> QED
      BY <3>1, <3>2, <3>4, SameLast
  <2> QED
    BY <1>11, <2>1, <2>2 DEF RequestStep
<1>12. CASE Next
  BY <1>5, <1>6, <1>7, <1>8, <1>9, <1>10, <1>11, <1>12 DEF Next, Handle, RequestStep
<1> QED
  BY <1>4, <1>12

\* An address that takes effect is of a later PUT than any before it.
THEOREM ImplementsAddressRegister == Spec => RefinesRegister
<1>1. Init => Register!RInit
  <2> SUFFICES ASSUME Init PROVE Register!RInit
    OBVIOUS
  <2>1. TypeOK /\ DOMAIN objs = {}
    BY InitOK, ObjFields, EmptySeq, LenProperties DEF IInv, Init
  <2>2. LastPut = 0
    BY <2>1, LastPutIs DEF Puts
  <2> QED
    BY <2>2 DEF Register!RInit, Init, InEffect
<1>2. IInv /\ [Next]_vars => [Register!RNext]_(Register!rvars)
  BY StepRefines
<1> QED
  BY <1>1, <1>2, Invariant, PTL DEF Spec, RefinesRegister, Register!RSpec

-----------------------------------------------------------------------------
(* What requests never do.                                                 *)

\* No request makes the queues of a tunnel port fewer: POST writes the queues
\* it is given over those the port has, DELETE goes through external ports
\* only (bridge.py:488), whatever becomes of the bridge meanwhile.  All ports of
\* the lab are tunnels.
TunnelQueuesStay ==
  [][\A a \in Addr, p \in Tunnel : db'[a][p] >= db[a][p]]_vars

\* Queues of tunnels only become more.
THEOREM TunnelsKeepQueues == Spec => TunnelQueuesStay
<1>1. ASSUME IInv, UNCHANGED db, NEW a \in Addr, NEW p \in Tunnel PROVE db'[a][p] >= db[a][p]
  <2>1. db[a][p] \in 0..MaxQ
    BY <1>1, AddrAssumption DEF IInv, TypeOK
  <2> QED
    BY <1>1, <2>1, BoundAssumption
<1>2. ASSUME IInv, [Next]_vars, NEW a \in Addr, NEW p \in Tunnel PROVE db'[a][p] >= db[a][p]
  <2>1. CASE \E r \in Req : SetQosCommit(r) \/ DelQosCommit(r)
    BY <1>2, <2>1, CommitOK
  <2>2. CASE [Next]_vars /\ ~\E r \in Req : SetQosCommit(r) \/ DelQosCommit(r)
    <3>1. UNCHANGED db
      BY <2>2 DEF Next, vars, SetKey, DelKey, DelDpid, Enter, Leave, Handle, RegistOfs,
                  UnregistOfs, DelOvsdbAddr, SetOvsdbAddrIgnored, SetOvsdbAddr, InitOk,
                  InitFails, SetQueue, DeleteQueue, Begin, PortsListed, CommandReturns,
                  CommandFails
    <3> QED
      BY <1>1, <1>2, <3>1
  <2> QED
    BY <1>2, <2>1, <2>2
<1>3. IInv /\ [Next]_vars => [\A a \in Addr, p \in Tunnel : db'[a][p] >= db[a][p]]_vars
  BY <1>2
<1> QED
  BY <1>3, Invariant, PTL DEF Spec, TunnelQueuesStay

\* A bridge never comes into use with the address its object had before:
\* putting an address again after DELETE does nothing until the switch
\* reconnects or another address is put, for the handler compares with
\* ovsdb_addr, which DELETE leaves as it is (rest_qos.py:607).
SameAddressIgnored ==
  [][\A o \in DOMAIN objs : objs'[o].on /\ ~objs[o].on
       => AddrIn(objs[o]) # addrOf'[objs'[o].put]]_vars

\* What the event loop initialises is still news when it is done.
News == loop # 0 => IsNews(loop)

\* Nothing between the test and the end of init() makes it old.
LEMMA NewsKept ==
  ASSUME IInv, News, UNCHANGED <<loop, cur>>,
         \A o \in DOMAIN objs : objs'[o].put = objs[o].put,
         \A n \in 1..MaxPut : n <= puts => addrOf'[n] = addrOf[n]
  PROVE  News'
<1> SUFFICES ASSUME loop # 0 PROVE News'
  BY DEF News
<1>1. TypeOK /\ Known /\ cur # 0 /\ loop \in 1..MaxPut /\ loop <= puts
  BY BoundAssumption DEF IInv, TypeOK, Known
<1>2. cur \in DOMAIN objs /\ objs[cur].put \in 0..MaxPut /\ objs[cur].put <= puts
  BY <1>1, ObjFields DEF TypeOK, Known
<1>3. addrOf'[loop] = addrOf[loop] /\ objs'[cur].put = objs[cur].put
  BY <1>1, <1>2
<1>4. objs[cur].put # 0 => addrOf'[objs[cur].put] = addrOf[objs[cur].put]
  BY <1>2, BoundAssumption
<1>5. AddrIn(objs[cur]) # addrOf[loop]
  BY DEF News, IsNews
<1> QED
  BY <1>1, <1>3, <1>4, <1>5 DEF News, IsNews, AddrIn

\* Every step keeps it.
LEMMA NewsStep == IInv /\ News /\ [Next]_vars => News'
<1> SUFFICES ASSUME IInv, News, [Next]_vars PROVE News'
  OBVIOUS
<1>1. CASE RegistOfs \/ UnregistOfs \/ DelOvsdbAddr \/ SetOvsdbAddrIgnored
  BY <1>1 DEF RegistOfs, UnregistOfs, DelOvsdbAddr, SetOvsdbAddrIgnored, Take, News
<1>2. CASE SetOvsdbAddr
  BY <1>2 DEF SetOvsdbAddr, News, IsNews, AddrIn, confVars, objVars
<1>3. CASE InitOk \/ InitFails
  BY <1>3 DEF InitOk, InitFails, News
<1>4. CASE \E a \in Addr : SetKey(a)
  <2>1. PICK a \in Addr : SetKey(a)
    BY <1>4
  <2>2. UNCHANGED <<loop, cur, objs>> /\ addrOf' = [addrOf EXCEPT ![puts + 1] = a]
    BY <2>1 DEF SetKey, objVars
  <2>3. \A n \in 1..MaxPut : n <= puts => addrOf'[n] = addrOf[n]
    BY <2>2 DEF IInv, TypeOK
  <2> QED
    BY <2>2, <2>3, NewsKept
<1>5. CASE \E r \in Req : PortsListed(r) \/ CommandReturns(r)
  <2>1. KeepsObjs /\ UNCHANGED <<loop, cur, addrOf>>
    BY <1>5, PortsListedOK, CommandReturnsOK DEF PortsListed, CommandReturns, confVars
  <2>2. \A o \in DOMAIN objs : objs'[o].put = objs[o].put
    BY <2>1 DEF KeepsObjs
  <2> QED
    BY <2>1, <2>2, NewsKept
<1>6. CASE \/ DelKey \/ DelDpid \/ Enter \/ Leave \/ UNCHANGED vars
           \/ \E r \in Req : \/ SetQueue(r) \/ DeleteQueue(r) \/ SetQosCommit(r)
                             \/ DelQosCommit(r) \/ CommandFails(r)
  <2>1. UNCHANGED <<loop, cur, objs, addrOf>>
    BY <1>6 DEF DelKey, DelDpid, Enter, Leave, vars, SetQueue, DeleteQueue, Begin,
                SetQosCommit, DelQosCommit, CommandFails, confVars, objVars
  <2> QED
    BY <2>1, NewsKept
<1> QED
  BY <1>1, <1>2, <1>3, <1>4, <1>5, <1>6 DEF Next, Handle

\* A bridge comes into use only where init() ends.
LEMMA OnlyInitTurnsOn ==
  ASSUME IInv, [Next]_vars, ~InitOk, NEW o \in DOMAIN objs, objs'[o].on
  PROVE  objs[o].on
<1>1. TypeOK /\ DOMAIN objs = 1..Len(objs)
  BY ObjFields DEF IInv
<1>2. CASE UNCHANGED objs
  BY <1>2
<1>3. CASE RegistOfs
  <2>1. objs \in Seq(QoS) /\ NewQoS \in QoS
    BY <1>1, Cleared, BoundAssumption DEF TypeOK, QoS, NewQoS
  <2>2. objs'[o] = objs[o]
    BY <1>1, <1>3, <2>1, AppendPlaces DEF RegistOfs
  <2> QED
    BY <2>2
<1>4. CASE DelOvsdbAddr
  <2>1. CASE cur = 0 \/ cur # o
    BY <1>4, <2>1 DEF DelOvsdbAddr
  <2>2. CASE cur # 0 /\ cur = o
    <3>1. objs'[o] = [objs[o] EXCEPT !.on = FALSE] /\ objs[o] \in QoS
      BY <1>1, <1>4, <2>2, ObjFields DEF DelOvsdbAddr
    <3>2. ~objs'[o].on
      BY <3>1 DEF QoS
    <3> QED
      BY <3>2
  <2> QED
    BY <2>1, <2>2
<1>5. CASE \E r \in Req : PortsListed(r) \/ CommandReturns(r)
  BY <1>5, PortsListedOK, CommandReturnsOK DEF KeepsObjs
<1> QED
  BY <1>2, <1>3, <1>4, <1>5
  DEF Next, vars, SetKey, DelKey, DelDpid, Enter, Leave, Handle, UnregistOfs,
      SetOvsdbAddrIgnored, SetOvsdbAddr, InitFails, SetQueue, DeleteQueue, Begin,
      SetQosCommit, DelQosCommit, CommandFails, objVars

\* The same address again is ignored.
THEOREM WithdrawnStaysOut == Spec => SameAddressIgnored
<1>1. Init => News
  BY DEF Init, News
<1>2. Spec => []News
  BY <1>1, NewsStep, Invariant, PTL DEF Spec
<1>3. ASSUME IInv, News, [Next]_vars, NEW o \in DOMAIN objs, objs'[o].on, ~objs[o].on
      PROVE  AddrIn(objs[o]) # addrOf'[objs'[o].put]
  <2>1. InitOk
    BY <1>3, OnlyInitTurnsOn
  <2>2. /\ loop # 0 /\ objs' = [objs EXCEPT ![cur].put = loop, ![cur].on = TRUE]
        /\ addrOf' = addrOf
    BY <2>1 DEF InitOk, confVars
  <2>3. o = cur
    BY <1>3, <2>2
  <2>4. objs'[cur].put = loop
    BY <1>3, <2>1, InitOkOK
  <2> QED
    BY <1>3, <2>2, <2>3, <2>4 DEF News, IsNews
<1>4. IInv /\ News /\ [Next]_vars =>
        [\A o \in DOMAIN objs : objs'[o].on /\ ~objs[o].on
           => AddrIn(objs[o]) # addrOf'[objs'[o].put]]_vars
  BY <1>3
<1> QED
  BY <1>2, <1>4, Invariant, PTL DEF Spec, SameAddressIgnored

\* No step loses an address that is on its way: as long as no other PUT comes,
\* its event stays in line or with the event loop until the address is in
\* effect, unless the switch leaves, the address is withdrawn or it cannot be
\* reached.  That is the safety behind PutTakesEffect; the fairness of the event
\* loop (rest_qos.py:307) does the rest.
PutNotLost ==
  [][\A n \in 1..puts : OnItsWay(n) =>
       (OnItsWay(n) \/ Superseded \/ Applied(n))' \/ puts' # puts]_vars

\* The PUT is with the event loop or in the queue.
Held(n) == loop = n \/ \E i \in DOMAIN events : events[i] = [ev |-> "set", put |-> n]
NoDel == \A i \in DOMAIN events : events[i].ev # "del"

\* A PUT in the queue that is not the event taken stays in the queue.
LEMMA TakeHolds ==
  ASSUME TypeOK, NEW kind, Take(kind), NEW n \in 1..MaxPut, Held(n), NoDel
  PROVE  /\ NoDel'
         /\ \/ Head(events) = [ev |-> "set", put |-> n]
            \/ \E i \in DOMAIN events' : events'[i] = [ev |-> "set", put |-> n]
<1>1. /\ Advances(1) /\ loop = 0 /\ Head(events) = events[1]
      /\ Len(events) \in Nat /\ DOMAIN events = 1..Len(events)
  BY TakeAdvances, EventFields
<1>2. NoDel'
  BY <1>1 DEF NoDel, Advances
<1>3. PICK i \in DOMAIN events : events[i] = [ev |-> "set", put |-> n]
  BY <1>1 DEF Held
<1>4. CASE i = 1
  BY <1>1, <1>2, <1>3, <1>4
<1>5. CASE i # 1
  <2>1. i - 1 \in DOMAIN events' /\ events'[i - 1] = events[(i - 1) + 1]
    BY <1>1, <1>5 DEF Advances
  <2>2. (i - 1) + 1 = i
    BY <1>1
  <2> QED
    BY <1>2, <1>3, <2>1, <2>2
<1> QED
  BY <1>4, <1>5

\* An event of another kind is posted.
LEMMA PostHolds ==
  ASSUME TypeOK, NEW e \in Event, Post(e), e.ev # "del", NEW n, Held(n), NoDel, loop' = loop
  PROVE  Held(n)' /\ NoDel'
<1>1. events \in Seq(Event) /\ events' = Append(events, e)
  BY DEF TypeOK, Post
<1>2. /\ Len(events) \in Nat /\ DOMAIN events = 1..Len(events)
      /\ DOMAIN events' = 1..Len(events) + 1 /\ events'[Len(events) + 1] = e
      /\ \A i \in 1..Len(events) : events'[i] = events[i]
  BY <1>1, AppendPlaces
<1>3. NoDel'
  BY <1>2 DEF NoDel
<1>4. Held(n)'
  BY <1>2 DEF Held
<1> QED
  BY <1>3, <1>4

\* The PUT goes on as before where only the bridges in use matter.
LEMMA WaysKept ==
  ASSUME IInv, NEW n \in 1..MaxPut, OnItsWay(n), UNCHANGED <<conf, addrOf, cur>>,
         Held(n)', NoDel',
         \A o \in DOMAIN objs : /\ objs'[o].put = objs[o].put
                                /\ objs[o].on => objs'[o].on
  PROVE  OnItsWay(n)'
<1>1. cur # 0 /\ cur \in DOMAIN objs
  BY ObjFields DEF OnItsWay, IInv, TypeOK
<1>2. AddrIn(objs[cur])' = AddrIn(objs[cur])
  BY <1>1 DEF AddrIn
<1> QED
  BY <1>1, <1>2 DEF OnItsWay, Held, NoDel, AddrIn

\* The event loop takes an event.
LEMMA HandleHolds ==
  ASSUME IInv, NEW n \in 1..MaxPut, n <= puts, OnItsWay(n), Handle
  PROVE  OnItsWay(n)' \/ Superseded' \/ Applied(n)'
<1>1. /\ TypeOK /\ Known /\ Held(n) /\ NoDel /\ cur # 0 /\ cur \in DOMAIN objs
      /\ addrOf[n] \in Addr /\ addrOf[n] # NoAddr /\ events \in Seq(Event)
  BY ObjFields, AddrAssumption DEF IInv, TypeOK, OnItsWay, Held, NoDel
<1>2. CASE RegistOfs
  <2>1. /\ Held(n)' /\ NoDel'
    BY <1>1, <1>2, TakeHolds, TakeAdvances DEF RegistOfs, Held
  <2>2. /\ objs' = Append(objs, NewQoS) /\ cur' = Len(objs) + 1 /\ objs'[cur'] = NewQoS
    <3>1. objs \in Seq(QoS) /\ NewQoS \in QoS
      BY <1>1, Cleared, BoundAssumption DEF TypeOK, QoS, NewQoS
    <3>2. objs' = Append(objs, NewQoS) /\ cur' = Len(objs')
      BY <1>2 DEF RegistOfs
    <3> QED
      BY <3>1, <3>2, AppendPlaces
  <2>3. AddrIn(objs[cur])' = NoAddr /\ cur' # 0
    BY <1>1, <2>2, ObjFields DEF AddrIn, NewQoS
  <2>4. UNCHANGED <<conf, addrOf>>
    BY <1>2 DEF RegistOfs, confVars
  <2> QED
    BY <1>1, <2>1, <2>3, <2>4 DEF OnItsWay, Held, NoDel, AddrIn
<1>3. CASE UnregistOfs
  BY <1>3 DEF UnregistOfs, Superseded
<1>4. CASE DelOvsdbAddr
  BY <1>1, <1>4, TakeAdvances DEF DelOvsdbAddr, NoDel
<1>5. CASE SetOvsdbAddrIgnored
  <2>1. UNCHANGED <<conf, puts, addrOf, present, loop, objs, cur>>
    BY <1>5 DEF SetOvsdbAddrIgnored, confVars, objVars
  <2>2. CASE Head(events) = [ev |-> "set", put |-> n]
    <3>1. AddrIn(objs[cur]) = addrOf[n] /\ objs[cur].on
      BY <1>1, <1>5, <2>2 DEF SetOvsdbAddrIgnored, IsNews, OnItsWay
    <3>2. objs[cur].put # 0 /\ addrOf[objs[cur].put] = addrOf[n]
      BY <1>1, <3>1 DEF AddrIn
    <3> QED
      BY <1>1, <2>1, <3>1, <3>2 DEF Applied, InEffect
  <2>3. CASE Head(events) # [ev |-> "set", put |-> n]
    <3>1. Held(n)' /\ NoDel'
      BY <1>1, <1>5, <2>3, TakeHolds DEF SetOvsdbAddrIgnored, Held
    <3> QED
      BY <2>1, <3>1, WaysKept
  <2> QED
    BY <2>2, <2>3
<1>6. CASE SetOvsdbAddr
  <2>1. UNCHANGED <<conf, puts, addrOf, present, objs, cur>> /\ loop' = Head(events).put
    BY <1>6 DEF SetOvsdbAddr, confVars, objVars
  <2>2. NoDel' /\ Held(n)'
    BY <1>1, <1>6, <2>1, TakeHolds DEF SetOvsdbAddr, Held
  <2> QED
    BY <2>1, <2>2, WaysKept
<1> QED
  BY <1>2, <1>3, <1>4, <1>5, <1>6 DEF Handle

\* The initialisation of a bridge ends.
LEMMA InitHolds ==
  ASSUME IInv, NEW n \in 1..MaxPut, n <= puts, OnItsWay(n), InitOk \/ InitFails
  PROVE  OnItsWay(n)' \/ Applied(n)'
<1>1. TypeOK /\ Held(n) /\ NoDel /\ UNCHANGED <<conf, puts, addrOf, events, cur>> /\ loop # 0
  BY DEF IInv, OnItsWay, Held, NoDel, InitOk, InitFails, confVars, objVars
<1>2. CASE InitOk
  <2>1. cur \in DOMAIN objs /\ objs'[cur].put = loop /\ objs'[cur].on /\ cur # 0
    BY <1>2, InitOkOK DEF OnItsWay
  <2>2. CASE loop = n
    BY <1>1, <2>1, <2>2 DEF Applied, InEffect
  <2>3. CASE loop # n
    BY <1>1, <2>1, <2>3 DEF OnItsWay, Held, NoDel
  <2> QED
    BY <2>2, <2>3
<1>3. CASE InitFails
  <2>1. loop # n
    BY <1>3 DEF InitFails, OnItsWay
  <2>2. UNCHANGED objs
    BY <1>3 DEF InitFails, objVars
  <2> QED
    BY <1>1, <2>1, <2>2, WaysKept DEF Held, NoDel
<1> QED
  BY <1>2, <1>3

\* An address on its way arrives, or is withdrawn.
THEOREM PutsAreKept == Spec => PutNotLost
<1>1. ASSUME IInv, [Next]_vars, NEW n \in 1..puts, OnItsWay(n), puts' = puts
      PROVE  OnItsWay(n)' \/ Superseded' \/ Applied(n)'
  <2>1. /\ TypeOK /\ n \in 1..MaxPut /\ n <= puts /\ Held(n) /\ NoDel
    BY <1>1, BoundAssumption DEF IInv, TypeOK, OnItsWay, Held, NoDel
  <2>2. CASE Handle
    BY <1>1, <2>1, <2>2, HandleHolds
  <2>3. CASE InitOk \/ InitFails
    BY <1>1, <2>1, <2>3, InitHolds
  <2>4. CASE \E a \in Addr : SetKey(a)
    BY <1>1, <2>1, <2>4 DEF SetKey, TypeOK
  <2>5. CASE DelKey \/ DelDpid
    BY <2>5 DEF DelKey, DelDpid, Superseded
  <2>6. CASE Enter \/ Leave
    <3>1. UNCHANGED <<conf, addrOf, loop, objs, cur>>
      BY <2>6 DEF Enter, Leave, objVars
    <3>2. Held(n)' /\ NoDel'
      BY <2>1, <2>6, <3>1, PostHolds DEF Enter, Leave, Event
    <3> QED
      BY <1>1, <2>1, <3>1, <3>2, WaysKept
  <2>7. CASE \E r \in Req : PortsListed(r) \/ CommandReturns(r)
    <3>1. PICK r \in Req : PortsListed(r) \/ CommandReturns(r)
      BY <2>7
    <3>2. KeepsObjs /\ \A o \in DOMAIN objs : objs[o].on => objs'[o].on
      BY <1>1, <3>1, PortsListedOK, CommandReturnsOK
    <3>3. UNCHANGED <<conf, addrOf, events, loop, cur>>
      BY <3>1 DEF PortsListed, CommandReturns, confVars
    <3> QED
      BY <1>1, <2>1, <3>2, <3>3, WaysKept DEF KeepsObjs, Held, NoDel
  <2>8. CASE \/ UNCHANGED vars
             \/ \E r \in Req : \/ SetQueue(r) \/ DeleteQueue(r) \/ SetQosCommit(r)
                               \/ DelQosCommit(r) \/ CommandFails(r)
    <3>1. UNCHANGED <<conf, addrOf, events, loop, objs, cur>>
      BY <2>8 DEF vars, SetQueue, DeleteQueue, Begin, SetQosCommit, DelQosCommit,
                  CommandFails, confVars, objVars
    <3> QED
      BY <1>1, <2>1, <3>1, WaysKept DEF Held, NoDel
  <2> QED
    BY <1>1, <2>2, <2>3, <2>4, <2>5, <2>6, <2>7, <2>8 DEF Next
<1>2. IInv /\ [Next]_vars =>
        [\A n \in 1..puts : OnItsWay(n) =>
           (OnItsWay(n) \/ Superseded \/ Applied(n))' \/ puts' # puts]_vars
  BY <1>1
<1> QED
  BY <1>2, Invariant, PTL DEF Spec, PutNotLost
=============================================================================
