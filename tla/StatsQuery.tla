----------------------------- MODULE StatsQuery -----------------------------
(***************************************************************************)
(* GET requests that ask switches for statistics (get_qos, get_status and  *)
(* get_meter of rest_qos.py, through QoSController._access_switch and      *)
(* ofctl_utils.send_stats_request), for one switch or for all.             *)
(*                                                                         *)
(* A request greenlet leaves a lock and a list under the xid of its        *)
(* request and waits; RestQoSAPI's event loop takes replies and EventDP    *)
(* from one queue, fills the list, and sets the lock with the last part.   *)
(* The greenlet gives up after a second without progress.  A request for   *)
(* all switches goes through the live dictionary _OFS_LIST, which the      *)
(* event loop changes while the greenlet waits.                            *)
(*                                                                         *)
(* Connections are numbered in the order in which they come up, which is   *)
(* the order of their EventDP and so the insertion order of _OFS_LIST.     *)
(* EventDP alternates per switch (DPSet!EventDPAlternates).  With at most  *)
(* five insertions the table of a small dictionary is never rebuilt, so    *)
(* MaxConn stays below six.                                                *)
(***************************************************************************)
EXTENDS Naturals, FiniteSets, Sequences

LOCAL INSTANCE FiniteSetsExt

CONSTANTS
  Sw,        \* switches (datapath ids)
  Req,       \* greenlets serving requests
  None,      \* the dpid of a request for all switches (REST_ALL)
  MaxConn,   \* bound on connections
  MaxXid,    \* bound on requests sent to switches (2^32 xids in the code)
  MaxParts,  \* bound on the parts of one reply
  MaxEvents  \* size of the queue of RestQoSAPI (128): posters wait when it is full

ASSUME NoneAssumption == None \notin Sw
ASSUME BoundAssumption == MaxConn \in Nat /\ MaxXid \in Nat /\ MaxEvents \in Nat /\ MaxParts \in Nat \ {0}

VARIABLES
  conns,   \* connections so far
  up,      \* connection of each switch, 0 if there is none
  wire,    \* reply parts of each switch on their way to the controller
  events,  \* the queue of RestQoSAPI: EventDP and reply parts
  ofs,     \* _OFS_LIST
  waiters, \* the waiters of all switches, with the greenlet whose list it is
  xid,     \* last xid
  pc       \* what each request greenlet is doing

vars == <<conns, up, wire, events, ofs, waiters, xid, pc>>

Part == [sw : Sw, xid : Nat, part : 1..MaxParts, more : BOOLEAN]
EventDP == [sw : Sw, conn : Nat, enter : BOOLEAN]
Entry == [sw : Sw, conn : Nat]
Waiter == [sw : Sw, xid : Nat, req : Req]

\* What a request greenlet can be doing.
Op == [op : {"idle"}]
        \cup [op : {"wait"}, target : Sw \cup {None}, at : Entry, xid : Nat,
              seen : Nat, set : BOOLEAN, msgs : Seq(Part), visited : SUBSET Entry,
              size : Nat, left : Nat]

Idle == [op |-> "idle"]

Init ==
  /\ conns = 0
  /\ up = [s \in Sw |-> 0]
  /\ wire = [s \in Sw |-> <<>>]
  /\ events = <<>>
  /\ ofs = {}
  /\ waiters = {}
  /\ xid = 0
  /\ pc = [r \in Req |-> Idle]

-----------------------------------------------------------------------------
(* Switches.                                                               *)

SwitchUp(s) ==
  /\ up[s] = 0 /\ conns < MaxConn /\ Len(events) < MaxEvents
  /\ conns' = conns + 1
  /\ up' = [up EXCEPT ![s] = conns']
  /\ events' = Append(events, [sw |-> s, conn |-> conns', enter |-> TRUE])
  /\ UNCHANGED <<wire, ofs, waiters, xid, pc>>

\* The parts of replies that have not arrived are lost.
SwitchDown(s) ==
  /\ up[s] # 0 /\ Len(events) < MaxEvents
  /\ up' = [up EXCEPT ![s] = 0]
  /\ wire' = [wire EXCEPT ![s] = <<>>]
  /\ events' = Append(events, [sw |-> s, conn |-> up[s], enter |-> FALSE])
  /\ UNCHANGED <<conns, ofs, waiters, xid, pc>>

\* _recv_loop of the switch posts the next part of a reply.
Receive(s) ==
  /\ wire[s] # <<>> /\ Len(events) < MaxEvents
  /\ events' = Append(events, Head(wire[s]))
  /\ wire' = [wire EXCEPT ![s] = Tail(@)]
  /\ UNCHANGED <<conns, up, ofs, waiters, xid, pc>>

-----------------------------------------------------------------------------
(* A request.                                                              *)

\* Request r is waiting for entry e of _OFS_LIST, having gone through those in
\* visited; size and left are what the iterator of the dictionary keeps.
Waiting(target, e, x, visited, size, left) ==
  [op |-> "wait", target |-> target, at |-> e, xid |-> x, seen |-> 0,
   set |-> FALSE, msgs |-> <<>>, visited |-> visited, size |-> size, left |-> left]

\* send_stats_request up to the first wait, with the switch answering in one
\* or more parts when the connection the greenlet knows is up.  W are the
\* waiters before it.
Ask(r, W, target, e, visited, size, left) ==
  /\ xid' = xid + 1
  /\ waiters' = W \cup {[sw |-> e.sw, xid |-> xid', req |-> r]}
  /\ pc' = [pc EXCEPT ![r] = Waiting(target, e, xid', visited, size, left)]
  /\ IF up[e.sw] = e.conn
     THEN \E n \in 1..MaxParts :
            wire' = [wire EXCEPT ![e.sw] = @ \o
                       [i \in 1..n |-> [sw |-> e.sw, xid |-> xid', part |-> i,
                                        more |-> i < n]]]
     ELSE UNCHANGED wire

\* Bound: a request that asks n switches, and those under way, have xids left.
Room(n) ==
  LET Left(r) == IF pc[r].op = "wait" THEN pc[r].left ELSE 0
  IN  xid + n + MapThenSumSet(Left, Req) <= MaxXid

IsEarliest(e, S) == \A f \in S : e.conn <= f.conn

\* A request for one switch; it must be in _OFS_LIST.
GetOne(r, s) ==
  /\ pc[r].op = "idle" /\ Room(1)
  /\ \E e \in ofs : e.sw = s /\ Ask(r, waiters, s, e, {}, 1, 0)
  /\ UNCHANGED <<conns, up, events, ofs>>

\* A request for all of them goes through _OFS_LIST itself.
GetAll(r) ==
  /\ pc[r].op = "idle" /\ ofs # {} /\ Room(Cardinality(ofs))
  /\ \E e \in ofs :
       /\ IsEarliest(e, ofs)
       /\ Ask(r, waiters, None, e, {}, Cardinality(ofs), Cardinality(ofs) - 1)
  /\ UNCHANGED <<conns, up, events, ofs>>

\* Faulty variant of WaitOn: the progress is not recorded.
WaitOn_Forever(r) ==
  /\ pc[r].op = "wait" /\ ~pc[r].set /\ Len(pc[r].msgs) > pc[r].seen
  /\ UNCHANGED vars

\* Progress: the greenlet waits another second.
WaitOn(r) ==
  /\ pc[r].op = "wait" /\ ~pc[r].set /\ Len(pc[r].msgs) > pc[r].seen
  /\ pc' = [pc EXCEPT ![r].seen = Len(pc[r].msgs)]
  /\ UNCHANGED <<conns, up, wire, events, ofs, waiters, xid>>

\* The greenlet leaves send_stats_request.
Ready(r) == pc[r].op = "wait" /\ (pc[r].set \/ Len(pc[r].msgs) = pc[r].seen)

\* Faulty variant of Forget: a request that timed out leaves its lock behind.
Forget_Never(r) == waiters

\* The waiters when r leaves; a lock that is set has been taken out already.
Forget(r) ==
  IF pc[r].set THEN waiters
  ELSE waiters \ {[sw |-> pc[r].at.sw, xid |-> pc[r].xid, req |-> r]}

\* The iterator finds that the dictionary has another size, or that it has
\* gone through as many entries as there were.
Rest(r) == {e \in ofs : e.conn > pc[r].at.conn}
SizeChanged(r) == Cardinality(ofs) # pc[r].size

\* Faulty variant of TooMany: the iterator does not count.
TooMany_Never(r) == FALSE

TooMany(r) == Rest(r) # {} /\ pc[r].left = 0

\* Faulty variant of AllVisited: the loop does not look at the size.
AllVisited_AnySize(r) == pc[r].target # None \/ Rest(r) = {}

\* The loop of _access_switch is over.
AllVisited(r) == pc[r].target # None \/ (~SizeChanged(r) /\ Rest(r) = {})

Finish(r) ==
  /\ Ready(r) /\ AllVisited(r)
  /\ waiters' = Forget(r)
  /\ pc' = [pc EXCEPT ![r] = Idle]
  /\ UNCHANGED <<conns, up, wire, events, ofs, xid>>

\* RuntimeError: dictionary changed during iteration.
FinishRaises(r) ==
  /\ Ready(r) /\ pc[r].target = None
  /\ SizeChanged(r) \/ TooMany(r)
  /\ waiters' = Forget(r)
  /\ pc' = [pc EXCEPT ![r] = Idle]
  /\ UNCHANGED <<conns, up, wire, events, ofs, xid>>

\* The next switch of the dictionary.
AskNext(r) ==
  /\ Ready(r) /\ pc[r].target = None
  /\ ~SizeChanged(r) /\ Rest(r) # {} /\ ~TooMany(r)
  /\ \E e \in Rest(r) :
       /\ IsEarliest(e, Rest(r))
       /\ Ask(r, Forget(r), None, e, pc[r].visited \cup {pc[r].at},
              pc[r].size, pc[r].left - 1)
  /\ UNCHANGED <<conns, up, events, ofs>>

-----------------------------------------------------------------------------
(* The event loop of RestQoSAPI.                                           *)

IsDP(ev) == "enter" \in DOMAIN ev

\* regist_ofs and unregist_ofs.
HandlerDatapath(ev) ==
  /\ ofs' = IF ~ev.enter THEN {e \in ofs : e.sw # ev.sw}
            ELSE IF \E e \in ofs : e.sw = ev.sw THEN ofs
            ELSE ofs \cup {[sw |-> ev.sw, conn |-> ev.conn]}
  /\ UNCHANGED <<waiters, pc>>

Of(m) == {w \in waiters : w.sw = m.sw /\ w.xid = m.xid}

\* Faulty variant of Deliver: a part that is not the last is not kept.
Deliver_DropsMore(p, m) ==
  [p EXCEPT !.msgs = IF m.more THEN @ ELSE Append(@, m), !.set = ~m.more]

\* The part goes into the list and the last part sets the lock.
Deliver(p, m) == [p EXCEPT !.msgs = Append(@, m), !.set = ~m.more]

\* Faulty variant of StatsReplyHandler: the reply goes to whoever waits for the
\* switch, whatever its xid.
StatsReplyHandler_AnyXid(m) ==
  /\ pc' = [r \in Req |-> IF \E w \in waiters : w.sw = m.sw /\ w.req = r
                          THEN Deliver(pc[r], m) ELSE pc[r]]
  /\ waiters' = IF m.more THEN waiters ELSE {w \in waiters : w.sw # m.sw}
  /\ UNCHANGED ofs

\* Nothing happens to a reply nobody waits for.
StatsReplyHandler(m) ==
  /\ pc' = [r \in Req |-> IF \E w \in Of(m) : w.req = r
                          THEN Deliver(pc[r], m) ELSE pc[r]]
  /\ waiters' = IF m.more THEN waiters ELSE waiters \ Of(m)
  /\ UNCHANGED ofs

HandleEvent ==
  /\ events # <<>>
  /\ events' = Tail(events)
  /\ IF IsDP(Head(events)) THEN HandlerDatapath(Head(events))
     ELSE StatsReplyHandler(Head(events))
  /\ UNCHANGED <<conns, up, wire, xid>>

Next ==
  \/ \E s \in Sw : SwitchUp(s) \/ SwitchDown(s) \/ Receive(s)
  \/ \E r \in Req : GetAll(r) \/ \E s \in Sw : GetOne(r, s)
  \/ \E r \in Req : WaitOn(r) \/ Finish(r) \/ FinishRaises(r) \/ AskNext(r)
  \/ HandleEvent

Spec == Init /\ [][Next]_vars

\* A waiting greenlet runs on within a second, woken by its lock or its timeout.
FairSpec ==
  Spec /\ \A r \in Req : WF_vars(WaitOn(r) \/ Finish(r) \/ FinishRaises(r) \/ AskNext(r))

-----------------------------------------------------------------------------
(* Properties.                                                             *)

TypeOK ==
  /\ conns \in Nat /\ up \in [Sw -> Nat] /\ xid \in Nat
  /\ wire \in [Sw -> Seq(Part)]
  /\ events \in Seq(Part \cup EventDP)
  /\ ofs \subseteq Entry
  /\ waiters \subseteq Waiter
  /\ pc \in [Req -> Op]

\* A lock is in the table as long as the greenlet that left it waits and no
\* longer: neither a reply that comes too late, nor one that comes in the same
\* instant as the timeout, nor a switch that goes away leaves a lock behind or
\* takes one from somebody still waiting.
WaitersAreWaiting ==
  waiters = {[sw |-> pc[r].at.sw, xid |-> pc[r].xid, req |-> r] :
                r \in {q \in Req : pc[q].op = "wait" /\ ~pc[q].set}}

\* The parts a greenlet has are the first parts of the reply to its own
\* request, in order, however replies of other requests, of a connection
\* before this one, or of a request of its own that timed out, come between.
AnswerIsOwnReply ==
  \A r \in Req : pc[r].op = "wait" =>
    \A i \in DOMAIN pc[r].msgs :
      /\ pc[r].msgs[i].xid = pc[r].xid
      /\ pc[r].msgs[i].part = i

\* When the lock is set the answer is complete: it ends with the last part, and
\* no part is missing before it.
SetMeansComplete ==
  \A r \in Req : pc[r].op = "wait" /\ pc[r].set =>
    LET k == Len(pc[r].msgs)
    IN  /\ k > 0 /\ pc[r].msgs[k].part = k
        /\ \A i \in 1..k : pc[r].msgs[i].more <=> i < k

\* A request for all switches that succeeds has asked exactly the switches that
\* are registered when it ends, each in the connection registered: switches
\* that came or went while it waited make it fail, unless they cancel out.
AllMeansAll ==
  [][\A r \in Req : Finish(r) /\ pc[r].target = None
                      => pc[r].visited \cup {pc[r].at} = ofs]_vars

\* Every request gets its response, although switches come and go and replies
\* stop half way.
EveryRequestEnds == \A r \in Req : pc[r].op = "wait" ~> pc[r].op = "idle"
=============================================================================
