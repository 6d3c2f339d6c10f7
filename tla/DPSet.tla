------------------------------- MODULE DPSet -------------------------------
(***************************************************************************)
(* The registry of connected switches of the access controller:            *)
(*                                                                         *)
(*   receive greenlet of each Datapath (controller.py, ofp_handler.py)     *)
(*     --EventOFPStateChange, EventOFPPortStatus-->  DPSet (dpset.py)      *)
(*     --EventDP-->  RestQoSAPI / QoSController._OFS_LIST (rest_qos.py)    *)
(*                                                                         *)
(* Greenlets are cooperative, so a step here is what runs between two      *)
(* places where a greenlet can lose control.  The only such places on      *)
(* these paths are the posts into a bounded event queue (a semaphore is    *)
(* acquired, then the event is put: app_manager.py _send_event).  The      *)
(* semaphore is FIFO, so the events waiting for a slot form one line with  *)
(* the accepted ones: q is that line, its first QMax entries are in        *)
(* dpset's queue, and a poster whose entry lies beyond them is blocked.    *)
(* aq is the same for RestQoSAPI's queue, where dpset is the only poster.  *)
(*                                                                         *)
(* maximum_unreplied_echo_requests has its default, 0: no echo greenlet    *)
(* closes a Datapath (OFChannel models that one).                          *)
(***************************************************************************)
EXTENDS Naturals, Sequences, FiniteSets

CONSTANTS
  Dp,      \* Datapath instances, one per TCP connection
  Dpid,    \* datapath ids
  Port,    \* port numbers
  IdOf,    \* the datapath id each connection announces
  None,    \* no Datapath
  NoPort,  \* port field of an event that has none
  QMax,    \* events.maxsize of dpset (128 in the code)
  AppMax   \* events.maxsize of RestQoSAPI (128 in the code)

ASSUME IdOfAssumption  == IdOf \in [Dp -> Dpid]
ASSUME NoneAssumption  == None \notin Dp /\ NoPort \notin Port
ASSUME BoundAssumption == QMax \in Nat \ {0} /\ AppMax \in Nat \ {0}

VARIABLES
  state,      \* Datapath.state; "none" before the connection is accepted
  ports,      \* Datapath.ports (port numbers)
  parked,     \* event a receive greenlet is posting while it is suspended
  gone,       \* connections whose receive loop and close() have finished
  q,          \* line of events for dpset: accepted, then waiting
  pc,         \* where dpset's event loop is suspended
  cur,        \* the Datapath its current handler is about
  dps,        \* DPSet.dps
  port_state, \* DPSet.port_state
  aq,         \* line of EventDP for RestQoSAPI
  ofs         \* QoSController._OFS_LIST, as the Datapath each QoS holds

conns == <<state, ports, parked, gone>>
vars  == <<state, ports, parked, gone, q, pc, cur, dps, port_state, aq, ofs>>

\* OFPPR_ADD and OFPPR_MODIFY both store the port under its number.
PortReason == {"set", "delete"}
Event == [type : {"main", "dead"}, dp : Dp, port : {NoPort}]
           \cup [type : PortReason, dp : Dp, port : Port]
EventDP == [enter : BOOLEAN, dp : Dp]

ASSUME EventAssumption == None \notin Event

MAIN(c)  == [type |-> "main", dp |-> c, port |-> NoPort]
DEAD(c)  == [type |-> "dead", dp |-> c, port |-> NoPort]
PORT(c, r, p) == [type |-> r, dp |-> c, port |-> p]
Enter(c) == [enter |-> TRUE, dp |-> c]
Leave(c) == [enter |-> FALSE, dp |-> c]

\* The value of port_state for a dpid it does not hold: not a set of ports.
NoPorts == {NoPort}

\* The sequence s holds event e.
In(e, s) == \E i \in 1..Len(s) : s[i] = e

-----------------------------------------------------------------------------
Init ==
  /\ state = [c \in Dp |-> "none"]
  /\ ports = [c \in Dp |-> {}]
  /\ parked = [c \in Dp |-> None]
  /\ gone = {}
  /\ q = <<>>
  /\ pc = "idle" /\ cur = None
  /\ dps = [d \in Dpid |-> None]
  /\ port_state = [d \in Dpid |-> NoPorts]
  /\ aq = <<>>
  /\ ofs = [d \in Dpid |-> None]

-----------------------------------------------------------------------------
(* The receive greenlet of a Datapath.                                     *)

\* A post returns at once when a slot is free; otherwise the greenlet parks.
Park(c, e) == parked' = IF Len(q) < QMax THEN parked ELSE [parked EXCEPT ![c] = e]

Running(c) == c \notin gone /\ state[c] # "none" /\ parked[c] = None

\* Negotiation is over and switch_features_handler has set id and ports.
Connect(c) ==
  /\ state[c] = "none"
  /\ state' = [state EXCEPT ![c] = "config"]
  /\ UNCHANGED <<ports, parked, gone, q, pc, cur, dps, port_state, aq, ofs>>

\* multipart_reply_handler on a port description that is to be continued.
PortDescMore(c, S) ==
  /\ Running(c) /\ state[c] = "config"
  /\ ports' = [ports EXCEPT ![c] = @ \cup S]
  /\ UNCHANGED <<state, parked, gone, q, pc, cur, dps, port_state, aq, ofs>>

\* multipart_reply_handler on the last one: set_state(MAIN) posts to dpset.
PortDescLast(c, S) ==
  /\ Running(c) /\ state[c] = "config"
  /\ ports' = [ports EXCEPT ![c] = @ \cup S]
  /\ state' = [state EXCEPT ![c] = "main"]
  /\ q' = Append(q, MAIN(c))
  /\ Park(c, MAIN(c))
  /\ UNCHANGED <<gone, pc, cur, dps, port_state, aq, ofs>>

\* What OFPHandler.port_status_handler does to the ports.
PortsAfter(S, r, p) == IF r = "delete" THEN S \ {p} ELSE S \cup {p}

\* A port status message: posted to dpset (an observer in MAIN only), then
\* handled by OFPHandler in the same step, unless the post suspended.
PortStatus(c, r, p) ==
  /\ Running(c) /\ state[c] = "main"
  /\ q' = Append(q, PORT(c, r, p))
  /\ Park(c, PORT(c, r, p))
  /\ ports' = IF Len(q) < QMax
              THEN [ports EXCEPT ![c] = PortsAfter(@, r, p)]
              ELSE ports
  /\ UNCHANGED <<state, gone, pc, cur, dps, port_state, aq, ofs>>

\* Faulty variant of Resume: the OFPHandler handler is skipped after a wait.
Resume_SkipsHandler(c) ==
  /\ parked[c] # None
  /\ \A i \in QMax+1..Len(q) : q[i] # parked[c]
  /\ parked' = [parked EXCEPT ![c] = None]
  /\ UNCHANGED <<state, ports, gone, q, pc, cur, dps, port_state, aq, ofs>>

\* The post has got its slot.  The OFPHandler handler still runs only if the
\* state, read again after the post, is MAIN.
Resume(c) ==
  /\ parked[c] # None
  /\ \A i \in QMax+1..Len(q) : q[i] # parked[c]
  /\ LET e == parked[c] IN
       ports' = IF e.type \in PortReason /\ state[c] = "main"
                THEN [ports EXCEPT ![c] = PortsAfter(@, e.type, e.port)]
                ELSE ports
  /\ parked' = [parked EXCEPT ![c] = None]
  /\ UNCHANGED <<state, gone, q, pc, cur, dps, port_state, aq, ofs>>

\* Faulty variant of Close: the DEAD event overtakes the events in line.
Close_DeadFirst(c) ==
  /\ Running(c)
  /\ gone' = gone \cup {c}
  /\ state' = [state EXCEPT ![c] = "dead"]
  /\ q' = IF state[c] = "dead" THEN q ELSE <<DEAD(c)>> \o q
  /\ UNCHANGED <<ports, parked, pc, cur, dps, port_state, aq, ofs>>

\* Faulty variant of Close: no state change event.
Close_Silent(c) ==
  /\ Running(c)
  /\ gone' = gone \cup {c}
  /\ state' = [state EXCEPT ![c] = "dead"]
  /\ UNCHANGED <<ports, parked, q, pc, cur, dps, port_state, aq, ofs>>

\* The receive loop ends (peer closed, socket error, an exception, or the
\* state found DEAD) and contextlib.closing calls Datapath.close().
Close(c) ==
  /\ Running(c)
  /\ gone' = gone \cup {c}
  /\ state' = [state EXCEPT ![c] = "dead"]
  /\ q' = IF state[c] = "dead" THEN q ELSE Append(q, DEAD(c))
  /\ UNCHANGED <<ports, parked, pc, cur, dps, port_state, aq, ofs>>

-----------------------------------------------------------------------------
(* The event loop of DPSet.                                                *)

\* It can take its next event: not suspended on a post of its own.
Idle == pc = "idle" /\ Len(aq) <= AppMax

Taking(e) == Idle /\ q # <<>> /\ Head(q) = e

\* Faulty variant of Install: a reconnect is announced as an enter too.
Install_AlwaysEnter(c) ==
  LET d == IdOf[c] IN
  /\ dps' = [dps EXCEPT ![d] = c]
  /\ port_state' = [port_state EXCEPT ![d] = ports[c]]
  /\ aq' = Append(aq, Enter(c))

\* The tail of _register: dps, and for a new dpid the ports and EventDP.
\* (EventDPReconnected has no observer in this controller.)
Install(c) ==
  LET d == IdOf[c] IN
  /\ dps' = [dps EXCEPT ![d] = c]
  /\ IF port_state[d] = NoPorts
     THEN /\ port_state' = [port_state EXCEPT ![d] = ports[c]]
          /\ aq' = Append(aq, Enter(c))
     ELSE UNCHANGED <<port_state, aq>>

\* dps holds a Datapath of c's dpid that _register still has to close.
HasLiveOlder(c) ==
  LET old == dps[IdOf[c]] IN old # None /\ state[old] # "dead"

\* _register when no live Datapath of that dpid has to be closed.
RegisterNew(c) ==
  /\ Taking(MAIN(c))
  /\ ~HasLiveOlder(c)
  /\ q' = Tail(q)
  /\ Install(c)
  /\ UNCHANGED <<state, ports, parked, gone, pc, cur, ofs>>

\* _register closes the older Datapath, whose DEAD event goes into dpset's own
\* queue, and goes on because a slot is free.
RegisterReplace(c) ==
  LET old == dps[IdOf[c]] IN
  /\ Taking(MAIN(c))
  /\ HasLiveOlder(c)
  /\ Len(q) <= QMax
  /\ state' = [state EXCEPT ![old] = "dead"]
  /\ q' = Append(Tail(q), DEAD(old))
  /\ Install(c)
  /\ UNCHANGED <<ports, parked, gone, pc, cur, ofs>>

\* The same with no slot free: dpset waits for a slot that only dpset can
\* free, so no action of this module leaves "closing".
RegisterStuck(c) ==
  LET old == dps[IdOf[c]] IN
  /\ Taking(MAIN(c))
  /\ HasLiveOlder(c)
  /\ Len(q) > QMax
  /\ state' = [state EXCEPT ![old] = "dead"]
  /\ q' = Append(Tail(q), DEAD(old))
  /\ pc' = "closing" /\ cur' = c
  /\ UNCHANGED <<ports, parked, gone, dps, port_state, aq, ofs>>

\* Faulty variant of UnregisterForgotten: the entry goes by dpid alone.
UnregisterForgotten_ById(c) ==
  /\ Taking(DEAD(c))
  /\ dps[IdOf[c]] # c
  /\ q' = Tail(q)
  /\ dps' = [dps EXCEPT ![IdOf[c]] = None]
  /\ UNCHANGED <<state, ports, parked, gone, pc, cur, port_state, aq, ofs>>

\* _unregister of a Datapath that dps no longer holds.
UnregisterForgotten(c) ==
  /\ Taking(DEAD(c))
  /\ dps[IdOf[c]] # c
  /\ q' = Tail(q)
  /\ UNCHANGED <<state, ports, parked, gone, pc, cur, dps, port_state, aq, ofs>>

\* _unregister: EventDP(leave) is posted first, the entries go after it.
Unregister(c) ==
  LET d == IdOf[c] IN
  /\ Taking(DEAD(c))
  /\ dps[d] = c
  /\ q' = Tail(q)
  /\ aq' = Append(aq, Leave(c))
  /\ IF Len(aq) < AppMax
     THEN /\ dps' = [dps EXCEPT ![d] = None]
          /\ port_state' = [port_state EXCEPT ![d] = NoPorts]
          /\ UNCHANGED <<pc, cur>>
     ELSE /\ pc' = "leaving" /\ cur' = c
          /\ port_state' = [port_state EXCEPT ![d] = {}]
          /\ UNCHANGED dps
  /\ UNCHANGED <<conns, ofs>>

\* Faulty variant of UnregisterEnd: port_state keeps the dpid.
UnregisterEnd_KeepsPorts ==
  /\ pc = "leaving" /\ Len(aq) <= AppMax
  /\ dps' = [dps EXCEPT ![IdOf[cur]] = None]
  /\ pc' = "idle" /\ cur' = None
  /\ UNCHANGED <<conns, q, port_state, aq, ofs>>

\* Faulty variant of UnregisterEnd: the loop stays bound to the connection.
UnregisterEnd_KeepsCur ==
  /\ pc = "leaving" /\ Len(aq) <= AppMax
  /\ dps' = [dps EXCEPT ![IdOf[cur]] = None]
  /\ port_state' = [port_state EXCEPT ![IdOf[cur]] = NoPorts]
  /\ pc' = "idle"
  /\ UNCHANGED <<conns, cur, q, aq, ofs>>

\* The leave event got its slot in RestQoSAPI's queue.
UnregisterEnd ==
  /\ pc = "leaving" /\ Len(aq) <= AppMax
  /\ dps' = [dps EXCEPT ![IdOf[cur]] = None]
  /\ port_state' = [port_state EXCEPT ![IdOf[cur]] = NoPorts]
  /\ pc' = "idle" /\ cur' = None
  /\ UNCHANGED <<conns, q, aq, ofs>>

\* port_status_handler raises KeyError, which _event_loop logs and drops: the
\* dpid is not in port_state, or the port to delete is not.
PortKeyError(e) ==
  \/ port_state[IdOf[e.dp]] = NoPorts
  \/ e.type = "delete" /\ e.port \notin port_state[IdOf[e.dp]]

\* port_status_handler.
PortStatusHandler(e) ==
  LET d == IdOf[e.dp] IN
  /\ Taking(e) /\ e.type \in PortReason
  /\ q' = Tail(q)
  /\ port_state' = IF PortKeyError(e)
                   THEN port_state
                   ELSE [port_state EXCEPT ![d] = PortsAfter(@, e.type, e.port)]
  /\ UNCHANGED <<conns, pc, cur, dps, aq, ofs>>

-----------------------------------------------------------------------------
(* The event loop of RestQoSAPI: handler_datapath.                         *)

\* Faulty variant of HandlerDatapath: unregist_ofs goes by Datapath.
HandlerDatapath_ByDp ==
  /\ aq # <<>>
  /\ aq' = Tail(aq)
  /\ LET e == Head(aq)  d == IdOf[e.dp] IN
       ofs' = IF e.enter
              THEN IF ofs[d] = None THEN [ofs EXCEPT ![d] = e.dp] ELSE ofs
              ELSE IF ofs[d] = e.dp THEN [ofs EXCEPT ![d] = None] ELSE ofs
  /\ UNCHANGED <<conns, q, pc, cur, dps, port_state>>

\* regist_ofs keeps an entry it finds; unregist_ofs goes by dpid.
HandlerDatapath ==
  /\ aq # <<>>
  /\ aq' = Tail(aq)
  /\ LET e == Head(aq)  d == IdOf[e.dp] IN
       ofs' = IF e.enter
              THEN IF ofs[d] = None THEN [ofs EXCEPT ![d] = e.dp] ELSE ofs
              ELSE [ofs EXCEPT ![d] = None]
  /\ UNCHANGED <<conns, q, pc, cur, dps, port_state>>

-----------------------------------------------------------------------------
DpStep(c) ==
  \/ Connect(c)
  \/ \E S \in SUBSET Port : PortDescMore(c, S) \/ PortDescLast(c, S)
  \/ \E r \in PortReason, p \in Port : PortStatus(c, r, p)
  \/ Resume(c)
  \/ Close(c)

Register(c) == RegisterNew(c) \/ RegisterReplace(c) \/ RegisterStuck(c)

DpsetStep ==
  \/ \E c \in Dp : Register(c) \/ UnregisterForgotten(c) \/ Unregister(c)
  \/ UnregisterEnd
  \/ \E e \in Event : PortStatusHandler(e)

Next == (\E c \in Dp : DpStep(c)) \/ DpsetStep \/ HandlerDatapath

\* Both event loops run whenever they can.  A receive greenlet whose Datapath
\* is DEAD leaves its loop: its socket times out every few seconds and the loop
\* tests the state (controller.py:329).  Nothing makes a live one end.
Fairness ==
  /\ WF_vars(DpsetStep)
  /\ WF_vars(HandlerDatapath)
  /\ \A c \in Dp : WF_vars(Resume(c))
                   /\ WF_vars(Close(c) /\ state[c] = "dead")

Spec == Init /\ [][Next]_vars
FairSpec == Spec /\ Fairness
-----------------------------------------------------------------------------
(* Properties.                                                             *)

\* Every variable stays within its type; dpset is suspended about a connection.
TypeOK ==
  /\ state \in [Dp -> {"none", "config", "main", "dead"}]
  /\ ports \in [Dp -> SUBSET Port]
  /\ parked \in [Dp -> Event \cup {None}]
  /\ gone \in SUBSET Dp
  /\ q \in Seq(Event)
  /\ \/ pc = "idle" /\ cur = None
     \/ pc \in {"closing", "leaving"} /\ cur \in Dp
  /\ dps \in [Dpid -> Dp \cup {None}]
  /\ port_state \in [Dpid -> (SUBSET Port) \cup {NoPorts}]
  /\ aq \in Seq(EventDP)
  /\ ofs \in [Dpid -> Dp \cup {None}]

\* A dead Datapath that dps still holds has its DEAD event in dpset's line, or
\* dpset is unregistering it: no order of closes, reconnects and blocked posts
\* leaves a dead switch registered for ever.
DeadIsOnItsWay ==
  \A d \in Dpid : LET c == dps[d] IN
    c # None /\ state[c] = "dead" => In(DEAD(c), q) \/ (pc = "leaving" /\ cur = c)

\* A Datapath in MAIN is in dps, unless its registration is still to come: a
\* late DEAD or a stale registration of another connection of the same switch
\* never drops a live one without closing it.
LiveIsRegistered ==
  \A c \in Dp :
    state[c] = "main" /\ ~In(MAIN(c), q) /\ ~(pc = "closing" /\ cur = c)
      => dps[IdOf[c]] = c

\* port_state and dps hold the same dpids: _unregister's two deletes and
\* port_status_handler's lookups agree on which switches exist.
PortStateFollowsDps == \A d \in Dpid : dps[d] = None <=> port_state[d] = NoPorts

\* Positions of the events about d in RestQoSAPI's line.
About(d) == {i \in 1..Len(aq) : IdOf[aq[i].dp] = d}

\* dpset has announced d as entered and not yet as left.
Announced(d) == dps[d] # None /\ ~(pc = "leaving" /\ IdOf[cur] = d)

\* EventDP enter and leave alternate for every dpid, starting from what
\* _OFS_LIST holds and ending at what dps holds, so regist_ofs never meets an
\* entry and unregist_ofs always does, however the connections overlap.
EventDPAlternates ==
  \A d \in Dpid :
    LET I == About(d) IN
      IF I = {} THEN Announced(d) <=> ofs[d] # None
      ELSE \A i \in I :
        /\ (\A j \in I : i <= j) => (aq[i].enter <=> ofs[d] = None)
        /\ (\A j \in I : j <= i) => (aq[i].enter <=> Announced(d))
        /\ \A j \in I : (i < j /\ \A k \in I : k <= i \/ j <= k)
                         => aq[i].enter # aq[j].enter

Quiescent == q = <<>> /\ aq = <<>> /\ Idle /\ \A c \in Dp : parked[c] = None

\* For a switch that connected once, port_state ends equal to Datapath.ports,
\* although the two are updated by different greenlets at different times and
\* an early delete makes port_status_handler raise KeyError.
PortStateTracksPorts ==
  \A d \in Dpid :
    Quiescent /\ dps[d] # None
      /\ (\A c \in Dp : IdOf[c] = d /\ state[c] # "none" => c = dps[d])
      => port_state[d] = ports[dps[d]]

\* dpset and handler_datapath keep the promise of SwitchFeed: over reconnects,
\* overlaps and full queues _OFS_LIST follows each coming and going of a switch
\* once, so it is right whenever no EventDP about the switch is in line.
Feed == INSTANCE SwitchFeed WITH
  Switch    <- Dpid,
  announced <- [d \in Dpid |-> Announced(d)],
  known     <- [d \in Dpid |-> ofs[d] # None],
  lag       <- [d \in Dpid |-> Cardinality(About(d))]
RefinesSwitchFeed == Feed!SSpec

\* dpset waits for a slot of its own queue.
Stuck == pc = "closing"

\* A dead Datapath is eventually out of dps, unless dpset gets stuck.
DeadIsForgotten ==
  \A c \in Dp : (state[c] = "dead") ~> (dps[IdOf[c]] # c \/ Stuck)

\* _OFS_LIST and dps come to hold the same switches for good, unless
\* dpset gets stuck.
ViewsConverge ==
  <>[](Stuck \/ \A d \in Dpid : ofs[d] = None <=> dps[d] = None)

\* Comment of _register (dpset.py:204-210): the older connection is forgotten
\* and the new one takes its place.  So a connection in MAIN gets registered or
\* dies.  It does not hold: with dpset's queue full the registration waits for
\* ever, and with it every event of every switch.
RegistrationEnds ==
  \A c \in Dp : (state[c] = "main") ~> (dps[IdOf[c]] = c \/ state[c] = "dead")

\* Documentation of EventDP (dpset.py:47-51): observing EventOFPStateChange
\* gives "the same notification", so the observer of EventDP knows the
\* connection dpset knows.  It does not hold: a reconnect sends no EventDP.
QosDpIsCurrent ==
  Quiescent => \A d \in Dpid : ofs[d] = dps[d]
=============================================================================
