------------------------------ MODULE QosConf ------------------------------
(***************************************************************************)
(* The OVSDB address and the queues of one switch: rest_conf_switch and    *)
(* ConfSwitchSet, which keep the address and post an event, the event loop *)
(* of RestQoSAPI, which gives it to the QoS object of the switch, and POST *)
(* and DELETE of /qos/queue, which go through that object to the OVSDB.    *)
(*                                                                         *)
(* Each PUT of an address is known by its number; addrOf gives the address *)
(* itself.  A QoS object is made when the switch enters and dropped when   *)
(* it leaves, and requests under way keep the one they started with.       *)
(* Every command of an OVSBridge opens a connection, so a greenlet loses   *)
(* control in it; one command is one transaction of the OVSDB.  It may     *)
(* fail before the transaction is committed or, while vsctl waits for the  *)
(* switch to reload, after it (timeout, or another greenlet's command on   *)
(* the same VSCtl object, which replaces self.txn).                        *)
(*                                                                         *)
(* Of the queues of a port only their number counts: set_qos writes queues *)
(* 0, 1, ... into the QoS row the port has, and removes none.              *)
(***************************************************************************)
EXTENDS Naturals, Sequences, FiniteSets

CONSTANTS
  Req,       \* greenlets serving queue requests
  Addr,      \* OVSDB addresses
  NoAddr,    \* no address
  Flaky,     \* addresses where OVSBridge.init() may fail
  Port,      \* port names
  Tunnel,    \* those with a remote_ip, as all ports the lab configures
  AnyPort,   \* a POST that names no port
  PortsAt,   \* the ports of the switch each OVSDB address leads to
  MaxPut,    \* bound on PUT requests
  MaxObj,    \* bound on QoS objects, i.e. on connections
  MaxQ,      \* bound on queues per port
  MaxEvents  \* bound on the events posted and not yet taken: those in the queue of
             \* RestQoSAPI (128) and those whose poster waits in line for a place

ASSUME AddrAssumption ==
  /\ Addr # {} /\ NoAddr \notin Addr /\ Flaky \subseteq Addr
  /\ AnyPort \notin Port /\ Tunnel \subseteq Port /\ PortsAt \in [Addr -> SUBSET Port]
ASSUME BoundAssumption ==
  MaxPut \in Nat /\ MaxObj \in Nat /\ MaxQ \in Nat \ {0} /\ MaxEvents \in Nat \ {0}

VARIABLES
  conf,    \* ConfSwitchSet.confs[dpid][ovsdb_addr]
  puts,    \* PUT requests so far
  addrOf,  \* the address of each PUT
  events,  \* the queue of RestQoSAPI
  present, \* the switch is connected, as the posters of EventDP see it
  loop,    \* 0, or the PUT whose bridge the event loop is initialising
  objs,    \* the QoS objects made so far
  cur,     \* the one in _OFS_LIST, 0 if none
  db,      \* queues of each port in each OVSDB
  pc       \* what each request greenlet is doing

vars == <<conf, puts, addrOf, events, present, loop, objs, cur, db, pc>>

\* ovsdb_addr is addrOf[put] (None when put is 0); ovs_bridge is that bridge
\* when on is TRUE and None otherwise; list is queue_list.
QoS == [put : 0..MaxPut, on : BOOLEAN, list : [Port -> 0..MaxQ]]
NewQoS == [put |-> 0, on |-> FALSE, list |-> [p \in Port |-> 0]]

Event == [ev : {"set"}, put : 1..MaxPut] \cup [ev : {"del", "enter", "leave"}]

\* A greenlet in a command on bridge b for object obj: listing the ports, or
\* setting or deleting the queues of port, before or after the commit.
Op == [op : {"idle"}]
        \cup [op : {"list"}, job : {"set", "del"}, obj : 1..MaxObj, b : 1..MaxPut,
              asked : Port \cup {AnyPort}, k : 0..MaxQ]
        \cup [op : {"port", "reload"}, job : {"set", "del"}, obj : 1..MaxObj, b : 1..MaxPut,
              port : Port, todo : SUBSET Port, k : 0..MaxQ]
Idle == [op |-> "idle"]

Init ==
  /\ conf = NoAddr /\ puts = 0 /\ addrOf = [n \in 1..MaxPut |-> NoAddr]
  /\ events = <<>> /\ present = FALSE
  /\ loop = 0 /\ objs = <<>> /\ cur = 0
  /\ db = [a \in Addr |-> [p \in Port |-> 0]]
  /\ pc = [r \in Req |-> Idle]

objVars == <<objs, cur>>
confVars == <<conf, puts, addrOf, present>>

-----------------------------------------------------------------------------
(* Configuration and connection of the switch.                             *)

Post(e) == Len(events) < MaxEvents /\ events' = Append(events, e)

\* PUT /v1.0/conf/switches/<dpid>/ovsdb_addr; it answers before the event is
\* handled, or even before RestQoSAPI knows the switch.
SetKey(a) ==
  /\ puts < MaxPut
  /\ puts' = puts + 1
  /\ addrOf' = [addrOf EXCEPT ![puts'] = a]
  /\ conf' = a
  /\ Post([ev |-> "set", put |-> puts'])
  /\ UNCHANGED <<present, loop, objVars, db, pc>>

DelKey ==
  /\ conf # NoAddr
  /\ conf' = NoAddr
  /\ Post([ev |-> "del"])
  /\ UNCHANGED <<puts, addrOf, present, loop, objVars, db, pc>>

\* DELETE /v1.0/conf/switches/<dpid>: nobody observes EventConfSwitchDelDPID.
DelDpid ==
  /\ conf # NoAddr
  /\ conf' = NoAddr
  /\ UNCHANGED <<puts, addrOf, events, present, loop, objVars, db, pc>>

\* Bound: at most MaxObj connections.
Enter ==
  /\ ~present
  /\ Len(objs) + Cardinality({i \in DOMAIN events : events[i].ev = "enter"}) < MaxObj
  /\ present' = TRUE
  /\ Post([ev |-> "enter"])
  /\ UNCHANGED <<conf, puts, addrOf, loop, objVars, db, pc>>

Leave ==
  /\ present
  /\ present' = FALSE
  /\ Post([ev |-> "leave"])
  /\ UNCHANGED <<conf, puts, addrOf, loop, objVars, db, pc>>

-----------------------------------------------------------------------------
(* The event loop of RestQoSAPI.                                           *)

\* Mutant for TypeOK: a greenlet for each event.
Take_Parallel(kind) ==
  events # <<>> /\ Head(events).ev = kind /\ events' = Tail(events)
Take(kind) ==
  /\ loop = 0 /\ events # <<>> /\ Head(events).ev = kind
  /\ events' = Tail(events)

\* Mutant for RefinesRegister: the QoS object of a switch is kept and reused.
RegistOfs_Reuse ==
  /\ Take("enter")
  /\ objs' = (IF objs = <<>> THEN <<NewQoS>> ELSE objs) /\ cur' = 1
  /\ UNCHANGED <<confVars, loop, db, pc>>
\* regist_ofs makes a QoS object; the configured address is not looked up.
RegistOfs ==
  /\ Take("enter")
  /\ objs' = Append(objs, NewQoS) /\ cur' = Len(objs')
  /\ UNCHANGED <<confVars, loop, db, pc>>

UnregistOfs ==
  /\ Take("leave")
  /\ cur' = 0
  /\ UNCHANGED <<confVars, loop, objs, db, pc>>

\* conf_switch_del_handler: the bridge goes, ovsdb_addr stays.
DelOvsdbAddr ==
  /\ Take("del")
  /\ objs' = IF cur = 0 THEN objs ELSE [objs EXCEPT ![cur].on = FALSE]
  /\ UNCHANGED <<confVars, loop, cur, db, pc>>

\* ovsdb_addr of an object.
AddrIn(o) == IF o.put = 0 THEN NoAddr ELSE addrOf[o.put]

\* Mutant for PutTakesEffect: only the first address is taken.
IsNews_First(n) == cur # 0 /\ objs[cur].put = 0
\* conf_switch_set_handler: nothing happens without a QoS object, or when it
\* has the address already, in use or withdrawn.
IsNews(n) == cur # 0 /\ AddrIn(objs[cur]) # addrOf[n]

SetOvsdbAddrIgnored ==
  /\ Take("set") /\ ~IsNews(Head(events).put)
  /\ UNCHANGED <<confVars, loop, objVars, db, pc>>

SetOvsdbAddr ==
  /\ Take("set") /\ IsNews(Head(events).put)
  /\ loop' = Head(events).put
  /\ UNCHANGED <<confVars, objVars, db, pc>>

InitOk ==
  /\ loop # 0
  /\ objs' = [objs EXCEPT ![cur].put = loop, ![cur].on = TRUE]
  /\ loop' = 0
  /\ UNCHANGED <<confVars, events, cur, db, pc>>

\* No OVSDB, or not of this switch: ValueError ends the handler.
InitFails ==
  /\ loop # 0 /\ addrOf[loop] \in Flaky
  /\ loop' = 0
  /\ UNCHANGED <<confVars, events, objVars, db, pc>>

-----------------------------------------------------------------------------
(* Queue requests.                                                         *)

\* POST (job "set", k queues) or DELETE (job "del") of /qos/queue.  Without a
\* bridge the answer is 'failure', and nothing changes.
Begin(r, job, asked, k) ==
  /\ pc[r] = Idle
  /\ cur # 0 /\ objs[cur].on
  /\ pc' = [pc EXCEPT ![r] = [op |-> "list", job |-> job, obj |-> cur, b |-> objs[cur].put,
                              asked |-> asked, k |-> k]]
  /\ UNCHANGED <<confVars, events, loop, objVars, db>>

SetQueue(r) == \E p \in Port \cup {AnyPort}, k \in 1..MaxQ : Begin(r, "set", p, k)
DeleteQueue(r) == Begin(r, "del", AnyPort, 0)

\* The ports a listing gives: get_port_name_list, or get_external_ports.
Listed(r) ==
  LET here == PortsAt[addrOf[pc[r].b]]
  IN  IF pc[r].job = "del" THEN here \ Tunnel
      ELSE IF pc[r].asked = AnyPort THEN here ELSE here \cap {pc[r].asked}

\* The request goes on to one of the ports left, on the bridge its object has
\* now.  With none left it ends; without a bridge it ends with an error.
Continue(r, todo) ==
  LET o == pc[r].obj
  IN  \/ /\ todo # {} /\ objs'[o].on
         /\ \E p \in todo :
              pc' = [pc EXCEPT ![r] = [op |-> "port", job |-> pc[r].job, obj |-> o,
                        b |-> objs'[o].put, port |-> p, todo |-> todo \ {p}, k |-> pc[r].k]]
      \/ /\ todo = {} \/ ~objs'[o].on
         /\ pc' = [pc EXCEPT ![r] = Idle]

\* queue_list.clear(), when the last port has been deleted.
Clear(o) == [objs EXCEPT ![o].list = NewQoS.list]

PortsListed(r) ==
  /\ pc[r].op = "list"
  /\ objs' = IF pc[r].job = "del" /\ Listed(r) = {} THEN Clear(pc[r].obj) ELSE objs
  /\ Continue(r, Listed(r))
  /\ UNCHANGED <<confVars, events, loop, cur, db>>

\* The transaction of set_qos: queues with higher numbers stay.
SetQosCommit(r) ==
  /\ pc[r].op = "port" /\ pc[r].job = "set"
  /\ LET a == addrOf[pc[r].b]
     IN  /\ pc[r].port \in PortsAt[a]
         /\ db' = [db EXCEPT ![a][pc[r].port] = IF @ < pc[r].k THEN pc[r].k ELSE @]
  /\ pc' = [pc EXCEPT ![r].op = "reload"]
  /\ UNCHANGED <<confVars, events, loop, objVars>>

DelQosCommit(r) ==
  /\ pc[r].op = "port" /\ pc[r].job = "del"
  /\ LET a == addrOf[pc[r].b]
     IN  /\ pc[r].port \in PortsAt[a]
         /\ db' = [db EXCEPT ![a][pc[r].port] = 0]
  /\ pc' = [pc EXCEPT ![r].op = "reload"]
  /\ UNCHANGED <<confVars, events, loop, objVars>>

\* The command returns: queue_list records the port set; it is cleared after
\* the last port deleted.
CommandReturns(r) ==
  /\ pc[r].op = "reload"
  /\ objs' = IF pc[r].job = "set" THEN [objs EXCEPT ![pc[r].obj].list[pc[r].port] = pc[r].k]
             ELSE IF pc[r].todo = {} THEN Clear(pc[r].obj) ELSE objs
  /\ Continue(r, pc[r].todo)
  /\ UNCHANGED <<confVars, events, loop, cur, db>>

\* Mutant for QueuesShownExist: set_queue logs the exception and goes on.
CommandFails_Logged(r) ==
  /\ pc[r].op \in {"port", "reload"} /\ pc[r].job = "set"
  /\ objs' = [objs EXCEPT ![pc[r].obj].list[pc[r].port] = pc[r].k]
  /\ Continue(r, pc[r].todo)
  /\ UNCHANGED <<confVars, events, loop, cur, db>>
\* A command raises, before its commit or after it: the request ends.
CommandFails(r) ==
  /\ pc[r] # Idle
  /\ pc' = [pc EXCEPT ![r] = Idle]
  /\ UNCHANGED <<confVars, events, loop, objVars, db>>

Handle == RegistOfs \/ UnregistOfs \/ DelOvsdbAddr \/ SetOvsdbAddrIgnored \/ SetOvsdbAddr

Next ==
  \/ \E a \in Addr : SetKey(a)
  \/ DelKey \/ DelDpid \/ Enter \/ Leave
  \/ Handle \/ InitOk \/ InitFails
  \/ \E r \in Req : \/ SetQueue(r) \/ DeleteQueue(r)
                    \/ PortsListed(r) \/ SetQosCommit(r) \/ DelQosCommit(r)
                    \/ CommandReturns(r) \/ CommandFails(r)

Spec == Init /\ [][Next]_vars

\* The event loop goes on, and init() ends within the timeout of the OVSDB.
FairSpec == Spec /\ WF_vars(Handle) /\ WF_vars(InitOk)

-----------------------------------------------------------------------------
(* Properties.                                                             *)

TypeOK ==
  /\ conf \in Addr \cup {NoAddr}
  /\ puts \in 0..MaxPut
  /\ addrOf \in [1..MaxPut -> Addr \cup {NoAddr}]
  /\ \A n \in 1..MaxPut : addrOf[n] \in Addr <=> n <= puts
  /\ events \in Seq(Event)
  /\ present \in BOOLEAN
  /\ loop \in 0..MaxPut /\ (loop # 0 => cur # 0)
  /\ objs \in Seq(QoS) /\ Len(objs) <= MaxObj
  /\ cur \in 0..Len(objs)
  /\ db \in [Addr -> [Port -> 0..MaxQ]]
  /\ pc \in [Req -> Op]

\* The queues GET /qos/queue shows for a tunnel port exist in an OVSDB, whatever
\* commands failed half way, whichever QoS object they served, and whatever
\* became of the address meanwhile.  (Of other ports it does not hold: DELETE
\* drops their queues one by one before it clears queue_list.)
QueuesShownExist ==
  \A i \in DOMAIN objs, p \in Tunnel :
    \E a \in Addr : db[a][p] >= objs[i].list[p]

\* An address that takes effect comes from a later PUT than every address that
\* was in effect before, over reconnections and withdrawals: the handler of an
\* old event never puts an old address back.
LastPut == LET S == {objs[i].put : i \in DOMAIN objs}
           IN  IF S = {} THEN 0 ELSE CHOOSE n \in S : \A k \in S : k <= n
InEffect == IF cur # 0 /\ objs[cur].on THEN objs[cur].put ELSE 0
Register == INSTANCE AddressRegister WITH last <- LastPut, effect <- InEffect
RefinesRegister == Register!RSpec

\* The last PUT of a reachable address takes effect if the switch is there when
\* the event is handled, unless it leaves, the address is withdrawn or another
\* PUT follows that fails.  Left out is the case where the object still has that
\* address from before it was withdrawn: the PUT is then ignored for good.
OnItsWay(n) ==
  /\ conf = addrOf[n] /\ addrOf[n] \notin Flaky
  /\ loop = n \/ \E i \in DOMAIN events : events[i] = [ev |-> "set", put |-> n]
  /\ \A i \in DOMAIN events : events[i].ev # "del"
  /\ cur # 0 /\ (AddrIn(objs[cur]) = addrOf[n] => objs[cur].on)
Applied(n) == InEffect # 0 /\ addrOf[InEffect] = addrOf[n]
Superseded == cur = 0 \/ conf = NoAddr \/ conf \in Flaky
PutTakesEffect == (puts # 0 /\ OnItsWay(puts)) ~> (Superseded \/ Applied(puts))
=============================================================================
