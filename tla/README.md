# Formal models of the access controller of rdsv-scripts

The repository sets up residential networks (an OSM/Kubernetes lab): two KNFs per
residence (*access* and *cpe*), Open vSwitch bridges between them, and in the access
KNF an OpenFlow controller, **Ryu** (`src/docker/access/ryu`), which
`src/docker/access/initOpenFlow.sh:42` starts with `rest_qos`, a learning switch
derived from `simple_switch_13`, and `rest_conf_switch`. The scripts are straight-line
shell. The concurrent, stateful core is the controller: how it keeps a connection to
each switch, how it keeps track of connected switches, and how REST requests turn into
rules and queues of the switch. That is what is modelled here, together with the one
protocol of the bundled Ryu whose routers have to agree over an unreliable LAN, VRRP.
Paths below are relative to `src/docker/access/ryu/ryu/` unless they start with
`src/`.

## 1. Inventory

| Component | State | Operations | Talks to |
|---|---|---|---|
| OpenFlow connection, `controller/controller.py` `Datapath`, `controller/ofp_handler.py` | `state`, `send_q`, `_send_q_sem`, `unreplied_echo_requests`, `ports`, socket | `serve`, `_recv_loop`, `_send_loop`, `_echo_request_loop`, `send`, `set_state`, `close`; handlers of hello, features, multipart, echo, port status | the switch (TCP); posts `EventOFPStateChange`, `EventOFPPortStatus` and messages to applications |
| Event bus, `base/app_manager.py` `RyuApp` | `events`, `_events_sem`, `observers`, handlers | `send_event_to_observers`, `_send_event`, `_event_loop`, `send_request` | every application; a poster waits while the receiver's queue (128) is full |
| Switch registry, `controller/dpset.py` `DPSet` | `dps`, `port_state` | `_register`, `_unregister`, `dispatcher_change`, `port_status_handler` | reads events of the connection, closes older connections, posts `EventDP` |
| QoS API, `app/rest_qos.py` `QoSController`, `QoS` | `_OFS_LIST`; per switch `vlan_list`, `ovsdb_addr`, `ovs_bridge`, `queue_list` | REST: rules, queues, meters, status; `regist_ofs`, `unregist_ofs` | `EventDP`, configuration events, flow mods through the connection, statistics requests |
| Statistics, `lib/ofctl_utils.py` `send_stats_request`, `lib/ofctl_v1_3.py` | `waiters[dpid][xid]` | send a request and wait, a second per progress; `stats_reply_handler` sets the event | connection, rest_qos |
| Switch configuration, `app/rest_conf_switch.py`, `controller/conf_switch.py` | `confs[dpid][key]` | set, get, delete; events to observers | rest_qos (`ovsdb_addr`) |
| OVSDB access, `lib/ovs/bridge.py`, `lib/ovs/vsctl.py` | one `VSCtl` object per bridge, with `txn` | `init`, listing ports, `set_qos`, `del_qos`; a transaction each, with a timeout | rest_qos (queues), the OVSDB of the switch |
| VRRP, `services/protocols/vrrp/router.py`, `manager.py` | per instance: `state`, its state object, three timers, the event queue; configuration | timer events, advertisements, configuration change, shutdown; start and restart of an instance | monitors (packets), the manager, other routers |
| Learning switch, `app/simple_switch_13.py` | `mac_to_port` | `switch_features_handler`, `_packet_in_handler` | connection; flows of table 1 in this lab |
| Lab scripts, `src/docker/access/initOpenFlow.sh`, `src/osm/*.sh`, `src/kubernetes/*.sh`, `src/folder/*.sh`, `vnx_config_nat` | bridges, packages, instances, iptables rules | create, start, destroy residences; QoS by curl | OSM, kubectl, ovs-vsctl, the REST API |

All Ryu components are greenlets of one process (eventlet 0.31.1,
`src/docker/access/ryu/tools/pip-requires:5`): a greenlet runs until it blocks, so
atomicity is exact and knowable from the code. What blocks is short: acquiring a
semaphore, a queue operation, socket operations, timers. eventlet's semaphores serve
their waiters in the order they came.

Hard behaviours: a switch that keeps its rules while the controller's account of them
starts anew; overlapping connections of one switch whose events wait in full
queues; a handler that closes a connection and by that posts to its own queue; a state
read before a post and used after it; four parties closing one `Datapath`; greenlets
killed while they wait; a bounded send queue whose loop dies under its senders; REST
handlers that work on a statistics snapshot while the rules change; exceptions in the
middle of a handler; replies in parts that come after their request gave up; a
dictionary that changes while a greenlet iterates over it; configuration events
handled after the switch has come back or the address has changed; OVSDB commands that
fail half way; timers whose events come after they were cancelled; advertisements that
get lost. What is correct:

* connection: nobody waits for ever, no slot of the queue is lost, messages keep their
  order, DEAD is final and announced once and last;
* registry: no live switch is dropped, no dead one is kept, observers see alternating
  enter/leave, `port_state` follows `dps` and the ports;
* QoS rules: the ids one `QoS` object gives identify its rules, the default flow
  survives, deletions delete, and nothing but what was asked for;
* statistics: every request ends, with parts of its own reply only and no lock left
  behind; "all switches" that succeeds means all;
* address and queues: addresses take effect in the order of their PUTs, the last one
  does, and the queues shown exist;
* VRRP: a master advertises, a backup watches, two masters do not last, and the best
  router wins.

## 2. Modules

```
FifoChannel   what Datapath.send promises          (abstract)
   ^ implemented by (INSTANCE ... WITH; checked and proved)
OFChannel     one Datapath and its greenlets        <- OFChannel_proofs
SwitchFeed    what EventDP promises its observers   (abstract)
   ^ implemented by (INSTANCE ... WITH; checked and proved)
DPSet         connections -> dpset -> RestQoSAPI    <- MC_DPSet, DPSet_proofs,
                                                       DPSetOverlap_proofs
QoSRules      POST/DELETE of rules and two tables   <- MC_QoSRules, QoSRules_proofs
StatsQuery    GET requests, replies, all switches   <- StatsQuery_proofs
AddressRegister  what a PUT of the address promises (abstract)
   ^ implemented by (INSTANCE ... WITH; checked and proved)
QosConf       OVSDB address and queues of a switch  <- MC_QosConf, QosConf_proofs
VRRPRouter    VRRP routers on one LAN               <- MC_VRRPRouter, VRRPRouter_proofs
```

The modules meet in what they assume of each other: StatsQuery and QosConf take from
DPSet that `EventDP` enter and leave alternate per switch and come in the order of the
connections (`EventDPAlternates`, `RefinesSwitchFeed`, both proved); QoSRules takes
"any part of the reply" for a request that timed out, which StatsQuery details
(`AnswerIsOwnReply`).

### DPSet and SwitchFeed

The receive greenlets of all connections, the event loop of `dpset` and that of
`RestQoSAPI`. A step is what runs between two places where a greenlet can lose
control; here these are the posts into the two bounded event queues. `q` is the line
of events for dpset: its first `QMax` entries are accepted, the others belong to
suspended posters (the semaphore is FIFO, so accepted and waiting events are one
line). A receive greenlet with a waiting event has it in `parked` too, and continues
in `Resume`.

| TLA+ | code |
|---|---|
| `Connect`, `PortDescMore`, `PortDescLast` | features and multipart handlers; the last part enters MAIN and posts |
| `PortStatus`, `Resume`, `PortsAfter` | `_recv_loop` posts `EventOFPPortStatus`, then runs `OFPHandler.port_status_handler` |
| `Close` | end of the connection: `close()` posts DEAD |
| `RegisterNew`, `RegisterReplace`, `RegisterStuck` | `_register` without an older live connection; closing one; closing one when dpset's own queue is full |
| `UnregisterForgotten`, `Unregister`, `UnregisterEnd` | `_unregister` of a replaced Datapath; up to its post of `EventDP`; after it |
| `PortStatusHandler`, `PortKeyError` | `DPSet.port_status_handler`, which may raise |
| `HandlerDatapath` | `regist_ofs`, `unregist_ofs` |

In the lab only dpset observes these two events and only RestQoSAPI observes
`EventDP`; an application that observes them as well only adds consumers. `SwitchFeed`
is what an observer of `EventDP` relies on: a switch is announced as there and as gone
by turns, and a list that follows the events is what dpset had announced a number of
changes ago. `announced` is mapped to the switches of `dps` (less the one whose leave
is posted), `known` to those of `_OFS_LIST`, `lag` to the events in line.

### OFChannel and FifoChannel

One `Datapath` with its receive, send and echo greenlets, dpset (which may close it)
and applications that hold it. `waiters` is the line for `_send_q_sem`, `posting` the
line for a slot of the observer's queue. `KillEcho`, `RecvLoopEnds` and `EndSendLoop`
model what `hub.kill` does to a greenlet wherever it waits: it leaves its line, and
the `finally` of the send loop drains the queue. Whether a post finds the observer's
queue full is a free choice, since that queue is shared with other connections.
`FifoChannel` says what applications rely on: messages that are accepted are delivered
in order, none skipped, at most `Cap` on their way, and the channel fails only as a
whole and for good. `line` is mapped to the message in the send loop's hands followed
by `send_q`.

### QoSRules

POST and DELETE of `/qos/rules` for one switch. Flow mods and statistics requests
share one FIFO channel, so a reply shows the tables as of the request; the REST
greenlet waits between (`pc[r]`), while others go on, and may wait again for a slot of
`send_q` before each flow mod.

| TLA+ | code |
|---|---|
| `RegistOfs` | `regist_ofs` at a new connection, or after a restart of the controller: a new `QoS` object, counters anew, default flow; the switch keeps its tables |
| `SetQos`, `SetQosInvalid`, `Bump` | `set_qos` with `_get_cookie`; refused after the ids are spent |
| `SetQosSend`, `AddFlow` | one `OFPFC_ADD`, which replaces the entry of the same match and priority |
| `DeleteQos`, `DeleteTimeout` | `delete_qos` asks for the flows; any part of the reply has come when it gives up |
| `Selected`, `DeleteFlows`, `DeleteFails` | the flows to delete; `_update_vlan_list`, which deletes from a dictionary while it iterates over its `keys()` and so ends in `RuntimeError` (Python 3) after the first deletion |
| `DeleteSend`, `Hit`, `Mod` | one `OFPFC_DELETE_STRICT` to table 0, whatever table the flow was listed from, by priority and by what `to_mod_openflow` leaves of the match |
| `Learn` | a flow of the learning switch in table 1 |

A match is a member of a set plus a VLAN id. Posted matches (`Match`) name a
`dl_type`, without which `Match.to_openflow` raises, so none is empty or one of the
learning switch's (`Fwd`). `Mod` gives a match without its fields of value 0. `TextOf`
is the text that statistics give for a VLAN id, which the code compares with the
number. `own` marks what the present `QoS` object has sent, for the properties only.
A `RegistOfs` ends the requests under way: they have the `QoS` object of the dead
`Datapath`, which discards what they send.

### StatsQuery

`get_qos`, `get_status` and `get_meter`, for one switch or for `all`. A request
greenlet leaves an event and a list under its xid in `waiters`, waits, and gives up
after a second without a new part. RestQoSAPI's event loop takes `EventDP` and reply
parts from one queue.

| TLA+ | code |
|---|---|
| `GetOne`, `GetAll`, `Ask` | `_access_switch` up to the first wait, `send_stats_request`, `_access_module` |
| `WaitOn` | another second, because parts have come |
| `Finish`, `Forget` | the wait is over, answered or not; the lock is removed |
| `AskNext`, `FinishRaises` | the loop over `_OFS_LIST.items()`, which is the live dictionary; `RuntimeError` when its size changed |
| `StatsReplyHandler`, `HandlerDatapath` | `stats_reply_handler`; `regist_ofs`, `unregist_ofs` |
| `SwitchUp`, `SwitchDown`, `Receive` | `EventDP` and reply parts posted by the receive greenlet; connections lose what has not arrived |

The iterator follows the insertion order of the dictionary, tests its size and the
number of entries left, as CPython's does. CPython may also rebuild the table of a
dictionary under an iterator when insertions and deletions cancel out; this needs more
than five insertions. `MaxConn` is below six in the run, and the theorem `AllAsked`
holds for the iterator in insertion order. Messages are parts of replies; contents are
left out.

### QosConf and AddressRegister

`PUT` and `DELETE` of `ovsdb_addr`, the events they post to RestQoSAPI, the `QoS`
object of each connection of the switch, and POST and DELETE of `/qos/queue` down to
the OVSDB.

| TLA+ | code |
|---|---|
| `SetKey`, `DelKey`, `DelDpid` | `ConfSwitchSet.set_key`, `del_key`, `del_dpid`; the last has no observer |
| `Enter`, `Leave`, `RegistOfs`, `UnregistOfs` | `EventDP` posted and handled; a new connection is a new `QoS` object without address |
| `SetOvsdbAddr`, `InitOk`, `InitFails`, `SetOvsdbAddrIgnored` | `conf_switch_set_handler`, `set_ovsdb_addr` around `OVSBridge.init()` |
| `DelOvsdbAddr` | `conf_switch_del_handler`: the bridge goes, `ovsdb_addr` stays |
| `SetQueue`, `DeleteQueue`, `PortsListed` | `set_queue`, `delete_queue` up to the list of ports |
| `SetQosCommit`, `DelQosCommit`, `CommandReturns`, `CommandFails` | one command per port: the transaction, its return, and a failure before or after the commit |

A PUT is known by its number, which tells "an older address came back" apart from "the
same address was put again". A command is one transaction of the OVSDB and may fail
before or after its commit (timeout, or another request that replaces `txn` of the
shared `VSCtl`). The queue of RestQoSAPI and the posters waiting for a place are one
FIFO. A queue is counted, its rates are left out. `AddressRegister` is what the
operator relies on: an address that takes effect belongs to a later PUT than every one
in effect before.

### VRRPRouter

The state machines of `VRRPRouterV2` and `VRRPRouterV3` with their timers, the event
queue of each instance, and the manager that shuts instances down and makes new ones
of the same name.

| TLA+ | code |
|---|---|
| `Expire`, `GhostExpires` | a timer thread posts its event; one that outlived its instance posts to the new one, found by name |
| `MasterDown`, `Adver`, `AnswerRelease`, `Yield`, `WaitAgain`, `Ignore` | the handlers of `master_down`, `adver`, `preempt_delay` and received packets of the states Master, Backup and Initialize |
| `ConfigChange`, `Shutdown`, `Request` | `vrrp_config_change_request_handler`, `vrrp_shutdown_request_handler`; posted by the manager |
| `Start`, `Uninstantiate`, `Crash` | `start`, `_shutdown_loop` with `VRRPManager`, death of the process |

Durations are left out: a running timer may expire at any moment, so every order of
timers that the code's values allow is among those modelled. `cancel()` does not take
back an event that is queued, and joins the timer's thread: a handler that joins a
thread waiting for a place in the handler's own queue never goes on (`Stuck`), and is
taken not to have begun. A packet goes straight into the queue of any subset of the
other routers; all others miss it. A request changes one key.

## 3. Runs

| Run | Instance | Shows |
|---|---|---|
| `dpset` | 3 connections (2 of one switch), 1 port, queues of 1; 534 267 states | type invariant, five safety properties of the registry, refinement of `SwitchFeed` |
| `dpset_live` | 2 connections of one switch, fair | a dead connection is forgotten, `_OFS_LIST` and `dps` converge, unless dpset is stuck |
| `dpset_stuck` | same | **violation**: finding 1 |
| `dpset_reconnect` | same | **violation**: finding 2 |
| `ofchannel` | `send_q` of 2, echo limit 1, one application, fair; 72 798 states | all safety, ordering, refinement and liveness properties of a connection |
| `ofchannel_lost` | same | **violation**: finding 3 |
| `qosrules` | 2 concurrent requests, no VLAN, two matches (one with a field of value 0), priorities 0 and 1, ids to 2, ids 1 and 2 named in DELETE, any number of connections; 1 278 480 states | ids unique per `QoS` object; a DELETE spares what it was not asked for, from whatever snapshot |
| `qosrules_live` | 1 request at a time, a VLAN, a learned flow, ids to 1 per connection, fair; 616 032 states | the default flow survives; deleting all again and again deletes all |
| `qosrules_vlan` | 1 request, a VLAN, new connections | **violation**: finding 4 |
| `statsquery` | 2 switches, 2 requests, 3 connections, 3 xids, replies of 1 or 2 parts, queue of 1; 779 249 states | locks and waiters match, answers are own and complete, `all` means all, every request ends |
| `qosconf` | 1 queue request, 2 addresses (one where `init` may fail), a tunnel and another port, 3 PUTs, 2 connections; 1 443 606 states | queues shown for tunnels exist, addresses take effect in order, the last one does |
| `vrrp` | 2 routers (both V2 or both V3), 3 starts, 1 request, queue of 1, one waits before it preempts; 356 598 states | timers fit the state, somebody is master, two masters end, the best router wins |

Bounds. `QMax = AppMax = 1` (128 in the code) makes full queues and blocked posters
the normal case; a longer queue only delays it, since accepted and waiting events form
one line. Two connections of one switch are what `_register` distinguishes (older or
not); the third, of another switch, fills the queue and interleaves. Each `Dp`
connects once, as in the code (a reconnect is a new `Datapath`). `SMax = 2` lets the
queue be empty, partly filled and full; `EchoMax = 1` lets answers come between two
requests. `MaxId` bounds the ids one `QoS` object gives per VLAN; the wrap of the counter
at 2^32 is out of a run's reach. With ids to 2 and new connections at any time, rules
of different connections share ids, and DELETE names both. `qosrules` has two requests
and no VLAN, so that one of them may outdate the snapshot of the other, and is
symmetric in the two greenlets; `qosrules_live` has a VLAN and one request at a time,
and names id 0 in DELETE, that of the default flow and of learned flows, as other ids
are in `qosrules`; one id per connection is enough there, as connections add rules of
all VLANs and matches. The proofs are for any number of requests, VLANs and ids. In
`statsquery`, three connections of two switches let one come back, or one come and
another go while a request for all waits; two requests let replies of one come between
those of the other; with two parts a reply can stop half way. In `qosconf`, three PUTs
are an old, a newer and a repeated address; two connections are a reconnection. One
queue request runs there; two of them that use one bridge interleave in the proof of
`QueuesShownExist`, which is for any number. In `vrrp`, two routers are one master and
its rival; three starts let an instance be restarted; one request is a shutdown or a
change; priorities 1 to 3 with 3 as owner allow less, equal and more. `QueueSize = 1`
makes blocked timer threads the normal case. `CHECK_DEADLOCK FALSE` is set where the
system may stop: all connections gone, dpset or a VRRP router waiting for itself,
bounds of requests used up.

Fairness. Every greenlet that can run does (eventlet's hub runs all ready greenlets):
weak fairness of dpset's and RestQoSAPI's loop, of resumed posters, of the send loop
(`sendall` has `socket_timeout`), of a waiter whose semaphore was released. `Close`
and `RecvLoopEnds` are fair only once the state is DEAD: `_recv_loop` tests the state
at each socket timeout. The echo loop is fair, its timer expires. The network is never
assumed to deliver or to fail. In `OFChannel` observers need not take events, as
finding 1 shows that dpset may stop for good; only `DeadEndsAll` names that they do,
again and again, as its premise (`ObserversServe`). In `QoSRules` request greenlets go
on (`DeleteSend`, `SetQosSend`), the operator of `RulesCanBeCleared` repeats DELETE of
all rules, replies come in time again and again (strong fairness of that one request),
and from some time on nothing is posted and the connection stays (`Settled`); these are
assumptions about operator and network, stated as such. In
`StatsQuery` only the request greenlets are fair, woken by their event or by their
timeout of a second: requests end even if the event loop never runs. In `QosConf` the
event loop is fair and `init()` ends, with or without success; for an address not in
`Flaky` it succeeds. In `VRRPRouter` the event loops and the timers are fair; a
`master_down` timer may be put off by packets for ever, so its fairness is that of
"expires or is started again"; and a router that advertises again and again is heard
by each other one again and again (strong fairness), without which two masters may
last for ever.

## 4. Findings

1. **`dpset` can wait for itself** (`controller/dpset.py:216`). `_register` closes an
   older connection from dpset's own event loop; `close()` posts `EventOFPStateChange`
   to dpset, and with 128 events accepted waits for a slot that only this loop can
   free. From then on no switch is registered or removed, for ever (`StuckIsForGood`).
   It takes two connections of one switch in MAIN at once: without them it cannot
   happen, however full the queue is (`DeadlockNeedsOverlap`).
2. **A reconnect leaves rest_qos with the dead connection**
   (`controller/dpset.py:220`). Only `EventDPReconnected` is sent, which rest_qos does
   not observe; `_OFS_LIST` keeps the dead `Datapath`, whose `send` discards
   everything. This, too, takes an overlap: a switch whose old connection is found dead
   before the new one is in MAIN may reconnect as often as it likes
   (`CurrentWithoutOverlap`).
3. **A close that is never announced** (`controller/controller.py:478`). `serve` kills
   the echo greenlet, which may be waiting in the post of its own `close()`; the state
   is DEAD already, so nobody posts it again. With the default of
   `maximum_unreplied_echo_requests`, 0, the echo loop never closes and every end is
   announced (`AnnouncedByDefault`).
4. **DELETE for a VLAN deletes nothing** (`app/rest_qos.py:852`). A number is compared
   with the text that `match_vid_to_str` returns, so such a DELETE sends no deletion
   at all (`VlanDeleteIsNoOp`).

Worth knowing, though no statement of the repository forbids it: rules of priority 0
can be posted ("0 to 65533", `app/rest_qos.py:118`) and never deleted through the API;
DELETE works on a snapshot and removes by match and priority, so it can delete a rule
that was posted after it; ids are reused inside a VLAN once its counter was dropped
while rules remain. Further:

* Ids repeat after a reconnection or a restart of the controller: the new `QoS` object
  starts with fresh counters (`app/rest_qos.py:557-558`) and nothing clears the table of
  the switch. `get_qos` then shows one id for two rules, and DELETE of that id removes
  both. `IdsAreUnique` is therefore about the rules of one `QoS` object.
* A rule with a field of value 0, such as the documented `ip_dscp` 0, cannot be deleted
  through the API: `to_mod_openflow` drops that field (`app/rest_qos.py:1135-1136`), so
  the strict deletion names another match, and removes the rule that has it, asked for
  or not. `ZeroFieldsCannotBeDeleted` proves the first; `RulesCanBeCleared` and
  `DeleteSparesOthers` leave such rules out by name.
* After a DELETE of the OVSDB address, a PUT of the same address is ignored
  (`app/rest_qos.py:603-612`: `ovsdb_addr` is kept), so the switch stays without a
  bridge. `PutTakesEffect` leaves this case out; `WithdrawnStaysOut` proves that it
  lasts until the switch reconnects or another address is put.
* DELETE of queues goes through `get_external_ports`, which skips tunnels, and all
  ports the lab configures are tunnels; `queue_list` is cleared all the same
  (`lib/ovs/bridge.py:488`). `TunnelsKeepQueues`: no request ever takes a queue off
  them.
* `Timer.cancel` joins its thread (`services/protocols/vrrp/router.py:56`), which may
  wait for the event loop that joins it; the properties say `Stuck` there. It lasts
  until the process dies (`StuckIsForGood`) and needs a queue that overflows
  (`OverflowOnly`).
* V3 does not stop the preemption timer when it accepts a master
  (`router.py:639-641`), V2 does; a router that preempts keeps its `master_down`
  timer, which may even reach the next instance of that name. `HighestWins` shows both
  to be harmless.
* `vrrp_config_change` passes `accept_mode` in the place of `preempt_delay`
  (`services/protocols/vrrp/api.py:58-66`).

## 5. Proofs

Checked by TLAPS, for every value of the constants that satisfies the named
assumptions (ids are typed, marks of absence differ from values, bounds are positive).

* `DPSet_proofs`: `TypeCorrect`, `Invariant`, `DeadIsRemoved`, `LiveStays`,
  `SamePortState`, `OneLive`, `EventDPInTurns`, `PortsAgree`, `DeadComesNearer` and the
  refinement `ImplementsSwitchFeed`. The safety properties are not inductive alone.
  `IInv` adds what the line of events says about connections:
  a DEAD event in line is true (`DeadIsTrue`); a connection whose MAIN event is in
  line is not registered, and has its DEAD event in line if it has died since
  (`MainIsPending`); a connection's MAIN event is there once and before its DEAD event
  (`MainFirst`); dps files a connection under its own dpid (`Registered`); and the one
  being removed is dead (`LeavingIsDead`). Appending and taking are handled once by
  lemmas about lines; one lemma per action follows. The order MAIN before DEAD is what
  makes a late DEAD harmless and a dead registration temporary. `EventDPInTurns` needs
  a second invariant (`Alternating`): the events of a dpid in RestQoSAPI's queue
  alternate from what `_OFS_LIST` holds to what dpset has announced, where a
  connection that `_unregister` is removing is announced until its event is posted.
  `PortsAgree` needs a third (`TInv`): the line holds only events of connections that
  were there, a receive greenlet waits with an event of its own, the MAIN event of a
  connection is in line before all its other events, and for a switch that connected
  once the last event in line about a port (`Decided`), or `port_state` if there is
  none, says what `Datapath.ports` will say once the receive greenlet has run on.
  In the refinement, a registration of a new dpid and a removal announce, `EventDP`
  handled follows, and all else stutters; that a following step flips what the list
  holds is `Alternating` again, and the lag is a cardinality.
* `DPSetOverlap_proofs`: `StuckIsForGood`, `StuckOnOwnQueue`, and two theorems about
  behaviours in which no switch ever has two connections in MAIN at once
  (`Spec /\ []NoOverlap`, which allows any number of reconnects, deaths and full
  queues): `DeadlockNeedsOverlap` and `CurrentWithoutOverlap`. The DEAD event of the
  old connection then stands before the MAIN event of the new one (`DeadBefore`), so
  `_register` never meets a live older one, and a dpid is new to it each time.
* `OFChannel_proofs`: `TypeCorrect`, `SlotsAreBalanced`, `StateOnlyForward`, the
  refinement `ImplementsFifoChannel`, `GreenletsInLine`, `ObserversInOrder`,
  `WaitersCanWake`, `ServedIsGone`, `AnnouncedByDefault` and `SendInOrder`. The
  type invariant (the semaphore within `0..SMax`) is inductive only together with
  `SlotsBalance` and "the channel is up exactly while the send loop lives". In the
  refinement, sending accepts or stutters, taking from the queue stutters, a finished
  `sendall` delivers, and every end of the send loop breaks the channel.
  `GreenletsInLine` and `ObserversInOrder` come from `LInv`: each line holds exactly
  the greenlets that wait there, each once, and what was posted follows the states of
  the connection. `WaitersCanWake` (no lost wakeup) and `SendInOrder` (no one is
  overtaken) are what `SendersReleased` rests on; `ServedIsGone` is the state in which
  `DeadEndsAll` ends. `AnnouncedByDefault` has the hypothesis `EchoMax = 0`, the
  default of the option, and gives the scope of finding 3.
* `QoSRules_proofs`: `TypeCorrect`, `DefaultFlowSurvives`, `UniqueIds`,
  `OthersSpared`, `VlanDeleteIsNoOp`, `ZeroFieldsCannotBeDeleted`. Unique ids need that
  every rule of no VLAN that the present `QoS` object has sent or will send has an id
  between 1 and the counter (`OwnRules`), which never goes back within a connection
  because the counter of no VLAN is never dropped; what is left of earlier connections
  is set apart by `own`. `OthersSpared` needs that the table and every snapshot in use
  have one flow per match and priority (`TableOK`, `SnapsOK`), that learned flows are
  none of table 0, and that what is still to be deleted was selected from the snapshot
  (`PurgesOK`).
* `StatsQuery_proofs`: `TypeCorrect`, `LocksAreOfWaiters`, `OwnAnswer`,
  `CompleteWhenSet`, `AllAsked`, `RequestsProgress`. `IInv` adds that the parts of one
  reply follow each other through connection, queue and list without a gap (`Lines`),
  that xids on their way have been given and are those of one greenlet, that no
  connection is in `_OFS_LIST` twice and those still to enter are later ones
  (`Conns`), and that the iterator has visited entries older than the one it is at, as
  many as it has counted (`Visits`). From the count, the unchanged size and the order
  it follows that visited and registered switches are the same set: the argument is
  about cardinalities, from the library's theorems on finite sets. `RequestsProgress`
  is the ranking of `EveryRequestEnds`: switches left, then seconds, then parts.
* `QosConf_proofs`: `TypeCorrect`, `ShownQueuesExist`, `TunnelsKeepQueues`,
  `WithdrawnStaysOut`, `PutsAreKept` and the refinement `ImplementsAddressRegister`.
  `IInv` orders the PUT in hand and those in the queue, all later than any that took
  effect (`Ordered`, `Latest`), and says of each command under way which bridge and
  object it has (`Commands`), so that what `queue_list` records is in an OVSDB
  already. `WithdrawnStaysOut` needs that what the event loop initialises is still
  news when it is done (`News`). `PutsAreKept` is the safety behind `PutTakesEffect`:
  no step loses an address on its way.
* `VRRPRouter_proofs`: `TypeCorrect`, `MastersAdvertise`, `BackupsWatch`,
  `TimersOfTheState`, `StuckIsForGood`, `OverflowOnly`, for any number of routers.
  `RouterOK` says per router what its state requires of timers and queue; one lemma
  per handler shows it of the router that acts, and `LeavesOthers` once of all others.

Every invariant, action property and refinement of the passing runs is proved. Only
model-checked is liveness: `DeadIsForgotten`, `ViewsConverge`, `SendersReleased`,
`DeadEndsAll`, `SilentSwitchIsClosed`, `RulesCanBeCleared`, `EveryRequestEnds`,
`PutTakesEffect`, `SomebodyIsMaster`, `TwoMastersEnd`, `HighestWins`. Out of the
prover's reach are liveness under fairness and `ENABLED`, induction over data, and
recursive operators (none are used). Of some of these the safety they rest on is proved
for every instance: an event, an address or a greenlet in line only moves forward and is
never lost (`DeadComesNearer`, `PutsAreKept`, `SendInOrder`, `WaitersCanWake`), and the
steps of a request are bounded (`RequestsProgress`). Still to be stated: that the
switches StatsQuery and QosConf are given behave as `SwitchFeed` says, step by step.

## 6. Not modelled

About half of the lines of `src/docker/access/ryu/ryu` without its tests are parsers
and serialisers of OpenFlow 1.0 to 1.5 and of packets (`ofproto`, `lib/packet`):
conversions whose state is that of one call, which the repository's own tests check
byte by byte. To cover a large part of the implementation's lines, the models would
have to restate them; instead they stay with the code that keeps state from one call
to the next.

Left out of modelled components:

* meters (one flow mod each, no state in the controller), other keys of the switch
  configuration, GET of queues from the OVSDB, rates of queues;
* POST and DELETE of rules for all switches: the loop is that of StatsQuery, the
  requests are those of QoSRules; a request that fails half way leaves the earlier
  switches changed, which no statement of the repository forbids;
* the learning switch: `mac_to_port` is read and written in one handler without a
  wait;
* `send_request`, start and stop of applications: once per process here;
* monitors, dumper, statistics and the durations of VRRP timers; that a router's posts
  to its monitor and manager (`router.py:220, 230`) may have to wait for room there.

Hazards without a property, and why:

* the ports kept over a reconnect (`controller/dpset.py:220`), which the comment at
  `dpset.py:208-210` announces, and a dead connection registered for a moment
  (`dpset.py:216`), which the theorems on dead connections show to be temporary;
* a half-closed connection after a failed hello, which has no timeout
  (`ofp_handler.py:69`);
* a counter of 2^32, out of a bounded run's reach (`app/rest_qos.py:636`);
* what "worth knowing" lists: it does happen, and no statement of the repository rules
  it out;
* `send_request` to an application that does not exist (`base/app_manager.py:279`):
  the API of VRRP uses it, to a manager it has started, and so do those of topology
  discovery (`topology/api.py`, `topology/dumper.py`), OVSDB and `app/ofctl`, which the
  lab does not load.

Not modelled at all: the lab's scripts (`initOpenFlow.sh`, `osm`, `kubernetes`,
`folder`, `vnx_config_nat`), which are straight-line calls whose state is that of the
tools they call, and whose sleeps (`initOpenFlow.sh:46`) decide whether a PUT comes
before the switch; container recipes; libraries and services the lab does not load (BGP,
Zebra, the OVSDB manager, topology discovery, STP, LACP, BFD, IGMP, other REST
applications) and the support libraries (WSGI, RPC). Of these the state machines of
spanning tree (`lib/stplib.py`), LACP (`lib/lacplib.py`) and BFD (`lib/bfdlib.py`)
would be next, as they keep timers and states that two ends have to agree on.
