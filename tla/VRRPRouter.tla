----------------------------- MODULE VRRPRouter -----------------------------
(***************************************************************************)
(* The VRRP routers of one virtual router on a LAN: the state machines of  *)
(* VRRPRouterV2 and V3, their timers, the event queue that timers, packets *)
(* and requests share, and the manager that shuts an instance down and     *)
(* makes one of the same name again.                                       *)
(*                                                                         *)
(* A timer is a thread that posts an event when its time is up; durations  *)
(* are left out, so a running timer may expire at any moment.  cancel()    *)
(* does not take back an event already posted.  queue[r] holds the events  *)
(* of r in the order of their posters: the first QueueSize are in the      *)
(* queue and the others wait in line for a place, each in its own thread.  *)
(* A handler that cancels a timer joins its thread, and waits for ever     *)
(* when that thread is in line; it is taken not to have begun.             *)
(*                                                                         *)
(* An advertisement reaches the queue of every router that hears it when   *)
(* it is sent; any router may miss it.  A monitor has one thread, so with  *)
(* a packet in line it hears nothing else.                                 *)
(***************************************************************************)
EXTENDS Naturals, Sequences

CONSTANTS
  N,           \* routers, numbered in the order of their primary_ip_address
  MaxPrio,     \* VRRP_PRIORITY_ADDRESS_OWNER; lower ones are backups, 0 is a release
  AdminMaster, \* V3 routers with admin_state 'master'
  InitConfigs, \* configurations of all routers to begin with
  Changes,     \* requests to change a configuration
  QueueSize,   \* 128 in the code
  MaxStarts,   \* bound on the starts of all routers
  MaxRequests  \* bound on requests to shut down or to change the configuration

Router == 1..N

Config == [priority : 1..MaxPrio, preempt_mode : BOOLEAN, preempt_delay : BOOLEAN]

\* The keyword of a request and its value.
Change == [ev : {"change"}, key : {"priority"}, val : 1..MaxPrio]
            \cup [ev : {"change"}, key : {"preempt_mode", "preempt_delay"}, val : BOOLEAN]

ASSUME NumberAssumption ==
  /\ N \in Nat /\ MaxPrio \in Nat /\ QueueSize \in Nat \ {0}
  /\ MaxStarts \in Nat /\ MaxRequests \in Nat
ASSUME ConfigAssumption ==
  InitConfigs \subseteq [Router -> Config] /\ Changes \subseteq Change /\ AdminMaster \subseteq Router

Timer == {"master_down", "adver", "preempt_delay"}
\* "orphan" is a master_down event of a timer that outlived its instance.
Event == [ev : Timer \cup {"orphan", "shutdown"}] \cup Change
           \cup [ev : {"received"}, priority : 0..MaxPrio, src : Router]

VARIABLES
  version, \* 2 or 3, the same everywhere
  config,  \* configuration of each router
  state,   \* state_impl; "down" without an instance
  timer,   \* of each router; one that expired is "off" again, save that to
           \* preempt, whose is_running() stays true: "fired" until cancel()
  ghost,   \* master_down timers left running by earlier instances of that name
  queue,   \* events of each router
  starts,
  requests

vars == <<version, config, state, timer, ghost, queue, starts, requests>>

Off == [t \in Timer |-> "off"]

Init ==
  /\ version \in {2, 3}
  /\ config \in InitConfigs
  /\ state = [r \in Router |-> "down"]
  /\ timer = [r \in Router |-> Off]
  /\ ghost = [r \in Router |-> 0]
  /\ queue = [r \in Router |-> <<>>]
  /\ starts = 0 /\ requests = 0

bounds == <<starts, requests>>

-----------------------------------------------------------------------------
(* Queues and timers.                                                      *)

Alive(r) == state[r] # "down"
Running(r) == state[r] \in {"backup", "master"}
InLine(q, evs) == \E i \in DOMAIN q : i > QueueSize /\ q[i].ev \in evs

\* The event loop takes an event, which makes room for one in line.
Take(r, ev) == Alive(r) /\ queue[r] # <<>> /\ Head(queue[r]).ev = ev

Hears(d) == Alive(d) /\ ~InLine(queue[d], {"received"})

\* r has q left in its queue and sends an advertisement, heard by the routers got.
\* Its posts to the monitor and the manager (router.py:220, 230) find room: what
\* those two do is not modelled.
Send(r, q, priority, got) ==
  /\ got \subseteq {d \in Router \ {r} : Hears(d)}
  /\ queue' = [d \in Router |->
       IF d = r THEN q
       ELSE IF d \in got
            THEN Append(queue[d], [ev |-> "received", priority |-> priority, src |-> r])
            ELSE queue[d]]

Drop(r) == queue' = [queue EXCEPT ![r] = Tail(@)]

Set(r, t, s) == timer' = [timer EXCEPT ![r][t] = s]
Become(r, s) == state' = [state EXCEPT ![r] = s]

Expire(r, t) ==
  /\ Alive(r) /\ timer[r][t] = "on"
  /\ Set(r, t, IF t = "preempt_delay" THEN "fired" ELSE "off")
  /\ queue' = [queue EXCEPT ![r] = Append(@, [ev |-> t])]
  /\ UNCHANGED <<version, config, state, ghost, bounds>>

\* send_event finds the application by its name: the new instance.
GhostExpires(r) ==
  /\ ghost[r] > 0
  /\ ghost' = [ghost EXCEPT ![r] = @ - 1]
  /\ queue' = IF Alive(r) THEN [queue EXCEPT ![r] = Append(@, [ev |-> "orphan"])] ELSE queue
  /\ UNCHANGED <<version, config, state, timer, bounds>>

-----------------------------------------------------------------------------
(* Handlers.  Each takes the head of the queue of r.                       *)

Packet(r) == Head(queue[r])

\* Mutant for TwoMastersEnd: equal priorities are not told apart.
Outranks_Strict(p, r) == config[r].priority < p.priority
\* A master yields to a higher priority, or to the higher address among equals.
Outranks(p, r) ==
  \/ config[r].priority < p.priority
  \/ config[r].priority = p.priority /\ r < p.src

\* Mutant for HighestWins: the mode is read the wrong way round.
Accepts_Swapped(r) == config[r].preempt_mode \/ config[r].priority <= Packet(r).priority
\* A backup accepts the sender as master.
Accepts(r) == ~config[r].preempt_mode \/ config[r].priority <= Packet(r).priority
\* A backup that will preempt the sender after a delay.
Delays(r) == ~Accepts(r) /\ config[r].preempt_delay
\* A backup that starts its master_down timer again.
Restarts(r) == Packet(r).priority = 0 \/ Accepts(r) \/ Delays(r)
\* Only V2 gives up preempting when it accepts a master.
GivesUp(r) == version = 2 /\ Packet(r).priority # 0 /\ Accepts(r)

\* Mutant for TypeOK: a request gives the difference in priority.
Changed_Relative(r) ==
  IF Head(queue[r]).key = "priority"
  THEN [config[r] EXCEPT !.priority = @ + Head(queue[r]).val]
  ELSE [config[r] EXCEPT ![Head(queue[r]).key] = Head(queue[r]).val]
Changed(r) == [config[r] EXCEPT ![Head(queue[r]).key] = Head(queue[r]).val]
ByPriority(r) == Head(queue[r]).key = "priority"
NewOwner(r) == ByPriority(r) /\ Head(queue[r]).val = MaxPrio

\* The timers the handler of the head cancels, which joins their threads.
Joined(r) ==
  LET ev == Head(queue[r]).ev
      ofMaster ==
        CASE ev \in {"adver", "shutdown"} -> {"adver"}
          [] ev = "received" -> IF Packet(r).priority = 0 THEN {"adver"}
                                ELSE IF Outranks(Packet(r), r) THEN {"adver", "master_down"} ELSE {}
          [] ev = "change" -> IF ByPriority(r) THEN {"adver"} ELSE {}
          [] OTHER -> {}
      ofBackup ==
        CASE ev \in {"master_down", "orphan", "preempt_delay"} -> {"preempt_delay", "adver"}
          [] ev = "shutdown" -> {"master_down", "preempt_delay"}
          [] ev = "received" -> IF GivesUp(r) THEN {"master_down", "preempt_delay"}
                                ELSE IF Restarts(r) THEN {"master_down"} ELSE {}
          [] ev = "change" -> IF NewOwner(r) THEN Timer
                              ELSE IF ByPriority(r) THEN {} ELSE {"preempt_delay"}
          [] OTHER -> {}
  IN  CASE state[r] = "master" -> ofMaster [] state[r] = "backup" -> ofBackup [] OTHER -> {}

\* Those threads have posted: with the head gone none is in line.
Free(r) == ~InLine(Tail(queue[r]), Joined(r))

\* Mutant for BackupWatches: the timer to preempt is not cancelled.
BecomeMaster_KeepsPreempt(r, newConfig, stopped, got) ==
  /\ Free(r)
  /\ Send(r, Tail(queue[r]), newConfig.priority, got)
  /\ config' = [config EXCEPT ![r] = newConfig]
  /\ timer' = [timer EXCEPT ![r]["adver"] = "on"]
  /\ Become(r, "master")
  /\ UNCHANGED <<version, ghost, bounds>>
\* _master_down of a backup, on the event ev or after a change of priority.
BecomeMaster(r, newConfig, stopped, got) ==
  /\ Free(r)
  /\ Send(r, Tail(queue[r]), newConfig.priority, got)
  /\ config' = [config EXCEPT ![r] = newConfig]
  /\ timer' = [timer EXCEPT ![r] = [t \in Timer |->
       IF t = "adver" THEN "on" ELSE IF t \in stopped \cup {"preempt_delay"} THEN "off" ELSE @[t]]]
  /\ Become(r, "master")
  /\ UNCHANGED <<version, ghost, bounds>>

\* The timer that runs beside the one that expired is not cancelled, so a
\* preempting router keeps its master_down timer.
MasterDown(r, got) ==
  /\ Take(r, "master_down") \/ Take(r, "orphan") \/ Take(r, "preempt_delay")
  /\ state[r] = "backup"
  /\ BecomeMaster(r, config[r], {}, got)

\* Mutant for MasterAdvertises: the timer is not started again.
Adver_Once(r, got) ==
  /\ Take(r, "adver") /\ state[r] = "master"
  /\ Send(r, Tail(queue[r]), config[r].priority, got)
  /\ UNCHANGED <<version, config, state, timer, ghost, bounds>>
Adver(r, got) ==
  /\ Take(r, "adver") /\ state[r] = "master"
  /\ Free(r)
  /\ Send(r, Tail(queue[r]), config[r].priority, got)
  /\ Set(r, "adver", "on")
  /\ UNCHANGED <<version, config, state, ghost, bounds>>

\* A master that hears a release advertises itself at once.
AnswerRelease(r, got) ==
  /\ Take(r, "received") /\ state[r] = "master" /\ Packet(r).priority = 0
  /\ Free(r)
  /\ Send(r, Tail(queue[r]), config[r].priority, got)
  /\ Set(r, "adver", "on")
  /\ UNCHANGED <<version, config, state, ghost, bounds>>

\* Mutant for TimersBelong: the timer for advertisements goes on.
Yield_KeepsAdver(r) ==
  /\ Take(r, "received") /\ state[r] = "master"
  /\ Packet(r).priority # 0 /\ Outranks(Packet(r), r)
  /\ Drop(r)
  /\ Set(r, "master_down", "on")
  /\ Become(r, "backup")
  /\ UNCHANGED <<version, config, ghost, bounds>>
Yield(r) ==
  /\ Take(r, "received") /\ state[r] = "master"
  /\ Packet(r).priority # 0 /\ Outranks(Packet(r), r)
  /\ Free(r)
  /\ Drop(r)
  /\ timer' = [timer EXCEPT ![r]["adver"] = "off", ![r]["master_down"] = "on"]
  /\ Become(r, "backup")
  /\ UNCHANGED <<version, config, ghost, bounds>>

\* Mutant for SomebodyIsMaster: a release stops the timer.
WaitAgain_Released(r) ==
  /\ Take(r, "received") /\ state[r] = "backup" /\ Restarts(r)
  /\ Free(r)
  /\ timer' = [timer EXCEPT ![r]["master_down"] = IF Packet(r).priority = 0 THEN "off" ELSE "on"]
  /\ Drop(r)
  /\ UNCHANGED <<version, config, state, ghost, bounds>>
\* The master_down timer of a backup starts again: on a release (for a short
\* time), for an accepted master and while it waits to preempt one.
WaitAgain(r) ==
  /\ Take(r, "received") /\ state[r] = "backup" /\ Restarts(r)
  /\ Free(r)
  /\ timer' = [timer EXCEPT ![r]["master_down"] = "on", ![r]["preempt_delay"] =
       IF GivesUp(r) THEN "off"
       ELSE IF Packet(r).priority # 0 /\ Delays(r) /\ @ = "off" THEN "on" ELSE @]
  /\ Drop(r)
  /\ UNCHANGED <<version, config, state, ghost, bounds>>

Shutdown(r, got) ==
  /\ Take(r, "shutdown") /\ Running(r)
  /\ Free(r)
  /\ \/ /\ state[r] = "master"
        /\ Set(r, "adver", "off")
        /\ Send(r, Tail(queue[r]), 0, got)
     \/ /\ state[r] = "backup" /\ got = {}
        /\ timer' = [timer EXCEPT ![r]["master_down"] = "off", ![r]["preempt_delay"] = "off"]
        /\ Drop(r)
  /\ Become(r, "initialize")
  /\ UNCHANGED <<version, config, ghost, bounds>>

\* A master advertises its new priority; a backup that becomes the owner of
\* the address becomes master; any other change stops preemption.
ConfigChange(r, got) ==
  /\ Take(r, "change")
  /\ Free(r)
  /\ \/ /\ state[r] = "backup" /\ NewOwner(r)
        /\ BecomeMaster(r, Changed(r), {"master_down"}, got)
     \/ /\ state[r] = "master" /\ ByPriority(r)
        /\ Send(r, Tail(queue[r]), Changed(r).priority, got)
        /\ Set(r, "adver", "on")
        /\ config' = [config EXCEPT ![r] = Changed(r)]
        /\ UNCHANGED <<version, state, ghost, bounds>>
     \/ /\ ~(state[r] = "backup" /\ NewOwner(r)) /\ ~(state[r] = "master" /\ ByPriority(r))
        /\ got = {}
        /\ timer' = IF state[r] = "backup" /\ ~ByPriority(r)
                    THEN [timer EXCEPT ![r]["preempt_delay"] = "off"] ELSE timer
        /\ config' = [config EXCEPT ![r] = Changed(r)]
        /\ Drop(r)
        /\ UNCHANGED <<version, state, ghost, bounds>>

\* Timer events that come too late, packets that change nothing, and whatever
\* reaches an instance after its shutdown.
Ignore(r) ==
  /\ Alive(r) /\ queue[r] # <<>>
  /\ \/ state[r] = "initialize" /\ Head(queue[r]).ev # "change"
     \/ state[r] = "backup" /\ Take(r, "adver")
     \/ state[r] = "master" /\ (Take(r, "master_down") \/ Take(r, "orphan") \/ Take(r, "preempt_delay"))
     \/ state[r] = "backup" /\ Take(r, "received") /\ ~Restarts(r)
     \/ /\ state[r] = "master" /\ Take(r, "received") /\ Packet(r).priority # 0
        /\ ~Outranks(Packet(r), r)
  /\ Drop(r)
  /\ UNCHANGED <<version, config, state, timer, ghost, bounds>>

-----------------------------------------------------------------------------
(* The manager and the process.                                            *)

\* start(): the owner of the address is master at once.
Start(r, got) ==
  /\ state[r] = "down" /\ starts < MaxStarts
  /\ starts' = starts + 1
  /\ LET asMaster == \/ config[r].priority = MaxPrio
                     \/ version = 3 /\ r \in AdminMaster
     IN  \/ /\ asMaster
            /\ Send(r, <<>>, config[r].priority, got)
            /\ Become(r, "master") /\ Set(r, "adver", "on")
         \/ /\ ~asMaster /\ got = {}
            /\ Become(r, "backup") /\ Set(r, "master_down", "on")
            /\ UNCHANGED queue
  /\ UNCHANGED <<version, config, ghost, requests>>

\* The manager has one thread, which posts one request at a time.
Request(r) ==
  /\ Running(r) /\ ~InLine(queue[r], {"shutdown", "change"})
  /\ requests < MaxRequests /\ requests' = requests + 1
  /\ \E e \in Changes \cup {[ev |-> "shutdown"]} : queue' = [queue EXCEPT ![r] = Append(@, e)]
  /\ UNCHANGED <<version, config, state, timer, ghost, starts>>

\* _shutdown_loop: the event loop works off its queue, which changes nothing
\* any more, and the instance goes; a master_down timer still running stays.
Uninstantiate(r) ==
  /\ state[r] = "initialize"
  /\ Become(r, "down")
  /\ ghost' = [ghost EXCEPT ![r] = IF timer[r]["master_down"] = "on" THEN @ + 1 ELSE @]
  /\ timer' = [timer EXCEPT ![r] = Off]
  /\ queue' = [queue EXCEPT ![r] = <<>>]
  /\ UNCHANGED <<version, config, bounds>>

\* The controller process dies.
Crash(r) ==
  /\ Alive(r)
  /\ Become(r, "down")
  /\ timer' = [timer EXCEPT ![r] = Off]
  /\ ghost' = [ghost EXCEPT ![r] = 0]
  /\ queue' = [queue EXCEPT ![r] = <<>>]
  /\ UNCHANGED <<version, config, bounds>>

-----------------------------------------------------------------------------

Sends(r, got) ==
  \/ MasterDown(r, got) \/ Adver(r, got) \/ AnswerRelease(r, got)
  \/ Shutdown(r, got) \/ ConfigChange(r, got)

Handle(r) == Yield(r) \/ WaitAgain(r) \/ Ignore(r) \/ \E got \in SUBSET (Router \ {r}) : Sends(r, got)

Next == \E r \in Router :
  \/ Handle(r) \/ GhostExpires(r) \/ \E t \in Timer : Expire(r, t)
  \/ \E got \in SUBSET (Router \ {r}) : Start(r, got)
  \/ Request(r) \/ Uninstantiate(r) \/ Crash(r)

Spec == Init /\ [][Next]_vars

\* The event loops go on and timers expire, a master_down timer unless it is
\* started again and again; a router that keeps advertising is heard by every
\* other one again and again.
Fairness == \A r \in Router :
  /\ WF_vars(Handle(r))
  /\ WF_vars(Expire(r, "adver")) /\ WF_vars(Expire(r, "preempt_delay"))
  /\ WF_vars(Expire(r, "master_down") \/ WaitAgain(r))
  /\ \A d \in Router \ {r} : SF_vars(\E got \in SUBSET (Router \ {r}) : d \in got /\ Adver(r, got))

FairSpec == Spec /\ Fairness

-----------------------------------------------------------------------------
(* Properties.                                                             *)

TypeOK ==
  /\ version \in {2, 3}
  /\ config \in [Router -> Config]
  /\ state \in [Router -> {"down", "initialize", "backup", "master"}]
  /\ timer \in [Router -> [Timer -> {"off", "on", "fired"}]]
  /\ ghost \in [Router -> Nat]
  /\ queue \in [Router -> Seq(Event)]
  /\ starts \in 0..MaxStarts /\ requests \in 0..MaxRequests

Queued(r, ev) == \E i \in DOMAIN queue[r] : queue[r][i].ev = ev

\* A master goes on advertising: its next advertisement is due, or its event is
\* on the way, whatever timers were cancelled while their events waited.
MasterAdvertises ==
  \A r \in Router : state[r] = "master" => timer[r]["adver"] = "on" \/ Queued(r, "adver")

\* A backup never waits for nothing: it watches the master, and a preemption
\* that is_running() reports is still to come, so that none is ever left out
\* because a timer of the past seems to be running.
BackupWatches ==
  \A r \in Router : state[r] = "backup" =>
    /\ timer[r]["master_down"] = "on" \/ Queued(r, "master_down")
    /\ timer[r]["preempt_delay"] = "fired" => Queued(r, "preempt_delay")

\* Timers belong to their state: only a master has one for advertisements, only
\* a backup one to preempt; after a shutdown neither is left.
TimersBelong ==
  \A r \in Router : /\ timer[r]["adver"] = "on" => state[r] = "master"
                    /\ timer[r]["preempt_delay"] # "off" => state[r] = "backup"

\* The event loop waits for a timer thread that waits for the event loop.
Stuck(r) == Running(r) /\ queue[r] # <<>> /\ ~Free(r)

\* Again and again some router is master, or no router runs.
SomebodyIsMaster ==
  []<>((\E r \in Router : state[r] = "master") \/ \A r \in Router : ~Running(r) \/ Stuck(r))

\* Two masters do not last, although a timer event of the past may make a
\* router master beside a better one: with equal priorities the addresses decide.
TwoMastersEnd ==
  \A r, q \in Router : r < q =>
    (state[r] = "master" /\ state[q] = "master")
      ~> (state[r] # "master" \/ state[q] # "master" \/ Stuck(r) \/ Stuck(q))

\* A router that stays, preempts and has the highest priority is master in the
\* end for good, with or without a delay, over losses, releases, late events
\* and timers that outlived their instance.
Best(h) == /\ Running(h) /\ config[h].preempt_mode /\ ~Stuck(h)
           /\ \A q \in Router \ {h} : config[q].priority < config[h].priority
HighestWins == \A h \in Router : <>[]Best(h) => <>[](state[h] = "master")
=============================================================================
