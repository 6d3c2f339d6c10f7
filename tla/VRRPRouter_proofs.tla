-------------------------- MODULE VRRPRouter_proofs --------------------------
(***************************************************************************)
(* Theorems about VRRPRouter, for any number of routers, any priorities    *)
(* and configurations, and any size of the event queue.                    *)
(***************************************************************************)
EXTENDS VRRPRouter, SequenceTheorems, TLAPS

\* What the invariants say of one router.
RouterOK(r) ==
  /\ state[r] = "master" => timer[r]["adver"] = "on" \/ Queued(r, "adver")
  /\ state[r] = "backup" => /\ timer[r]["master_down"] = "on" \/ Queued(r, "master_down")
                            /\ timer[r]["preempt_delay"] = "fired" => Queued(r, "preempt_delay")
  /\ timer[r]["adver"] = "on" => state[r] = "master"
  /\ timer[r]["preempt_delay"] # "off" => state[r] = "backup"

IInv == TypeOK /\ \A r \in Router : RouterOK(r)

\* Every event that d had in its queue is of a kind it still has there.
KeepsEvents(d) == \A ev \in Timer : Queued(d, ev) => Queued(d, ev)'

\* What an action of router r leaves alone in the others.
LeavesOthers(r) ==
  \A d \in Router \ {r} : state'[d] = state[d] /\ timer'[d] = timer[d] /\ KeepsEvents(d)

-----------------------------------------------------------------------------
(* Queues.                                                                 *)

Has(q, ev) == \E i \in DOMAIN q : q[i].ev = ev

\* An event that joins the line takes none away and is found there.
LEMMA AppendHas ==
  ASSUME NEW q \in Seq(Event), NEW e \in Event
  PROVE  /\ Append(q, e) \in Seq(Event)
         /\ Has(Append(q, e), e.ev)
         /\ \A ev \in Timer : Has(q, ev) => Has(Append(q, e), ev)
<1>1. /\ Append(q, e) \in Seq(Event) /\ Len(q) \in Nat /\ DOMAIN q = 1..Len(q)
      /\ Len(Append(q, e)) = Len(q) + 1 /\ DOMAIN Append(q, e) = 1..Len(q) + 1
      /\ \A i \in 1..Len(q) : Append(q, e)[i] = q[i]
      /\ Append(q, e)[Len(q) + 1] = e
  BY AppendProperties, LenProperties
<1>2. Len(q) + 1 \in DOMAIN Append(q, e)
  BY <1>1
<1>3. ASSUME NEW ev \in Timer, Has(q, ev)
      PROVE  Has(Append(q, e), ev)
  BY <1>1, <1>3 DEF Has
<1> QED
  BY <1>1, <1>2, <1>3 DEF Has

\* Taking the head takes away no event of another kind.
LEMMA TailHas ==
  ASSUME NEW q \in Seq(Event), q # <<>>
  PROVE  /\ Tail(q) \in Seq(Event) /\ Head(q) \in Event
         /\ \A ev \in Timer : Has(q, ev) /\ Head(q).ev # ev => Has(Tail(q), ev)
<1>1. /\ Tail(q) \in Seq(Event) /\ Head(q) \in Event /\ Head(q) = q[1]
      /\ Len(q) \in Nat \ {0} /\ DOMAIN q = 1..Len(q)
      /\ Len(Tail(q)) = Len(q) - 1 /\ \A i \in 1..Len(q) - 1 : Tail(q)[i] = q[i + 1]
  BY HeadTailProperties, EmptySeq, LenProperties
<1>2. DOMAIN Tail(q) = 1..Len(q) - 1
  BY <1>1, LenProperties
<1>3. ASSUME NEW ev \in Timer, Has(q, ev), Head(q).ev # ev
      PROVE  Has(Tail(q), ev)
  <2>1. PICK i \in 1..Len(q) : q[i].ev = ev
    BY <1>1, <1>3 DEF Has
  <2>2. i # 1
    BY <1>1, <1>3, <2>1
  <2>3. i - 1 \in 1..Len(q) - 1 /\ (i - 1) + 1 = i
    BY <1>1, <2>1, <2>2
  <2>4. Tail(q)[i - 1] = q[i]
    BY <1>1, <2>3
  <2> QED
    BY <1>2, <2>1, <2>3, <2>4 DEF Has
<1> QED
  BY <1>1, <1>3

\* Sending leaves r with the queue it had left and the others with all theirs.
LEMMA SendOK ==
  ASSUME TypeOK, NEW r \in Router, NEW q \in Seq(Event), NEW p \in 0..MaxPrio,
         NEW got, Send(r, q, p, got)
  PROVE  /\ queue' \in [Router -> Seq(Event)] /\ queue'[r] = q
         /\ \A d \in Router \ {r} : KeepsEvents(d)
<1> DEFINE m == [ev |-> "received", priority |-> p, src |-> r]
<1>1. m \in Event
  BY DEF Event
<1>2. queue' = [d \in Router |-> IF d = r THEN q
                                 ELSE IF d \in got THEN Append(queue[d], m) ELSE queue[d]]
  BY DEF Send
<1>3. \A d \in Router : queue[d] \in Seq(Event)
  BY DEF TypeOK
<1>4. \A d \in Router : /\ Append(queue[d], m) \in Seq(Event)
                        /\ \A ev \in Timer : Has(queue[d], ev) => Has(Append(queue[d], m), ev)
  BY <1>1, <1>3, AppendHas
<1>5. queue' \in [Router -> Seq(Event)] /\ queue'[r] = q
  BY <1>2, <1>3, <1>4
<1>6. ASSUME NEW d \in Router \ {r} PROVE KeepsEvents(d)
  <2>1. \A ev \in Timer : Has(queue[d], ev) => Has(queue'[d], ev)
    BY <1>2, <1>4
  <2> QED
    BY <2>1 DEF KeepsEvents, Queued, Has
<1> QED
  BY <1>5, <1>6

\* Taking the head of the queue of r leaves the others alone.
LEMMA DropOK ==
  ASSUME TypeOK, NEW r \in Router, queue[r] # <<>>, Drop(r)
  PROVE  /\ queue' \in [Router -> Seq(Event)] /\ queue'[r] = Tail(queue[r])
         /\ \A d \in Router \ {r} : KeepsEvents(d)
<1>1. queue[r] \in Seq(Event) /\ Tail(queue[r]) \in Seq(Event)
  BY TailHas DEF TypeOK
<1>2. queue' = [queue EXCEPT ![r] = Tail(queue[r])]
  BY DEF Drop
<1> QED
  BY <1>1, <1>2 DEF TypeOK, KeepsEvents, Queued

\* So does an event posted to r.
LEMMA PostOK ==
  ASSUME TypeOK, NEW r \in Router, NEW e \in Event,
         queue' = [queue EXCEPT ![r] = Append(@, e)]
  PROVE  /\ queue' \in [Router -> Seq(Event)] /\ KeepsEvents(r)
         /\ Queued(r, e.ev)'
         /\ \A d \in Router \ {r} : KeepsEvents(d)
<1>1. queue[r] \in Seq(Event)
  BY DEF TypeOK
<1>2. /\ Append(queue[r], e) \in Seq(Event) /\ Has(Append(queue[r], e), e.ev)
      /\ \A ev \in Timer : Has(queue[r], ev) => Has(Append(queue[r], e), ev)
  BY <1>1, AppendHas
<1>3. queue'[r] = Append(queue[r], e) /\ queue' \in [Router -> Seq(Event)]
  BY <1>2 DEF TypeOK
<1>4. KeepsEvents(r) /\ Queued(r, e.ev)'
  BY <1>2, <1>3 DEF KeepsEvents, Queued, Has
<1>5. \A d \in Router \ {r} : KeepsEvents(d)
  BY DEF TypeOK, KeepsEvents, Queued
<1> QED
  BY <1>3, <1>4, <1>5

-----------------------------------------------------------------------------
(* The invariant, one action at a time.                                    *)

\* An action of r preserves the invariant if it does so for r.
LEMMA OneRouter ==
  ASSUME IInv, NEW r \in Router, TypeOK', RouterOK(r)', LeavesOthers(r)
  PROVE  IInv'
<1>1. ASSUME NEW d \in Router \ {r} PROVE RouterOK(d)'
  <2>1. /\ state'[d] = state[d] /\ timer'[d] = timer[d] /\ RouterOK(d)
        /\ Queued(d, "adver") => Queued(d, "adver")'
        /\ Queued(d, "master_down") => Queued(d, "master_down")'
        /\ Queued(d, "preempt_delay") => Queued(d, "preempt_delay")'
    BY DEF IInv, LeavesOthers, KeepsEvents, Timer
  <2> QED
    BY <2>1 DEF RouterOK
<1> QED
  BY <1>1 DEF IInv

\* A timer that expires posts its event.
LEMMA ExpireOK ==
  ASSUME IInv, NEW r \in Router, NEW t \in Timer, Expire(r, t)
  PROVE  IInv'
<1> DEFINE e == [ev |-> t]
           x == IF t = "preempt_delay" THEN "fired" ELSE "off"
<1>1. TypeOK /\ e \in Event
  BY DEF IInv, Event
<1>2. queue' = [queue EXCEPT ![r] = Append(@, e)]
  BY DEF Expire
<1>3. /\ queue' \in [Router -> Seq(Event)] /\ KeepsEvents(r) /\ Queued(r, t)'
      /\ \A d \in Router \ {r} : KeepsEvents(d)
  BY <1>1, <1>2, PostOK
<1>4. /\ timer' = [timer EXCEPT ![r] = [@ EXCEPT ![t] = x]] /\ UNCHANGED state
      /\ timer[r][t] = "on" /\ state[r] # "down"
  BY DEF Expire, Set, Alive
<1>5. timer'[r] = [timer[r] EXCEPT ![t] = x] /\ timer' \in [Router -> [Timer -> {"off", "on", "fired"}]]
  BY <1>1, <1>4 DEF TypeOK
<1>6. TypeOK'
  BY <1>1, <1>3, <1>5 DEF TypeOK, Expire, bounds
<1>7. LeavesOthers(r)
  BY <1>1, <1>3, <1>4 DEF LeavesOthers, TypeOK
<1>8. RouterOK(r)'
  BY <1>1, <1>3, <1>4, <1>5 DEF IInv, TypeOK, RouterOK, KeepsEvents, Timer
<1> QED
  BY <1>6, <1>7, <1>8, OneRouter

\* An orphan changes nothing but the queue.
LEMMA GhostExpiresOK ==
  ASSUME IInv, NEW r \in Router, GhostExpires(r)
  PROVE  IInv'
<1>1. TypeOK /\ [ev |-> "orphan"] \in Event
  BY DEF IInv, Event
<1>2. ghost' \in [Router -> Nat]
  BY <1>1 DEF TypeOK, GhostExpires
<1>3. queue' \in [Router -> Seq(Event)] /\ \A d \in Router : KeepsEvents(d)
  <2>1. CASE Alive(r)
    BY <1>1, <2>1, PostOK DEF GhostExpires
  <2>2. CASE ~Alive(r)
    BY <1>1, <2>2 DEF GhostExpires, TypeOK, KeepsEvents, Queued
  <2> QED
    BY <2>1, <2>2
<1>4. TypeOK' /\ UNCHANGED <<state, timer>>
  BY <1>1, <1>2, <1>3 DEF TypeOK, GhostExpires, bounds
<1>5. LeavesOthers(r)
  BY <1>3, <1>4 DEF LeavesOthers
<1>6. RouterOK(r)'
  BY <1>3, <1>4 DEF IInv, RouterOK, KeepsEvents, Timer
<1> QED
  BY <1>4, <1>5, <1>6, OneRouter

\* The new configuration a request gives is one.
LEMMA ChangedOK ==
  ASSUME TypeOK, NEW r \in Router, Take(r, "change")
  PROVE  Changed(r) \in Config /\ Changed(r).priority \in 0..MaxPrio
<1>1. queue[r] \in Seq(Event) /\ queue[r] # <<>> /\ Head(queue[r]).ev = "change"
  BY DEF TypeOK, Take
<1>2. Head(queue[r]) \in Event
  BY <1>1, TailHas
<1>3. Head(queue[r]) \in Change
  BY <1>1, <1>2 DEF Event, Timer
<1>4. config[r] \in Config
  BY DEF TypeOK
<1>5. CASE Head(queue[r]).key = "priority" /\ Head(queue[r]).val \in 1..MaxPrio
  BY <1>4, <1>5, NumberAssumption DEF Changed, Config
<1>6. CASE Head(queue[r]).key = "preempt_mode" /\ Head(queue[r]).val \in BOOLEAN
  BY <1>4, <1>6, NumberAssumption DEF Changed, Config
<1>7. CASE Head(queue[r]).key = "preempt_delay" /\ Head(queue[r]).val \in BOOLEAN
  BY <1>4, <1>7, NumberAssumption DEF Changed, Config
<1> QED
  BY <1>3, <1>5, <1>6, <1>7 DEF Change

\* A router that becomes master advertises, and no longer waits to preempt.
LEMMA BecomeMasterOK ==
  ASSUME IInv, NEW r \in Router, queue[r] # <<>>, NEW c \in Config, NEW s, NEW got,
         BecomeMaster(r, c, s, got)
  PROVE  IInv'
<1>1. TypeOK
  BY DEF IInv
<1>2. c.priority \in 0..MaxPrio /\ Tail(queue[r]) \in Seq(Event)
  BY <1>1, NumberAssumption, TailHas DEF Config, TypeOK
<1>3. queue' \in [Router -> Seq(Event)] /\ \A d \in Router \ {r} : KeepsEvents(d)
  BY <1>1, <1>2, SendOK DEF BecomeMaster
<1>4. /\ timer' \in [Router -> [Timer -> {"off", "on", "fired"}]]
      /\ \A d \in Router \ {r} : timer'[d] = timer[d]
      /\ timer'[r]["adver"] = "on" /\ timer'[r]["preempt_delay"] = "off"
  <2> DEFINE f == [t \in Timer |-> IF t = "adver" THEN "on"
                     ELSE IF t \in s \cup {"preempt_delay"} THEN "off" ELSE timer[r][t]]
  <2>1. f \in [Timer -> {"off", "on", "fired"}] /\ f["adver"] = "on" /\ f["preempt_delay"] = "off"
    BY <1>1 DEF TypeOK, Timer
  <2>2. timer' = [timer EXCEPT ![r] = f]
    BY DEF BecomeMaster
  <2> HIDE DEF f
  <2> QED
    BY <1>1, <2>1, <2>2 DEF TypeOK
<1>5. state' = [state EXCEPT ![r] = "master"] /\ config' = [config EXCEPT ![r] = c]
  BY DEF BecomeMaster, Become
<1>6. TypeOK'
  BY <1>1, <1>3, <1>4, <1>5 DEF TypeOK, BecomeMaster, bounds
<1>7. LeavesOthers(r)
  BY <1>1, <1>3, <1>4, <1>5 DEF LeavesOthers, TypeOK
<1>8. RouterOK(r)'
  BY <1>1, <1>4, <1>5 DEF RouterOK, TypeOK
<1> QED
  BY <1>6, <1>7, <1>8, OneRouter

\* With the head taken the other events are still there.
LEMMA HeadTaken ==
  ASSUME TypeOK, NEW r \in Router, queue[r] # <<>>, queue'[r] = Tail(queue[r])
  PROVE  \A ev \in Timer : Head(queue[r]).ev # ev /\ Queued(r, ev) => Queued(r, ev)'
<1>1. queue[r] \in Seq(Event)
  BY DEF TypeOK
<1> QED
  BY <1>1, TailHas DEF Queued, Has

\* A master that advertises starts its timer again.
LEMMA AdvertiseOK ==
  ASSUME IInv, NEW r \in Router, queue[r] # <<>>, state[r] = "master", NEW got,
         NEW c \in [Router -> Config], config' = c,
         Send(r, Tail(queue[r]), c[r].priority, got), Set(r, "adver", "on"),
         UNCHANGED <<version, state, ghost, bounds>>
  PROVE  IInv'
<1>1. TypeOK
  BY DEF IInv
<1>2. c[r].priority \in 0..MaxPrio /\ Tail(queue[r]) \in Seq(Event)
  BY <1>1, NumberAssumption, TailHas DEF Config, TypeOK
<1>3. queue' \in [Router -> Seq(Event)] /\ \A d \in Router \ {r} : KeepsEvents(d)
  BY <1>1, <1>2, SendOK
<1>4. /\ timer' \in [Router -> [Timer -> {"off", "on", "fired"}]]
      /\ timer'[r] = [timer[r] EXCEPT !["adver"] = "on"]
      /\ \A d \in Router \ {r} : timer'[d] = timer[d]
  BY <1>1 DEF TypeOK, Set, Timer
<1>5. TypeOK'
  BY <1>1, <1>3, <1>4 DEF TypeOK, bounds
<1>6. LeavesOthers(r)
  BY <1>1, <1>3, <1>4 DEF LeavesOthers
<1>7. RouterOK(r)'
  BY <1>1, <1>4 DEF IInv, RouterOK, TypeOK, Timer
<1> QED
  BY <1>5, <1>6, <1>7, OneRouter

\* Giving up the mastership starts to watch the other master.
LEMMA YieldOK ==
  ASSUME IInv, NEW r \in Router, Yield(r)
  PROVE  IInv'
<1>1. TypeOK /\ queue[r] # <<>>
  BY DEF IInv, Yield, Take
<1>2. queue' \in [Router -> Seq(Event)] /\ \A d \in Router \ {r} : KeepsEvents(d)
  BY <1>1, DropOK DEF Yield
<1>3. /\ timer' \in [Router -> [Timer -> {"off", "on", "fired"}]]
      /\ timer'[r]["adver"] = "off" /\ timer'[r]["master_down"] = "on"
      /\ timer'[r]["preempt_delay"] = timer[r]["preempt_delay"]
      /\ \A d \in Router \ {r} : timer'[d] = timer[d]
  BY <1>1 DEF TypeOK, Yield, Timer
<1>4. state' = [state EXCEPT ![r] = "backup"] /\ state[r] = "master"
  BY DEF Yield, Become
<1>5. TypeOK'
  BY <1>1, <1>2, <1>3, <1>4 DEF TypeOK, Yield, bounds
<1>6. LeavesOthers(r)
  BY <1>1, <1>2, <1>3, <1>4 DEF LeavesOthers, TypeOK
<1>7. RouterOK(r)'
  BY <1>1, <1>3, <1>4 DEF IInv, RouterOK, TypeOK, Timer
<1> QED
  BY <1>5, <1>6, <1>7, OneRouter

\* A backup that hears a packet goes on watching; its preemption, if it has
\* expired, is still in the queue or given up.
LEMMA WaitAgainOK ==
  ASSUME IInv, NEW r \in Router, WaitAgain(r)
  PROVE  IInv'
<1>1. TypeOK /\ queue[r] # <<>> /\ state[r] = "backup" /\ Head(queue[r]).ev = "received"
  BY DEF IInv, WaitAgain, Take
<1>2. /\ queue' \in [Router -> Seq(Event)] /\ queue'[r] = Tail(queue[r])
      /\ \A d \in Router \ {r} : KeepsEvents(d)
  BY <1>1, DropOK DEF WaitAgain
<1>3. /\ timer' \in [Router -> [Timer -> {"off", "on", "fired"}]]
      /\ timer'[r]["adver"] = timer[r]["adver"] /\ timer'[r]["master_down"] = "on"
      /\ timer'[r]["preempt_delay"] \in {"off", "on", timer[r]["preempt_delay"]}
      /\ \A d \in Router \ {r} : timer'[d] = timer[d]
  <2> DEFINE x == IF GivesUp(r) THEN "off"
                  ELSE IF Packet(r).priority # 0 /\ Delays(r) /\ timer[r]["preempt_delay"] = "off"
                       THEN "on" ELSE timer[r]["preempt_delay"]
  <2>1. x \in {"off", "on", timer[r]["preempt_delay"]} /\ x \in {"off", "on", "fired"}
    BY <1>1 DEF TypeOK, Timer
  <2>2. timer' = [timer EXCEPT ![r]["master_down"] = "on", ![r]["preempt_delay"] = x]
    BY <1>1 DEF WaitAgain, TypeOK, Timer
  <2> HIDE DEF x
  <2> QED
    BY <1>1, <2>1, <2>2 DEF TypeOK, Timer
<1>4. "preempt_delay" \in Timer /\ Queued(r, "preempt_delay") => Queued(r, "preempt_delay")'
  BY <1>1, <1>2, HeadTaken DEF Timer
<1>5. UNCHANGED state
  BY DEF WaitAgain
<1>6. TypeOK'
  BY <1>1, <1>2, <1>3 DEF TypeOK, WaitAgain, bounds
<1>7. LeavesOthers(r)
  BY <1>2, <1>3, <1>5 DEF LeavesOthers
<1>8. RouterOK(r)'
  BY <1>1, <1>3, <1>4, <1>5 DEF IInv, RouterOK, Timer
<1> QED
  BY <1>6, <1>7, <1>8, OneRouter

\* A shutdown stops every timer the state has.
LEMMA ShutdownOK ==
  ASSUME IInv, NEW r \in Router, NEW got, Shutdown(r, got)
  PROVE  IInv'
<1>1. TypeOK /\ queue[r] # <<>> /\ state[r] \in {"backup", "master"}
  BY DEF IInv, Shutdown, Take, Running
<1>2. queue' \in [Router -> Seq(Event)] /\ \A d \in Router \ {r} : KeepsEvents(d)
  <2>1. CASE Drop(r)
    BY <1>1, <2>1, DropOK
  <2>2. CASE Send(r, Tail(queue[r]), 0, got)
    <3>1. Tail(queue[r]) \in Seq(Event) /\ 0 \in 0..MaxPrio
      BY <1>1, TailHas, NumberAssumption DEF TypeOK
    <3> QED
      BY <1>1, <2>2, <3>1, SendOK
  <2> QED
    BY <2>1, <2>2 DEF Shutdown
<1>3. /\ timer' \in [Router -> [Timer -> {"off", "on", "fired"}]]
      /\ timer'[r]["adver"] # "on" /\ timer'[r]["preempt_delay"] = "off"
      /\ \A d \in Router \ {r} : timer'[d] = timer[d]
  <2>1. CASE state[r] = "master" /\ Set(r, "adver", "off")
    BY <1>1, <2>1 DEF IInv, RouterOK, Set, TypeOK, Timer
  <2>2. CASE /\ state[r] = "backup"
             /\ timer' = [timer EXCEPT ![r]["master_down"] = "off", ![r]["preempt_delay"] = "off"]
    BY <1>1, <2>2 DEF IInv, RouterOK, TypeOK, Timer
  <2> QED
    BY <2>1, <2>2 DEF Shutdown
<1>4. state' = [state EXCEPT ![r] = "initialize"]
  BY DEF Shutdown, Become
<1>5. TypeOK'
  BY <1>1, <1>2, <1>3, <1>4 DEF TypeOK, Shutdown, bounds
<1>6. LeavesOthers(r)
  BY <1>1, <1>2, <1>3, <1>4 DEF LeavesOthers, TypeOK
<1>7. RouterOK(r)'
  BY <1>1, <1>3, <1>4 DEF RouterOK, TypeOK
<1> QED
  BY <1>5, <1>6, <1>7, OneRouter

\* An event that is dropped is not one the state waits for.
LEMMA IgnoreOK ==
  ASSUME IInv, NEW r \in Router, Ignore(r)
  PROVE  IInv'
<1>1. TypeOK /\ queue[r] # <<>>
  BY DEF IInv, Ignore
<1>2. /\ queue' \in [Router -> Seq(Event)] /\ queue'[r] = Tail(queue[r])
      /\ \A d \in Router \ {r} : KeepsEvents(d)
  BY <1>1, DropOK DEF Ignore
<1>3. UNCHANGED <<state, timer>>
  BY DEF Ignore
<1>4. TypeOK'
  BY <1>1, <1>2 DEF TypeOK, Ignore, bounds
<1>5. LeavesOthers(r)
  BY <1>2, <1>3 DEF LeavesOthers
<1>6. \A ev \in Timer : Head(queue[r]).ev # ev /\ Queued(r, ev) => Queued(r, ev)'
  BY <1>1, <1>2, HeadTaken
<1>7. /\ state[r] = "backup" => Head(queue[r]).ev \in {"adver", "received"}
      /\ state[r] = "master" => Head(queue[r]).ev # "adver"
  BY DEF Ignore, Take
<1>8. RouterOK(r)'
  BY <1>3, <1>6, <1>7 DEF IInv, RouterOK, Timer
<1> QED
  BY <1>4, <1>5, <1>8, OneRouter

\* A change of the configuration that sends nothing leaves a backup watching.
LEMMA QuietChangeOK ==
  ASSUME IInv, NEW r \in Router, Take(r, "change"), Drop(r),
         config' = [config EXCEPT ![r] = Changed(r)],
         timer' = timer \/ (state[r] = "backup"
                             /\ timer' = [timer EXCEPT ![r]["preempt_delay"] = "off"]),
         UNCHANGED <<version, state, ghost, bounds>>
  PROVE  IInv'
<1>1. TypeOK /\ queue[r] # <<>> /\ Head(queue[r]).ev = "change"
  BY DEF IInv, Take
<1>2. /\ queue' \in [Router -> Seq(Event)] /\ queue'[r] = Tail(queue[r])
      /\ \A d \in Router \ {r} : KeepsEvents(d)
  BY <1>1, DropOK
<1>3. /\ timer' \in [Router -> [Timer -> {"off", "on", "fired"}]]
      /\ timer'[r]["adver"] = timer[r]["adver"]
      /\ timer'[r]["master_down"] = timer[r]["master_down"]
      /\ timer'[r]["preempt_delay"] \in {"off", timer[r]["preempt_delay"]}
      /\ \A d \in Router \ {r} : timer'[d] = timer[d]
  <2>1. CASE timer' = timer
    BY <1>1, <2>1 DEF TypeOK
  <2>2. CASE timer' = [timer EXCEPT ![r]["preempt_delay"] = "off"]
    BY <1>1, <2>2 DEF TypeOK, Timer
  <2> QED
    BY <2>1, <2>2
<1>4. \A ev \in Timer : Queued(r, ev) => Queued(r, ev)'
  BY <1>1, <1>2, HeadTaken DEF Timer
<1>5. Changed(r) \in Config
  BY <1>1, ChangedOK
<1>6. TypeOK'
  BY <1>1, <1>2, <1>3, <1>5 DEF TypeOK, bounds
<1>7. LeavesOthers(r)
  BY <1>2, <1>3 DEF LeavesOthers
<1>8. RouterOK(r)'
  BY <1>3, <1>4 DEF IInv, RouterOK, Timer
<1> QED
  BY <1>6, <1>7, <1>8, OneRouter

\* A change of the configuration keeps the invariant.
LEMMA ConfigChangeOK ==
  ASSUME IInv, NEW r \in Router, NEW got, ConfigChange(r, got)
  PROVE  IInv'
<1>1. TypeOK /\ Take(r, "change") /\ queue[r] # <<>> /\ Changed(r) \in Config
  BY ChangedOK DEF IInv, ConfigChange, Take
<1>2. CASE BecomeMaster(r, Changed(r), {"master_down"}, got)
  BY <1>1, <1>2, BecomeMasterOK
<1>3. CASE /\ state[r] = "master" /\ Send(r, Tail(queue[r]), Changed(r).priority, got)
           /\ Set(r, "adver", "on") /\ config' = [config EXCEPT ![r] = Changed(r)]
           /\ UNCHANGED <<version, state, ghost, bounds>>
  <2> DEFINE c == [config EXCEPT ![r] = Changed(r)]
  <2>1. c \in [Router -> Config] /\ c[r] = Changed(r) /\ config' = c
    BY <1>1, <1>3 DEF TypeOK
  <2>2. Send(r, Tail(queue[r]), c[r].priority, got)
    BY <1>3, <2>1
  <2> HIDE DEF c
  <2> QED
    BY <1>1, <1>3, <2>1, <2>2, AdvertiseOK
<1>4. CASE /\ timer' = IF state[r] = "backup" /\ ~ByPriority(r)
                       THEN [timer EXCEPT ![r]["preempt_delay"] = "off"] ELSE timer
           /\ config' = [config EXCEPT ![r] = Changed(r)] /\ Drop(r)
           /\ UNCHANGED <<version, state, ghost, bounds>>
  BY <1>1, <1>4, QuietChangeOK
<1> QED
  BY <1>2, <1>3, <1>4 DEF ConfigChange

\* An instance begins with the timer of its state.
LEMMA StartOK ==
  ASSUME IInv, NEW r \in Router, NEW got, Start(r, got)
  PROVE  IInv'
<1>1. TypeOK /\ state[r] = "down" /\ config[r].priority \in 0..MaxPrio /\ <<>> \in Seq(Event)
  BY NumberAssumption, EmptySeq DEF IInv, Start, TypeOK, Config
<1>2. CASE /\ Send(r, <<>>, config[r].priority, got)
           /\ Become(r, "master") /\ Set(r, "adver", "on")
  <2>1. queue' \in [Router -> Seq(Event)] /\ \A d \in Router \ {r} : KeepsEvents(d)
    BY <1>1, <1>2, SendOK
  <2>2. /\ timer' \in [Router -> [Timer -> {"off", "on", "fired"}]]
        /\ timer'[r] = [timer[r] EXCEPT !["adver"] = "on"]
        /\ \A d \in Router \ {r} : timer'[d] = timer[d]
    BY <1>1, <1>2 DEF TypeOK, Set, Timer
  <2>3. state' = [state EXCEPT ![r] = "master"]
    BY <1>2 DEF Become
  <2>4. TypeOK'
    BY <1>1, <2>1, <2>2, <2>3, NumberAssumption DEF TypeOK, Start
  <2>5. LeavesOthers(r)
    BY <1>1, <2>1, <2>2, <2>3 DEF LeavesOthers, TypeOK
  <2>6. RouterOK(r)'
    BY <1>1, <2>2, <2>3 DEF IInv, RouterOK, TypeOK, Timer
  <2> QED
    BY <2>4, <2>5, <2>6, OneRouter
<1>3. CASE Become(r, "backup") /\ Set(r, "master_down", "on") /\ UNCHANGED queue
  <2>1. /\ timer' \in [Router -> [Timer -> {"off", "on", "fired"}]]
        /\ timer'[r]["master_down"] = "on" /\ timer'[r]["adver"] = timer[r]["adver"]
        /\ timer'[r]["preempt_delay"] = timer[r]["preempt_delay"]
        /\ \A d \in Router \ {r} : timer'[d] = timer[d]
    BY <1>1, <1>3 DEF TypeOK, Set, Timer
  <2>2. state' = [state EXCEPT ![r] = "backup"]
    BY <1>3 DEF Become
  <2>3. TypeOK'
    BY <1>1, <1>3, <2>1, <2>2, NumberAssumption DEF TypeOK, Start
  <2>4. LeavesOthers(r)
    BY <1>1, <1>3, <2>1, <2>2 DEF LeavesOthers, TypeOK, KeepsEvents, Queued
  <2>5. timer[r]["adver"] # "on" /\ timer[r]["preempt_delay"] = "off" /\ state'[r] = "backup"
    BY <1>1, <2>2 DEF IInv, RouterOK, TypeOK
  <2>6. RouterOK(r)'
    BY <2>1, <2>5 DEF RouterOK
  <2> QED
    BY <2>3, <2>4, <2>6, OneRouter
<1> QED
  BY <1>2, <1>3 DEF Start

\* A request of the manager keeps the invariant.
LEMMA RequestOK ==
  ASSUME IInv, NEW r \in Router, Request(r)
  PROVE  IInv'
<1>1. TypeOK
  BY DEF IInv
<1>2. PICK e \in Changes \cup {[ev |-> "shutdown"]} : queue' = [queue EXCEPT ![r] = Append(@, e)]
  BY DEF Request
<1>3. e \in Event
  BY <1>2, ConfigAssumption DEF Event
<1>4. queue' \in [Router -> Seq(Event)] /\ \A d \in Router : KeepsEvents(d)
  BY <1>1, <1>2, <1>3, PostOK
<1>5. TypeOK' /\ UNCHANGED <<state, timer>>
  BY <1>1, <1>4, NumberAssumption DEF TypeOK, Request
<1>6. LeavesOthers(r)
  BY <1>4, <1>5 DEF LeavesOthers
<1>7. RouterOK(r)'
  BY <1>4, <1>5 DEF IInv, RouterOK, KeepsEvents, Timer
<1> QED
  BY <1>5, <1>6, <1>7, OneRouter

\* An instance that goes takes its timers with it, save those that are left running.
LEMMA GoneOK ==
  ASSUME IInv, NEW r \in Router, Become(r, "down"),
         timer' = [timer EXCEPT ![r] = Off], queue' = [queue EXCEPT ![r] = <<>>],
         ghost' \in [Router -> Nat], UNCHANGED <<version, config, bounds>>
  PROVE  IInv'
<1>1. TypeOK /\ Off \in [Timer -> {"off", "on", "fired"}] /\ <<>> \in Seq(Event)
  BY EmptySeq DEF IInv, Off
<1>2. /\ timer' \in [Router -> [Timer -> {"off", "on", "fired"}]] /\ timer'[r] = Off
      /\ \A d \in Router \ {r} : timer'[d] = timer[d]
  BY <1>1 DEF TypeOK
<1>3. queue' \in [Router -> Seq(Event)] /\ \A d \in Router \ {r} : queue'[d] = queue[d]
  BY <1>1 DEF TypeOK
<1>4. /\ state' \in [Router -> {"down", "initialize", "backup", "master"}] /\ state'[r] = "down"
      /\ \A d \in Router \ {r} : state'[d] = state[d]
  BY <1>1 DEF TypeOK, Become
<1>5. TypeOK'
  BY <1>1, <1>2, <1>3, <1>4 DEF TypeOK, bounds
<1>6. LeavesOthers(r)
  BY <1>2, <1>3, <1>4 DEF LeavesOthers, KeepsEvents, Queued
<1>7. RouterOK(r)'
  BY <1>2, <1>4 DEF RouterOK, Off, Timer
<1> QED
  BY <1>5, <1>6, <1>7, OneRouter

-----------------------------------------------------------------------------
(* The theorems.                                                           *)

\* In the beginning there is no instance and no timer.
LEMMA InitOK == Init => IInv
<1> SUFFICES ASSUME Init PROVE IInv
  OBVIOUS
<1>1. TypeOK
  BY NumberAssumption, ConfigAssumption, EmptySeq DEF Init, TypeOK, Off
<1>2. \A r \in Router : RouterOK(r)
  BY DEF Init, RouterOK, Off, Timer
<1> QED
  BY <1>1, <1>2 DEF IInv

\* Every step preserves the invariant.
LEMMA NextOK == IInv /\ [Next]_vars => IInv'
<1> SUFFICES ASSUME IInv, [Next]_vars PROVE IInv'
  OBVIOUS
<1>1. CASE UNCHANGED vars
  BY <1>1 DEF IInv, TypeOK, RouterOK, Queued, vars
<1>2. ASSUME NEW r \in Router, NEW got, Sends(r, got) PROVE IInv'
  <2>1. CASE MasterDown(r, got)
    <3>1. config[r] \in Config /\ queue[r] # <<>> /\ BecomeMaster(r, config[r], {}, got)
      BY <2>1 DEF IInv, TypeOK, MasterDown, Take
    <3> QED
      BY <3>1, BecomeMasterOK
  <2>2. CASE Adver(r, got) \/ AnswerRelease(r, got)
    <3>1. /\ config \in [Router -> Config] /\ queue[r] # <<>> /\ state[r] = "master"
          /\ Send(r, Tail(queue[r]), config[r].priority, got) /\ Set(r, "adver", "on")
          /\ UNCHANGED <<version, config, state, ghost, bounds>>
      BY <2>2 DEF IInv, TypeOK, Adver, AnswerRelease, Take
    <3> QED
      BY <3>1, AdvertiseOK
  <2>3. CASE Shutdown(r, got)
    BY <2>3, ShutdownOK
  <2>4. CASE ConfigChange(r, got)
    BY <2>4, ConfigChangeOK
  <2> QED
    BY <1>2, <2>1, <2>2, <2>3, <2>4 DEF Sends
<1>3. ASSUME NEW r \in Router, Handle(r) PROVE IInv'
  BY <1>2, <1>3, YieldOK, WaitAgainOK, IgnoreOK DEF Handle
<1>4. ASSUME NEW r \in Router, Uninstantiate(r) PROVE IInv'
  <2>1. ghost' \in [Router -> Nat]
    BY <1>4 DEF IInv, TypeOK, Uninstantiate
  <2> QED
    BY <1>4, <2>1, GoneOK DEF Uninstantiate
<1>5. ASSUME NEW r \in Router, Crash(r) PROVE IInv'
  <2>1. ghost' \in [Router -> Nat]
    BY <1>5 DEF IInv, TypeOK, Crash
  <2> QED
    BY <1>5, <2>1, GoneOK DEF Crash
<1>6. CASE Next
  BY <1>3, <1>4, <1>5, <1>6, GhostExpiresOK, ExpireOK, StartOK, RequestOK DEF Next
<1> QED
  BY <1>1, <1>6

\* The invariant holds throughout.
THEOREM Invariant == Spec => []IInv
BY InitOK, NextOK, PTL DEF Spec

\* Every variable keeps its type, for any requests to change a configuration.
THEOREM TypeCorrect == Spec => []TypeOK
<1>1. IInv => TypeOK
  BY DEF IInv
<1> QED
  BY <1>1, Invariant, PTL

\* A master goes on advertising, whatever reaches its queue.
THEOREM MastersAdvertise == Spec => []MasterAdvertises
<1>1. IInv => MasterAdvertises
  BY DEF IInv, RouterOK, MasterAdvertises
<1> QED
  BY <1>1, Invariant, PTL

\* A backup goes on watching, and its is_running() is to be trusted.
THEOREM BackupsWatch == Spec => []BackupWatches
<1>1. IInv => BackupWatches
  BY DEF IInv, RouterOK, BackupWatches
<1> QED
  BY <1>1, Invariant, PTL

\* No state leaves a timer behind that is not its own.
THEOREM TimersOfTheState == Spec => []TimersBelong
<1>1. IInv => TimersBelong
  BY DEF IInv, RouterOK, TimersBelong
<1> QED
  BY <1>1, Invariant, PTL

-----------------------------------------------------------------------------
(* The event loop that joins a timer thread in line for its own queue.     *)

\* Neither a late event nor a packet nor a request nor another router frees a
\* router that joins a thread in line: it is stuck until its process dies, for
\* _shutdown_loop, too, waits for an event loop that goes on.
StuckForGood == [][\A r \in Router : Stuck(r) => Stuck(r)' \/ ~Alive(r)']_vars

\* It takes more than one event in line, that is more than 129 in the code: a
\* router whose queue does not overflow is never stuck.
StuckNeedsOverflow == \A r \in Router : Stuck(r) => Len(queue[r]) > QueueSize + 1

\* An event that joins the line does not free the router.
LEMMA StuckStays ==
  ASSUME TypeOK, NEW r \in Router, Stuck(r), NEW e,
         queue'[r] = queue[r] \/ queue'[r] = Append(queue[r], e),
         version' = version, state'[r] = state[r], config'[r] = config[r]
  PROVE  Stuck(r)'
<1>1. queue[r] \in Seq(Event) /\ queue[r] # <<>> /\ QueueSize \in Nat
  BY NumberAssumption DEF TypeOK, Stuck
<1>2. PICK i \in DOMAIN Tail(queue[r]) : i > QueueSize /\ Tail(queue[r])[i].ev \in Joined(r)
  BY DEF Stuck, Free, InLine
<1>3. /\ queue'[r] # <<>> /\ Head(queue'[r]) = Head(queue[r])
      /\ i \in DOMAIN Tail(queue'[r]) /\ Tail(queue'[r])[i] = Tail(queue[r])[i]
  <2>1. CASE queue'[r] = queue[r]
    BY <1>1, <1>2, <2>1
  <2>2. CASE queue'[r] = Append(queue[r], e)
    <3> DEFINE q == queue[r]
    <3>1. Len(q) \in Nat \ {0} /\ DOMAIN Tail(q) = 1..(Len(q) - 1) /\ Tail(q)[i] = q[i + 1]
      BY <1>1, <1>2
    <3>2. /\ Append(q, e) = [j \in 1..(Len(q) + 1) |-> IF j = Len(q) + 1 THEN e ELSE q[j]]
          /\ Append(q, e) \in Seq(Event \cup {e}) /\ Len(Append(q, e)) = Len(q) + 1
      BY <1>1
    <3>3. /\ DOMAIN Tail(Append(q, e)) = 1..Len(q)
          /\ Tail(Append(q, e))[i] = Append(q, e)[i + 1]
      BY <1>2, <3>1, <3>2
    <3>4. Append(q, e)[1] = q[1] /\ Append(q, e)[i + 1] = q[i + 1]
      BY <1>2, <3>1, <3>2
    <3> QED
      BY <1>1, <1>2, <2>2, <3>1, <3>2, <3>3, <3>4
  <2> QED
    BY <2>1, <2>2
<1>4. Joined(r)' = Joined(r)
  BY <1>3 DEF Joined, Packet, Outranks, GivesUp, Restarts, Accepts, Delays, ByPriority, NewOwner
<1> QED
  BY <1>2, <1>3, <1>4 DEF Stuck, Running, Free, InLine

\* A stuck router handles nothing.
LEMMA StuckHandlesNothing ==
  ASSUME NEW r \in Router, Stuck(r)
  PROVE  ~Handle(r)
<1>1. ~Free(r) /\ state[r] \in {"backup", "master"}
  BY DEF Stuck, Running
<1>2. ~Yield(r) /\ ~WaitAgain(r)
  BY <1>1 DEF Yield, WaitAgain
<1>3. ASSUME NEW got PROVE ~Sends(r, got)
  BY <1>1 DEF Sends, MasterDown, BecomeMaster, Adver, AnswerRelease, Shutdown, ConfigChange
<1>4. Joined(r) # {}
  BY <1>1 DEF Free, InLine
<1>5. ~Ignore(r)
  <2> SUFFICES ASSUME Ignore(r) PROVE Joined(r) = {}
    BY <1>4
  <2>1. CASE state[r] = "backup"
    BY <2>1 DEF Ignore, Joined, Take, GivesUp, Restarts
  <2>2. CASE state[r] = "master"
    BY <2>2 DEF Ignore, Joined, Take, GivesUp, Restarts
  <2> QED
    BY <1>1, <2>1, <2>2
<1> QED
  BY <1>2, <1>3, <1>5 DEF Handle

\* A stuck router stays so through a step of any router but its own crash.
LEMMA StuckStep ==
  ASSUME TypeOK, [Next]_vars, NEW r \in Router, Stuck(r)
  PROVE  Stuck(r)' \/ ~Alive(r)'
<1> DEFINE Quiet(d) == /\ version' = version /\ state'[d] = state[d] /\ config'[d] = config[d]
                       /\ \E e : queue'[d] = queue[d] \/ queue'[d] = Append(queue[d], e)
<1>1. Quiet(r) => Stuck(r)'
  BY StuckStays
<1>2. state[r] \in {"backup", "master"}
  BY DEF Stuck, Running
<1>3. CASE UNCHANGED vars
  BY <1>1, <1>3 DEF vars
<1>4. ASSUME NEW d \in Router, NEW got, Sends(d, got), d # r PROVE Quiet(r)
  <2>1. ASSUME NEW q, NEW p, Send(d, q, p, got)
        PROVE  \E e : queue'[r] = queue[r] \/ queue'[r] = Append(queue[r], e)
    BY <1>4, <2>1 DEF Send
  <2>2. ASSUME Drop(d) PROVE queue'[r] = queue[r]
    BY <1>4, <2>2 DEF Drop, TypeOK
  <2>3. \/ \E q, p : Send(d, q, p, got)
        \/ Drop(d)
    BY <1>4 DEF Sends, MasterDown, BecomeMaster, Adver, AnswerRelease, Shutdown, ConfigChange
  <2>4. version' = version /\ state'[r] = state[r] /\ config'[r] = config[r]
    BY <1>4 DEF Sends, MasterDown, BecomeMaster, Adver, AnswerRelease, Shutdown,
                ConfigChange, Become, TypeOK
  <2> QED
    BY <2>1, <2>2, <2>3, <2>4
<1>5. ASSUME NEW d \in Router, Handle(d) PROVE Quiet(r)
  <2>1. d # r
    BY <1>5, StuckHandlesNothing
  <2>2. CASE Yield(d) \/ WaitAgain(d) \/ Ignore(d)
    BY <2>1, <2>2 DEF Yield, WaitAgain, Ignore, Drop, Become, TypeOK
  <2> QED
    BY <1>4, <1>5, <2>1, <2>2 DEF Handle
<1>6. ASSUME NEW d \in Router, \/ GhostExpires(d) \/ Request(d)
                               \/ \E t \in Timer : Expire(d, t)
      PROVE  Quiet(r)
  <2>1. UNCHANGED <<version, config, state>>
    BY <1>6 DEF GhostExpires, Request, Expire
  <2>2. queue' = queue \/ \E e : queue' = [queue EXCEPT ![d] = Append(@, e)]
    BY <1>6 DEF GhostExpires, Request, Expire
  <2> QED
    BY <2>1, <2>2 DEF TypeOK
<1>7. ASSUME NEW d \in Router, NEW got, Start(d, got) PROVE Quiet(r)
  <2>1. d # r
    BY <1>2, <1>7 DEF Start
  <2> QED
    BY <1>7, <2>1 DEF Start, Send, Become, TypeOK
<1>8. ASSUME NEW d \in Router, Uninstantiate(d) PROVE Quiet(r)
  <2>1. d # r
    BY <1>2, <1>8 DEF Uninstantiate
  <2> QED
    BY <1>8, <2>1 DEF Uninstantiate, Become, bounds, TypeOK
<1>9. ASSUME NEW d \in Router, Crash(d) PROVE Quiet(r) \/ ~Alive(r)'
  <2>1. CASE d = r
    BY <1>9, <2>1 DEF Crash, Become, Alive, TypeOK
  <2>2. CASE d # r
    BY <1>9, <2>2 DEF Crash, Become, bounds, TypeOK
  <2> QED
    BY <2>1, <2>2
<1>10. CASE Next
  BY <1>1, <1>5, <1>6, <1>7, <1>8, <1>9, <1>10 DEF Next
<1> QED
  BY <1>3, <1>10

\* Nothing but the death of the process ends the wait for a thread in line.
THEOREM StuckIsForGood == Spec => StuckForGood
<1>1. IInv /\ [Next]_vars => \A r \in Router : Stuck(r) => Stuck(r)' \/ ~Alive(r)'
  BY StuckStep DEF IInv
<1>2. IInv /\ [Next]_vars => [\A r \in Router : Stuck(r) => Stuck(r)' \/ ~Alive(r)']_vars
  BY <1>1
<1> QED
  BY <1>2, Invariant, PTL DEF Spec, StuckForGood

\* Only a queue that overflows can make its router wait for ever.
THEOREM OverflowOnly == Spec => []StuckNeedsOverflow
<1>1. TypeOK => StuckNeedsOverflow
  <2> SUFFICES ASSUME TypeOK, NEW r \in Router, Stuck(r) PROVE Len(queue[r]) > QueueSize + 1
    BY DEF StuckNeedsOverflow
  <2>1. queue[r] \in Seq(Event) /\ queue[r] # <<>> /\ QueueSize \in Nat
    BY NumberAssumption DEF TypeOK, Stuck
  <2>2. PICK i \in DOMAIN Tail(queue[r]) : i > QueueSize
    BY DEF Stuck, Free, InLine
  <2> QED
    BY <2>1, <2>2
<1> QED
  BY <1>1, TypeCorrect, PTL
=============================================================================
