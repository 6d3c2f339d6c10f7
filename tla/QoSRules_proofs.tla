-------------------------- MODULE QoSRules_proofs --------------------------
(***************************************************************************)
(* Theorems about QoSRules, for any number of requests, matches, VLANs and *)
(* priorities.                                                             *)
(***************************************************************************)
EXTENDS QoSRules, TLAPS

\* The operations a greenlet can be in the middle of are typed.
LEMMA OpTypes ==
  /\ Idle \in Op
  /\ \A S \in SUBSET Rule : Sending(S) \in Op
  /\ \A q \in Asked \cup {All}, v \in Vid \cup {All}, S \in SUBSET Rule :
       Waiting(q, v, S) \in Op
  /\ \A o \in Op, S \in SUBSET Rule :
       o.op \in {"delete", "purge"} => Purging(o, S) \in Op
BY DEF Op, Idle, Sending, Waiting, Purging

\* What is known of an operation from its kind.
LEMMA OpKinds ==
  ASSUME NEW o \in Op
  PROVE  /\ o.op = "set" => o.todo \in SUBSET Rule /\ o = Sending(o.todo)
         /\ o.op \in {"delete", "purge"} => /\ o.qos \in Asked \cup {All}
                                             /\ o.vlan \in Vid \cup {All}
                                             /\ o.snap \in SUBSET Rule
         /\ o.op = "purge" => o.todo \in SUBSET Rule
BY DEF Op, Idle, Sending

\* The VLAN ids of a request are VLAN ids.
LEMMA ChosenType ==
  ASSUME TypeOK, NEW v \in Vid \cup {All}
  PROVE  Chosen(v) \in SUBSET Vid
BY DEF Chosen, TypeOK, Vid

\* The default flow is a flow.
LEMMA DefaultFlowType == DefaultFlow \in Rule
BY NumberAssumption DEF DefaultFlow, Rule, Vid, DEFAULT_FLOW_PRIORITY

\* The flows of table 1 are flows.
LEMMA LearnedType == \A f \in Fwd : Learned(f) \in Rule
BY NumberAssumption DEF Learned, Rule, Vid

\* Giving ids keeps the counters within their type.
LEMMA BumpType ==
  ASSUME TypeOK, NEW V \in SUBSET Vid, Bump(V)
  PROVE  /\ vlan_list' \subseteq Vid /\ NoVlan \in vlan_list'
         /\ counter' \in [Vid -> 0..MaxId]
         /\ \A w \in Vid \ vlan_list' : counter'[w] = 0
         /\ \A w \in V : counter'[w] = counter[w] + 1
         /\ \A w \in Vid \ V : counter'[w] = counter[w]
BY NumberAssumption DEF TypeOK, Bump, Vid

\* The rules a POST goes on to send are rules.
LEMMA NewRulesType ==
  ASSUME TypeOK, NEW V \in SUBSET Vid, NEW m \in Match, NEW p \in Prio, Bump(V)
  PROVE  {NewRule(w, m, p, counter'[w]) : w \in V} \in SUBSET Rule
<1>1. \A w \in V : w \in Vid /\ counter'[w] \in 0..MaxId
  BY BumpType
<1>2. \A w \in V : NewRule(w, m, p, counter'[w]) \in Rule
  BY <1>1 DEF Rule, NewRule
<1> QED
  BY <1>2

\* A DELETE keeps the types, whatever part of the tables it was shown.
LEMMA DeleteType ==
  ASSUME TypeOK, NEW r \in Req, pc[r].op = "delete", NEW S \in SUBSET pc[r].snap,
         DeleteFails(r, S) \/ DeleteFlows(r, S)
  PROVE  TypeOK'
<1>1. CASE DeleteFails(r, S)
  <2>1. PICK w \in Stale(S, pc[r].qos, pc[r].vlan) :
          /\ vlan_list' = vlan_list \ {w}
          /\ counter' = [counter EXCEPT ![w] = 0]
          /\ pc' = [pc EXCEPT ![r] = Idle]
          /\ UNCHANGED <<table0, learned>>
    BY <1>1 DEF DeleteFails
  <2>2. w \in vlan_list \ {NoVlan} /\ 0 \in 0..MaxId
    BY <2>1, NumberAssumption DEF Stale
  <2> QED
    BY <2>1, <2>2, OpTypes DEF TypeOK
<1>2. CASE DeleteFlows(r, S)
  <2> DEFINE sel == Selected(S, pc[r].qos, pc[r].vlan)
  <2>1. sel \in SUBSET Rule
    BY OpKinds DEF TypeOK, Selected, Counted
  <2>2. Idle \in Op /\ Purging(pc[r], sel) \in Op
    BY <2>1, OpTypes DEF TypeOK
  <2>3. pc' = [pc EXCEPT ![r] = IF sel = {} THEN Idle ELSE Purging(pc[r], sel)]
    BY <1>2 DEF DeleteFlows, TypeOK
  <2> HIDE DEF sel
  <2>4. pc' \in [Req -> Op]
    BY <2>2, <2>3 DEF TypeOK
  <2> QED
    BY <1>2, <2>4 DEF DeleteFlows, TypeOK
<1> QED
  BY <1>1, <1>2

\* No step leaves the types.
LEMMA TypeStep == TypeOK /\ [Next]_vars => TypeOK'
<1> SUFFICES ASSUME TypeOK, [Next]_vars PROVE TypeOK'
  OBVIOUS
<1>1. ASSUME NEW r \in Req, NEW v \in Vid \cup {All}, NEW m \in Match, NEW p \in Prio,
             SetQos(r, v, m, p)
      PROVE  TypeOK'
  <2> DEFINE new == {NewRule(w, m, p, counter'[w]) : w \in Chosen(v)}
  <2>1. Chosen(v) \in SUBSET Vid /\ Bump(Chosen(v))
    BY <1>1, ChosenType DEF SetQos
  <2>2. Sending(new) \in Op
    BY <2>1, NewRulesType, OpTypes
  <2>3. pc' \in [Req -> Op]
    BY <1>1, <2>2 DEF SetQos, TypeOK
  <2> QED
    BY <1>1, <2>1, <2>3, BumpType DEF SetQos, TypeOK
<1>2. ASSUME NEW r \in Req, NEW v \in Vid \cup {All}, SetQosInvalid(r, v) PROVE TypeOK'
  BY <1>2, ChosenType, BumpType DEF SetQosInvalid, TypeOK
<1>3. ASSUME NEW r \in Req, NEW v \in Vid \cup {All}, NEW q \in Asked \cup {All},
             DeleteQos(r, q, v)
      PROVE  TypeOK'
  <2>1. {Learned(f) : f \in learned} \in SUBSET Rule
    BY LearnedType DEF TypeOK
  <2> QED
    BY <1>3, <2>1, OpTypes DEF DeleteQos, TypeOK
<1>4. ASSUME NEW r \in Req, SetQosSend(r) PROVE TypeOK'
  <2>1. PICK x \in pc[r].todo :
          /\ AddFlow(x)
          /\ pc' = [pc EXCEPT ![r] = IF @.todo = {x} THEN Idle ELSE Sending(@.todo \ {x})]
    BY <1>4 DEF SetQosSend
  <2>2. pc[r].todo \in SUBSET Rule
    BY <1>4, OpKinds DEF SetQosSend, TypeOK
  <2>3. table0' \subseteq Rule
    BY <2>1, <2>2 DEF AddFlow, TypeOK
  <2>4. pc' \in [Req -> Op]
    BY <2>1, <2>2, OpTypes DEF TypeOK
  <2> QED
    BY <1>4, <2>3, <2>4 DEF SetQosSend, TypeOK
<1>5. ASSUME NEW r \in Req, DeleteInTime(r) PROVE TypeOK'
  BY <1>5, DeleteType DEF DeleteInTime
<1>6. ASSUME NEW r \in Req, DeleteTimeout(r) PROVE TypeOK'
  BY <1>6, DeleteType DEF DeleteTimeout
<1>7. ASSUME NEW r \in Req, DeleteSend(r) PROVE TypeOK'
  <2>1. PICK x \in pc[r].todo :
          /\ table0' = {y \in table0 : ~Hit(x, y)}
          /\ pc' = [pc EXCEPT ![r] = IF @.todo = {x} THEN Idle ELSE Purging(@, @.todo \ {x})]
    BY <1>7 DEF DeleteSend
  <2>2. Idle \in Op /\ Purging(pc[r], pc[r].todo \ {x}) \in Op
    BY <1>7, OpKinds, OpTypes DEF DeleteSend, TypeOK
  <2>3. pc' \in [Req -> Op]
    BY <2>1, <2>2 DEF TypeOK
  <2> QED
    BY <1>7, <2>1, <2>3 DEF DeleteSend, TypeOK
<1>8. ASSUME RegistOfs PROVE TypeOK'
  <2>1. \A y \in Rule : [y EXCEPT !.own = FALSE] \in Rule
    BY DEF Rule
  <2>2. table0' \subseteq Rule
    BY <1>8, <2>1, DefaultFlowType DEF RegistOfs, TypeOK
  <2> QED
    BY <1>8, <2>2, NumberAssumption, OpTypes DEF RegistOfs, TypeOK, Vid
<1>9. ASSUME NEW f \in Fwd, Learn(f) PROVE TypeOK'
  BY <1>9 DEF Learn, TypeOK
<1>10. CASE UNCHANGED vars
  BY <1>10 DEF vars, TypeOK
<1> QED
  BY <1>1, <1>2, <1>3, <1>4, <1>5, <1>6, <1>7, <1>8, <1>9, <1>10 DEF Next

\* Every variable keeps its type, and only counters in use are not zero.
THEOREM TypeCorrect == Spec => []TypeOK
<1>1. Init => TypeOK
  BY NumberAssumption, OpTypes, DefaultFlowType DEF Init, TypeOK, Vid
<1> QED
  BY <1>1, TypeStep, PTL DEF Spec

-----------------------------------------------------------------------------
(* What requests are about to send.                                        *)

\* A POST sends rules of its own, none of them without a match.
PostsOK ==
  \A r \in Req : pc[r].op = "set" => \A x \in pc[r].todo : x.match \in Match /\ x.own

\* A DELETE has something to delete, all of it flows that it was asked for
\* and has seen.
PurgesOK ==
  \A r \in Req : pc[r].op = "purge" =>
    /\ pc[r].todo # {}
    /\ pc[r].todo \subseteq Selected(pc[r].snap, pc[r].qos, pc[r].vlan)

\* What the two outcomes of a reply have in common.
LEMMA DeleteStep ==
  ASSUME NEW r \in Req, DeleteInTime(r) \/ DeleteTimeout(r)
  PROVE  /\ pc[r].op = "delete"
         /\ \E S \in SUBSET pc[r].snap : DeleteFails(r, S) \/ DeleteFlows(r, S)
BY DEF DeleteInTime, DeleteTimeout

\* Flows selected from part of a reply are selected from all of it.
LEMMA SelectedGrows ==
  ASSUME NEW T, NEW S \in SUBSET T, NEW q, NEW v
  PROVE  Selected(S, q, v) \subseteq Selected(T, q, v)
BY DEF Selected, Counted

\* What a greenlet that goes on to o must bring along.
OpOK(o) ==
  /\ o.op = "set" => \A x \in o.todo : x.match \in Match /\ x.own
  /\ o.op = "purge" => /\ o.todo # {}
                       /\ o.todo \subseteq Selected(o.snap, o.qos, o.vlan)

\* One greenlet goes on.
LEMMA OpStep ==
  ASSUME TypeOK, PostsOK, PurgesOK, NEW r \in Req, NEW o, OpOK(o),
         pc' = [pc EXCEPT ![r] = o]
  PROVE  PostsOK' /\ PurgesOK'
BY DEF OpOK, PostsOK, PurgesOK, TypeOK

\* No step changes that.
LEMMA TodoStep == TypeOK /\ PostsOK /\ PurgesOK /\ [Next]_vars => PostsOK' /\ PurgesOK'
<1> SUFFICES ASSUME TypeOK, PostsOK, PurgesOK, [Next]_vars PROVE PostsOK' /\ PurgesOK'
  OBVIOUS
<1>0. OpOK(Idle)
  BY DEF OpOK, Idle
<1>1. ASSUME NEW r \in Req, NEW v, NEW m \in Match, NEW p, SetQos(r, v, m, p)
      PROVE  PostsOK' /\ PurgesOK'
  <2> DEFINE new == {NewRule(w, m, p, counter'[w]) : w \in Chosen(v)}
  <2>1. OpOK(Sending(new))
    BY DEF OpOK, Sending, NewRule
  <2> QED
    BY <1>1, <2>1, OpStep DEF SetQos
<1>2. ASSUME NEW r \in Req, NEW v, NEW q, DeleteQos(r, q, v) PROVE PostsOK' /\ PurgesOK'
  <2> DEFINE snap == table0 \cup {Learned(f) : f \in learned}
  <2>1. OpOK(Waiting(q, v, snap))
    BY DEF OpOK, Waiting
  <2> QED
    BY <1>2, <2>1, OpStep DEF DeleteQos
<1>3. ASSUME NEW r \in Req, SetQosSend(r) PROVE PostsOK' /\ PurgesOK'
  <2>1. PICK x \in pc[r].todo :
          pc' = [pc EXCEPT ![r] = IF @.todo = {x} THEN Idle ELSE Sending(@.todo \ {x})]
    BY <1>3 DEF SetQosSend
  <2>2. OpOK(Sending(pc[r].todo \ {x}))
    BY <1>3 DEF SetQosSend, OpOK, Sending, PostsOK
  <2>3. pc' = [pc EXCEPT ![r] = IF pc[r].todo = {x} THEN Idle ELSE Sending(pc[r].todo \ {x})]
    BY <2>1 DEF TypeOK
  <2> QED
    BY <1>0, <2>2, <2>3, OpStep
<1>4. ASSUME NEW r \in Req, DeleteInTime(r) \/ DeleteTimeout(r) PROVE PostsOK' /\ PurgesOK'
  <2>1. PICK S \in SUBSET pc[r].snap : DeleteFails(r, S) \/ DeleteFlows(r, S)
    BY <1>4, DeleteStep
  <2>2. CASE DeleteFails(r, S)
    BY <1>0, <2>2, OpStep DEF DeleteFails
  <2>3. CASE DeleteFlows(r, S)
    <3> DEFINE sel == Selected(S, pc[r].qos, pc[r].vlan)
    <3>1. sel # {} => OpOK(Purging(pc[r], sel))
      BY SelectedGrows DEF OpOK, Purging
    <3>2. pc' = [pc EXCEPT ![r] = IF sel = {} THEN Idle ELSE Purging(pc[r], sel)]
      BY <2>3 DEF DeleteFlows, TypeOK
    <3> HIDE DEF sel
    <3> QED
      BY <1>0, <3>1, <3>2, OpStep
  <2> QED
    BY <2>1, <2>2, <2>3
<1>5. ASSUME NEW r \in Req, DeleteSend(r) PROVE PostsOK' /\ PurgesOK'
  <2>1. PICK x \in pc[r].todo :
          pc' = [pc EXCEPT ![r] = IF @.todo = {x} THEN Idle ELSE Purging(@, @.todo \ {x})]
    BY <1>5 DEF DeleteSend
  <2>2. pc[r].todo # {x} => OpOK(Purging(pc[r], pc[r].todo \ {x}))
    BY <1>5, <2>1 DEF DeleteSend, OpOK, Purging, PurgesOK
  <2>3. pc' = [pc EXCEPT ![r] = IF pc[r].todo = {x} THEN Idle
                               ELSE Purging(pc[r], pc[r].todo \ {x})]
    BY <2>1 DEF TypeOK
  <2> QED
    BY <1>0, <2>2, <2>3, OpStep
<1>6. ASSUME RegistOfs PROVE PostsOK' /\ PurgesOK'
  BY <1>6 DEF RegistOfs, PostsOK, PurgesOK, Idle
<1>7. CASE UNCHANGED pc
  BY <1>7 DEF PostsOK, PurgesOK
<1> QED
  BY <1>1, <1>2, <1>3, <1>4, <1>5, <1>6, <1>7 DEF Next, vars, SetQosInvalid, Learn

LEMMA TodoInvariant == Spec => [](TypeOK /\ PostsOK /\ PurgesOK)
<1>1. Init => PostsOK /\ PurgesOK
  BY DEF Init, PostsOK, PurgesOK, Idle
<1> QED
  BY <1>1, TodoStep, TypeCorrect, PTL DEF Spec

-----------------------------------------------------------------------------
(* The table of rules.                                                     *)

\* What a step may do to table 0: add one flow in place of its like, delete
\* one that was selected, or register the switch.
LEMMA TableStep ==
  ASSUME [Next]_vars
  PROVE  \/ table0' = table0
         \/ \E r \in Req : \E x \in pc[r].todo : pc[r].op = "set" /\ AddFlow(x)
         \/ \E r \in Req : \E x \in pc[r].todo :
              pc[r].op = "purge" /\ table0' = {y \in table0 : ~Hit(x, y)}
         \/ RegistOfs
BY DEF Next, vars, SetQos, SetQosInvalid, DeleteQos, SetQosSend, DeleteInTime,
       DeleteTimeout, DeleteFails, DeleteFlows, DeleteSend, Learn

\* A deletion is found by VLAN, by what is left of the match, and by priority.
LEMMA HitMeans ==
  ASSUME NEW x \in Rule, NEW y
  PROVE  Hit(x, y) <=> x.vid = y.vid /\ Mod[x.match] = y.match /\ x.prio = y.prio
BY DEF Hit, SameEntry, to_mod_openflow, Rule

\* What a DELETE has selected is not of priority 0.
LEMMA PurgedPriority ==
  ASSUME TypeOK, PurgesOK, NEW r \in Req, pc[r].op = "purge", NEW x \in pc[r].todo
  PROVE  x \in Rule /\ x.prio # DEFAULT_FLOW_PRIORITY
BY OpKinds DEF TypeOK, PurgesOK, Selected, Counted

\* No sequence of requests and connections removes the flow that leads to the
\* forwarding table.
THEOREM DefaultFlowSurvives == Spec => []DefaultFlowStays
<1>1. Init => DefaultFlowStays
  BY DEF Init, DefaultFlowStays
<1>2. TypeOK /\ PostsOK /\ PurgesOK /\ DefaultFlowStays /\ [Next]_vars => DefaultFlowStays'
  <2> SUFFICES ASSUME TypeOK, PostsOK, PurgesOK, DefaultFlowStays, [Next]_vars
               PROVE  DefaultFlowStays'
    OBVIOUS
  <2>1. ASSUME NEW r \in Req, NEW x \in pc[r].todo, pc[r].op = "set", AddFlow(x)
        PROVE  DefaultFlowStays'
    <3>1. x.match # AnyMatch
      BY <2>1, MatchAssumption DEF PostsOK
    <3> QED
      BY <2>1, <3>1 DEF AddFlow, SameEntry, DefaultFlow, DefaultFlowStays
  <2>2. ASSUME NEW r \in Req, NEW x \in pc[r].todo, pc[r].op = "purge",
               table0' = {y \in table0 : ~Hit(x, y)}
        PROVE  DefaultFlowStays'
    <3>1. ~Hit(x, DefaultFlow)
      BY <2>2, PurgedPriority, HitMeans DEF DefaultFlow
    <3> QED
      BY <2>2, <3>1 DEF DefaultFlowStays
  <2>3. ASSUME RegistOfs PROVE DefaultFlowStays'
    BY <2>3 DEF RegistOfs, DefaultFlowStays
  <2> QED
    BY <2>1, <2>2, <2>3, TableStep DEF DefaultFlowStays
<1> QED
  BY <1>1, <1>2, TodoInvariant, PTL DEF Spec

\* Table 0 has one entry per match and priority, and none of the learning
\* switch's.
TableOK ==
  /\ \A x, y \in table0 : SameEntry(x, y) => x = y
  /\ \A x \in table0 : x.match \notin Fwd

LEMMA TableInvariant == Spec => []TableOK
<1>1. Init => TableOK
  BY MatchAssumption DEF Init, TableOK, DefaultFlow
<1>2. TypeOK /\ PostsOK /\ TableOK /\ [Next]_vars => TableOK'
  <2> SUFFICES ASSUME TypeOK, PostsOK, TableOK, [Next]_vars PROVE TableOK'
    OBVIOUS
  <2>1. ASSUME NEW r \in Req, NEW x \in pc[r].todo, pc[r].op = "set", AddFlow(x)
        PROVE  TableOK'
    <3>1. x.match \notin Fwd
      BY <2>1, MatchAssumption DEF PostsOK
    <3> QED
      BY <2>1, <3>1 DEF AddFlow, TableOK, SameEntry
  <2>2. ASSUME RegistOfs PROVE TableOK'
    <3> DEFINE kept == {z \in table0 : ~SameEntry(z, DefaultFlow)}
               old(y) == [y EXCEPT !.own = FALSE]
    <3>1. table0' = {old(y) : y \in kept} \cup {DefaultFlow}
      BY <2>2 DEF RegistOfs
    <3>2. \A y \in Rule : /\ old(y).vid = y.vid
                          /\ old(y).match = y.match
                          /\ old(y).prio = y.prio
      BY DEF Rule
    <3>3. kept \subseteq Rule
      BY DEF TypeOK
    <3>4. \A y, z \in kept : SameEntry(old(y), old(z)) => y = z
      BY <3>2, <3>3 DEF SameEntry, TableOK
    <3>5. \A y \in kept : ~SameEntry(old(y), DefaultFlow) /\ ~SameEntry(DefaultFlow, old(y))
      BY <3>2, <3>3 DEF SameEntry
    <3>6. \A y \in kept : old(y).match \notin Fwd
      BY <3>2, <3>3 DEF TableOK
    <3>7. DefaultFlow.match \notin Fwd
      BY MatchAssumption DEF DefaultFlow
    <3> HIDE DEF kept, old
    <3> QED
      BY <3>1, <3>4, <3>5, <3>6, <3>7 DEF TableOK
  <2> QED
    BY <2>1, <2>2, TableStep DEF TableOK
<1> QED
  BY <1>1, <1>2, TodoInvariant, PTL DEF Spec

-----------------------------------------------------------------------------
(* The ids of the rules of no VLAN.                                        *)

OwnRules == {z \in Rules : z.own /\ z.vid = NoVlan}

\* Ids that the present QoS object has given outside VLANs are those of its
\* counter so far.
IdsAreGiven == \A x \in OwnRules : x.id \in 1..counter[NoVlan]

\* A step either brings no rule and leaves the counter of no VLAN, or is a
\* POST whose new rules have the next id; or the switch is registered, and
\* none of its rules is the new object's.
LEMMA RulesStep ==
  ASSUME TypeOK, [Next]_vars
  PROVE  \/ /\ OwnRules' \subseteq OwnRules
            /\ counter'[NoVlan] \in {counter[NoVlan], counter[NoVlan] + 1}
         \/ \E p \in Prio, m \in Match :
              /\ counter'[NoVlan] \in {counter[NoVlan], counter[NoVlan] + 1}
              /\ \A x \in OwnRules' \ OwnRules :
                   /\ counter'[NoVlan] = counter[NoVlan] + 1
                   /\ x = NewRule(NoVlan, m, p, counter'[NoVlan])
         \/ OwnRules' = {}
<1> DEFINE Quiet == /\ OwnRules' \subseteq OwnRules
                    /\ counter'[NoVlan] \in {counter[NoVlan], counter[NoVlan] + 1}
<1>0. NoVlan \in Vid
  BY DEF Vid
<1>1. ASSUME NEW r \in Req, NEW v \in Vid \cup {All}, NEW m \in Match, NEW p \in Prio,
             SetQos(r, v, m, p)
      PROVE  /\ counter'[NoVlan] \in {counter[NoVlan], counter[NoVlan] + 1}
             /\ \A x \in OwnRules' \ OwnRules :
                  /\ counter'[NoVlan] = counter[NoVlan] + 1
                  /\ x = NewRule(NoVlan, m, p, counter'[NoVlan])
  <2> DEFINE new == {NewRule(w, m, p, counter'[w]) : w \in Chosen(v)}
  <2>1. Chosen(v) \in SUBSET Vid /\ Bump(Chosen(v))
    BY <1>1, ChosenType DEF SetQos
  <2>2. /\ \A w \in Chosen(v) : counter'[w] = counter[w] + 1
        /\ \A w \in Vid \ Chosen(v) : counter'[w] = counter[w]
    BY <2>1, BumpType
  <2>3. Rules' \subseteq Rules \cup new
    BY <1>1 DEF SetQos, Rules, Pending, Sending, TypeOK
  <2>4. ASSUME NEW x \in new, x.vid = NoVlan
        PROVE  NoVlan \in Chosen(v) /\ x = NewRule(NoVlan, m, p, counter'[NoVlan])
    BY <2>4 DEF NewRule
  <2> HIDE DEF new
  <2> QED
    BY <1>0, <2>2, <2>3, <2>4 DEF OwnRules
<1>2. ASSUME NEW r \in Req, NEW v \in Vid \cup {All}, SetQosInvalid(r, v) PROVE Quiet
  <2>1. OwnRules' = OwnRules
    BY <1>2 DEF SetQosInvalid, OwnRules, Rules, Pending
  <2> QED
    BY <1>0, <1>2, <2>1, ChosenType, BumpType DEF SetQosInvalid
<1>3. ASSUME NEW r \in Req, NEW v, NEW q, DeleteQos(r, q, v) PROVE Quiet
  BY <1>3 DEF DeleteQos, OwnRules, Rules, Pending, Waiting, TypeOK
<1>4. ASSUME NEW r \in Req, SetQosSend(r) PROVE Quiet
  <2>1. PICK x \in pc[r].todo :
          /\ AddFlow(x)
          /\ pc' = [pc EXCEPT ![r] = IF @.todo = {x} THEN Idle ELSE Sending(@.todo \ {x})]
    BY <1>4 DEF SetQosSend
  <2>2. x \in Pending /\ table0' \subseteq table0 \cup {x}
    BY <1>4, <2>1 DEF SetQosSend, Pending, AddFlow
  <2>3. Pending' \subseteq Pending
    BY <1>4, <2>1 DEF SetQosSend, Pending, Idle, Sending, TypeOK
  <2> QED
    BY <1>4, <2>2, <2>3 DEF SetQosSend, OwnRules, Rules
<1>5. ASSUME NEW r \in Req, NEW o, pc' = [pc EXCEPT ![r] = o], o.op # "set",
             table0' \subseteq table0, counter'[NoVlan] = counter[NoVlan]
      PROVE  Quiet
  BY <1>5 DEF OwnRules, Rules, Pending, TypeOK
<1>6. ASSUME NEW r \in Req, NEW S, DeleteFails(r, S) \/ DeleteFlows(r, S) PROVE Quiet
  <2>1. counter'[NoVlan] = counter[NoVlan] /\ table0' = table0
    BY <1>0, <1>6 DEF DeleteFails, DeleteFlows, Stale, TypeOK
  <2>2. \E o : pc' = [pc EXCEPT ![r] = o] /\ o.op # "set"
    <3>1. Idle.op # "set" /\ \A T : Purging(pc[r], T).op # "set"
      BY DEF Idle, Purging
    <3>2. CASE DeleteFails(r, S)
      BY <3>1, <3>2 DEF DeleteFails
    <3>3. CASE DeleteFlows(r, S)
      <4> DEFINE sel == Selected(S, pc[r].qos, pc[r].vlan)
                 o == IF sel = {} THEN Idle ELSE Purging(pc[r], sel)
      <4>1. pc' = [pc EXCEPT ![r] = o]
        BY <3>3 DEF DeleteFlows, TypeOK
      <4>2. o.op # "set"
        BY <3>1
      <4> HIDE DEF o
      <4> QED
        BY <4>1, <4>2
    <3> QED
      BY <1>6, <3>2, <3>3
  <2> QED
    BY <1>5, <2>1, <2>2
<1>7. ASSUME NEW r \in Req, DeleteSend(r) PROVE Quiet
  <2>1. PICK x \in pc[r].todo :
          pc' = [pc EXCEPT ![r] = IF @.todo = {x} THEN Idle ELSE Purging(@, @.todo \ {x})]
    BY <1>7 DEF DeleteSend
  <2> DEFINE o == IF pc[r].todo = {x} THEN Idle ELSE Purging(pc[r], pc[r].todo \ {x})
  <2>2. pc' = [pc EXCEPT ![r] = o]
    BY <2>1 DEF TypeOK
  <2>3. o.op # "set"
    BY DEF Idle, Purging
  <2> HIDE DEF o
  <2> QED
    BY <1>5, <1>7, <2>2, <2>3 DEF DeleteSend
<1>8. ASSUME RegistOfs PROVE OwnRules' = {}
  <2>1. Pending' = {}
    BY <1>8 DEF RegistOfs, Pending, Idle
  <2>2. \A y \in Rule : [y EXCEPT !.own = FALSE].own = FALSE
    BY DEF Rule
  <2>3. \A x \in table0' : x = DefaultFlow \/ x.own = FALSE
    BY <1>8, <2>2 DEF RegistOfs, TypeOK
  <2> QED
    BY <2>1, <2>3 DEF OwnRules, Rules
<1>9. ASSUME UNCHANGED <<table0, counter, pc>> PROVE Quiet
  BY <1>9 DEF OwnRules, Rules, Pending
<1> QED
  BY <1>1, <1>2, <1>3, <1>4, <1>6, <1>7, <1>8, <1>9
  DEF Next, vars, DeleteInTime, DeleteTimeout, Learn

\* The counter of no VLAN is above the ids it has given, so the next is new.
LEMMA IdsInvariant == Spec => [](IdsAreGiven /\ IdsAreUnique)
<1> DEFINE Inv == IdsAreGiven /\ IdsAreUnique
<1>1. Init => Inv
  BY DEF Init, Rules, Pending, Idle, OwnRules, IdsAreGiven, IdsAreUnique
<1>2. TypeOK /\ TypeOK' /\ Inv /\ [Next]_vars => Inv'
  <2> SUFFICES ASSUME TypeOK, TypeOK', Inv, [Next]_vars PROVE IdsAreGiven' /\ IdsAreUnique'
    OBVIOUS
  <2>1. counter[NoVlan] \in Nat
    BY NumberAssumption DEF TypeOK, Vid
  <2>2. ASSUME OwnRules' \subseteq OwnRules,
               counter'[NoVlan] \in {counter[NoVlan], counter[NoVlan] + 1}
        PROVE  IdsAreGiven' /\ IdsAreUnique'
    BY <2>1, <2>2 DEF IdsAreGiven, IdsAreUnique, OwnRules
  <2>3. ASSUME NEW p \in Prio, NEW m \in Match,
               counter'[NoVlan] \in {counter[NoVlan], counter[NoVlan] + 1},
               \A x \in OwnRules' \ OwnRules :
                 /\ counter'[NoVlan] = counter[NoVlan] + 1
                 /\ x = NewRule(NoVlan, m, p, counter'[NoVlan])
        PROVE  IdsAreGiven' /\ IdsAreUnique'
    <3>1. \A x \in OwnRules' :
            \/ x \in OwnRules /\ x.id \in 1..counter[NoVlan]
            \/ /\ counter'[NoVlan] = counter[NoVlan] + 1
               /\ x = NewRule(NoVlan, m, p, counter'[NoVlan])
               /\ x.id = counter'[NoVlan]
      BY <2>3 DEF IdsAreGiven, NewRule
    <3>2. IdsAreGiven'
      BY <2>1, <2>3, <3>1 DEF IdsAreGiven
    <3>3. \A x, y \in OwnRules' : x.id = y.id => x = y
      BY <2>1, <3>1 DEF IdsAreUnique, OwnRules
    <3> QED
      BY <3>2, <3>3 DEF IdsAreUnique, OwnRules
  <2>4. ASSUME OwnRules' = {} PROVE IdsAreGiven' /\ IdsAreUnique'
    BY <2>4 DEF IdsAreGiven, IdsAreUnique, OwnRules
  <2> QED
    BY <2>2, <2>3, <2>4, RulesStep
<1> QED
  BY <1>1, <1>2, TypeCorrect, PTL DEF Spec

\* Two rules of no VLAN that one QoS object has sent never share a qos id.
THEOREM UniqueIds == Spec => []IdsAreUnique
BY IdsInvariant, PTL

-----------------------------------------------------------------------------
(* What DELETE does.                                                       *)

\* A DELETE that names a VLAN sends no deletion at all, of a rule of that VLAN
\* or another: the number in the request equals no dl_vlan of the statistics.
\* This is all the operation does when VlanDeleteWorks is violated.
VlanDeleteSendsNothing == \A r \in Req : pc[r].op = "purge" => pc[r].vlan \notin Vlan

\* No VLAN id is what the statistics show of a rule.
THEOREM VlanDeleteIsNoOp == Spec => []VlanDeleteSendsNothing
<1>1. TypeOK /\ PurgesOK => VlanDeleteSendsNothing
  <2> SUFFICES ASSUME TypeOK, PurgesOK, NEW r \in Req, pc[r].op = "purge",
                      pc[r].vlan \in Vlan
               PROVE  FALSE
    BY DEF VlanDeleteSendsNothing
  <2>1. PICK x \in pc[r].snap :
          pc[r].vlan = All \/ pc[r].vlan = StatsVlan(x)
    BY DEF PurgesOK, Selected, Counted
  <2>2. x.vid \in Vid
    BY OpKinds DEF TypeOK, Rule
  <2>3. StatsVlan(x) = NoVlan \/ StatsVlan(x) \in Text
    BY <2>2 DEF StatsVlan, Text, Vid
  <2> QED
    BY <2>1, <2>3, VlanAssumption DEF Vid
<1> QED
  BY <1>1, TodoInvariant, PTL

\* No DELETE takes out a rule with a field of value 0, whether it names the
\* rule's id or all: what to_mod_openflow leaves of any flow is the match of
\* another.
ZeroFieldsStay ==
  [][\A r \in Req, y \in table0 :
       DeleteSend(r) /\ y.match \in Match /\ Mod[y.match] # y.match => y \in table0']_vars

\* A rule with a field of value 0 stays until a POST or the switch replaces it.
THEOREM ZeroFieldsCannotBeDeleted == Spec => ZeroFieldsStay
<1>1. ASSUME TypeOK, NEW r \in Req, NEW y \in table0, DeleteSend(r),
             y.match \in Match, Mod[y.match] # y.match
      PROVE  y \in table0'
  <2>1. PICK x \in pc[r].todo : table0' = {z \in table0 : ~Hit(x, z)}
    BY <1>1 DEF DeleteSend
  <2>2. x \in Rule
    BY <1>1, OpKinds DEF DeleteSend, TypeOK
  <2>3. Mod[x.match] # y.match
    BY <1>1, <2>2, MatchAssumption DEF Rule
  <2> QED
    BY <2>1, <2>2, <2>3, HitMeans
<1>2. TypeOK /\ [Next]_vars =>
        [\A r \in Req, y \in table0 :
           DeleteSend(r) /\ y.match \in Match /\ Mod[y.match] # y.match => y \in table0']_vars
  BY <1>1
<1> QED
  BY <1>2, TypeCorrect, PTL DEF Spec, ZeroFieldsStay

\* A snapshot in use has one flow per match and priority.
SnapsOK ==
  \A r \in Req : pc[r].op \in {"delete", "purge"} =>
    \A x, y \in pc[r].snap : SameEntry(x, y) => x = y

\* One greenlet goes on, with a snapshot that is in order.
LEMMA SnapStep ==
  ASSUME TypeOK, SnapsOK, NEW r \in Req, NEW o, pc' = [pc EXCEPT ![r] = o],
         o.op \in {"delete", "purge"} => \A x, y \in o.snap : SameEntry(x, y) => x = y
  PROVE  SnapsOK'
BY DEF SnapsOK, TypeOK, SameEntry

\* Snapshots are taken of tables in order and never change.
LEMMA SnapsInvariant == Spec => []SnapsOK
<1>1. Init => SnapsOK
  BY DEF Init, SnapsOK, Idle
<1>2. TypeOK /\ TableOK /\ SnapsOK /\ [Next]_vars => SnapsOK'
  <2> SUFFICES ASSUME TypeOK, TableOK, SnapsOK, [Next]_vars PROVE SnapsOK'
    OBVIOUS
  <2>0. Idle.op \notin {"delete", "purge"} /\ \A S : Sending(S).op \notin {"delete", "purge"}
    BY DEF Idle, Sending
  <2>1. ASSUME NEW r \in Req, NEW v, NEW m, NEW p, SetQos(r, v, m, p) PROVE SnapsOK'
    BY <2>0, <2>1, SnapStep DEF SetQos
  <2>2. ASSUME NEW r \in Req, SetQosSend(r) PROVE SnapsOK'
    <3>1. PICK x : pc' = [pc EXCEPT ![r] = IF pc[r].todo = {x} THEN Idle
                                          ELSE Sending(pc[r].todo \ {x})]
      BY <2>2 DEF SetQosSend, TypeOK
    <3> QED
      BY <2>0, <3>1, SnapStep
  <2>3. ASSUME NEW r \in Req, NEW v, NEW q, DeleteQos(r, q, v) PROVE SnapsOK'
    <3> DEFINE snap == table0 \cup {Learned(f) : f \in learned}
    <3>1. ASSUME NEW x \in snap, NEW y \in snap, SameEntry(x, y) PROVE x = y
      <4>1. \A f \in learned : Learned(f).match = f /\ f \in Fwd
        BY DEF Learned, TypeOK
      <4> QED
        BY <3>1, <4>1 DEF SameEntry, TableOK
    <3>2. pc' = [pc EXCEPT ![r] = Waiting(q, v, snap)] /\ Waiting(q, v, snap).snap = snap
      BY <2>3 DEF DeleteQos, Waiting
    <3> HIDE DEF snap
    <3> QED
      BY <3>1, <3>2, SnapStep
  <2>4. ASSUME NEW r \in Req, pc[r].op \in {"delete", "purge"}, NEW S,
               pc' = [pc EXCEPT ![r] = IF S = {} THEN Idle ELSE Purging(pc[r], S)]
        PROVE  SnapsOK'
    <3>1. Purging(pc[r], S).snap = pc[r].snap
      BY DEF Purging
    <3> QED
      BY <2>0, <2>4, <3>1, SnapStep DEF SnapsOK
  <2>5. ASSUME NEW r \in Req, DeleteInTime(r) \/ DeleteTimeout(r) PROVE SnapsOK'
    <3>1. PICK S \in SUBSET pc[r].snap : DeleteFails(r, S) \/ DeleteFlows(r, S)
      BY <2>5, DeleteStep
    <3>2. CASE DeleteFails(r, S)
      BY <2>0, <3>2, SnapStep DEF DeleteFails
    <3>3. CASE DeleteFlows(r, S)
      BY <2>4, <2>5, <3>3, DeleteStep DEF DeleteFlows, TypeOK
    <3> QED
      BY <3>1, <3>2, <3>3
  <2>6. ASSUME NEW r \in Req, DeleteSend(r) PROVE SnapsOK'
    <3>1. PICK x \in pc[r].todo :
            pc' = [pc EXCEPT ![r] = IF @.todo = {x} THEN Idle ELSE Purging(@, @.todo \ {x})]
      BY <2>6 DEF DeleteSend
    <3>2. pc' = [pc EXCEPT ![r] = IF pc[r].todo \ {x} = {} THEN Idle
                                 ELSE Purging(pc[r], pc[r].todo \ {x})]
      BY <3>1 DEF TypeOK
    <3> QED
      BY <2>4, <2>6, <3>2 DEF DeleteSend
  <2>7. ASSUME RegistOfs PROVE SnapsOK'
    BY <2>0, <2>7 DEF RegistOfs, SnapsOK
  <2>8. CASE UNCHANGED pc
    BY <2>8 DEF SnapsOK, SameEntry
  <2> QED
    BY <2>1, <2>2, <2>3, <2>5, <2>6, <2>7, <2>8 DEF Next, vars, SetQosInvalid, Learn
<1> QED
  BY <1>1, <1>2, TypeCorrect, TableInvariant, PTL DEF Spec

\* A flow that a DELETE has seen and now hits is the one it aimed at.
THEOREM OthersSpared == Spec => DeleteSparesOthers
<1>1. ASSUME TypeOK, PurgesOK, SnapsOK, NEW r \in Req, DeleteSend(r),
             \A x \in pc[r].todo : Mod[x.match] = x.match,
             NEW y \in table0 \ table0', y \in pc[r].snap
      PROVE  y \in Selected(pc[r].snap, pc[r].qos, pc[r].vlan)
  <2>1. PICK x \in pc[r].todo : table0' = {z \in table0 : ~Hit(x, z)}
    BY <1>1 DEF DeleteSend
  <2>2. x \in Rule /\ x \in Selected(pc[r].snap, pc[r].qos, pc[r].vlan)
    BY <1>1, OpKinds DEF DeleteSend, TypeOK, PurgesOK
  <2>3. SameEntry(x, y)
    BY <1>1, <2>1, <2>2, HitMeans DEF SameEntry
  <2>4. x = y
    BY <1>1, <2>2, <2>3 DEF DeleteSend, SnapsOK, Selected, Counted
  <2> QED
    BY <2>2, <2>4
<1>2. TypeOK /\ PurgesOK /\ SnapsOK /\ [Next]_vars =>
        [\A r \in Req : DeleteSend(r) /\ (\A x \in pc[r].todo : Mod[x.match] = x.match) =>
           \A y \in table0 \ table0' :
             y \in pc[r].snap => y \in Selected(pc[r].snap, pc[r].qos, pc[r].vlan)]_vars
  BY <1>1
<1> QED
  BY <1>2, TodoInvariant, SnapsInvariant, PTL DEF Spec, DeleteSparesOthers
=============================================================================
