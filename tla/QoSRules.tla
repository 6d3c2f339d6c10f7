------------------------------ MODULE QoSRules ------------------------------
(***************************************************************************)
(* The QoS rules of one switch (class QoS of rest_qos.py): the POST and    *)
(* DELETE requests of /qos/rules, the counters that give rules their ids,  *)
(* the two flow tables of the switch, and the QoS object made anew at each *)
(* connection while the switch keeps its tables.                           *)
(*                                                                         *)
(* Each request runs in a greenlet of the WSGI server.  A flow mod and a   *)
(* statistics request travel in the same FIFO channel (OFChannel), so the  *)
(* switch is modelled as acting when the controller sends, and the reply   *)
(* of a statistics request shows the tables as they were when it was sent. *)
(* The greenlet of a DELETE waits for that reply between two steps; both   *)
(* may wait for a slot of send_q before each flow mod.                     *)
(*                                                                         *)
(* A match is a member of Match plus the VLAN id the request adds to it;   *)
(* it names a dl_type (Match.to_openflow raises without one), so it is     *)
(* neither empty nor one of the learning switch's.                         *)
(* In statistics the VLAN id comes back as text (match_vid_to_str), which  *)
(* the code compares with the number: TextOf gives that text.              *)
(* Mod[m] is m without the fields whose value is 0 (to_mod_openflow).      *)
(***************************************************************************)
EXTENDS Naturals

CONSTANTS
  Req,       \* greenlets serving requests
  Match,     \* matches a request can name, without dl_vlan
  Fwd,       \* matches of the learning switch
  Mod,       \* what to_mod_openflow leaves of each of them
  AnyMatch,  \* the empty match, that of the default flow
  Vlan,      \* VLAN ids
  NoVlan,    \* VLANID_NONE
  TextOf,    \* the text of a VLAN id
  All,       \* REST_ALL
  Prio,      \* priorities requests ask for
  Asked,     \* qos ids that DELETE requests name
  MaxId      \* bound on the ids given per VLAN (2^32 - 1 in the code)

Vid == Vlan \cup {NoVlan}
Text == {TextOf[v] : v \in Vlan}

ASSUME VlanAssumption ==
  /\ NoVlan \notin Vlan /\ All \notin Vid
  /\ DOMAIN TextOf = Vlan /\ Text \cap (Vid \cup {All}) = {}
ASSUME MatchAssumption ==
  /\ Match \cap Fwd = {} /\ AnyMatch \notin Match \cup Fwd
  /\ DOMAIN Mod = Match \cup Fwd \cup {AnyMatch} /\ Mod[AnyMatch] = AnyMatch
  /\ \A m \in Match : Mod[m] \in Match /\ Mod[Mod[m]] = Mod[m]
  /\ \A f \in Fwd : Mod[f] \in Fwd
ASSUME NumberAssumption ==
  Prio \subseteq Nat /\ Asked \subseteq Nat /\ MaxId \in Nat \ {0} /\ All \notin Asked

DEFAULT_FLOW_PRIORITY == 0

VARIABLES
  vlan_list, \* the VLAN ids that have a counter (the keys of QoS.vlan_list)
  counter,   \* its value for each of them; 0 for the others
  table0,    \* QOS_TABLE_ID: the rules and the default flow
  learned,   \* matches of the flows the learning switch put into table 1
  pc         \* what each request greenlet is doing

vars == <<vlan_list, counter, table0, learned, pc>>

\* own marks, for the properties, what the present QoS object has sent.
Rule == [vid : Vid, match : Match \cup Fwd \cup {AnyMatch}, prio : Prio \cup {0, 1},
         id : 0..MaxId, own : BOOLEAN]
DefaultFlow == [vid |-> NoVlan, match |-> AnyMatch, prio |-> DEFAULT_FLOW_PRIORITY,
                id |-> 0, own |-> TRUE]

\* simple_switch_13 adds flows of priority 1 with no VLAN and cookie 0.
Learned(f) == [vid |-> NoVlan, match |-> f, prio |-> 1, id |-> 0, own |-> FALSE]

\* The rule that a POST adds for VLAN w.
NewRule(w, m, p, n) == [vid |-> w, match |-> m, prio |-> p, id |-> n, own |-> TRUE]

Idle == [op |-> "idle"]
Sending(S) == [op |-> "set", todo |-> S]
Waiting(q, v, S) == [op |-> "delete", qos |-> q, vlan |-> v, snap |-> S]
Purging(o, S) ==
  [op |-> "purge", qos |-> o.qos, vlan |-> o.vlan, snap |-> o.snap, todo |-> S]

\* What a request greenlet can be doing.
Op == {Idle}
        \cup [op : {"set"}, todo : SUBSET Rule]
        \cup [op : {"delete"}, qos : Asked \cup {All}, vlan : Vid \cup {All},
              snap : SUBSET Rule]
        \cup [op : {"purge"}, qos : Asked \cup {All}, vlan : Vid \cup {All},
              snap : SUBSET Rule, todo : SUBSET Rule]

\* Two flows with the same match and priority are one entry of a table.
SameEntry(x, y) == x.vid = y.vid /\ x.match = y.match /\ x.prio = y.prio

Init ==
  /\ vlan_list = {NoVlan}
  /\ counter = [v \in Vid |-> 0]
  /\ table0 = {DefaultFlow}
  /\ learned = {}
  /\ pc = [r \in Req |-> Idle]

\* regist_ofs at a new connection of the switch, or of a controller started
\* again: a new QoS object and the default flow, to a switch that kept its
\* tables.  A request under way has ended, or holds the old object, whose
\* dead Datapath discards what it sends.  Flow mods that a connection loses on
\* its way down are those of a greenlet that got no further before this step.
RegistOfs ==
  /\ vlan_list' = {NoVlan}
  /\ counter' = [v \in Vid |-> 0]
  /\ table0' = {[y EXCEPT !.own = FALSE] : y \in {z \in table0 : ~SameEntry(z, DefaultFlow)}}
                  \cup {DefaultFlow}
  /\ pc' = [r \in Req |-> Idle]
  /\ UNCHANGED learned

-----------------------------------------------------------------------------
(* POST /qos/rules: set_qos.                                               *)

\* The VLAN ids _get_cookie goes through.
Chosen(v) == IF v = All THEN vlan_list ELSE {v}

\* Faulty variant of Bump: the ids of the rules of no VLAN restart.
Bump_Restarts(V) ==
  /\ \A w \in V : counter[w] < MaxId
  /\ vlan_list' = vlan_list \cup V
  /\ counter' = [w \in Vid |-> IF w \in V THEN 1 ELSE counter[w]]

\* _get_cookie gives the next id of every chosen VLAN.
Bump(V) ==
  /\ \A w \in V : counter[w] < MaxId
  /\ vlan_list' = vlan_list \cup V
  /\ counter' = [w \in Vid |-> IF w \in V THEN counter[w] + 1 ELSE counter[w]]

SetQos(r, v, m, p) ==
  /\ pc[r] = Idle
  /\ Bump(Chosen(v))
  /\ pc' = [pc EXCEPT ![r] = Sending({NewRule(w, m, p, counter'[w]) : w \in Chosen(v)})]
  /\ UNCHANGED <<table0, learned>>

\* The rule is invalid (priority, match or action): the ids are spent.
SetQosInvalid(r, v) ==
  /\ pc[r] = Idle
  /\ Bump(Chosen(v))
  /\ UNCHANGED <<table0, learned, pc>>

\* mod_flow_entry OFPFC_ADD replaces the entry of the same match and priority.
AddFlow(x) == table0' = {y \in table0 : ~SameEntry(x, y)} \cup {x}

SetQosSend(r) ==
  /\ pc[r].op = "set"
  /\ \E x \in pc[r].todo :
       /\ AddFlow(x)
       /\ pc' = [pc EXCEPT ![r] = IF @.todo = {x} THEN Idle ELSE Sending(@.todo \ {x})]
  /\ UNCHANGED <<vlan_list, counter, learned>>

-----------------------------------------------------------------------------
(* DELETE /qos/rules: delete_qos.                                          *)

\* get_flow_stats of all tables: the request is sent and the greenlet waits.
DeleteQos(r, q, v) ==
  /\ pc[r] = Idle
  /\ pc' = [pc EXCEPT ![r] = Waiting(q, v, table0 \cup {Learned(f) : f \in learned})]
  /\ UNCHANGED <<vlan_list, counter, table0, learned>>

\* dl_vlan of a flow in statistics.
StatsVlan(x) == IF x.vid = NoVlan THEN NoVlan ELSE TextOf[x.vid]

\* Faulty variant of Counted: the default flow is not left out.
Counted_Everything(S) == S

\* The flows of S that delete_qos looks at.
Counted(S) == {x \in S : x.prio # DEFAULT_FLOW_PRIORITY}

\* The flows of S that match the request.
Selected(S, q, v) ==
  {x \in Counted(S) : (q = All \/ x.id = q) /\ (v = All \/ v = StatsVlan(x))}

\* Faulty variant of Stale: the counter of no VLAN is dropped like the others.
Stale_NoneToo(S, q, v) ==
  {w \in vlan_list :
     w \notin {StatsVlan(x) : x \in Counted(S) \ Selected(S, q, v)}}

\* VLAN ids whose counter _update_vlan_list drops: those of vlan_list (numbers)
\* that are not among the VLAN ids (text) of the flows that remain.
Stale(S, q, v) ==
  {w \in vlan_list \ {NoVlan} :
     w \notin {StatsVlan(x) : x \in Counted(S) \ Selected(S, q, v)}}

\* Faulty variant of DeleteFails: the exception comes before the deletion.
DeleteFails_Keeps(r, S) ==
  /\ Stale(S, pc[r].qos, pc[r].vlan) # {}
  /\ pc' = [pc EXCEPT ![r] = Idle]
  /\ UNCHANGED <<vlan_list, counter, table0, learned>>

\* The dictionary changes under the loop over it, so the first deletion ends
\* the request with RuntimeError, before any flow is deleted.
DeleteFails(r, S) ==
  \E w \in Stale(S, pc[r].qos, pc[r].vlan) :
    /\ vlan_list' = vlan_list \ {w}
    /\ counter' = [counter EXCEPT ![w] = 0]
    /\ pc' = [pc EXCEPT ![r] = Idle]
    /\ UNCHANGED <<table0, learned>>

\* The flows to delete are known, whichever table they were in.
DeleteFlows(r, S) ==
  /\ Stale(S, pc[r].qos, pc[r].vlan) = {}
  /\ pc' = [pc EXCEPT ![r] = IF Selected(S, @.qos, @.vlan) = {} THEN Idle
                             ELSE Purging(@, Selected(S, @.qos, @.vlan))]
  /\ UNCHANGED <<vlan_list, counter, table0, learned>>

\* Faulty variant of Hit: OFPFC_DELETE, which does not look at the priority.
Hit_AnyPriority(x, y) == x.vid = y.vid /\ y.match = Mod[x.match]

\* The flow as its deletion names it.
to_mod_openflow(x) == [x EXCEPT !.match = Mod[@]]

\* OFPFC_DELETE_STRICT for x reaches y: by match and priority.
Hit(x, y) == SameEntry(to_mod_openflow(x), y)

\* One deletion, in table 0.
DeleteSend(r) ==
  /\ pc[r].op = "purge"
  /\ \E x \in pc[r].todo :
       /\ table0' = {y \in table0 : ~Hit(x, y)}
       /\ pc' = [pc EXCEPT ![r] = IF @.todo = {x} THEN Idle ELSE Purging(@, @.todo \ {x})]
  /\ UNCHANGED <<vlan_list, counter, learned>>

\* The reply came in time.
DeleteInTime(r) ==
  /\ pc[r].op = "delete"
  /\ DeleteFails(r, pc[r].snap) \/ DeleteFlows(r, pc[r].snap)

\* send_stats_request gave up: some parts of the reply, or none, have come.
DeleteTimeout(r) ==
  /\ pc[r].op = "delete"
  /\ \E S \in SUBSET pc[r].snap :
       S # pc[r].snap /\ (DeleteFails(r, S) \/ DeleteFlows(r, S))

-----------------------------------------------------------------------------
(* The learning switch puts a flow into table 1 (simple_switch_13).        *)
Learn(f) ==
  /\ learned' = learned \cup {f}
  /\ UNCHANGED <<vlan_list, counter, table0, pc>>

Next ==
  \/ \E r \in Req, v \in Vid \cup {All} :
       \/ \E m \in Match, p \in Prio : SetQos(r, v, m, p)
       \/ SetQosInvalid(r, v)
       \/ \E q \in Asked \cup {All} : DeleteQos(r, q, v)
  \/ \E r \in Req : SetQosSend(r) \/ DeleteInTime(r) \/ DeleteTimeout(r) \/ DeleteSend(r)
  \/ RegistOfs
  \/ \E f \in Fwd : Learn(f)

Spec == Init /\ [][Next]_vars

\* An operator who keeps asking to delete all rules, with replies that come in
\* time again and again; greenlets run when they can.
Fairness ==
  \A r \in Req :
    /\ WF_vars(SetQosSend(r))
    /\ WF_vars(DeleteSend(r))
    /\ SF_vars(DeleteQos(r, All, All))
    /\ SF_vars(DeleteInTime(r) /\ pc[r].qos = All /\ pc[r].vlan = All)
    /\ WF_vars(DeleteInTime(r))

FairSpec == Spec /\ Fairness

-----------------------------------------------------------------------------
(* Properties.                                                             *)

\* Every variable stays within its type, and a VLAN without a counter reads 0.
TypeOK ==
  /\ vlan_list \subseteq Vid /\ NoVlan \in vlan_list
  /\ counter \in [Vid -> 0..MaxId]
  /\ \A w \in Vid \ vlan_list : counter[w] = 0
  /\ table0 \subseteq Rule
  /\ learned \subseteq Fwd
  /\ pc \in [Req -> Op]

\* Rules in the table and rules on their way to it.
Pending == UNION {pc[r].todo : r \in {s \in Req : pc[s].op = "set"}}
Rules == (table0 \ {DefaultFlow}) \cup Pending

\* No two rules of no VLAN that the present QoS object has sent, or will send,
\* have the same qos id, whatever is posted, replaced, deleted from an old
\* snapshot, or refused in between.  Rules of an earlier connection do share
\* ids with them: the counters restart and the table is not cleared.
IdsAreUnique ==
  \A x, y \in {z \in Rules : z.own /\ z.vid = NoVlan} : x.id = y.id => x = y

\* Of the flows it has seen, a DELETE takes out only those it was asked for,
\* although it deletes by match and priority what a snapshot says, all or part
\* of it, that other requests have outdated since.  It may take out a rule posted
\* after it looked; and one with a field of value 0 makes it miss (see Mod).
DeleteSparesOthers ==
  [][\A r \in Req : DeleteSend(r) /\ (\A x \in pc[r].todo : Mod[x.match] = x.match) =>
       \A y \in table0 \ table0' :
         y \in pc[r].snap => y \in Selected(pc[r].snap, pc[r].qos, pc[r].vlan)]_vars

\* The flow that hands every packet to the forwarding table survives all
\* requests, the deletion of all rules included, and is there again after each
\* new connection: no DELETE cuts the network.
DefaultFlowStays == DefaultFlow \in table0

\* From some time on nothing is posted and the switch stays connected.
Settled == <>[][~RegistOfs /\ \A w \in Vid : counter'[w] <= counter[w]]_vars

\* Then asking to delete all rules again and again gets rid of them, of every
\* VLAN and of every earlier connection, although each request may end with
\* RuntimeError first; only rules of priority 0 stay, and those with a field of
\* value 0, which a deletion does not find.
RulesCanBeCleared ==
  Settled => <>[](\A x \in table0 \ {DefaultFlow} :
                    x.prio = DEFAULT_FLOW_PRIORITY \/ Mod[x.match] # x.match)

\* Documentation of DELETE /qos/{switch-id}/{vlan-id} (rest_qos.py:150-155):
\* it deletes QoS rules of a specific VLAN group.  It does not: the VLAN id of
\* the request is compared with text and never matches, so that a request that
\* has seen rules of the VLAN goes on to delete none.
VlanDeleteWorks ==
  [][\A r \in Req, v \in Vlan :
       pc[r].op = "delete" /\ DeleteFlows(r, pc[r].snap) /\ pc[r].qos = All /\ pc[r].vlan = v
         => \A x \in Counted(pc[r].snap) :
              x.vid = v => pc'[r].op = "purge" /\ x \in pc'[r].todo]_vars
=============================================================================
