----------------------------- MODULE OFChannel -----------------------------
(***************************************************************************)
(* One Datapath of controller.py with its greenlets:                       *)
(*   Recv   _recv_loop, running the handlers of OFPHandler (serve's own    *)
(*          greenlet, which at the end kills the other two and closes)     *)
(*   the send loop _send_loop (spc, msg)                                   *)
(*   Echo   _echo_request_loop                                             *)
(*   Ext    dpset, which closes a Datapath it replaces                     *)
(*   App    event loops and REST greenlets that call send_msg              *)
(*                                                                         *)
(* A step is what a greenlet does between two places where it may lose     *)
(* control: acquiring _send_q_sem, posting EventOFPStateChange into a full *)
(* observer queue, waiting in send_q.get, sendall, recv or sleep.  Both    *)
(* semaphores serve waiters in order (eventlet 0.31.1).                    *)
(* EventOFPStateChange is observed in MAIN and DEAD, as dpset does.        *)
(***************************************************************************)
EXTENDS Naturals, Sequences, SequencesExt

CONSTANTS
  App,          \* greenlets of applications that hold the Datapath
  Recv, Echo, Ext,
  Ctl, EchoReq, Data, HelloError,   \* what is sent, by kind
  SMax,         \* send_q.maxsize (16 in the code)
  EchoMax       \* maximum_unreplied_echo_requests (0: no echo requests)

Thread == App \cup {Recv, Echo, Ext}
Msg == {Ctl, EchoReq, Data, HelloError}

ASSUME ThreadAssumption ==
  /\ Recv # Echo /\ Recv # Ext /\ Echo # Ext /\ App \cap {Recv, Echo, Ext} = {}
ASSUME KindAssumption ==
  HelloError \notin {Ctl, EchoReq, Data}
ASSUME MaxAssumption == SMax \in Nat \ {0} /\ EchoMax \in Nat

VARIABLES
  state,     \* Datapath.state
  up,        \* send_q is not None
  sendq,     \* send_q
  sem,       \* counter of _send_q_sem
  waiters,   \* greenlets waiting for _send_q_sem
  want,      \* the message each greenlet is sending
  pc,        \* "run", "sem" (in send), "post" (in set_state), "kill", "ended"
  spc, msg,  \* the send loop: "get", "send" (with msg), "ended"
  wrshut,    \* the socket is shut for writing
  unreplied, \* len(unreplied_echo_requests)
  posting,   \* state changes waiting for a slot of the observer's queue
  posted     \* state changes in the observer's queue

vars == <<state, up, sendq, sem, waiters, want, pc, spc, msg, wrshut,
          unreplied, posting, posted>>
sending == <<up, sendq, sem, waiters, want>>
events  == <<posting, posted>>

\* serve() has queued the hello message and spawned the loops.
Init ==
  /\ state = "handshake"
  /\ up = TRUE /\ sendq = <<Ctl>> /\ sem = SMax - 1 /\ waiters = <<>>
  /\ want = [t \in Thread |-> Ctl]
  /\ pc = [t \in Thread |-> IF t = Echo /\ EchoMax = 0 THEN "ended" ELSE "run"]
  /\ spc = "get" /\ msg = Ctl
  /\ wrshut = FALSE
  /\ unreplied = 0
  /\ posting = <<>> /\ posted = <<>>

-----------------------------------------------------------------------------
(* Datapath.send and Datapath.set_state.                                   *)

\* Faulty variant of Enqueue: a discarded message keeps its slot.
Enqueue_LeaksSlot(m) ==
  IF up
  THEN sendq' = Append(sendq, m) /\ sem' = sem - 1
  ELSE sem' = sem - 1 /\ UNCHANGED sendq

\* With the semaphore held: queue the message, or release and discard it.
Enqueue(m) ==
  IF up
  THEN sendq' = Append(sendq, m) /\ sem' = sem - 1
  ELSE UNCHANGED <<sendq, sem>>

Send(t, m) ==
  /\ UNCHANGED up
  /\ IF sem > 0 /\ waiters = <<>>
     THEN Enqueue(m) /\ UNCHANGED <<waiters, want, pc>>
     ELSE /\ waiters' = Append(waiters, t)
          /\ want' = [want EXCEPT ![t] = m]
          /\ pc' = [pc EXCEPT ![t] = "sem"]
          /\ UNCHANGED <<sendq, sem>>

\* The first waiter gets the semaphore and finishes its send.
Granted ==
  /\ waiters # <<>> /\ sem > 0
  /\ waiters' = Tail(waiters)
  /\ pc' = [pc EXCEPT ![Head(waiters)] = "run"]
  /\ Enqueue(want[Head(waiters)])
  /\ UNCHANGED <<state, up, want, spc, msg, wrshut, unreplied, events>>

\* What a greenlet is after its post: close() ends Echo, Ext and Recv's serve.
AfterPost(t, s) == IF s = "main" THEN "run" ELSE "ended"

\* set_state(s) of a changed state, then for DEAD close()'s _close_write: the
\* post returns at once, or the greenlet waits for a slot.
SetState(t, s) ==
  /\ state' = s
  /\ \/ /\ posting = <<>>
        /\ posted' = Append(posted, s)
        /\ pc' = [pc EXCEPT ![t] = AfterPost(t, s)]
        /\ wrshut' = (wrshut \/ s = "dead")
        /\ UNCHANGED posting
     \/ /\ posting' = Append(posting, [by |-> t, to |-> s])
        /\ pc' = [pc EXCEPT ![t] = "post"]
        /\ UNCHANGED <<posted, wrshut>>

\* The observer has taken an event: the first waiting post goes in.
SlotFreed ==
  /\ posting # <<>>
  /\ LET p == Head(posting) IN
       /\ posting' = Tail(posting)
       /\ posted' = Append(posted, p.to)
       /\ pc' = [pc EXCEPT ![p.by] = AfterPost(p.by, p.to)]
       /\ wrshut' = (wrshut \/ p.to = "dead")
  /\ UNCHANGED <<state, sending, spc, msg, unreplied>>

\* Faulty variant of CloseBy: set_state without its test of the current state.
CloseBy_Always(t) == SetState(t, "dead")

\* close(): nothing is posted when the state is DEAD already.
CloseBy(t) ==
  IF state = "dead"
  THEN /\ pc' = [pc EXCEPT ![t] = "ended"]
       /\ wrshut' = TRUE
       /\ UNCHANGED <<state, events>>
  ELSE SetState(t, "dead")

-----------------------------------------------------------------------------
(* The receive loop and the handlers it runs.                              *)

Receiving == pc[Recv] = "run"

\* hello_handler, versions agreed: the state first, the request after it.
HelloHandler ==
  /\ Receiving /\ state = "handshake"
  /\ state' = "config"
  /\ Send(Recv, Ctl)
  /\ UNCHANGED <<spc, msg, wrshut, unreplied, events>>

\* hello_handler, no version in common: _hello_failed.
HelloFailed ==
  /\ Receiving /\ state = "handshake"
  /\ Send(Recv, HelloError)
  /\ UNCHANGED <<state, spc, msg, wrshut, unreplied, events>>

\* switch_features_handler (OpenFlow 1.3) asks for the ports.
SwitchFeaturesHandler ==
  /\ Receiving /\ state = "config"
  /\ Send(Recv, Ctl)
  /\ UNCHANGED <<state, spc, msg, wrshut, unreplied, events>>

\* Faulty variant of MultipartReplyHandler: the handler is chosen by the state
\* in which the event was posted.
MultipartReplyHandler_StaleState ==
  /\ Receiving /\ state \in {"config", "dead"}
  /\ SetState(Recv, "main")
  /\ UNCHANGED <<sending, spc, msg, unreplied>>

\* multipart_reply_handler on the last part: the connection is in MAIN.
MultipartReplyHandler ==
  /\ Receiving /\ state = "config"
  /\ SetState(Recv, "main")
  /\ UNCHANGED <<sending, spc, msg, unreplied>>

EchoRequestHandler ==
  /\ Receiving /\ state # "dead"
  /\ Send(Recv, EchoReq)
  /\ UNCHANGED <<state, spc, msg, wrshut, unreplied, events>>

\* acknowledge_echo_reply of an outstanding xid (an unknown one is ignored).
EchoReplyHandler ==
  /\ Receiving /\ state # "dead" /\ unreplied > 0
  /\ unreplied' = unreplied - 1
  /\ UNCHANGED <<state, sending, pc, spc, msg, wrshut, events>>

\* Faulty variant of EndSendLoop: a slot is released for the message in hand.
EndSendLoop_ReleasesMore ==
  /\ up' = FALSE
  /\ sem' = sem + Len(sendq) + (IF spc = "send" THEN 1 ELSE 0)
  /\ sendq' = <<>>
  /\ spc' = "ended"
  /\ wrshut' = TRUE

\* Faulty variant of EndSendLoop: the queue is dropped with its slots.
EndSendLoop_NoRelease ==
  /\ up' = FALSE
  /\ sendq' = <<>>
  /\ spc' = "ended"
  /\ wrshut' = TRUE
  /\ UNCHANGED sem

\* The finally part of _send_loop: no new messages, every slot given back.
EndSendLoop ==
  /\ up' = FALSE
  /\ sem' = sem + Len(sendq)
  /\ sendq' = <<>>
  /\ spc' = "ended"
  /\ wrshut' = TRUE

\* Faulty variant of KillEcho: the dead greenlet keeps its place in line.
KillEcho_StaysInLine ==
  /\ IF pc[Echo] = "post"
     THEN \E i \in DOMAIN posting :
            posting[i].by = Echo /\ posting' = RemoveAt(posting, i)
     ELSE UNCHANGED posting
  /\ pc' = [pc EXCEPT ![Echo] = "ended", ![Recv] = "kill"]
  /\ UNCHANGED waiters

\* Killing Echo takes it out of whatever it waits for.
KillEcho ==
  /\ IF pc[Echo] = "sem"
     THEN \E i \in DOMAIN waiters :
            waiters[i] = Echo /\ waiters' = RemoveAt(waiters, i)
     ELSE UNCHANGED waiters
  /\ IF pc[Echo] = "post"
     THEN \E i \in DOMAIN posting :
            posting[i].by = Echo /\ posting' = RemoveAt(posting, i)
     ELSE UNCHANGED posting
  /\ pc' = [pc EXCEPT ![Echo] = "ended", ![Recv] = "kill"]

\* Faulty variant of RecvLoopEnds: the send loop is not killed.
RecvLoopEnds_LeavesSender ==
  /\ Receiving
  /\ KillEcho
  /\ UNCHANGED <<state, up, sem, sendq, spc, wrshut, want, msg, unreplied, posted>>

\* The receive loop ends: peer gone, error, or state found DEAD.  serve kills
\* the send loop, whose finally part runs if it has not, and the echo loop.
RecvLoopEnds ==
  /\ Receiving
  /\ KillEcho
  /\ IF spc = "ended" THEN UNCHANGED <<up, sem, sendq, spc, wrshut>> ELSE EndSendLoop
  /\ UNCHANGED <<state, want, msg, unreplied, posted>>

\* contextlib.closing calls close().
ServeCloses ==
  /\ pc[Recv] = "kill"
  /\ CloseBy(Recv)
  /\ UNCHANGED <<sending, spc, msg, unreplied>>

-----------------------------------------------------------------------------
(* The send loop.                                                          *)

Get ==
  /\ spc = "get" /\ sendq # <<>>
  /\ msg' = Head(sendq)
  /\ sendq' = Tail(sendq)
  /\ sem' = sem + 1
  /\ spc' = "send"
  /\ UNCHANGED <<state, up, waiters, want, pc, wrshut, unreplied, events>>

\* sendall is done and the loop goes on.
Sent ==
  /\ spc = "send" /\ ~wrshut
  /\ msg # HelloError /\ state # "dead"
  /\ spc' = "get"
  /\ UNCHANGED <<state, sending, pc, msg, wrshut, unreplied, events>>

\* Faulty variant of SentLast: close_socket is ignored.
SentLast_GoesOn ==
  /\ spc = "send" /\ ~wrshut
  /\ msg = HelloError \/ state = "dead"
  /\ spc' = "get"
  /\ UNCHANGED <<state, sending, pc, msg, wrshut, unreplied, events>>

\* sendall is done and it was the last one.
SentLast ==
  /\ spc = "send" /\ ~wrshut
  /\ msg = HelloError \/ state = "dead"
  /\ EndSendLoop
  /\ UNCHANGED <<state, waiters, want, pc, msg, unreplied, events>>

\* sendall times out or fails.
SendFails ==
  /\ spc = "send"
  /\ EndSendLoop
  /\ UNCHANGED <<state, waiters, want, pc, msg, unreplied, events>>

-----------------------------------------------------------------------------
(* The echo loop, the applications and dpset.                              *)

\* One more request: send_q is there and not too many are unanswered.
EchoRequest ==
  /\ pc[Echo] = "run"
  /\ up /\ unreplied <= EchoMax
  /\ unreplied' = unreplied + 1
  /\ Send(Echo, EchoReq)
  /\ UNCHANGED <<state, spc, msg, wrshut, events>>

\* Faulty variant of EchoCloses: the loop just ends.
EchoCloses_Quietly ==
  /\ pc[Echo] = "run"
  /\ ~(up /\ unreplied <= EchoMax)
  /\ pc' = [pc EXCEPT ![Echo] = "ended"]
  /\ UNCHANGED <<state, sending, spc, msg, wrshut, unreplied, events>>

\* Otherwise the loop ends in close().
EchoCloses ==
  /\ pc[Echo] = "run"
  /\ ~(up /\ unreplied <= EchoMax)
  /\ CloseBy(Echo)
  /\ UNCHANGED <<sending, spc, msg, unreplied>>

\* Applications learn of the Datapath with the features event of CONFIG (the
\* learning switch answers it with a flow mod) or later, and keep the reference.
\* That the event needs a features reply first is left out.
AppSends(a) ==
  /\ pc[a] = "run"
  /\ state # "handshake"
  /\ Send(a, Data)
  /\ UNCHANGED <<state, spc, msg, wrshut, unreplied, events>>

\* dpset replaces a registered Datapath by a newer one (dpset.py:217).
Replaced ==
  /\ pc[Ext] = "run" /\ "main" \in ToSet(posted)
  /\ CloseBy(Ext)
  /\ UNCHANGED <<sending, spc, msg, unreplied>>

-----------------------------------------------------------------------------
Handlers ==
  \/ HelloHandler \/ HelloFailed
  \/ SwitchFeaturesHandler \/ MultipartReplyHandler
  \/ EchoRequestHandler \/ EchoReplyHandler

SendLoop == Get \/ Sent \/ SentLast \/ SendFails

Next ==
  \/ Handlers \/ RecvLoopEnds \/ ServeCloses
  \/ SendLoop \/ Granted \/ SlotFreed
  \/ EchoRequest \/ EchoCloses \/ Replaced
  \/ \E a \in App : AppSends(a)

Spec == Init /\ [][Next]_vars

\* sendall ends within socket_timeout and the loops run when they can; waiters
\* are woken by each release; a DEAD state ends the receive loop at the next
\* socket timeout; the echo timer expires.  Observers need not take their events:
\* dpset may stop for good (dpset_stuck).
Fairness ==
  /\ WF_vars(SendLoop) /\ WF_vars(Granted)
  /\ WF_vars(RecvLoopEnds /\ state = "dead") /\ WF_vars(ServeCloses)
  /\ WF_vars(EchoRequest \/ EchoCloses)

FairSpec == Spec /\ Fairness

-----------------------------------------------------------------------------
(* Properties.                                                             *)

\* Every variable stays within its type.
TypeOK ==
  /\ state \in {"handshake", "config", "main", "dead"}
  /\ up \in BOOLEAN /\ wrshut \in BOOLEAN
  /\ sendq \in Seq(Msg) /\ sem \in 0..SMax
  /\ waiters \in Seq(Thread)
  /\ want \in [Thread -> Msg]
  /\ pc \in [Thread -> {"run", "sem", "post", "kill", "ended"}]
  /\ spc \in {"get", "send", "ended"} /\ msg \in Msg
  /\ unreplied \in 0..EchoMax + 1
  /\ posting \in Seq([by : Thread, to : {"main", "dead"}])
  /\ posted \in Seq({"main", "dead"})

\* The free slots and the queued messages always add up to the size of send_q,
\* through discarded sends, the drain and kills at any point: releasing
\* _send_q_sem never raises and no slot is lost.
SlotsBalance == sem + Len(sendq) = SMax /\ (~up => sendq = <<>>)

\* The greenlets suspended in send or in set_state are exactly those in line
\* for the semaphore or for a slot, once each: a killed one leaves no trace.
LinesMatch ==
  /\ {t \in Thread : pc[t] = "sem"} = ToSet(waiters)
  /\ {t \in Thread : pc[t] = "post"} = {posting[i].by : i \in 1..Len(posting)}
  /\ IsInjective(waiters)
  /\ \A i, j \in 1..Len(posting) : posting[i].by = posting[j].by => i = j

\* Observers see MAIN at most once, DEAD at most once, and DEAD last, whoever
\* closes the Datapath and whichever post is waiting.
EventsInOrder ==
  LET line == posted \o [i \in 1..Len(posting) |-> posting[i].to] IN
    line \in {<<>>, <<"main">>, <<"dead">>, <<"main", "dead">>}

\* DEAD is final, and the phases before it only go forward: a handler that was
\* suspended never overwrites a close by another greenlet.
Phase == [handshake |-> 0, config |-> 1, main |-> 2, dead |-> 3]
StateGoesForward == [][Phase[state'] >= Phase[state]]_vars

\* send_q with the message in the send loop's hands is a FIFO channel.
Channel == INSTANCE FifoChannel WITH
  Closing <- {HelloError}, Hello <- Ctl, Cap <- SMax + 1,
  line <- (IF spc = "send" THEN <<msg>> ELSE <<>>) \o sendq,
  open <- up
RefinesFifoChannel == Channel!FSpec

\* Comment of _send_loop (controller.py:411-412): the drain releases all
\* threads waiting to acquire the semaphore.  So nobody waits in send for ever.
SendersReleased == \A t \in Thread : (pc[t] = "sem") ~> (pc[t] # "sem")

\* The observers' queue lets all posts in, again and again.
ObserversServe == []<>(posting = <<>>)

\* A Datapath in DEAD ends: loops gone, channel down, serve returned; unless its
\* observers stop taking events, for then its last post may wait for ever.
DeadEndsAll ==
  ObserversServe => ((state = "dead") ~> (pc[Recv] = "ended" /\ pc[Echo] = "ended" /\ ~up))

\* maximum_unreplied_echo_requests (controller.py:86-89): with more than that
\* many requests unanswered the Datapath is disconnected, or answers come.
SilentSwitchIsClosed ==
  (EchoMax > 0 /\ unreplied > EchoMax) ~> (unreplied <= EchoMax \/ state = "dead")

\* Documentation of EventOFPStateChange (ofp_event.py:112-113): an instance is sent to
\* observers after changing the negotiation phase.  So a Datapath that is gone
\* was announced as DEAD.  It does not hold: serve may kill the echo loop
\* inside the post of its close(), and close() is then not done again.
DeadIsAnnounced ==
  pc[Recv] = "ended" =>
    "dead" \in ToSet(posted) \cup {posting[i].to : i \in 1..Len(posting)}
=============================================================================
