-------------------------- MODULE OFChannel_proofs --------------------------
(***************************************************************************)
(* Theorems about OFChannel, for any size of send_q, any limit of echo     *)
(* requests and any number of applications.                                *)
(***************************************************************************)
EXTENDS OFChannel, SequenceTheorems, TLAPS

\* The channel is up exactly while its send loop lives.
UpMeansSending == up <=> spc # "ended"

IInv == TypeOK /\ SlotsBalance /\ UpMeansSending

-----------------------------------------------------------------------------
(* Lines of greenlets and messages.                                        *)

\* A line from which one place is taken is a line of the same kind.
LEMMA RemoveAtType ==
  ASSUME NEW S, NEW s \in Seq(S), NEW i \in DOMAIN s
  PROVE  RemoveAt(s, i) \in Seq(S)
<1>1. Len(s) \in Nat /\ DOMAIN s = 1..Len(s) /\ \A j \in 1..Len(s) : s[j] \in S
  BY LenProperties, ElementOfSeq
<1>2. i \in 1..Len(s)
  BY <1>1
<1>3. SubSeq(s, 1, i - 1) \in Seq(S)
  <2>1. i - 1 \in Int /\ \A j \in 1..i - 1 : s[j] \in S
    BY <1>1, <1>2
  <2> QED
    BY <2>1, SubSeqProperties
<1>4. SubSeq(s, i + 1, Len(s)) \in Seq(S)
  <2>1. i + 1 \in Int /\ Len(s) \in Int /\ \A j \in i + 1..Len(s) : s[j] \in S
    BY <1>1, <1>2
  <2> QED
    BY <2>1, SubSeqProperties
<1> QED
  BY <1>3, <1>4, ConcatProperties DEF RemoveAt

\* The first of a line, and the line behind it.
LEMMA TakeType ==
  ASSUME NEW S, NEW s \in Seq(S), s # <<>>
  PROVE  /\ Head(s) \in S /\ Tail(s) \in Seq(S)
         /\ Len(Tail(s)) = Len(s) - 1 /\ Len(s) \in Nat \ {0}
BY HeadTailProperties, EmptySeq

\* A line one longer.
LEMMA AppendType ==
  ASSUME NEW S, NEW s \in Seq(S), NEW x \in S
  PROVE  Append(s, x) \in Seq(S) /\ Len(Append(s, x)) = Len(s) + 1 /\ Len(s) \in Nat
BY AppendProperties, LenProperties

-----------------------------------------------------------------------------
(* Steps of Datapath.send: the part of the invariant about the channel.    *)

ChannelOK ==
  /\ up \in BOOLEAN /\ sendq \in Seq(Msg) /\ sem \in 0..SMax
  /\ SlotsBalance

\* Queueing or discarding a message takes a slot for what it queues.
LEMMA EnqueueOK ==
  ASSUME ChannelOK, NEW m \in Msg, sem > 0, Enqueue(m), UNCHANGED up
  PROVE  ChannelOK'
<1>1. CASE up
  <2>1. /\ sendq' \in Seq(Msg) /\ Len(sendq') = Len(sendq) + 1
        /\ Len(sendq) \in Nat /\ sem' = sem - 1
    BY <1>1, AppendType DEF ChannelOK, Enqueue
  <2> QED
    BY <1>1, <2>1, MaxAssumption DEF ChannelOK, SlotsBalance
<1>2. CASE ~up
  BY <1>2 DEF ChannelOK, SlotsBalance, Enqueue
<1> QED
  BY <1>1, <1>2

\* What send changes keeps its type.
LEMMA SendOK ==
  ASSUME TypeOK, SlotsBalance, NEW t \in Thread, NEW m \in Msg, Send(t, m)
  PROVE  /\ ChannelOK' /\ waiters' \in Seq(Thread) /\ want' \in [Thread -> Msg]
         /\ pc' \in [Thread -> {"run", "sem", "post", "kill", "ended"}]
         /\ up' = up
<1>1. CASE sem > 0 /\ waiters = <<>>
  BY <1>1, EnqueueOK DEF Send, TypeOK, ChannelOK
<1>2. CASE ~(sem > 0 /\ waiters = <<>>)
  <2>1. /\ waiters' = Append(waiters, t) /\ want' = [want EXCEPT ![t] = m]
        /\ pc' = [pc EXCEPT ![t] = "sem"] /\ UNCHANGED <<up, sendq, sem>>
    BY <1>2 DEF Send
  <2>2. waiters' \in Seq(Thread)
    BY <2>1, AppendType DEF TypeOK
  <2>3. ChannelOK'
    BY <2>1 DEF TypeOK, ChannelOK, SlotsBalance
  <2> QED
    BY <2>1, <2>2, <2>3 DEF TypeOK
<1> QED
  BY <1>1, <1>2

\* Draining send_q gives back exactly the slots it held.
LEMMA EndSendLoopOK ==
  ASSUME TypeOK, SlotsBalance, EndSendLoop
  PROVE  ChannelOK' /\ wrshut' \in BOOLEAN /\ spc' = "ended" /\ ~up' /\ sendq' = <<>>
<1>1. /\ up' = FALSE /\ sem' = sem + Len(sendq) /\ sendq' = <<>>
      /\ spc' = "ended" /\ wrshut' = TRUE
  BY DEF EndSendLoop
<1>2. sem' = SMax /\ sem' \in 0..SMax
  BY <1>1, MaxAssumption DEF SlotsBalance
<1>3. sendq' \in Seq(Msg) /\ Len(sendq') = 0
  BY <1>1, EmptySeq
<1>4. SlotsBalance'
  BY <1>1, <1>2, <1>3, MaxAssumption DEF SlotsBalance
<1> QED
  BY <1>1, <1>2, <1>3, <1>4 DEF ChannelOK

\* What set_state changes keeps its type.
LEMMA SetStateOK ==
  ASSUME TypeOK, NEW t \in Thread, NEW s \in {"main", "dead"}, SetState(t, s)
  PROVE  /\ state' = s /\ wrshut' \in BOOLEAN
         /\ pc' \in [Thread -> {"run", "sem", "post", "kill", "ended"}]
         /\ posting' \in Seq([by : Thread, to : {"main", "dead"}])
         /\ posted' \in Seq({"main", "dead"})
<1>1. CASE posted' = Append(posted, s) /\ UNCHANGED posting
           /\ pc' = [pc EXCEPT ![t] = AfterPost(t, s)]
           /\ wrshut' = (wrshut \/ s = "dead")
  <2>1. posted' \in Seq({"main", "dead"})
    BY <1>1, AppendType DEF TypeOK
  <2> QED
    BY <1>1, <2>1 DEF TypeOK, SetState, AfterPost
<1>2. CASE posting' = Append(posting, [by |-> t, to |-> s])
           /\ pc' = [pc EXCEPT ![t] = "post"] /\ UNCHANGED <<posted, wrshut>>
  <2>1. posting' \in Seq([by : Thread, to : {"main", "dead"}])
    <3>1. [by |-> t, to |-> s] \in [by : Thread, to : {"main", "dead"}]
      OBVIOUS
    <3> QED
      BY <1>2, <3>1, AppendType DEF TypeOK
  <2> QED
    BY <1>2, <2>1 DEF TypeOK, SetState
<1> QED
  BY <1>1, <1>2 DEF SetState

\* So does what close changes.
LEMMA CloseByOK ==
  ASSUME TypeOK, NEW t \in Thread, CloseBy(t)
  PROVE  /\ state' = "dead" /\ wrshut' \in BOOLEAN
         /\ pc' \in [Thread -> {"run", "sem", "post", "kill", "ended"}]
         /\ posting' \in Seq([by : Thread, to : {"main", "dead"}])
         /\ posted' \in Seq({"main", "dead"})
<1>1. CASE state = "dead"
  BY <1>1 DEF TypeOK, CloseBy, events
<1>2. CASE state # "dead"
  <2>1. SetState(t, "dead")
    BY <1>2 DEF CloseBy
  <2> QED
    BY <2>1, SetStateOK
<1> QED
  BY <1>1, <1>2

\* Killing the echo loop leaves lines behind.
LEMMA KillEchoOK ==
  ASSUME TypeOK, KillEcho
  PROVE  /\ waiters' \in Seq(Thread)
         /\ posting' \in Seq([by : Thread, to : {"main", "dead"}])
         /\ pc' \in [Thread -> {"run", "sem", "post", "kill", "ended"}]
<1>1. waiters' \in Seq(Thread)
  <2>1. waiters' = waiters \/ \E i \in DOMAIN waiters : waiters' = RemoveAt(waiters, i)
    BY DEF KillEcho
  <2> QED
    BY <2>1, RemoveAtType DEF TypeOK
<1>2. posting' \in Seq([by : Thread, to : {"main", "dead"}])
  <2>1. posting' = posting \/ \E i \in DOMAIN posting : posting' = RemoveAt(posting, i)
    BY DEF KillEcho
  <2> QED
    BY <2>1, RemoveAtType DEF TypeOK
<1> QED
  BY <1>1, <1>2 DEF TypeOK, KillEcho

-----------------------------------------------------------------------------
(* One step of any greenlet.                                               *)

\* The greenlets are greenlets.
LEMMA Threads == Recv \in Thread /\ Echo \in Thread /\ Ext \in Thread /\ App \subseteq Thread
BY DEF Thread

\* Every step of the receive loop's handlers keeps the invariant.
LEMMA HandlersStep == IInv /\ Handlers => IInv'
<1> SUFFICES ASSUME IInv, Handlers PROVE IInv'
  OBVIOUS
<1> USE DEF IInv
<1>1. CASE HelloHandler
  <2>1. Send(Recv, Ctl)
    BY <1>1 DEF HelloHandler
  <2> QED
    BY <1>1, <2>1, SendOK, Threads
       DEF HelloHandler, TypeOK, ChannelOK, UpMeansSending, events, Msg
<1>2. CASE HelloFailed
  <2>1. Send(Recv, HelloError)
    BY <1>2 DEF HelloFailed
  <2> QED
    BY <1>2, <2>1, SendOK, Threads
       DEF HelloFailed, TypeOK, ChannelOK, UpMeansSending, events, Msg
<1>3. CASE SwitchFeaturesHandler
  <2>1. Send(Recv, Ctl)
    BY <1>3 DEF SwitchFeaturesHandler
  <2> QED
    BY <1>3, <2>1, SendOK, Threads
       DEF SwitchFeaturesHandler, TypeOK, ChannelOK, UpMeansSending, events, Msg
<1>4. CASE MultipartReplyHandler
  <2>1. SetState(Recv, "main")
    BY <1>4 DEF MultipartReplyHandler
  <2> QED
    BY <1>4, <2>1, SetStateOK, Threads
       DEF MultipartReplyHandler, TypeOK, SlotsBalance, UpMeansSending, sending
<1>5. CASE EchoRequestHandler
  <2>1. Send(Recv, EchoReq)
    BY <1>5 DEF EchoRequestHandler
  <2> QED
    BY <1>5, <2>1, SendOK, Threads
       DEF EchoRequestHandler, TypeOK, ChannelOK, UpMeansSending, events, Msg
<1>6. CASE EchoReplyHandler
  <2>1. unreplied' \in 0..EchoMax + 1
    BY <1>6, MaxAssumption DEF EchoReplyHandler, TypeOK
  <2> QED
    BY <1>6, <2>1
       DEF EchoReplyHandler, TypeOK, SlotsBalance, UpMeansSending, events, sending
<1> QED
  BY <1>1, <1>2, <1>3, <1>4, <1>5, <1>6 DEF Handlers

\* Every step of the send loop does.
LEMMA SendLoopStep == IInv /\ SendLoop => IInv'
<1> SUFFICES ASSUME IInv, SendLoop PROVE IInv'
  OBVIOUS
<1> USE DEF IInv
<1>1. CASE Get
  <2>1. /\ msg' \in Msg /\ sendq' \in Seq(Msg)
        /\ Len(sendq') = Len(sendq) - 1 /\ Len(sendq) \in Nat \ {0}
    BY <1>1, TakeType DEF Get, TypeOK
  <2>2. sem' \in 0..SMax /\ sem' + Len(sendq') = SMax
    <3>1. sem' = sem + 1 /\ sem \in 0..SMax /\ sem + Len(sendq) = SMax
      BY <1>1 DEF Get, TypeOK, SlotsBalance
    <3> QED
      BY <2>1, <3>1, MaxAssumption
  <2>3. up /\ up' = up
    BY <1>1 DEF Get, SlotsBalance
  <2> QED
    BY <1>1, <2>1, <2>2, <2>3 DEF Get, TypeOK, SlotsBalance, UpMeansSending, events
<1>2. CASE Sent
  BY <1>2 DEF Sent, TypeOK, SlotsBalance, UpMeansSending, events, sending
<1>3. CASE SentLast
  <2>1. EndSendLoop
    BY <1>3 DEF SentLast
  <2> QED
    BY <1>3, <2>1, EndSendLoopOK DEF SentLast, TypeOK, ChannelOK, UpMeansSending, events
<1>4. CASE SendFails
  <2>1. EndSendLoop
    BY <1>4 DEF SendFails
  <2> QED
    BY <1>4, <2>1, EndSendLoopOK DEF SendFails, TypeOK, ChannelOK, UpMeansSending, events
<1> QED
  BY <1>1, <1>2, <1>3, <1>4 DEF SendLoop

\* Every step does.
LEMMA InvStep == IInv /\ [Next]_vars => IInv'
<1> SUFFICES ASSUME IInv, [Next]_vars PROVE IInv'
  OBVIOUS
<1> USE DEF IInv
<1>1. CASE Handlers
  BY <1>1, HandlersStep
<1>2. CASE SendLoop
  BY <1>2, SendLoopStep
<1>3. CASE RecvLoopEnds
  <2>1. KillEcho /\ UNCHANGED <<state, want, msg, unreplied, posted>>
    BY <1>3 DEF RecvLoopEnds
  <2>2. CASE spc = "ended"
    BY <1>3, <2>1, <2>2, KillEchoOK
       DEF RecvLoopEnds, TypeOK, SlotsBalance, UpMeansSending
  <2>3. CASE spc # "ended"
    <3>1. EndSendLoop
      BY <1>3, <2>3 DEF RecvLoopEnds
    <3> QED
      BY <2>1, <3>1, KillEchoOK, EndSendLoopOK DEF TypeOK, ChannelOK, UpMeansSending
  <2> QED
    BY <2>2, <2>3
<1>4. CASE ServeCloses
  <2>1. CloseBy(Recv) /\ UNCHANGED <<sending, spc, msg, unreplied>>
    BY <1>4 DEF ServeCloses
  <2> QED
    BY <2>1, CloseByOK, Threads DEF TypeOK, SlotsBalance, UpMeansSending, sending
<1>5. CASE Granted
  <2>1. Head(waiters) \in Thread /\ waiters' \in Seq(Thread)
    BY <1>5, TakeType DEF Granted, TypeOK
  <2>2. ChannelOK'
    <3>1. want[Head(waiters)] \in Msg /\ Enqueue(want[Head(waiters)]) /\ sem > 0
          /\ UNCHANGED up
      BY <1>5, <2>1 DEF Granted, TypeOK
    <3> QED
      BY <3>1, EnqueueOK DEF TypeOK, ChannelOK
  <2> QED
    BY <1>5, <2>1, <2>2 DEF Granted, TypeOK, ChannelOK, UpMeansSending, events
<1>6. CASE SlotFreed
  <2>1. /\ Head(posting) \in [by : Thread, to : {"main", "dead"}]
        /\ posting' \in Seq([by : Thread, to : {"main", "dead"}])
    BY <1>6, TakeType DEF SlotFreed, TypeOK
  <2>2. posted' \in Seq({"main", "dead"})
    BY <1>6, <2>1, AppendType DEF SlotFreed, TypeOK
  <2>3. pc' \in [Thread -> {"run", "sem", "post", "kill", "ended"}]
        /\ wrshut' \in BOOLEAN
    BY <1>6, <2>1 DEF SlotFreed, TypeOK, AfterPost
  <2> QED
    BY <1>6, <2>1, <2>2, <2>3
       DEF SlotFreed, TypeOK, SlotsBalance, UpMeansSending, sending
<1>7. CASE EchoRequest
  <2>1. Send(Echo, EchoReq) /\ unreplied' \in 0..EchoMax + 1
    BY <1>7, MaxAssumption DEF EchoRequest, TypeOK
  <2> QED
    BY <1>7, <2>1, SendOK, Threads
       DEF EchoRequest, TypeOK, ChannelOK, UpMeansSending, events, Msg
<1>8. CASE EchoCloses
  <2>1. CloseBy(Echo) /\ UNCHANGED <<sending, spc, msg, unreplied>>
    BY <1>8 DEF EchoCloses
  <2> QED
    BY <2>1, CloseByOK, Threads DEF TypeOK, SlotsBalance, UpMeansSending, sending
<1>9. CASE Replaced
  <2>1. CloseBy(Ext) /\ UNCHANGED <<sending, spc, msg, unreplied>>
    BY <1>9 DEF Replaced
  <2> QED
    BY <2>1, CloseByOK, Threads DEF TypeOK, SlotsBalance, UpMeansSending, sending
<1>10. ASSUME NEW a \in App, AppSends(a) PROVE IInv'
  <2>1. Send(a, Data) /\ a \in Thread
    BY <1>10, Threads DEF AppSends
  <2> QED
    BY <1>10, <2>1, SendOK
       DEF AppSends, TypeOK, ChannelOK, UpMeansSending, events, Msg
<1>11. CASE UNCHANGED vars
  BY <1>11 DEF vars, TypeOK, SlotsBalance, UpMeansSending
<1> QED
  BY <1>1, <1>2, <1>3, <1>4, <1>5, <1>6, <1>7, <1>8, <1>9, <1>10, <1>11 DEF Next

\* The invariant holds when serve has queued the hello message.
LEMMA InvInit == Init => IInv
<1> SUFFICES ASSUME Init PROVE IInv
  OBVIOUS
<1>1. <<Ctl>> \in Seq(Msg) /\ Len(<<Ctl>>) = 1
  BY DEF Msg
<1>2. waiters \in Seq(Thread) /\ posting \in Seq([by : Thread, to : {"main", "dead"}])
      /\ posted \in Seq({"main", "dead"})
  BY EmptySeq DEF Init
<1>3. want \in [Thread -> Msg]
      /\ pc \in [Thread -> {"run", "sem", "post", "kill", "ended"}]
  BY DEF Init, Msg
<1>4. sem \in 0..SMax /\ sem + 1 = SMax /\ unreplied \in 0..EchoMax + 1
  BY MaxAssumption DEF Init
<1>5. sendq \in Seq(Msg) /\ sem + Len(sendq) = SMax /\ msg \in Msg
  BY <1>1, <1>4 DEF Init, Msg
<1>6. TypeOK
  BY <1>2, <1>3, <1>4, <1>5 DEF Init, TypeOK
<1> QED
  BY <1>5, <1>6 DEF Init, IInv, SlotsBalance, UpMeansSending

-----------------------------------------------------------------------------
(* Theorems.                                                               *)

\* IInv, through every interleaving of the greenlets of a Datapath.
THEOREM Invariant == Spec => []IInv
<1>1. Init => IInv
  BY InvInit
<1>2. IInv /\ [Next]_vars => IInv'
  BY InvStep
<1> QED
  BY <1>1, <1>2, PTL DEF Spec

\* Every variable of the connection keeps its type; the semaphore's counter
\* stays within the size of send_q, so that release never raises.
THEOREM TypeCorrect == Spec => []TypeOK
<1>1. IInv => TypeOK
  BY DEF IInv
<1> QED
  BY <1>1, Invariant, PTL

\* No slot of send_q is lost or given back twice, whatever ends the send loop.
THEOREM SlotsAreBalanced == Spec => []SlotsBalance
<1>1. IInv => SlotsBalance
  BY DEF IInv
<1> QED
  BY <1>1, Invariant, PTL

\* DEAD is final and the negotiation never goes back: a handler that was
\* suspended in a post cannot undo the close() of another greenlet.
THEOREM StateOnlyForward == Spec => StateGoesForward
<1>1. IInv /\ [Next]_vars => [Phase[state'] >= Phase[state]]_vars
  <2> SUFFICES ASSUME IInv, [Next]_vars PROVE Phase[state'] >= Phase[state]
    OBVIOUS
  <2>1. \A x \in {"handshake", "config", "main", "dead"} :
          Phase[x] \in 0..3 /\ Phase["dead"] = 3
          /\ Phase["handshake"] = 0 /\ Phase["config"] = 1 /\ Phase["main"] = 2
    BY DEF Phase
  <2>2. state \in {"handshake", "config", "main", "dead"}
    BY DEF IInv, TypeOK
  <2>3. CASE state' = state
    BY <2>1, <2>2, <2>3
  <2>4. CASE HelloHandler
    BY <2>1, <2>4 DEF HelloHandler
  <2>5. CASE MultipartReplyHandler
    BY <2>1, <2>5 DEF MultipartReplyHandler, SetState
  <2>6. ASSUME NEW t \in Thread, CloseBy(t) PROVE Phase[state'] >= Phase[state]
    <3>1. state' = "dead"
      BY <2>6, CloseByOK DEF IInv
    <3> QED
      BY <2>1, <2>2, <3>1
  <2>7. \/ state' = state \/ HelloHandler \/ MultipartReplyHandler
        \/ \E t \in Thread : CloseBy(t)
    <3>1. CASE Handlers
      BY <3>1 DEF Handlers, HelloFailed, SwitchFeaturesHandler, EchoRequestHandler,
                  EchoReplyHandler
    <3>2. CASE SendLoop
      BY <3>2 DEF SendLoop, Get, Sent, SentLast, SendFails
    <3>3. CASE RecvLoopEnds \/ Granted \/ SlotFreed \/ EchoRequest
      BY <3>3 DEF RecvLoopEnds, Granted, SlotFreed, EchoRequest
    <3>4. CASE ServeCloses \/ EchoCloses \/ Replaced
      BY <3>4, Threads DEF ServeCloses, EchoCloses, Replaced
    <3>5. CASE \E a \in App : AppSends(a)
      BY <3>5 DEF AppSends
    <3>6. CASE UNCHANGED vars
      BY <3>6 DEF vars
    <3> QED
      BY <3>1, <3>2, <3>3, <3>4, <3>5, <3>6 DEF Next
  <2> QED
    BY <2>3, <2>4, <2>5, <2>6, <2>7
<1> QED
  BY <1>1, Invariant, PTL DEF Spec, StateGoesForward

-----------------------------------------------------------------------------
(* OFChannel implements FifoChannel.                                       *)

\* The accepted messages that are not yet delivered, as Channel sees them.
Held == IF spc = "send" THEN <<msg>> ELSE <<>>
LineOf == Held \o sendq

\* A line is its first message followed by the others.
LEMMA HeadThenTail ==
  ASSUME NEW S, NEW s \in Seq(S), s # <<>>
  PROVE  s = <<Head(s)>> \o Tail(s)
<1>1. Len(s) \in Nat \ {0} /\ Len(s) \in 1..Len(s) /\ 1 \in 1..Len(s)
  BY EmptySeq
<1>2. SubSeq(s, 1, Len(s)) = <<s[1]>> \o SubSeq(s, 2, Len(s))
  BY <1>1, SubSeqRecursiveFirst
<1>3. SubSeq(s, 1, Len(s)) = s /\ Tail(s) = SubSeq(s, 2, Len(s)) /\ Head(s) = s[1]
  BY <1>1, SubSeqFull, TailIsSubSeq
<1> QED
  BY <1>2, <1>3

\* A message before a line is its head, and the line its tail.
LEMMA FirstOfConcat ==
  ASSUME NEW S, NEW x \in S, NEW s \in Seq(S)
  PROVE  /\ <<x>> \o s \in Seq(S) /\ <<x>> \o s # <<>>
         /\ Head(<<x>> \o s) = x /\ Tail(<<x>> \o s) = s
<1> DEFINE l == <<x>> \o s
<1>1. <<x>> \in Seq(S) /\ Len(<<x>>) = 1 /\ <<x>>[1] = x /\ Len(s) \in Nat
  BY LenProperties
<1>2. l \in Seq(S) /\ Len(l) = 1 + Len(s)
      /\ \A i \in 1..1 + Len(s) : l[i] = IF i <= 1 THEN <<x>>[i] ELSE s[i - 1]
  BY <1>1, ConcatProperties
<1>3. l # <<>> /\ l[1] = x /\ \A i \in 1..Len(s) : l[i + 1] = s[i]
  BY <1>1, <1>2, EmptySeq
<1>4. Head(l) = x
  BY <1>3
<1>5. Tail(l) \in Seq(S) /\ Len(Tail(l)) = Len(s)
      /\ \A i \in 1..Len(s) : Tail(l)[i] = s[i]
  BY <1>1, <1>2, <1>3, HeadTailProperties
<1>6. Tail(l) = s
  BY <1>5, SeqEqual
<1> QED
  BY <1>2, <1>3, <1>4, <1>6

\* The accepted messages are a line of messages.
LEMMA LineType ==
  ASSUME IInv
  PROVE  /\ Held \in Seq(Msg) /\ Len(Held) \in {0, 1}
         /\ LineOf \in Seq(Msg) /\ Len(LineOf) = Len(Held) + Len(sendq)
<1>1. Held \in Seq(Msg) /\ Len(Held) \in {0, 1}
  BY EmptySeq DEF IInv, TypeOK, Held
<1> QED
  BY <1>1, ConcatProperties DEF IInv, TypeOK, LineOf

\* A message that is queued or discarded is accepted or leaves no trace.
LEMMA EnqueueRefines ==
  ASSUME IInv, NEW m \in Msg, sem > 0, Enqueue(m), UNCHANGED <<up, spc, msg>>
  PROVE  [Channel!FNext]_(Channel!fvars)
<1>1. CASE up
  <2>1. LineOf' = Append(LineOf, m)
    <3>1. sendq' = Append(sendq, m) /\ Held' = Held /\ sendq \in Seq(Msg)
      BY <1>1 DEF Enqueue, Held, IInv, TypeOK
    <3>2. Append(sendq, m) = sendq \o <<m>> /\ Append(LineOf, m) = LineOf \o <<m>>
          /\ <<m>> \in Seq(Msg)
      BY <3>1, LineType, AppendIsConcat
    <3>3. Held \o (sendq \o <<m>>) = (Held \o sendq) \o <<m>>
      BY <3>1, <3>2, LineType, ConcatAssociative
    <3> QED
      BY <3>1, <3>2, <3>3 DEF LineOf
  <2>2. Len(LineOf) < SMax + 1
    <3>1. sem + Len(sendq) = SMax /\ Len(sendq) \in Nat /\ sem \in Nat
      BY LenProperties, MaxAssumption DEF IInv, TypeOK, SlotsBalance
    <3>2. Len(LineOf) = Len(Held) + Len(sendq) /\ (Len(Held) = 0 \/ Len(Held) = 1)
      BY LineType
    <3>3. SMax \in Nat /\ sem > 0 /\ Len(sendq) < SMax
      BY <3>1, MaxAssumption
    <3>4. CASE Len(Held) = 0
      BY <3>1, <3>2, <3>3, <3>4
    <3>5. CASE Len(Held) = 1
      BY <3>1, <3>2, <3>3, <3>5
    <3> QED
      BY <3>2, <3>4, <3>5
  <2>3. Channel!Accept(m)
    BY <1>1, <2>1, <2>2 DEF Channel!Accept, LineOf, Held
  <2> QED
    BY <2>3 DEF Channel!FNext
<1>2. CASE ~up
  BY <1>2 DEF Enqueue, Channel!fvars
<1> QED
  BY <1>1, <1>2 DEF IInv, TypeOK

\* Sending does so at once, or when the semaphore is granted.
LEMMA SendRefines ==
  ASSUME IInv, NEW t \in Thread, NEW m \in Msg, Send(t, m), UNCHANGED <<spc, msg>>
  PROVE  [Channel!FNext]_(Channel!fvars)
<1>1. CASE sem > 0 /\ waiters = <<>>
  BY <1>1, EnqueueRefines DEF Send
<1>2. CASE ~(sem > 0 /\ waiters = <<>>)
  BY <1>2 DEF Send, Channel!fvars
<1> QED
  BY <1>1, <1>2

\* The end of the send loop breaks the channel.
LEMMA EndRefines ==
  ASSUME IInv, spc # "ended", EndSendLoop
  PROVE  [Channel!FNext]_(Channel!fvars)
<1>1. up /\ up' = FALSE
  BY DEF IInv, UpMeansSending, EndSendLoop
<1>2. LineOf' = <<>>
  BY ConcatEmptySeq, EmptySeq DEF LineOf, Held, EndSendLoop
<1>3. Channel!Break
  BY <1>1, <1>2 DEF Channel!Break, LineOf, Held
<1> QED
  BY <1>3 DEF Channel!FNext

\* The steps of the send loop: taking a message is not seen, sendall delivers.
LEMMA SendLoopRefines ==
  ASSUME IInv, SendLoop
  PROVE  [Channel!FNext]_(Channel!fvars)
<1>1. CASE Get
  <2>1. sendq \in Seq(Msg) /\ sendq # <<>> /\ spc = "get" /\ spc' = "send"
        /\ msg' = Head(sendq) /\ sendq' = Tail(sendq) /\ up' = up
    BY <1>1 DEF Get, IInv, TypeOK
  <2>2. LineOf = sendq
    BY <2>1, ConcatEmptySeq DEF LineOf, Held
  <2>3. LineOf' = <<Head(sendq)>> \o Tail(sendq)
    BY <2>1 DEF LineOf, Held
  <2>4. sendq = <<Head(sendq)>> \o Tail(sendq)
    BY <2>1, HeadThenTail
  <2> QED
    BY <2>1, <2>2, <2>3, <2>4 DEF Channel!fvars, LineOf, Held
<1>2. CASE Sent
  <2>1. /\ spc = "send" /\ spc' = "get" /\ msg # HelloError /\ UNCHANGED <<up, sendq>>
        /\ msg \in Msg /\ sendq \in Seq(Msg) /\ up
    BY <1>2 DEF Sent, sending, IInv, TypeOK, UpMeansSending
  <2>2. LineOf = <<msg>> \o sendq
    BY <2>1 DEF LineOf, Held
  <2>3. LineOf' = sendq
    BY <2>1, ConcatEmptySeq DEF LineOf, Held
  <2>4. LineOf # <<>> /\ Head(LineOf) = msg /\ Tail(LineOf) = sendq
    BY <2>1, <2>2, FirstOfConcat
  <2>5. Channel!Deliver
    BY <2>1, <2>3, <2>4 DEF Channel!Deliver, LineOf, Held
  <2> QED
    BY <2>5 DEF Channel!FNext
<1>3. CASE SentLast
  BY <1>3, EndRefines DEF SentLast
<1>4. CASE SendFails
  BY <1>4, EndRefines DEF SendFails
<1> QED
  BY <1>1, <1>2, <1>3, <1>4 DEF SendLoop

\* Every step of the greenlets is a step of the channel, or none.
LEMMA StepRefines ==
  ASSUME IInv, [Next]_vars
  PROVE  [Channel!FNext]_(Channel!fvars)
<1>1. CASE HelloHandler \/ HelloFailed \/ SwitchFeaturesHandler \/ EchoRequestHandler
  <2>1. \E m \in Msg : Send(Recv, m) /\ UNCHANGED <<spc, msg>>
    BY <1>1 DEF HelloHandler, HelloFailed, SwitchFeaturesHandler, EchoRequestHandler, Msg
  <2> QED
    BY <2>1, SendRefines, Threads
<1>2. CASE MultipartReplyHandler \/ EchoReplyHandler
  BY <1>2 DEF MultipartReplyHandler, EchoReplyHandler, sending, Channel!fvars
<1>3. CASE SendLoop
  BY <1>3, SendLoopRefines
<1>4. CASE RecvLoopEnds
  <2>1. CASE spc = "ended"
    BY <1>4, <2>1 DEF RecvLoopEnds, Channel!fvars
  <2>2. CASE spc # "ended"
    BY <1>4, <2>2, EndRefines DEF RecvLoopEnds
  <2> QED
    BY <2>1, <2>2
<1>5. CASE ServeCloses \/ EchoCloses \/ Replaced \/ SlotFreed
  BY <1>5 DEF ServeCloses, EchoCloses, Replaced, SlotFreed, sending, Channel!fvars
<1>6. CASE Granted
  <2>1. want[Head(waiters)] \in Msg
    BY <1>6, TakeType DEF Granted, IInv, TypeOK
  <2> QED
    BY <1>6, <2>1, EnqueueRefines DEF Granted
<1>7. CASE EchoRequest
  <2>1. Send(Echo, EchoReq) /\ UNCHANGED <<spc, msg>> /\ EchoReq \in Msg
    BY <1>7 DEF EchoRequest, Msg
  <2> QED
    BY <2>1, SendRefines, Threads
<1>8. ASSUME NEW a \in App, AppSends(a) PROVE [Channel!FNext]_(Channel!fvars)
  <2>1. Send(a, Data) /\ UNCHANGED <<spc, msg>> /\ Data \in Msg /\ a \in Thread
    BY <1>8, Threads DEF AppSends, Msg
  <2> QED
    BY <2>1, SendRefines
<1>9. CASE UNCHANGED vars
  BY <1>9 DEF vars, Channel!fvars
<1> QED
  BY <1>1, <1>2, <1>3, <1>4, <1>5, <1>6, <1>7, <1>8, <1>9 DEF Next, Handlers

\* send_q, its semaphore and the send loop are a FIFO channel: messages the
\* code accepts are handed to the socket in order, none skipped, however the
\* senders, the closes and the timeouts interleave.
THEOREM ImplementsFifoChannel == Spec => RefinesFifoChannel
<1>1. Init => Channel!FInit
  <2> SUFFICES ASSUME Init PROVE Channel!FInit
    OBVIOUS
  <2>1. LineOf = sendq
    BY InvInit, ConcatEmptySeq DEF Init, IInv, TypeOK, LineOf, Held
  <2> QED
    BY <2>1 DEF Init, Channel!FInit, LineOf, Held
<1>2. IInv /\ [Next]_vars => [Channel!FNext]_(Channel!fvars)
  BY StepRefines
<1> QED
  BY <1>1, <1>2, Invariant, PTL DEF Spec, RefinesFifoChannel, Channel!FSpec

-----------------------------------------------------------------------------
(* The lines of greenlets.                                                 *)

\* f lines up each of S once, at the places 1..n.
Lined(n, f, S) ==
  /\ \A i \in 1..n : f[i] \in S
  /\ \A t \in S : \E i \in 1..n : f[i] = t
  /\ \A i, j \in 1..n : f[i] = f[j] => i = j

\* One more at the end of a line.
LEMMA LinedMore ==
  ASSUME NEW n \in Nat, NEW f, NEW g, NEW S, NEW t, t \notin S, Lined(n, f, S),
         \A i \in 1..n : g[i] = f[i], g[n + 1] = t
  PROVE  Lined(n + 1, g, S \cup {t})
<1>1. \A i \in 1..n + 1 : i \in 1..n \/ i = n + 1
  OBVIOUS
<1>2. \A i \in 1..n + 1 : g[i] \in S \cup {t}
  BY <1>1 DEF Lined
<1>3. \A u \in S \cup {t} : \E i \in 1..n + 1 : g[i] = u
  <2> SUFFICES ASSUME NEW u \in S \cup {t} PROVE \E i \in 1..n + 1 : g[i] = u
    OBVIOUS
  <2>1. CASE u = t
    <3>1. n + 1 \in 1..n + 1
      OBVIOUS
    <3> QED
      BY <2>1, <3>1
  <2>2. CASE u \in S
    <3>1. PICK i \in 1..n : f[i] = u
      BY <2>2 DEF Lined
    <3>2. i \in 1..n + 1
      OBVIOUS
    <3> QED
      BY <3>1, <3>2
  <2> QED
    BY <2>1, <2>2
<1>4. \A i, j \in 1..n + 1 : g[i] = g[j] => i = j
  <2> SUFFICES ASSUME NEW i \in 1..n + 1, NEW j \in 1..n + 1, g[i] = g[j] PROVE i = j
    OBVIOUS
  <2>1. \A k \in 1..n : g[k] \in S
    BY DEF Lined
  <2>2. i = n + 1 <=> j = n + 1
    BY <1>1, <2>1
  <2>3. CASE i \in 1..n /\ j \in 1..n
    BY <2>3 DEF Lined
  <2> QED
    BY <1>1, <2>2, <2>3
<1> QED
  BY <1>2, <1>3, <1>4 DEF Lined

\* One leaves a line, those behind it close up.
LEMMA LinedLess ==
  ASSUME NEW n \in Nat, NEW f, NEW g, NEW S, NEW k \in 1..n, Lined(n, f, S),
         \A i \in 1..n - 1 : g[i] = IF i < k THEN f[i] ELSE f[i + 1]
  PROVE  Lined(n - 1, g, S \ {f[k]})
<1> DEFINE at(i) == IF i < k THEN i ELSE i + 1
<1>1. \A i \in 1..n - 1 : at(i) \in 1..n /\ at(i) # k /\ g[i] = f[at(i)]
  OBVIOUS
<1>2. \A i, j \in 1..n - 1 : at(i) = at(j) => i = j
  OBVIOUS
<1>3. \A i \in 1..n \ {k} : \E j \in 1..n - 1 : at(j) = i
  <2> SUFFICES ASSUME NEW i \in 1..n \ {k} PROVE \E j \in 1..n - 1 : at(j) = i
    OBVIOUS
  <2>1. CASE i < k
    <3>1. i \in 1..n - 1 /\ at(i) = i
      BY <2>1
    <3> QED
      BY <3>1
  <2>2. CASE i > k
    <3>1. i - 1 \in 1..n - 1 /\ at(i - 1) = i
      BY <2>2
    <3> QED
      BY <3>1
  <2> QED
    BY <2>1, <2>2
<1> HIDE DEF at
<1>4. \A i, j \in 1..n : f[i] = f[j] => i = j
  BY DEF Lined
<1>5. \A i \in 1..n - 1 : g[i] \in S \ {f[k]}
  BY <1>1, <1>4 DEF Lined
<1>6. \A t \in S \ {f[k]} : \E i \in 1..n - 1 : g[i] = t
  <2> SUFFICES ASSUME NEW t \in S \ {f[k]} PROVE \E i \in 1..n - 1 : g[i] = t
    OBVIOUS
  <2>1. PICK i \in 1..n : f[i] = t
    BY DEF Lined
  <2>2. PICK j \in 1..n - 1 : at(j) = i
    BY <1>3, <2>1
  <2> QED
    BY <1>1, <2>1, <2>2
<1>7. \A i, j \in 1..n - 1 : g[i] = g[j] => i = j
  BY <1>1, <1>2, <1>4
<1> QED
  BY <1>5, <1>6, <1>7 DEF Lined

\* The places of a line one longer.
LEMMA AppendPlaces ==
  ASSUME NEW S, NEW s \in Seq(S), NEW x \in S
  PROVE  /\ Len(s) \in Nat /\ Len(Append(s, x)) = Len(s) + 1
         /\ \A i \in 1..Len(s) : Append(s, x)[i] = s[i]
         /\ Append(s, x)[Len(s) + 1] = x
BY AppendProperties, LenProperties

\* The places of a line whose first is gone.
LEMMA TailPlaces ==
  ASSUME NEW S, NEW s \in Seq(S), s # <<>>
  PROVE  /\ Len(s) \in Nat \ {0} /\ Len(Tail(s)) = Len(s) - 1 /\ Head(s) = s[1]
         /\ \A i \in 1..Len(s) - 1 : Tail(s)[i] = s[i + 1]
BY HeadTailProperties, EmptySeq, LenProperties

\* The places of a line that one has left.
LEMMA RemovePlaces ==
  ASSUME NEW S, NEW s \in Seq(S), NEW k \in DOMAIN s
  PROVE  /\ Len(s) \in Nat /\ k \in 1..Len(s) /\ Len(RemoveAt(s, k)) = Len(s) - 1
         /\ \A i \in 1..Len(s) - 1 : RemoveAt(s, k)[i] = IF i < k THEN s[i] ELSE s[i + 1]
<1> DEFINE a == SubSeq(s, 1, k - 1)
           b == SubSeq(s, k + 1, Len(s))
<1>1. Len(s) \in Nat /\ DOMAIN s = 1..Len(s) /\ \A j \in 1..Len(s) : s[j] \in S
  BY LenProperties, ElementOfSeq
<1>2. k \in 1..Len(s)
  BY <1>1
<1>3. a \in Seq(S) /\ Len(a) = k - 1 /\ \A i \in 1..k - 1 : a[i] = s[i]
  <2>1. k - 1 \in Int /\ 1 \in Int /\ \A j \in 1..k - 1 : s[j] \in S
    BY <1>1, <1>2
  <2>2. /\ a \in Seq(S) /\ Len(a) = IF 1 <= k - 1 THEN k - 1 - 1 + 1 ELSE 0
        /\ \A i \in 1..k - 1 - 1 + 1 : a[i] = s[1 + i - 1]
    BY <2>1, SubSeqProperties
  <2> QED
    BY <1>2, <2>2
<1>4. b \in Seq(S) /\ Len(b) = Len(s) - k /\ \A i \in 1..Len(s) - k : b[i] = s[k + i]
  <2>1. k + 1 \in Int /\ Len(s) \in Int /\ \A j \in k + 1..Len(s) : s[j] \in S
    BY <1>1, <1>2
  <2>2. /\ b \in Seq(S) /\ Len(b) = IF k + 1 <= Len(s) THEN Len(s) - (k + 1) + 1 ELSE 0
        /\ \A i \in 1..Len(s) - (k + 1) + 1 : b[i] = s[k + 1 + i - 1]
    BY <2>1, SubSeqProperties
  <2>3. Len(b) = Len(s) - k
    BY <1>1, <1>2, <2>2
  <2>4. ASSUME NEW i \in 1..Len(s) - k PROVE b[i] = s[k + i]
    <3>1. i \in 1..Len(s) - (k + 1) + 1 /\ k + 1 + i - 1 = k + i
      BY <1>1, <1>2
    <3> QED
      BY <2>2, <3>1
  <2> QED
    BY <2>2, <2>3, <2>4
<1> HIDE DEF a, b
<1>5. /\ Len(a \o b) = Len(a) + Len(b)
      /\ \A i \in 1..Len(a) + Len(b) : (a \o b)[i] = IF i <= Len(a) THEN a[i] ELSE b[i - Len(a)]
  BY <1>3, <1>4, ConcatProperties
<1>6. Len(a) = k - 1 /\ Len(b) = Len(s) - k /\ Len(a) + Len(b) = Len(s) - 1
  BY <1>1, <1>2, <1>3, <1>4
<1>7. ASSUME NEW i \in 1..Len(s) - 1 PROVE (a \o b)[i] = IF i < k THEN s[i] ELSE s[i + 1]
  <2>1. (a \o b)[i] = IF i <= k - 1 THEN a[i] ELSE b[i - (k - 1)]
    BY <1>5, <1>6
  <2>2. CASE i < k
    <3>1. i \in 1..k - 1
      BY <1>2, <2>2
    <3> QED
      BY <1>2, <1>3, <2>1, <2>2, <3>1
  <2>3. CASE i >= k
    <3>1. i - (k - 1) \in 1..Len(s) - k /\ k + (i - (k - 1)) = i + 1
      BY <1>1, <1>2, <2>3
    <3>2. b[i - (k - 1)] = s[k + (i - (k - 1))]
      BY <1>4, <3>1
    <3> QED
      BY <1>2, <2>1, <2>3, <3>1, <3>2
  <2>4. i < k \/ i >= k
    BY <1>1, <1>2
  <2> QED
    BY <2>2, <2>3, <2>4
<1> QED
  BY <1>1, <1>2, <1>5, <1>6, <1>7 DEF RemoveAt, a, b

-----------------------------------------------------------------------------
(* Who is in line.                                                         *)

\* The greenlets suspended in send, and those suspended in set_state.
AtSem == {t \in Thread : pc[t] = "sem"}
AtPost == {t \in Thread : pc[t] = "post"}

\* The greenlets whose posts wait.
By == [i \in 1..Len(posting) |-> posting[i].by]

\* The two lines, and who is in them.
SemLine == Lined(Len(waiters), waiters, AtSem)
PostLine == Lined(Len(posting), By, AtPost)

\* send by a greenlet that runs.
LEMMA SendLines ==
  ASSUME TypeOK, SemLine, PostLine, NEW t \in Thread, NEW m, Send(t, m), pc[t] = "run",
         UNCHANGED posting
  PROVE  SemLine' /\ PostLine'
<1>1. CASE UNCHANGED <<waiters, pc>>
  BY <1>1 DEF SemLine, PostLine, AtSem, AtPost, By
<1>2. CASE waiters' = Append(waiters, t) /\ pc' = [pc EXCEPT ![t] = "sem"]
  <2>1. t \notin AtSem /\ t \notin AtPost
    BY DEF AtSem, AtPost
  <2>2. AtSem' = AtSem \cup {t} /\ AtPost' = AtPost
    BY <1>2 DEF TypeOK, AtSem, AtPost
  <2>3. /\ Len(waiters) \in Nat /\ Len(waiters') = Len(waiters) + 1
        /\ \A i \in 1..Len(waiters) : waiters'[i] = waiters[i]
        /\ waiters'[Len(waiters) + 1] = t
    BY <1>2, AppendPlaces DEF TypeOK
  <2>4. SemLine'
    <3>1. Lined(Len(waiters) + 1, waiters', AtSem \cup {t})
      BY <2>1, <2>3, LinedMore DEF SemLine
    <3> QED
      BY <2>2, <2>3, <3>1 DEF SemLine
  <2>5. PostLine'
    BY <2>2 DEF PostLine, By
  <2> QED
    BY <2>4, <2>5
<1> QED
  BY <1>1, <1>2 DEF Send

\* set_state by a greenlet that is in no line.
LEMMA SetStateLines ==
  ASSUME TypeOK, SemLine, PostLine, NEW t \in Thread, NEW s \in {"main", "dead"},
         SetState(t, s), pc[t] \in {"run", "kill"}, UNCHANGED waiters
  PROVE  SemLine' /\ PostLine'
<1>1. t \notin AtSem /\ t \notin AtPost
  BY DEF AtSem, AtPost
<1>2. CASE pc' = [pc EXCEPT ![t] = AfterPost(t, s)] /\ UNCHANGED posting
  <2>1. AtSem' = AtSem /\ AtPost' = AtPost
    BY <1>1, <1>2 DEF TypeOK, AtSem, AtPost, AfterPost
  <2> QED
    BY <1>2, <2>1 DEF SemLine, PostLine, By
<1>3. CASE posting' = Append(posting, [by |-> t, to |-> s]) /\ pc' = [pc EXCEPT ![t] = "post"]
  <2>1. AtSem' = AtSem /\ AtPost' = AtPost \cup {t}
    BY <1>1, <1>3 DEF TypeOK, AtSem, AtPost
  <2>2. /\ Len(posting) \in Nat /\ Len(posting') = Len(posting) + 1
        /\ \A i \in 1..Len(posting) : posting'[i] = posting[i]
        /\ posting'[Len(posting) + 1] = [by |-> t, to |-> s]
    <3>1. posting \in Seq([by : Thread, to : {"main", "dead"}])
      BY DEF TypeOK
    <3>2. [by |-> t, to |-> s] \in [by : Thread, to : {"main", "dead"}]
      OBVIOUS
    <3> QED
      BY <1>3, <3>1, <3>2, AppendPlaces
  <2>3. (\A i \in 1..Len(posting) : By'[i] = By[i]) /\ By'[Len(posting) + 1] = t
    BY <2>2 DEF By
  <2>4. PostLine'
    BY <1>1, <2>1, <2>2, <2>3, LinedMore DEF PostLine
  <2>5. SemLine'
    BY <2>1 DEF SemLine
  <2> QED
    BY <2>4, <2>5
<1> QED
  BY <1>2, <1>3 DEF SetState

\* close by a greenlet that is in no line.
LEMMA CloseLines ==
  ASSUME TypeOK, SemLine, PostLine, NEW t \in Thread, CloseBy(t),
         pc[t] \in {"run", "kill"}, UNCHANGED waiters
  PROVE  SemLine' /\ PostLine'
<1>0. t \notin AtSem /\ t \notin AtPost
  BY DEF AtSem, AtPost
<1>1. CASE state = "dead"
  <2>1. pc' = [pc EXCEPT ![t] = "ended"] /\ UNCHANGED posting
    BY <1>1 DEF CloseBy, events
  <2>2. AtSem' = AtSem /\ AtPost' = AtPost
    BY <1>0, <2>1 DEF TypeOK, AtSem, AtPost
  <2> QED
    BY <2>1, <2>2 DEF SemLine, PostLine, By
<1>2. CASE state # "dead"
  BY <1>2, SetStateLines DEF CloseBy
<1> QED
  BY <1>1, <1>2

\* The semaphore is granted to the first in line.
LEMMA GrantedLines ==
  ASSUME TypeOK, SemLine, PostLine, Granted
  PROVE  SemLine' /\ PostLine'
<1>1. /\ Len(waiters) \in Nat \ {0} /\ Len(waiters') = Len(waiters) - 1
      /\ Head(waiters) = waiters[1] /\ Head(waiters) \in Thread
      /\ \A i \in 1..Len(waiters) - 1 : waiters'[i] = waiters[i + 1]
      /\ pc' = [pc EXCEPT ![waiters[1]] = "run"] /\ UNCHANGED posting
  BY TailPlaces, TakeType DEF Granted, TypeOK, events
<1>2. waiters[1] \in AtSem /\ waiters[1] \notin AtPost
  <2>1. 1 \in 1..Len(waiters)
    BY <1>1
  <2> QED
    BY <2>1 DEF SemLine, Lined, AtSem, AtPost
<1>3. AtSem' = AtSem \ {waiters[1]} /\ AtPost' = AtPost
  BY <1>1, <1>2 DEF TypeOK, AtSem, AtPost
<1>4. SemLine'
  <2>1. 1 \in 1..Len(waiters) /\ Len(waiters) \in Nat
        /\ \A i \in 1..Len(waiters) - 1 : waiters'[i] = IF i < 1 THEN waiters[i] ELSE waiters[i + 1]
    BY <1>1
  <2>2. Lined(Len(waiters) - 1, waiters', AtSem \ {waiters[1]})
    BY <2>1, LinedLess DEF SemLine
  <2> QED
    BY <1>1, <1>3, <2>2 DEF SemLine
<1> QED
  BY <1>1, <1>3, <1>4 DEF PostLine, By

\* A slot is freed for the first post in line.
LEMMA SlotFreedLines ==
  ASSUME TypeOK, SemLine, PostLine, SlotFreed
  PROVE  SemLine' /\ PostLine'
<1>1. /\ Len(posting) \in Nat \ {0} /\ Len(posting') = Len(posting) - 1
      /\ Head(posting) = posting[1] /\ Head(posting) \in [by : Thread, to : {"main", "dead"}]
      /\ \A i \in 1..Len(posting) - 1 : posting'[i] = posting[i + 1]
      /\ pc' = [pc EXCEPT ![posting[1].by] = AfterPost(posting[1].by, posting[1].to)]
      /\ UNCHANGED waiters
  BY TailPlaces, TakeType DEF SlotFreed, TypeOK, sending
<1>2. By[1] = posting[1].by /\ \A i \in 1..Len(posting) - 1 : By'[i] = By[i + 1]
  BY <1>1 DEF By
<1>3. By[1] \in AtPost /\ By[1] \notin AtSem
  <2>1. 1 \in 1..Len(posting)
    BY <1>1
  <2> QED
    BY <2>1 DEF PostLine, Lined, AtSem, AtPost
<1>4. AtPost' = AtPost \ {By[1]} /\ AtSem' = AtSem
  BY <1>1, <1>2, <1>3 DEF TypeOK, AtSem, AtPost, AfterPost
<1>5. PostLine'
  <2>1. 1 \in 1..Len(posting) /\ Len(posting) \in Nat
        /\ \A i \in 1..Len(posting) - 1 : By'[i] = IF i < 1 THEN By[i] ELSE By[i + 1]
    BY <1>1, <1>2
  <2>2. Lined(Len(posting) - 1, By', AtPost \ {By[1]})
    BY <2>1, LinedLess DEF PostLine
  <2> QED
    BY <1>1, <1>4, <2>2 DEF PostLine
<1> QED
  BY <1>1, <1>4, <1>5 DEF SemLine

\* The echo loop is killed wherever it is in line.
LEMMA KillEchoLines ==
  ASSUME TypeOK, SemLine, PostLine, KillEcho, pc[Recv] = "run"
  PROVE  SemLine' /\ PostLine'
<1>1. Recv # Echo /\ Recv \in Thread /\ Echo \in Thread
  BY ThreadAssumption, Threads
<1>2. pc' = [pc EXCEPT ![Echo] = "ended", ![Recv] = "kill"]
  BY DEF KillEcho
<1>3. AtSem' = AtSem \ {Echo} /\ AtPost' = AtPost \ {Echo}
  BY <1>1, <1>2 DEF AtSem, AtPost, TypeOK
<1>4. SemLine'
  <2>1. CASE pc[Echo] = "sem"
    <3>1. PICK k \in DOMAIN waiters : waiters[k] = Echo /\ waiters' = RemoveAt(waiters, k)
      BY <2>1 DEF KillEcho
    <3>2. /\ Len(waiters) \in Nat /\ k \in 1..Len(waiters) /\ Len(waiters') = Len(waiters) - 1
          /\ \A i \in 1..Len(waiters) - 1 : waiters'[i] = IF i < k THEN waiters[i] ELSE waiters[i + 1]
      BY <3>1, RemovePlaces DEF TypeOK
    <3>3. Lined(Len(waiters) - 1, waiters', AtSem \ {waiters[k]})
      BY <3>2, LinedLess DEF SemLine
    <3> QED
      BY <1>3, <3>1, <3>2, <3>3 DEF SemLine
  <2>2. CASE pc[Echo] # "sem"
    <3>1. waiters' = waiters /\ AtSem' = AtSem
      BY <1>3, <2>2 DEF KillEcho, AtSem, AtPost
    <3> QED
      BY <3>1 DEF SemLine
  <2> QED
    BY <2>1, <2>2
<1>5. PostLine'
  <2>1. CASE pc[Echo] = "post"
    <3>1. PICK k \in DOMAIN posting : posting[k].by = Echo /\ posting' = RemoveAt(posting, k)
      BY <2>1 DEF KillEcho
    <3>2. /\ Len(posting) \in Nat /\ k \in 1..Len(posting) /\ Len(posting') = Len(posting) - 1
          /\ \A i \in 1..Len(posting) - 1 : posting'[i] = IF i < k THEN posting[i] ELSE posting[i + 1]
      BY <3>1, RemovePlaces DEF TypeOK
    <3>3. By[k] = Echo /\ \A i \in 1..Len(posting) - 1 : By'[i] = IF i < k THEN By[i] ELSE By[i + 1]
      BY <3>1, <3>2 DEF By
    <3>4. Lined(Len(posting) - 1, By', AtPost \ {By[k]})
      BY <3>2, <3>3, LinedLess DEF PostLine
    <3> QED
      BY <1>3, <3>2, <3>3, <3>4 DEF PostLine
  <2>2. CASE pc[Echo] # "post"
    <3>1. posting' = posting /\ AtPost' = AtPost
      BY <1>3, <2>2 DEF KillEcho, AtSem, AtPost
    <3> QED
      BY <3>1 DEF PostLine, By
  <2> QED
    BY <2>1, <2>2
<1> QED
  BY <1>4, <1>5

-----------------------------------------------------------------------------
(* What the observers are told.                                            *)

\* The i-th state that is posted or waits to be.
Said(i) == IF i <= Len(posted) THEN posted[i] ELSE posting[i - Len(posted)].to

\* At most MAIN and then DEAD, and only what the state has been so far.
InOrder ==
  /\ Len(posted) + Len(posting) <= 2
  /\ Len(posted) + Len(posting) = 2 => Said(1) = "main" /\ Said(2) = "dead"
  /\ state \in {"handshake", "config"} => Len(posted) + Len(posting) = 0
  /\ state = "main" => Len(posted) + Len(posting) = 1 /\ Said(1) = "main"
  /\ \A i \in 1..Len(posting) : posting[i].by = Echo => posting[i].to = "dead"

\* The sizes of the two.
LEMMA Sizes ==
  ASSUME TypeOK
  PROVE  /\ Len(posted) \in Nat /\ Len(posting) \in Nat
         /\ \A i \in 1..Len(posted) : posted[i] \in {"main", "dead"}
         /\ \A i \in 1..Len(posting) : posting[i].to \in {"main", "dead"} /\ posting[i].by \in Thread
<1>1. posted \in Seq({"main", "dead"}) /\ posting \in Seq([by : Thread, to : {"main", "dead"}])
  BY DEF TypeOK
<1>2. \A i \in 1..Len(posting) : posting[i] \in [by : Thread, to : {"main", "dead"}]
  BY <1>1, ElementOfSeq
<1> QED
  BY <1>1, <1>2, ElementOfSeq, LenProperties

\* MAIN is told after nothing else, DEAD before nothing else.
LEMMA SetStateOrder ==
  ASSUME TypeOK, InOrder, NEW t \in Thread, NEW s \in {"main", "dead"}, SetState(t, s),
         s = "main" => state = "config" /\ t # Echo, s = "dead" => state # "dead"
  PROVE  InOrder'
<1> DEFINE n == Len(posted)
           k == Len(posting)
<1>1. /\ n \in Nat /\ k \in Nat /\ state' = s /\ state \in {"handshake", "config", "main", "dead"}
      /\ \A i \in 1..k : posting[i].by = Echo => posting[i].to = "dead"
  BY Sizes DEF TypeOK, SetState, InOrder
<1>2. \/ n + k = 0
      \/ n + k = 1 /\ Said(1) = "main" /\ s = "dead"
  BY <1>1 DEF InOrder
<1>3. CASE posting = <<>> /\ posted' = Append(posted, s) /\ UNCHANGED posting
  <2>1. /\ Len(posted') = n + 1 /\ posted'[n + 1] = s /\ \A i \in 1..n : posted'[i] = posted[i]
    BY <1>3, AppendPlaces DEF TypeOK
  <2>2. k = 0 /\ Len(posting') = 0
    BY <1>3
  <2>3. CASE n = 0
    BY <1>1, <2>1, <2>2, <2>3 DEF InOrder, Said
  <2>4. CASE n = 1 /\ Said(1) = "main" /\ s = "dead"
    BY <1>1, <2>1, <2>2, <2>4 DEF InOrder, Said
  <2> QED
    BY <1>1, <1>2, <2>2, <2>3, <2>4
<1>4. CASE posting' = Append(posting, [by |-> t, to |-> s]) /\ UNCHANGED posted
  <2>1. /\ Len(posting') = k + 1 /\ posting'[k + 1] = [by |-> t, to |-> s]
        /\ \A i \in 1..k : posting'[i] = posting[i]
    <3>1. [by |-> t, to |-> s] \in [by : Thread, to : {"main", "dead"}]
      OBVIOUS
    <3> QED
      BY <1>4, <3>1, AppendPlaces DEF TypeOK
  <2>2. \A i \in 1..k + 1 : posting'[i].by = Echo => posting'[i].to = "dead"
    <3> SUFFICES ASSUME NEW i \in 1..k + 1, posting'[i].by = Echo PROVE posting'[i].to = "dead"
      OBVIOUS
    <3>1. CASE i = k + 1
      BY <2>1, <3>1
    <3>2. CASE i \in 1..k
      BY <1>1, <2>1, <3>2
    <3> QED
      BY <1>1, <3>1, <3>2
  <2>3. Len(posted') = n /\ UNCHANGED posted
    BY <1>4
  <2>4. CASE n + k = 0
    <3>1. Said(1)' = s
      BY <1>1, <2>1, <2>3, <2>4 DEF Said
    <3> QED
      BY <1>1, <2>1, <2>2, <2>3, <2>4, <3>1 DEF InOrder
  <2>5. CASE n + k = 1 /\ Said(1) = "main" /\ s = "dead"
    <3>1. Said(1)' = "main" /\ Said(2)' = "dead"
      BY <1>1, <2>1, <2>3, <2>5 DEF Said
    <3> QED
      BY <1>1, <2>1, <2>2, <2>3, <2>5, <3>1 DEF InOrder
  <2> QED
    BY <1>2, <2>4, <2>5
<1> QED
  BY <1>3, <1>4 DEF SetState

\* close() tells DEAD once.
LEMMA CloseOrder ==
  ASSUME TypeOK, InOrder, NEW t \in Thread, CloseBy(t)
  PROVE  InOrder'
<1>1. CASE state = "dead"
  BY <1>1 DEF CloseBy, InOrder, Said, events
<1>2. CASE state # "dead"
  BY <1>2, SetStateOrder DEF CloseBy
<1> QED
  BY <1>1, <1>2

\* A post that gets its slot stays where it was.
LEMMA SlotFreedOrder ==
  ASSUME TypeOK, InOrder, SlotFreed
  PROVE  InOrder'
<1> DEFINE n == Len(posted)
           k == Len(posting)
<1>1. /\ n \in Nat /\ k \in Nat \ {0} /\ Len(posting') = k - 1 /\ Head(posting) = posting[1]
      /\ \A i \in 1..k - 1 : posting'[i] = posting[i + 1]
      /\ posted' = Append(posted, posting[1].to) /\ posting[1].to \in {"main", "dead"}
      /\ UNCHANGED state
  BY Sizes, TailPlaces DEF SlotFreed, TypeOK
<1>2. Len(posted') = n + 1 /\ posted'[n + 1] = posting[1].to /\ \A i \in 1..n : posted'[i] = posted[i]
  BY <1>1, AppendPlaces DEF TypeOK
<1>3. Len(posted') + Len(posting') = n + k
  BY <1>1, <1>2
<1>4. \A i \in 1..n + k : Said(i)' = Said(i)
  <2> SUFFICES ASSUME NEW i \in 1..n + k PROVE Said(i)' = Said(i)
    OBVIOUS
  <2>1. CASE i \in 1..n
    BY <1>1, <1>2, <2>1 DEF Said
  <2>2. CASE i = n + 1
    BY <1>1, <1>2, <2>2 DEF Said
  <2>3. CASE i > n + 1
    <3>1. i - (n + 1) \in 1..k - 1
      BY <1>1, <2>3
    <3>2. posting'[i - (n + 1)] = posting[i - n]
      BY <1>1, <3>1
    <3> QED
      BY <1>1, <1>2, <2>3, <3>2 DEF Said
  <2> QED
    BY <1>1, <2>1, <2>2, <2>3
<1>5. \A i \in 1..k - 1 : posting'[i].by = Echo => posting'[i].to = "dead"
  BY <1>1 DEF InOrder
<1>6. n + k = 1 => Said(1)' = Said(1)
  BY <1>1, <1>4
<1>7. n + k = 2 => Said(1)' = Said(1) /\ Said(2)' = Said(2)
  BY <1>1, <1>4
<1> QED
  BY <1>1, <1>3, <1>5, <1>6, <1>7 DEF InOrder

\* What the echo loop did not get to tell is left out.
LEMMA KillEchoOrder ==
  ASSUME TypeOK, InOrder, KillEcho, UNCHANGED <<state, posted>>
  PROVE  InOrder'
<1> DEFINE n == Len(posted)
           k == Len(posting)
<1>1. CASE UNCHANGED posting
  BY <1>1 DEF InOrder, Said
<1>2. CASE pc[Echo] = "post"
  <2>1. PICK j \in DOMAIN posting : posting[j].by = Echo /\ posting' = RemoveAt(posting, j)
    BY <1>2 DEF KillEcho
  <2>2. /\ n \in Nat /\ k \in Nat /\ j \in 1..k /\ Len(posting') = k - 1
        /\ \A i \in 1..k - 1 : posting'[i] = IF i < j THEN posting[i] ELSE posting[i + 1]
    BY <2>1, Sizes, RemovePlaces DEF TypeOK
  <2>3. posting[j].to = "dead" /\ Said(n + j) = "dead"
    BY <2>1, <2>2 DEF InOrder, Said
  <2>4. state = "dead"
    <3>1. n + k # 0
      BY <2>2
    <3>2. state # "main"
      <4> SUFFICES ASSUME state = "main" PROVE FALSE
        OBVIOUS
      <4>1. n + k = 1 /\ Said(1) = "main"
        BY DEF InOrder
      <4>2. n + j = 1
        BY <2>2, <4>1
      <4> QED
        BY <2>3, <4>1, <4>2
    <3> QED
      BY <3>1, <3>2 DEF InOrder, TypeOK
  <2>5. n + k - 1 <= 1
    BY <2>2 DEF InOrder
  <2>6. \A i \in 1..k - 1 : posting'[i].by = Echo => posting'[i].to = "dead"
    <3> SUFFICES ASSUME NEW i \in 1..k - 1, posting'[i].by = Echo PROVE posting'[i].to = "dead"
      OBVIOUS
    <3>1. \E m \in 1..k : posting'[i] = posting[m]
      <4>1. i \in 1..k /\ i + 1 \in 1..k
        BY <2>2
      <4> QED
        BY <2>2, <4>1
    <3> QED
      BY <3>1 DEF InOrder
  <2> QED
    BY <2>2, <2>4, <2>5, <2>6 DEF InOrder
<1> QED
  BY <1>1, <1>2 DEF KillEcho

-----------------------------------------------------------------------------
(* The lines and the order, over all steps.                                *)

\* What holds of the lines of greenlets and of what observers are told.
LInv == SemLine /\ PostLine /\ InOrder

\* In the beginning nobody is in line, and nothing was told.
LEMMA LInvInit == Init => LInv
<1> SUFFICES ASSUME Init PROVE LInv
  OBVIOUS
<1>1. waiters = <<>> /\ posting = <<>> /\ posted = <<>> /\ AtSem = {} /\ AtPost = {}
  BY DEF Init, AtSem, AtPost
<1>2. Len(waiters) = 0 /\ Len(posting) = 0 /\ Len(posted) = 0
  BY <1>1
<1> QED
  BY <1>1, <1>2 DEF Init, LInv, SemLine, PostLine, Lined, InOrder

\* Every step keeps both.
LEMMA LInvStep == IInv /\ LInv /\ [Next]_vars => LInv'
<1> SUFFICES ASSUME IInv, LInv, [Next]_vars PROVE LInv'
  OBVIOUS
<1>1. TypeOK /\ SemLine /\ PostLine /\ InOrder
  BY DEF IInv, LInv
<1>2. ASSUME UNCHANGED <<waiters, pc, posting>> PROVE SemLine' /\ PostLine'
  BY <1>1, <1>2 DEF SemLine, PostLine, AtSem, AtPost, By
<1>3. ASSUME UNCHANGED <<state, posting, posted>> PROVE InOrder'
  BY <1>1, <1>3 DEF InOrder, Said
<1>4. CASE HelloHandler
  <2>1. Send(Recv, Ctl) /\ pc[Recv] = "run" /\ UNCHANGED <<posting, posted>> /\ Recv \in Thread
        /\ state = "handshake" /\ state' = "config"
    BY <1>4, Threads DEF HelloHandler, Receiving, events
  <2>2. InOrder'
    BY <1>1, <2>1 DEF InOrder, Said
  <2> QED
    BY <1>1, <2>1, <2>2, SendLines DEF LInv
<1>5. ASSUME NEW t \in Thread, NEW m, Send(t, m), pc[t] = "run", UNCHANGED <<state, events>>
      PROVE  LInv'
  BY <1>1, <1>3, <1>5, SendLines DEF LInv, events
<1>6. CASE HelloFailed \/ SwitchFeaturesHandler \/ EchoRequestHandler
  BY <1>5, <1>6, Threads DEF HelloFailed, SwitchFeaturesHandler, EchoRequestHandler, Receiving
<1>7. CASE EchoRequest \/ \E a \in App : AppSends(a)
  BY <1>5, <1>7, Threads DEF EchoRequest, AppSends
<1>8. CASE MultipartReplyHandler
  <2>1. SetState(Recv, "main") /\ pc[Recv] = "run" /\ state = "config" /\ Recv \in Thread
        /\ Recv # Echo /\ UNCHANGED waiters
    BY <1>8, Threads, ThreadAssumption DEF MultipartReplyHandler, Receiving, sending
  <2> QED
    BY <1>1, <2>1, SetStateLines, SetStateOrder DEF LInv
<1>9. ASSUME NEW t \in Thread, CloseBy(t), pc[t] \in {"run", "kill"}, UNCHANGED waiters
      PROVE  LInv'
  BY <1>1, <1>9, CloseLines, CloseOrder DEF LInv
<1>10. CASE ServeCloses \/ EchoCloses \/ Replaced
  BY <1>9, <1>10, Threads DEF ServeCloses, EchoCloses, Replaced, sending
<1>11. CASE EchoReplyHandler \/ SendLoop \/ UNCHANGED vars
  <2>1. UNCHANGED <<state, waiters, pc, posting, posted>>
    BY <1>11 DEF EchoReplyHandler, SendLoop, Get, Sent, SentLast, SendFails, vars, sending, events
  <2> QED
    BY <1>2, <1>3, <2>1 DEF LInv
<1>12. CASE RecvLoopEnds
  <2>1. KillEcho /\ pc[Recv] = "run" /\ UNCHANGED <<state, posted>>
    BY <1>12 DEF RecvLoopEnds, Receiving
  <2> QED
    BY <1>1, <2>1, KillEchoLines, KillEchoOrder DEF LInv
<1>13. CASE Granted
  <2>1. UNCHANGED <<state, posting, posted>>
    BY <1>13 DEF Granted, events
  <2> QED
    BY <1>1, <1>3, <1>13, <2>1, GrantedLines DEF LInv
<1>14. CASE SlotFreed
  BY <1>1, <1>14, SlotFreedLines, SlotFreedOrder DEF LInv
<1> QED
  BY <1>4, <1>6, <1>7, <1>8, <1>10, <1>11, <1>12, <1>13, <1>14 DEF Next, Handlers

\* The lines and the order hold throughout.
LEMMA Lines == Spec => []LInv
<1>1. Init => LInv
  BY LInvInit
<1>2. IInv /\ LInv /\ [Next]_vars => LInv'
  BY LInvStep
<1> QED
  BY <1>1, <1>2, Invariant, PTL DEF Spec

\* The greenlets suspended in send or in set_state are those in line, once each:
\* a killed echo loop leaves no trace, whatever it waited for.
THEOREM GreenletsInLine == Spec => []LinesMatch
<1>1. IInv /\ LInv => LinesMatch
  <2> SUFFICES ASSUME TypeOK, SemLine, PostLine PROVE LinesMatch
    BY DEF IInv, LInv
  <2>1. /\ Len(waiters) \in Nat /\ DOMAIN waiters = 1..Len(waiters) /\ Len(posting) \in Nat
        /\ \A i \in 1..Len(posting) : By[i] = posting[i].by
    BY LenProperties, Sizes DEF TypeOK, By
  <2>2. AtSem = ToSet(waiters)
    BY <2>1 DEF SemLine, Lined, ToSet
  <2>3. AtPost = {posting[i].by : i \in 1..Len(posting)}
    BY <2>1 DEF PostLine, Lined
  <2>4. IsInjective(waiters)
    BY <2>1 DEF SemLine, Lined, IsInjective
  <2>5. \A i, j \in 1..Len(posting) : posting[i].by = posting[j].by => i = j
    BY <2>1 DEF PostLine, Lined
  <2> QED
    BY <2>2, <2>3, <2>4, <2>5 DEF LinesMatch, AtSem, AtPost
<1> QED
  BY <1>1, Invariant, Lines, PTL

\* Observers are told of MAIN at most once and of DEAD at most once, DEAD last,
\* whoever closes the Datapath and whichever post is killed.
THEOREM ObserversInOrder == Spec => []EventsInOrder
<1>1. IInv /\ LInv => EventsInOrder
  <2> SUFFICES ASSUME TypeOK, InOrder PROVE EventsInOrder
    BY DEF IInv, LInv
  <2> DEFINE S == {"main", "dead"}
             w == [i \in 1..Len(posting) |-> posting[i].to]
             line == posted \o w
             n == Len(posted) + Len(posting)
  <2>1. /\ Len(posted) \in Nat /\ Len(posting) \in Nat /\ posted \in Seq(S)
        /\ w \in [1..Len(posting) -> S]
    BY Sizes DEF TypeOK
  <2>2. w \in Seq(S) /\ Len(w) = Len(posting)
    BY <2>1, IsASeq, LenProperties
  <2>3. /\ line \in Seq(S) /\ Len(line) = n
        /\ \A i \in 1..n : line[i] = IF i <= Len(posted) THEN posted[i] ELSE w[i - Len(posted)]
    BY <2>1, <2>2, ConcatProperties
  <2>4. \A i \in 1..n : line[i] = Said(i)
    <3> SUFFICES ASSUME NEW i \in 1..n PROVE line[i] = Said(i)
      OBVIOUS
    <3>1. CASE i <= Len(posted)
      BY <2>3, <3>1 DEF Said
    <3>2. CASE i > Len(posted)
      <4>1. i - Len(posted) \in 1..Len(posting)
        BY <2>1, <3>2
      <4>2. w[i - Len(posted)] = posting[i - Len(posted)].to
        BY <4>1
      <4> QED
        BY <2>1, <2>3, <3>2, <4>2 DEF Said
    <3> QED
      BY <2>1, <3>1, <3>2
  <2> HIDE DEF line, w
  <2>5. \A i \in 1..n : line[i] \in S
    BY <2>3, ElementOfSeq
  <2>6. <<>> \in Seq(S) /\ <<"main">> \in Seq(S) /\ <<"dead">> \in Seq(S) /\ <<"main", "dead">> \in Seq(S)
    OBVIOUS
  <2>7. CASE n = 0
    <3>1. line = <<>>
      BY <2>3, <2>7, EmptySeq
    <3> QED
      BY <3>1 DEF EventsInOrder, line, w
  <2>8. CASE n = 1
    <3>1. line[1] = "main" \/ line[1] = "dead"
      BY <2>5, <2>8
    <3>2. line = <<"main">> \/ line = <<"dead">>
      BY <2>3, <2>6, <2>8, <3>1, SeqEqual
    <3> QED
      BY <3>2 DEF EventsInOrder, line, w
  <2>9. CASE n = 2
    <3>1. line[1] = "main" /\ line[2] = "dead"
      BY <2>4, <2>9 DEF InOrder
    <3>2. line = <<"main", "dead">>
      <4>1. Len(<<"main", "dead">>) = 2
        OBVIOUS
      <4>2. \A i \in 1..2 : line[i] = <<"main", "dead">>[i]
        BY <3>1
      <4> QED
        BY <2>3, <2>6, <2>9, <4>1, <4>2, SeqEqual
    <3> QED
      BY <3>2 DEF EventsInOrder, line, w
  <2> QED
    BY <2>1, <2>7, <2>8, <2>9 DEF InOrder
<1> QED
  BY <1>1, Invariant, Lines, PTL

-----------------------------------------------------------------------------
(* The end of a Datapath.                                                  *)

\* A greenlet waits in send only while somebody will wake it: a slot is free,
\* or send_q is full and the send loop that empties it lives.  With loops that
\* go on this is why SendersReleased holds.
NoLostWakeup == waiters # <<>> => sem > 0 \/ (Len(sendq) = SMax /\ up /\ spc # "ended")

\* When serve has returned nothing of the Datapath is left: it is DEAD, its
\* socket shut, its queue empty, and no loop can send or close any more.
NothingLeft ==
  pc[Recv] = "ended" => /\ state = "dead" /\ wrshut
                        /\ ~up /\ sendq = <<>> /\ spc = "ended" /\ pc[Echo] = "ended"

\* t waits for a slot to post s.
Waits(t, s) == \E i \in 1..Len(posting) : posting[i].by = t /\ posting[i].to = s

\* serve has killed the two loops.
Served == pc[Recv] \in {"kill", "ended"} \/ Waits(Recv, "dead")

\* What serve kills stays dead; DEAD is posted by who set the state; serve ends
\* after close().
EndInv ==
  /\ Served => ~up /\ spc = "ended" /\ pc[Echo] = "ended"
  /\ (\E t \in Thread : Waits(t, "dead")) => state = "dead"
  /\ pc[Recv] = "ended" => state = "dead" /\ wrshut

\* Who is not suspended in set_state has nothing in line.
LEMMA NotInLine ==
  ASSUME PostLine, NEW t \in Thread, pc[t] # "post", NEW s
  PROVE  ~Waits(t, s)
BY DEF PostLine, Lined, AtPost, By, Waits

\* send leaves the end as it is.
LEMMA SendEnds ==
  ASSUME TypeOK, PostLine, EndInv, NEW t \in Thread, NEW m, Send(t, m), pc[t] = "run",
         UNCHANGED <<spc, wrshut, posting>>, state' = state \/ state # "dead"
  PROVE  EndInv'
<1>1. /\ up' = up /\ \A k \in Thread \ {t} : pc'[k] = pc[k]
      /\ pc'[t] \in {"run", "sem"}
  BY DEF Send, TypeOK
<1>2. \A k, s : Waits(k, s)' <=> Waits(k, s)
  BY DEF Waits
<1>3. ~Waits(t, "dead")
  BY NotInLine
<1>4. Served' <=> Served
  BY <1>1, <1>2, <1>3, Threads DEF Served
<1>5. Served' => pc'[Echo] = "ended"
  BY <1>1, <1>4, Threads DEF EndInv
<1>6. pc'[Recv] = "ended" => pc[Recv] = "ended"
  BY <1>1, Threads
<1> QED
  BY <1>1, <1>2, <1>4, <1>5, <1>6 DEF EndInv

\* set_state by a greenlet that runs, or by serve when it has killed the loops.
LEMMA SetStateEnds ==
  ASSUME TypeOK, PostLine, EndInv, NEW t \in Thread, NEW s \in {"main", "dead"},
         SetState(t, s), state # "dead", UNCHANGED <<up, spc>>,
         pc[t] = IF t = Recv /\ s = "dead" THEN "kill" ELSE "run",
         s = "main" => t = Recv
  PROVE  EndInv'
<1>1. state' = s /\ \A k \in Thread \ {t} : pc'[k] = pc[k]
  BY DEF SetState, TypeOK
<1>2. ~Waits(t, "dead") /\ \A k \in Thread : ~Waits(k, "dead")
  BY NotInLine DEF EndInv
<1>3. pc[Recv] # "ended"
  BY DEF EndInv
<1>4. t = Echo => ~Served
  BY ThreadAssumption DEF EndInv
<1>5. t = Recv => (Served <=> s = "dead")
  BY <1>2 DEF Served
<1>6. CASE /\ pc' = [pc EXCEPT ![t] = AfterPost(t, s)] /\ UNCHANGED posting
           /\ wrshut' = (wrshut \/ s = "dead")
  <2>1. \A k, x : Waits(k, x)' <=> Waits(k, x)
    BY <1>6 DEF Waits
  <2>2. pc'[t] = IF s = "main" THEN "run" ELSE "ended"
    BY <1>6 DEF TypeOK, AfterPost
  <2>3. Served' => Served
    BY <1>1, <1>2, <1>5, <2>1, <2>2, Threads DEF Served
  <2>4. Served' => pc'[Echo] = "ended"
    BY <1>1, <1>4, <2>3, Threads DEF EndInv
  <2>5. pc'[Recv] = "ended" => s = "dead" /\ wrshut'
    BY <1>1, <1>3, <1>6, <2>2, Threads
  <2> QED
    BY <1>1, <1>2, <2>1, <2>3, <2>4, <2>5 DEF EndInv
<1>7. CASE /\ posting' = Append(posting, [by |-> t, to |-> s])
           /\ pc' = [pc EXCEPT ![t] = "post"]
  <2>1. /\ Len(posting) \in Nat /\ Len(posting') = Len(posting) + 1
        /\ \A i \in 1..Len(posting) : posting'[i] = posting[i]
        /\ posting'[Len(posting) + 1] = [by |-> t, to |-> s]
    <3>1. /\ posting \in Seq([by : Thread, to : {"main", "dead"}])
          /\ [by |-> t, to |-> s] \in [by : Thread, to : {"main", "dead"}]
      BY DEF TypeOK
    <3> QED
      BY <1>7, <3>1, AppendPlaces
  <2>2. \A k \in Thread : Waits(k, "dead")' => k = t /\ s = "dead"
    BY <1>2, <2>1 DEF Waits
  <2>3. pc'[t] = "post"
    BY <1>7 DEF TypeOK
  <2>4. Served' => Served
    BY <1>1, <1>5, <2>2, <2>3, Threads DEF Served
  <2>5. Served' => pc'[Echo] = "ended"
    BY <1>1, <1>4, <2>4, Threads DEF EndInv
  <2>6. pc'[Recv] # "ended"
    BY <1>1, <1>3, <2>3, Threads
  <2> QED
    BY <1>1, <2>2, <2>4, <2>5, <2>6 DEF EndInv
<1> QED
  BY <1>6, <1>7 DEF SetState

\* close() by a greenlet that runs, or by serve at its end.
LEMMA CloseEnds ==
  ASSUME TypeOK, PostLine, EndInv, NEW t \in Thread, CloseBy(t), UNCHANGED <<up, spc>>,
         pc[t] = IF t = Recv THEN "kill" ELSE "run"
  PROVE  EndInv'
<1>1. CASE state = "dead"
  <2>1. /\ pc' = [pc EXCEPT ![t] = "ended"] /\ wrshut' = TRUE /\ state' = "dead"
        /\ UNCHANGED posting
    BY <1>1 DEF CloseBy, events
  <2>2. \A k, x : Waits(k, x)' <=> Waits(k, x)
    BY <2>1 DEF Waits
  <2>3. pc'[t] = "ended" /\ \A k \in Thread \ {t} : pc'[k] = pc[k]
    BY <2>1 DEF TypeOK
  <2>4. Served' => Served
    BY <2>2, <2>3, Threads DEF Served
  <2>5. Served' => pc'[Echo] = "ended"
    BY <2>3, <2>4, Threads DEF EndInv
  <2> QED
    BY <2>1, <2>4, <2>5 DEF EndInv
<1>2. CASE state # "dead"
  BY <1>2, SetStateEnds DEF CloseBy
<1> QED
  BY <1>1, <1>2

\* The receive loop ends: serve kills the other two.
LEMMA RecvEnds ==
  ASSUME TypeOK, PostLine, UpMeansSending, EndInv, RecvLoopEnds
  PROVE  EndInv'
<1>1. /\ ~up' /\ spc' = "ended" /\ UNCHANGED state
      /\ pc' = [pc EXCEPT ![Echo] = "ended", ![Recv] = "kill"]
  BY DEF RecvLoopEnds, KillEcho, EndSendLoop, UpMeansSending
<1>2. pc'[Echo] = "ended" /\ pc'[Recv] = "kill"
  BY <1>1, Threads, ThreadAssumption DEF TypeOK
<1>3. ASSUME NEW t \in Thread, Waits(t, "dead")' PROVE Waits(t, "dead")
  <2>1. CASE UNCHANGED posting
    BY <1>3, <2>1 DEF Waits
  <2>2. CASE \E j \in DOMAIN posting : posting' = RemoveAt(posting, j)
    <3>1. PICK j \in DOMAIN posting : posting' = RemoveAt(posting, j)
      BY <2>2
    <3>2. /\ Len(posting) \in Nat /\ Len(posting') = Len(posting) - 1
          /\ \A i \in 1..Len(posting) - 1 :
               posting'[i] = IF i < j THEN posting[i] ELSE posting[i + 1]
      BY <3>1, RemovePlaces DEF TypeOK
    <3>3. PICK i \in 1..Len(posting) - 1 : posting'[i].by = t /\ posting'[i].to = "dead"
      BY <1>3, <3>2 DEF Waits
    <3>4. i \in 1..Len(posting) /\ i + 1 \in 1..Len(posting)
      BY <3>2
    <3> QED
      BY <3>2, <3>3, <3>4 DEF Waits
  <2> QED
    BY <2>1, <2>2 DEF RecvLoopEnds, KillEcho
<1> QED
  BY <1>1, <1>2, <1>3 DEF EndInv

\* A post that gets its slot: Recv ends if it was that of its close().
LEMMA SlotFreedEnds ==
  ASSUME TypeOK, PostLine, EndInv, SlotFreed
  PROVE  EndInv'
<1> DEFINE p == Head(posting)
<1>1. /\ Len(posting) \in Nat \ {0} /\ Len(posting') = Len(posting) - 1
      /\ p = posting[1] /\ p \in [by : Thread, to : {"main", "dead"}]
      /\ \A i \in 1..Len(posting) - 1 : posting'[i] = posting[i + 1]
      /\ pc' = [pc EXCEPT ![p.by] = AfterPost(p.by, p.to)]
      /\ wrshut' = (wrshut \/ p.to = "dead")
      /\ UNCHANGED <<state, up, spc>>
  BY TailPlaces, TakeType DEF SlotFreed, TypeOK, sending
<1>2. Waits(p.by, p.to)
  BY <1>1 DEF Waits
<1>3. \A t, s : Waits(t, s)' => Waits(t, s)
  <2> SUFFICES ASSUME NEW t, NEW s, Waits(t, s)' PROVE Waits(t, s)
    OBVIOUS
  <2>1. PICK i \in 1..Len(posting) - 1 : posting'[i].by = t /\ posting'[i].to = s
    BY <1>1 DEF Waits
  <2>2. i + 1 \in 1..Len(posting)
    BY <1>1
  <2> QED
    BY <1>1, <2>1, <2>2 DEF Waits
<1>4. /\ p.by \in Thread /\ pc'[p.by] = IF p.to = "main" THEN "run" ELSE "ended"
      /\ \A k \in Thread \ {p.by} : pc'[k] = pc[k]
  BY <1>1 DEF TypeOK, AfterPost
<1>5. Served' => Served
  BY <1>1, <1>2, <1>3, <1>4, Threads DEF Served
<1>6. pc[p.by] = "post"
  BY <1>2, <1>4, NotInLine
<1>7. Served' => pc'[Echo] = "ended"
  <2> SUFFICES ASSUME Served PROVE pc'[Echo] = "ended"
    BY <1>5
  <2>1. pc[Echo] = "ended"
    BY DEF EndInv
  <2>2. p.by # Echo
    BY <1>6, <2>1
  <2> QED
    BY <1>4, <2>1, <2>2, Threads
<1>8. pc'[Recv] = "ended" => state = "dead" /\ wrshut'
  <2> SUFFICES ASSUME pc'[Recv] = "ended" PROVE state = "dead" /\ wrshut'
    OBVIOUS
  <2>1. CASE p.by = Recv
    <3>1. p.to = "dead"
      BY <1>1, <1>4, <2>1
    <3>2. state = "dead"
      BY <1>2, <1>4, <3>1 DEF EndInv
    <3> QED
      BY <1>1, <3>1, <3>2
  <2>2. CASE p.by # Recv
    <3>1. state = "dead" /\ wrshut
      BY <1>4, <2>2, Threads DEF EndInv
    <3> QED
      BY <1>1, <3>1
  <2> QED
    BY <2>1, <2>2
<1> QED
  BY <1>1, <1>3, <1>5, <1>7, <1>8 DEF EndInv

\* The semaphore is granted to a greenlet that waits for it.
LEMMA GrantedEnds ==
  ASSUME TypeOK, SemLine, PostLine, EndInv, Granted
  PROVE  EndInv'
<1> DEFINE t == Head(waiters)
<1>1. /\ Len(waiters) \in Nat \ {0} /\ t = waiters[1] /\ t \in Thread
      /\ pc' = [pc EXCEPT ![t] = "run"] /\ UNCHANGED <<state, up, spc, wrshut, posting>>
  BY TailPlaces, TakeType DEF Granted, TypeOK, events
<1>2. pc[t] = "sem"
  <2>1. 1 \in 1..Len(waiters)
    BY <1>1
  <2> QED
    BY <1>1, <2>1 DEF SemLine, Lined, AtSem
<1>3. pc'[t] = "run" /\ \A k \in Thread \ {t} : pc'[k] = pc[k]
  BY <1>1 DEF TypeOK
<1>4. \A k, s : Waits(k, s)' <=> Waits(k, s)
  BY <1>1 DEF Waits
<1>5. Served' => Served
  BY <1>3, <1>4, Threads DEF Served
<1>6. Served' => pc'[Echo] = "ended"
  BY <1>1, <1>2, <1>3, <1>5, Threads DEF EndInv
<1>7. pc'[Recv] = "ended" => pc[Recv] = "ended"
  BY <1>3, Threads
<1> QED
  BY <1>1, <1>4, <1>5, <1>6, <1>7 DEF EndInv

\* Every step keeps the end what it is.
LEMMA EndStep == IInv /\ LInv /\ EndInv /\ [Next]_vars => EndInv'
<1> SUFFICES ASSUME IInv, LInv, EndInv, [Next]_vars PROVE EndInv'
  OBVIOUS
<1>1. TypeOK /\ SemLine /\ PostLine /\ UpMeansSending
  BY DEF IInv, LInv
<1>2. ASSUME NEW t \in Thread, NEW m, Send(t, m), pc[t] = "run",
             UNCHANGED <<spc, wrshut, posting>>, state' = state \/ state # "dead"
      PROVE  EndInv'
  BY <1>1, <1>2, SendEnds
<1>3. CASE HelloHandler \/ HelloFailed \/ SwitchFeaturesHandler \/ EchoRequestHandler
           \/ EchoRequest \/ \E a \in App : AppSends(a)
  <2>1. PICK t \in Thread : \E m : Send(t, m) /\ pc[t] = "run"
    BY <1>3, Threads DEF HelloHandler, HelloFailed, SwitchFeaturesHandler, EchoRequestHandler,
                         EchoRequest, AppSends, Receiving
  <2>2. UNCHANGED <<spc, wrshut, posting>> /\ (state' = state \/ state # "dead")
    BY <1>3 DEF HelloHandler, HelloFailed, SwitchFeaturesHandler, EchoRequestHandler,
                EchoRequest, AppSends, events
  <2> QED
    BY <1>2, <2>1, <2>2
<1>4. CASE MultipartReplyHandler
  <2>1. SetState(Recv, "main") /\ pc[Recv] = "run" /\ state # "dead" /\ UNCHANGED <<up, spc>>
    BY <1>4 DEF MultipartReplyHandler, Receiving, sending
  <2> QED
    BY <1>1, <2>1, SetStateEnds, Threads
<1>5. CASE ServeCloses \/ EchoCloses \/ Replaced
  <2>1. \E t \in {Recv, Echo, Ext} : CloseBy(t) /\ pc[t] = (IF t = Recv THEN "kill" ELSE "run")
    BY <1>5, ThreadAssumption DEF ServeCloses, EchoCloses, Replaced
  <2>2. UNCHANGED <<up, spc>>
    BY <1>5 DEF ServeCloses, EchoCloses, Replaced, sending
  <2> QED
    BY <1>1, <2>1, <2>2, CloseEnds, Threads
<1>6. CASE EchoReplyHandler \/ Get \/ Sent \/ UNCHANGED vars
  <2>1. /\ UNCHANGED <<state, up, pc, wrshut, posting>>
        /\ spc # "ended" \/ spc' = spc
    BY <1>6 DEF EchoReplyHandler, Get, Sent, vars, sending, events
  <2>2. \A k, s : Waits(k, s)' <=> Waits(k, s)
    BY <2>1 DEF Waits
  <2> QED
    BY <2>1, <2>2 DEF EndInv, Served
<1>7. CASE SentLast \/ SendFails
  <2>1. UNCHANGED <<state, pc, posting>> /\ ~up' /\ spc' = "ended" /\ wrshut'
    BY <1>7 DEF SentLast, SendFails, EndSendLoop, events
  <2>2. \A k, s : Waits(k, s)' <=> Waits(k, s)
    BY <2>1 DEF Waits
  <2> QED
    BY <2>1, <2>2 DEF EndInv, Served
<1> QED
  BY <1>1, <1>3, <1>4, <1>5, <1>6, <1>7, RecvEnds, SlotFreedEnds, GrantedEnds
     DEF Next, Handlers, SendLoop

LEMMA EndInit == Init => EndInv
<1> SUFFICES ASSUME Init PROVE EndInv
  OBVIOUS
<1>1. Len(posting) = 0 /\ pc[Recv] = "run"
  BY Threads, ThreadAssumption DEF Init
<1> QED
  BY <1>1 DEF EndInv, Served, Waits

LEMMA Ends == Spec => []EndInv
BY EndInit, EndStep, Invariant, Lines, PTL DEF Spec

\* Whoever waits for _send_q_sem can be woken.
THEOREM WaitersCanWake == Spec => []NoLostWakeup
<1>1. IInv => NoLostWakeup
  BY EmptySeq, MaxAssumption DEF IInv, TypeOK, SlotsBalance, UpMeansSending, NoLostWakeup
<1> QED
  BY <1>1, Invariant, PTL

\* A Datapath that serve has left is dead in every part.
THEOREM ServedIsGone == Spec => []NothingLeft
<1>1. IInv /\ EndInv => NothingLeft
  BY DEF IInv, SlotsBalance, EndInv, Served, NothingLeft
<1> QED
  BY <1>1, Invariant, Ends, PTL

-----------------------------------------------------------------------------
(* The scope of DeadIsAnnounced: maximum_unreplied_echo_requests at its     *)
(* default, 0, for which the echo loop returns at once.                    *)

\* DEAD is in the observer's queue, or waits for a slot of it.
DeadSaid ==
  \/ \E i \in 1..Len(posted) : posted[i] = "dead"
  \/ \E i \in 1..Len(posting) : posting[i].to = "dead"

\* There is no echo loop to kill, and who sets DEAD says so.
SaidInv == EchoMax = 0 => pc[Echo] = "ended" /\ (state = "dead" => DeadSaid)

\* set_state says what it sets, and forgets nothing.
LEMMA SetStateSays ==
  ASSUME TypeOK, NEW t \in Thread, NEW s \in {"main", "dead"}, SetState(t, s)
  PROVE  s = "dead" \/ DeadSaid => DeadSaid'
<1>1. CASE posted' = Append(posted, s) /\ UNCHANGED posting
  <2>1. /\ Len(posted) \in Nat /\ Len(posted') = Len(posted) + 1
        /\ \A i \in 1..Len(posted) : posted'[i] = posted[i]
        /\ posted'[Len(posted) + 1] = s
    BY <1>1, AppendPlaces DEF TypeOK
  <2>2. Len(posted) + 1 \in 1..Len(posted') /\ \A i \in 1..Len(posted) : i \in 1..Len(posted')
    BY <2>1
  <2> QED
    BY <1>1, <2>1, <2>2 DEF DeadSaid
<1>2. CASE posting' = Append(posting, [by |-> t, to |-> s]) /\ UNCHANGED posted
  <2>1. /\ Len(posting) \in Nat /\ Len(posting') = Len(posting) + 1
        /\ \A i \in 1..Len(posting) : posting'[i] = posting[i]
        /\ posting'[Len(posting) + 1] = [by |-> t, to |-> s]
    <3>1. /\ posting \in Seq([by : Thread, to : {"main", "dead"}])
          /\ [by |-> t, to |-> s] \in [by : Thread, to : {"main", "dead"}]
      BY DEF TypeOK
    <3> QED
      BY <1>2, <3>1, AppendPlaces
  <2>2. Len(posting) + 1 \in 1..Len(posting') /\ \A i \in 1..Len(posting) : i \in 1..Len(posting')
    BY <2>1
  <2> QED
    BY <1>2, <2>1, <2>2 DEF DeadSaid
<1> QED
  BY <1>1, <1>2 DEF SetState

\* A post that gets its slot is said there.
LEMMA SlotFreedSays ==
  ASSUME TypeOK, SlotFreed, DeadSaid
  PROVE  DeadSaid'
<1> DEFINE p == Head(posting)
<1>1. /\ Len(posting) \in Nat \ {0} /\ Len(posting') = Len(posting) - 1
      /\ p = posting[1] /\ p \in [by : Thread, to : {"main", "dead"}]
      /\ \A i \in 1..Len(posting) - 1 : posting'[i] = posting[i + 1]
      /\ posted' = Append(posted, p.to)
  BY TailPlaces, TakeType DEF SlotFreed, TypeOK
<1>2. /\ Len(posted) \in Nat /\ Len(posted') = Len(posted) + 1
      /\ \A i \in 1..Len(posted) : posted'[i] = posted[i]
      /\ posted'[Len(posted) + 1] = p.to
  BY <1>1, AppendPlaces DEF TypeOK
<1> HIDE DEF p
<1>3. CASE \E i \in 1..Len(posted) : posted[i] = "dead"
  BY <1>2, <1>3 DEF DeadSaid
<1>4. CASE \E i \in 1..Len(posting) : posting[i].to = "dead"
  <2>1. PICK i \in 1..Len(posting) : posting[i].to = "dead"
    BY <1>4
  <2>2. CASE i = 1
    <3>1. p.to = "dead" /\ Len(posted) + 1 \in 1..Len(posted')
      BY <1>1, <1>2, <2>1, <2>2
    <3> QED
      BY <1>2, <3>1 DEF DeadSaid
  <2>3. CASE i # 1
    <3>1. i - 1 \in 1..Len(posting) - 1 /\ i - 1 + 1 = i
      BY <1>1, <2>3
    <3>2. posting'[i - 1].to = "dead"
      BY <1>1, <2>1, <3>1
    <3> QED
      BY <1>1, <3>1, <3>2 DEF DeadSaid
  <2> QED
    BY <2>2, <2>3
<1> QED
  BY <1>3, <1>4 DEF DeadSaid

\* Every step keeps it.
LEMMA SaidStep == IInv /\ LInv /\ SaidInv /\ [Next]_vars => SaidInv'
<1> SUFFICES ASSUME IInv, LInv, SaidInv, [Next]_vars, EchoMax = 0 PROVE SaidInv'
  BY DEF SaidInv
<1>1. TypeOK /\ SemLine /\ PostLine
  BY DEF IInv, LInv
<1>2. pc[Echo] = "ended" /\ (state = "dead" => DeadSaid)
  BY DEF SaidInv
<1>3. CASE HelloHandler \/ HelloFailed \/ SwitchFeaturesHandler \/ EchoRequestHandler
           \/ \E a \in App : AppSends(a)
  <2>1. PICK t \in Thread \ {Echo} : \E m : Send(t, m)
    BY <1>3, Threads, ThreadAssumption
       DEF HelloHandler, HelloFailed, SwitchFeaturesHandler, EchoRequestHandler, AppSends
  <2>2. pc'[Echo] = pc[Echo]
    BY <1>1, <2>1, Threads DEF Send, TypeOK
  <2>3. UNCHANGED <<posting, posted>> /\ (state' = state \/ state' = "config")
    BY <1>3 DEF HelloHandler, HelloFailed, SwitchFeaturesHandler, EchoRequestHandler,
                AppSends, events
  <2> QED
    BY <1>2, <2>2, <2>3 DEF SaidInv, DeadSaid
<1>4. CASE MultipartReplyHandler
  <2>1. SetState(Recv, "main")
    BY <1>4 DEF MultipartReplyHandler
  <2>2. state' = "main" /\ pc'[Echo] = pc[Echo]
    BY <1>1, <2>1, Threads, ThreadAssumption DEF SetState, TypeOK
  <2> QED
    BY <1>2, <2>2 DEF SaidInv
<1>5. CASE ServeCloses \/ Replaced
  <2>1. PICK t \in {Recv, Ext} : CloseBy(t)
    BY <1>5 DEF ServeCloses, Replaced
  <2>2. t \in Thread /\ t # Echo
    BY Threads, ThreadAssumption
  <2>3. pc'[Echo] = pc[Echo]
    BY <1>1, <2>1, <2>2, Threads DEF CloseBy, SetState, TypeOK
  <2>4. DeadSaid'
    <3>1. CASE state = "dead"
      BY <1>2, <2>1, <3>1 DEF CloseBy, events, DeadSaid
    <3>2. CASE state # "dead"
      BY <1>1, <2>1, <2>2, <3>2, SetStateSays DEF CloseBy
    <3> QED
      BY <3>1, <3>2
  <2> QED
    BY <1>2, <2>3, <2>4 DEF SaidInv
<1>6. CASE EchoRequest \/ EchoCloses
  BY <1>2, <1>6 DEF EchoRequest, EchoCloses
<1>7. CASE EchoReplyHandler \/ SendLoop \/ UNCHANGED vars
  BY <1>2, <1>7 DEF EchoReplyHandler, SendLoop, Get, Sent, SentLast, SendFails, vars, sending,
                    events, SaidInv, DeadSaid
<1>8. CASE RecvLoopEnds
  <2>1. pc'[Echo] = "ended"
    BY <1>1, <1>8, Threads, ThreadAssumption DEF RecvLoopEnds, KillEcho, TypeOK
  <2>2. UNCHANGED <<state, posting, posted>>
    BY <1>2, <1>8 DEF RecvLoopEnds, KillEcho
  <2> QED
    BY <1>2, <2>1, <2>2 DEF SaidInv, DeadSaid
<1>9. CASE Granted
  <2>1. pc' = [pc EXCEPT ![Head(waiters)] = "run"] /\ Head(waiters) = waiters[1]
        /\ Len(waiters) \in Nat \ {0} /\ UNCHANGED <<state, posting, posted>>
    BY <1>1, <1>9, TailPlaces, TakeType DEF Granted, TypeOK, events
  <2>2. 1 \in 1..Len(waiters)
    BY <2>1
  <2>3. Head(waiters) # Echo
    BY <1>1, <1>2, <2>1, <2>2 DEF SemLine, Lined, AtSem
  <2>4. pc'[Echo] = pc[Echo]
    BY <1>1, <2>1, <2>3, Threads DEF TypeOK
  <2> QED
    BY <1>2, <2>1, <2>4 DEF SaidInv, DeadSaid
<1>10. CASE SlotFreed
  <2>1. /\ pc' = [pc EXCEPT ![posting[1].by] = AfterPost(posting[1].by, posting[1].to)]
        /\ Len(posting) \in Nat \ {0} /\ UNCHANGED state
    BY <1>1, <1>10, TailPlaces, TakeType DEF SlotFreed, TypeOK
  <2>2. 1 \in 1..Len(posting)
    BY <2>1
  <2>3. By[1] = posting[1].by
    BY <2>2 DEF By
  <2>4. posting[1].by # Echo
    BY <1>1, <1>2, <2>2, <2>3 DEF PostLine, Lined, AtPost
  <2>5. pc'[Echo] = pc[Echo]
    BY <1>1, <2>1, <2>4, Threads DEF TypeOK
  <2> QED
    BY <1>1, <1>2, <1>10, <2>1, <2>5, SlotFreedSays DEF SaidInv
<1> QED
  BY <1>3, <1>4, <1>5, <1>6, <1>7, <1>8, <1>9, <1>10 DEF Next, Handlers

LEMMA SaidInit == Init => SaidInv
BY Threads DEF Init, SaidInv

\* With the default of the option every Datapath that serve has left was
\* announced as DEAD, or its announcement waits for a slot.
THEOREM AnnouncedByDefault == EchoMax = 0 /\ Spec => []DeadIsAnnounced
<1>1. Spec => []SaidInv
  BY SaidInit, SaidStep, Invariant, Lines, PTL DEF Spec
<1>2. IInv /\ EndInv /\ SaidInv /\ EchoMax = 0 => DeadIsAnnounced
  <2> SUFFICES ASSUME IInv, EndInv, SaidInv, EchoMax = 0, pc[Recv] = "ended"
               PROVE  "dead" \in ToSet(posted) \cup {posting[i].to : i \in 1..Len(posting)}
    BY DEF DeadIsAnnounced
  <2>1. DeadSaid
    BY DEF EndInv, SaidInv
  <2>2. posted \in Seq({"main", "dead"})
    BY DEF IInv, TypeOK
  <2>3. DOMAIN posted = 1..Len(posted)
    BY <2>2, LenProperties
  <2> QED
    BY <2>1, <2>3 DEF DeadSaid, ToSet
<1> QED
  <2>1. CASE EchoMax = 0
    <3>1. IInv /\ EndInv /\ SaidInv => DeadIsAnnounced
      BY <1>2, <2>1
    <3> QED
      BY <1>1, <3>1, Invariant, Ends, PTL
  <2>2. CASE EchoMax # 0
    BY <2>2
  <2> QED
    BY <2>1, <2>2

-----------------------------------------------------------------------------
(* Waiting in send.                                                        *)

\* Nobody in send is ever overtaken: until the semaphore is granted to it, or
\* it is killed, a greenlet only moves towards the head of the line, wherever
\* others are killed or queue up.  NoLostWakeup makes the head move on.
SenderAdvances ==
  [][\A i \in 1..Len(waiters) :
       pc'[waiters[i]] = "sem" =>
         \E j \in 1..Len(waiters') : waiters'[j] = waiters[i] /\ j <= i]_vars

Advances(i) ==
  pc'[waiters[i]] = "sem" =>
    \E j \in 1..Len(waiters') : waiters'[j] = waiters[i] /\ j <= i

\* A line as it was, or longer, keeps its places.
LEMMA PlaceKept ==
  ASSUME TypeOK, NEW i \in 1..Len(waiters),
         \/ UNCHANGED waiters
         \/ \E t \in Thread : waiters' = Append(waiters, t)
  PROVE  Advances(i)
<1>1. Len(waiters) \in Nat
  BY LenProperties DEF TypeOK
<1>2. i \in 1..Len(waiters') /\ waiters'[i] = waiters[i]
  BY <1>1, AppendPlaces DEF TypeOK
<1> QED
  BY <1>2 DEF Advances

\* The semaphore granted, and the echo loop killed.
LEMMA GrantAdvances ==
  ASSUME TypeOK, NEW i \in 1..Len(waiters), Granted
  PROVE  Advances(i)
<1>1. /\ Len(waiters) \in Nat \ {0} /\ Len(waiters') = Len(waiters) - 1
      /\ Head(waiters) = waiters[1] /\ Head(waiters) \in Thread
      /\ \A k \in 1..Len(waiters) - 1 : waiters'[k] = waiters[k + 1]
      /\ pc' = [pc EXCEPT ![waiters[1]] = "run"]
  BY TailPlaces, TakeType DEF Granted, TypeOK
<1>2. CASE i = 1
  BY <1>1, <1>2 DEF TypeOK, Advances
<1>3. CASE i # 1
  <2>1. i - 1 \in 1..Len(waiters) - 1 /\ i - 1 + 1 = i /\ i - 1 <= i
    BY <1>1, <1>3
  <2> QED
    BY <1>1, <2>1 DEF Advances
<1> QED
  BY <1>2, <1>3

LEMMA KillAdvances ==
  ASSUME TypeOK, NEW i \in 1..Len(waiters), KillEcho
  PROVE  Advances(i)
<1>1. CASE UNCHANGED waiters
  BY <1>1, PlaceKept
<1>2. CASE \E k \in DOMAIN waiters : waiters[k] = Echo /\ waiters' = RemoveAt(waiters, k)
  <2>1. PICK k \in DOMAIN waiters : waiters[k] = Echo /\ waiters' = RemoveAt(waiters, k)
    BY <1>2
  <2>2. /\ Len(waiters) \in Nat /\ k \in 1..Len(waiters) /\ Len(waiters') = Len(waiters) - 1
        /\ \A j \in 1..Len(waiters) - 1 :
             waiters'[j] = IF j < k THEN waiters[j] ELSE waiters[j + 1]
    BY <2>1, RemovePlaces DEF TypeOK
  <2>3. CASE i < k
    <3>1. i \in 1..Len(waiters')
      BY <2>2, <2>3
    <3> QED
      BY <2>2, <2>3, <3>1 DEF Advances
  <2>4. CASE i = k
    <3>1. pc'[Echo] # "sem"
      BY Threads, ThreadAssumption DEF KillEcho, TypeOK
    <3> QED
      BY <2>1, <2>4, <3>1 DEF Advances
  <2>5. CASE i > k
    <3>1. i - 1 \in 1..Len(waiters') /\ ~(i - 1 < k) /\ i - 1 + 1 = i /\ i - 1 <= i
      BY <2>2, <2>5
    <3> QED
      BY <2>2, <3>1 DEF Advances
  <2> QED
    BY <2>2, <2>3, <2>4, <2>5
<1> QED
  BY <1>1, <1>2 DEF KillEcho

\* The line of _send_q_sem is served in order.
THEOREM SendInOrder == Spec => SenderAdvances
<1>1. IInv /\ [Next]_vars => \A i \in 1..Len(waiters) : Advances(i)
  <2> SUFFICES ASSUME TypeOK, [Next]_vars, NEW i \in 1..Len(waiters) PROVE Advances(i)
    BY DEF IInv
  <2>1. CASE HelloHandler \/ HelloFailed \/ SwitchFeaturesHandler \/ EchoRequestHandler
             \/ EchoRequest \/ \E a \in App : AppSends(a)
    <3>1. \E t \in Thread : \E m : Send(t, m)
      BY <2>1, Threads DEF HelloHandler, HelloFailed, SwitchFeaturesHandler,
                           EchoRequestHandler, EchoRequest, AppSends
    <3> QED
      BY <3>1, PlaceKept DEF Send
  <2>2. CASE \/ MultipartReplyHandler \/ EchoReplyHandler \/ ServeCloses \/ EchoCloses
             \/ Replaced \/ SendLoop \/ SlotFreed \/ UNCHANGED vars
    <3>1. UNCHANGED waiters
      BY <2>2 DEF MultipartReplyHandler, EchoReplyHandler, ServeCloses, EchoCloses, Replaced,
                  SendLoop, Get, Sent, SentLast, SendFails, SlotFreed, sending, vars
    <3> QED
      BY <3>1, PlaceKept
  <2>3. CASE RecvLoopEnds
    BY <2>3, KillAdvances DEF RecvLoopEnds
  <2>4. CASE Granted
    BY <2>4, GrantAdvances
  <2> QED
    BY <2>1, <2>2, <2>3, <2>4 DEF Next, Handlers
<1>2. IInv /\ [Next]_vars =>
        [\A i \in 1..Len(waiters) :
           pc'[waiters[i]] = "sem" =>
             \E j \in 1..Len(waiters') : waiters'[j] = waiters[i] /\ j <= i]_vars
  BY <1>1 DEF Advances
<1> QED
  BY <1>2, Invariant, PTL DEF Spec, SenderAdvances
=============================================================================
