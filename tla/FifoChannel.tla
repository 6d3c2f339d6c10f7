---------------------------- MODULE FifoChannel ----------------------------
(***************************************************************************)
(* What Datapath.send promises the applications: messages it accepts reach *)
(* the switch in the order of acceptance, none is skipped, at most Cap are *)
(* on their way, and the channel can only fail as a whole, for good.       *)
(***************************************************************************)
EXTENDS Naturals, Sequences

CONSTANTS Msg,      \* messages
          Closing,  \* those sent with close_socket=True
          Hello,    \* the message that opens every connection
          Cap       \* messages that may be on their way

VARIABLES line, \* accepted and not yet delivered
          open  \* the channel still accepts

fvars == <<line, open>>

FInit == line = <<Hello>> /\ open = TRUE

Accept(m) ==
  /\ open /\ Len(line) < Cap
  /\ line' = Append(line, m)
  /\ UNCHANGED open

\* A closing message is the last that is delivered.
Deliver ==
  /\ open /\ line # <<>>
  /\ IF Head(line) \in Closing
     THEN line' = <<>> /\ open' = FALSE
     ELSE line' = Tail(line) /\ UNCHANGED open

Break == open /\ open' = FALSE /\ line' = <<>>

FNext == (\E m \in Msg : Accept(m)) \/ Deliver \/ Break

FSpec == FInit /\ [][FNext]_fvars
=============================================================================
