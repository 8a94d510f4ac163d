----------------------------- MODULE FastQChannel -----------------------------
(***************************************************************************)
(* What one ring of fastq promises its two users: a bounded first-in       *)
(* first-out channel.                                                      *)
(*                                                                         *)
(* FastQSend returns only once its message is in the channel, whatever     *)
(* the time it takes; FastQTrySend gives up only if, at some moment of the *)
(* call, the channel held Capacity messages.  The receiver takes the       *)
(* oldest message, and the handler is called with each message once, in    *)
(* the order in which they were accepted, header and body of one send.     *)
(***************************************************************************)
EXTENDS Naturals, Sequences

CONSTANTS Capacity, Msg, NoMsg

VARIABLES
  queue,    \* accepted and not yet taken by the receiver
  inHand,   \* taken by the receiver, as a sequence of at most one message
  out,      \* what the handler was last called with
  phase,    \* of the sender's call: idle, sending, refused or accepted
  api,      \* the function called
  msg       \* its message

vars == <<queue, inHand, out, phase, api, msg>>

Init ==
  /\ queue = <<>> /\ inHand = <<>> /\ out = NoMsg
  /\ phase = "idle" /\ api = "FastQSend" /\ msg = NoMsg

Call(f, m) ==
  /\ phase = "idle"
  /\ phase' = "sending" /\ api' = f /\ msg' = m
  /\ UNCHANGED <<queue, inHand, out>>

Accept ==
  /\ phase = "sending"
  /\ Len(queue) < Capacity
  /\ queue' = Append(queue, msg)
  /\ phase' = "accepted"
  /\ UNCHANGED <<inHand, out, api, msg>>

\* The call sees a full channel.
Refuse ==
  /\ phase = "sending"
  /\ Len(queue) = Capacity
  /\ phase' = "refused"
  /\ UNCHANGED <<queue, inHand, out, api, msg>>

Retry ==
  /\ phase = "refused" /\ api = "FastQSend"
  /\ phase' = "sending"
  /\ UNCHANGED <<queue, inHand, out, api, msg>>

ReturnFalse ==
  /\ phase = "refused" /\ api = "FastQTrySend"
  /\ phase' = "idle" /\ msg' = NoMsg
  /\ UNCHANGED <<queue, inHand, out, api>>

ReturnTrue ==
  /\ phase = "accepted"
  /\ phase' = "idle" /\ msg' = NoMsg
  /\ UNCHANGED <<queue, inHand, out, api>>

Take ==
  /\ inHand = <<>> /\ queue # <<>>
  /\ inHand' = <<Head(queue)>>
  /\ queue' = Tail(queue)
  /\ UNCHANGED <<out, phase, api, msg>>

Deliver ==
  /\ inHand # <<>>
  /\ out' = Head(inHand)
  /\ inHand' = <<>>
  /\ UNCHANGED <<queue, phase, api, msg>>

Next ==
  \/ \E f \in {"FastQSend", "FastQTrySend"}, m \in Msg : Call(f, m)
  \/ Accept \/ Refuse \/ Retry \/ ReturnFalse \/ ReturnTrue
  \/ Take \/ Deliver

Spec == Init /\ [][Next]_vars

\* Accept is strongly fair: a sender that polls is not starved by a channel
\* that fills and drains, nobody else sends on it.
Fairness ==
  /\ SF_vars(Accept)
  /\ WF_vars(ReturnTrue) /\ WF_vars(ReturnFalse)
  /\ WF_vars(Take) /\ WF_vars(Deliver)

FairSpec == Spec /\ Fairness
=============================================================================
