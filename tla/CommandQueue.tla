---------------------------- MODULE CommandQueue ----------------------------
(***************************************************************************)
(* What a connection promises to the command handlers of hackermud, on the *)
(* server and in the client: the commands of the other side are handled in *)
(* the order they were sent, each at most once and never in part, until    *)
(* one of the sides gives up.                                              *)
(***************************************************************************)
EXTENDS Sequences

CONSTANT Commands

VARIABLES
  pending,   \* sent and not yet handled
  handled,   \* handed to DoNetworkCommand
  sending,   \* the sender has not given up
  open       \* the receiver has not given up

vars == <<pending, handled, sending, open>>

Init ==
  /\ pending = <<>>
  /\ handled = <<>>
  /\ sending = TRUE
  /\ open = TRUE

Send(c) ==
  /\ sending
  /\ pending' = Append(pending, c)
  /\ UNCHANGED <<handled, sending, open>>

Handle ==
  /\ open
  /\ pending # <<>>
  /\ handled' = Append(handled, Head(pending))
  /\ pending' = Tail(pending)
  /\ open' \in BOOLEAN   \* the handler may refuse the command
  /\ UNCHANGED sending

StopSending == sending /\ sending' = FALSE /\ UNCHANGED <<pending, handled, open>>

Close == open /\ open' = FALSE /\ UNCHANGED <<pending, handled, sending>>

Next ==
  \/ \E c \in Commands : Send(c)
  \/ Handle
  \/ StopSending
  \/ Close

Spec == Init /\ [][Next]_vars

=============================================================================
