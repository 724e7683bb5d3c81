----------------------------- MODULE SessionWait -----------------------------
(***************************************************************************)
(* Session with sends that wait.  The sockets of the hackermud server      *)
(* block: a client that does not read its socket can fill it, and then the *)
(* one thread of the server waits in send() (socketbase.cpp) for as long   *)
(* as that client likes.  The step that sends is shown at the start of the *)
(* wait; nobody but the thread that waits could tell the difference.       *)
(***************************************************************************)
EXTENDS Session

VARIABLE waiting   \* the server is in a send() that does not return

waitVars == <<vars, waiting>>

WaitInit == Init /\ waiting = FALSE

\* The calls that send something to a client.
Sends == Accept \/ Login \/ Play \/ Update \/ Reap

\* One step of the server's loop; one that sends may get stuck.
ServerStep ==
  /\ ~ waiting
  /\ Next
  /\ waiting' \in BOOLEAN
  /\ waiting' => Sends

\* The client has read, or is gone.
SendReturns ==
  /\ waiting
  /\ waiting' = FALSE
  /\ UNCHANGED vars

\* The loop of main goes on unless it waits in a send; a client need never read.
WaitSpec ==
  /\ WaitInit
  /\ [][ServerStep \/ SendReturns]_waitVars
  /\ WF_waitVars(ServerStep)

-----------------------------------------------------------------------------
(* Properties *)

\* Unless one send waits for ever, every connection is read or deleted again
\* and again, however often sends wait in between: the inactivity timer removes
\* the clients that connect and say nothing, in every state of the login
\* (main.cpp:107).
NoSilentConnection ==
  ~ <>[]waiting =>
    \A c \in Conns :
      []<>(crash # "no" \/ cstate[c] = "none" \/ (inRead /\ Head(cursor) = c))

=============================================================================
