---------------------------- MODULE MCLibraries ----------------------------
(***************************************************************************)
(* The linked lists and the commands on a connection, checked side by      *)
(* side: a behaviour is one of NList or of Framing, chosen at the start.   *)
(***************************************************************************)
EXTENDS NList, Framing

VARIABLE part

libVars == <<part, vars, framingVars>>

\* Bytes of four values: the longest body needs both bytes of its length.
MCBodies == {<<>>, <<1>>, <<2, 0, 1, 3>>}

\* Headers whose length wraps with theirs, to all that it can become, and one that just
\* does not; commands, one of them refused, and one whose body does not come.
MCOthers == {<<1>> \o LengthBytes(n) : n \in {12, 13, 15}} \cup {<<3, 1, 0, 3>>, <<2, 0, 0, 1>>}

MCRole == CHOOSE r \in Roles : TRUE

LibInit ==
  /\ part \in {"lists", "framing"}
  /\ Init
  /\ FramingInit
  /\ part = "lists" => role = MCRole

LibNext ==
  \/ part = "lists" /\ Next /\ UNCHANGED <<part, framingVars>>
  \/ part = "framing" /\ FramingNext /\ UNCHANGED <<part, vars>>

\* The fairness of the two parts: a loop over a list goes on; the network
\* delivers and the loop over RecvCommand goes on.
LibSpec ==
  /\ LibInit /\ [][LibNext]_libVars
  /\ WF_libVars(part = "lists" /\ (UnlinkAll \/ DeleteAll \/ Emptied) /\ UNCHANGED <<part, framingVars>>)
  /\ WF_libVars(/\ part = "framing"
                /\ \E n \in 1 .. RecvMax : ReadStream(n) \/ ReadStreamFails(n)
                /\ UNCHANGED <<part, vars>>)
  /\ WF_libVars(part = "framing" /\ (RecvCommand \/ RecvCommandThrows \/ Drained) /\ UNCHANGED <<part, vars>>)

=============================================================================
