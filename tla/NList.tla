------------------------------- MODULE NList -------------------------------
(***************************************************************************)
(* The lists with embedded links of the hackermud server and client        *)
(* (nutil_list.h): connections, players, programs and items are linked by  *)
(* them, and the rows of the hash tables are (nutil_hash.h).               *)
(*                                                                         *)
(* A link has the next object and the previous link.  The low bit of the   *)
(* next pointer marks the end of a list.  A list is a circle of links      *)
(* through its own link; a link in no list is a circle of its own.         *)
(***************************************************************************)
EXTENDS Naturals, Sequences, FiniteSets

CONSTANTS
  Lists,    \* the m_link of the lists
  Nodes,    \* objects with a link
  NoList

ASSUME NListAssumption ==
  /\ Lists \cap Nodes = {}
  /\ NoList \notin Lists
  /\ IsFiniteSet(Nodes)

Links == Lists \cup Nodes

VARIABLES
  alive,    \* objects that are constructed
  next,     \* m_nextNode: the link of the object, and the low bit
  prev,     \* m_prevLink
  emptying, \* the list UnlinkAll or DeleteAll is at work on
  deleting  \* it is DeleteAll

vars == <<alive, next, prev, emptying, deleting>>

Pointers == [to : Links, end : BOOLEAN]

TypeOK ==
  /\ alive \subseteq Nodes
  /\ next \in [Links -> Pointers]
  /\ prev \in [Links -> Links]
  /\ emptying \in Lists \cup {NoList}
  /\ deleting \in BOOLEAN

\* The address of an object, and that of a link with the end bit.
Node(n) == [to |-> n, end |-> FALSE]
End(l) == [to |-> l, end |-> TRUE]

Init ==
  /\ alive = {}
  /\ next = [l \in Links |-> End(l)]
  /\ prev = [l \in Links |-> l]
  /\ emptying = NoList
  /\ deleting = FALSE

-----------------------------------------------------------------------------
(* TLink, on a pair of next and prev *)

\* Mutant: the next link keeps pointing back at the link that goes.
RemovedHalf(s, l) == [s EXCEPT !.next[s.prev[l]] = s.next[l]]

\* RemoveFromList: NextLink()->m_prevLink = m_prevLink, then
\* m_prevLink->m_nextNode = m_nextNode.
RemoveFromList(s, l) ==
  LET back == [s.prev EXCEPT ![s.next[l].to] = s.prev[l]] IN
  [prev |-> back, next |-> [s.next EXCEPT ![back[l]] = s.next[l]]]

InsertBefore(s, n, at) ==
  LET out == RemoveFromList(s, n)
      mid == [prev |-> [out.prev EXCEPT ![n] = out.prev[at]],
              next |-> [out.next EXCEPT ![n] = out.next[out.prev[at]]]]
  IN [prev |-> [mid.prev EXCEPT ![at] = n],
      next |-> [mid.next EXCEPT ![mid.prev[at]] = Node(n)]]

InsertAfter(s, n, at) ==
  LET out == RemoveFromList(s, n)
      mid == [prev |-> [out.prev EXCEPT ![n] = at],
              next |-> [out.next EXCEPT ![n] = out.next[at]]]
  IN [prev |-> [mid.prev EXCEPT ![mid.next[at].to] = n],
      next |-> [mid.next EXCEPT ![at] = Node(n)]]

\* Unlink: the link becomes a circle of its own again.
Unlinked(s, l) ==
  LET out == RemoveFromList(s, l)
  IN [prev |-> [out.prev EXCEPT ![l] = l],
      next |-> [out.next EXCEPT ![l] = End(l)]]

Now == [prev |-> prev, next |-> next]

Become(s) == prev' = s.prev /\ next' = s.next

IsLinked(l) == prev[l] # l

-----------------------------------------------------------------------------
(* The operations *)

\* TLink::TLink
New(n) ==
  /\ emptying = NoList
  /\ n \notin alive
  /\ alive' = alive \cup {n}
  /\ Become([prev |-> [prev EXCEPT ![n] = n], next |-> [next EXCEPT ![n] = End(n)]])
  /\ UNCHANGED <<emptying, deleting>>

\* Where a node may be put: next to another node of a list or, for InsertTail
\* and InsertHead, next to the link of the list.
Place(n, at) == at \in Lists \/ (at \in alive \ {n} /\ IsLinked(at))

ListInsertBefore(n, at) ==
  /\ emptying = NoList
  /\ n \in alive
  /\ Place(n, at)
  /\ Become(InsertBefore(Now, n, at))
  /\ UNCHANGED <<alive, emptying, deleting>>

ListInsertAfter(n, at) ==
  /\ emptying = NoList
  /\ n \in alive
  /\ Place(n, at)
  /\ Become(InsertAfter(Now, n, at))
  /\ UNCHANGED <<alive, emptying, deleting>>

Unlink(n) ==
  /\ emptying = NoList
  /\ n \in alive
  /\ Become(Unlinked(Now, n))
  /\ UNCHANGED <<alive, emptying, deleting>>

\* Mutant: ~TLink leaves the object linked.
DeleteLinked(n) ==
  /\ emptying = NoList
  /\ n \in alive
  /\ alive' = alive \ {n}
  /\ UNCHANGED <<next, prev, emptying, deleting>>

\* delete of an object: ~TLink takes it out of its list.
Delete(n) ==
  /\ emptying = NoList
  /\ n \in alive
  /\ alive' = alive \ {n}
  /\ Become(RemoveFromList(Now, n))
  /\ UNCHANGED <<emptying, deleting>>

\* UnlinkAll unlinks the last node until there is none; DeleteAll deletes
\* the first one.
StartEmptying(h) ==
  /\ emptying = NoList
  /\ emptying' = h
  /\ deleting' \in BOOLEAN
  /\ UNCHANGED <<alive, next, prev>>

UnlinkAll ==
  /\ emptying # NoList /\ ~ deleting
  /\ prev[emptying] # emptying
  /\ Become(Unlinked(Now, prev[emptying]))
  /\ UNCHANGED <<alive, emptying, deleting>>

\* Mutant: the destructor does not unlink.
DeleteAllLinked ==
  /\ emptying # NoList /\ deleting
  /\ ~ next[emptying].end
  /\ alive' = alive \ {next[emptying].to}
  /\ UNCHANGED <<next, prev, emptying, deleting>>

DeleteAll ==
  /\ emptying # NoList /\ deleting
  /\ ~ next[emptying].end
  /\ alive' = alive \ {next[emptying].to}
  /\ Become(RemoveFromList(Now, next[emptying].to))
  /\ UNCHANGED <<emptying, deleting>>

Emptied ==
  /\ emptying # NoList
  /\ IF deleting THEN next[emptying].end ELSE prev[emptying] = emptying
  /\ emptying' = NoList
  /\ UNCHANGED <<alive, next, prev, deleting>>

Next ==
  \/ \E n \in Nodes :
       \/ New(n) \/ Unlink(n) \/ Delete(n)
       \/ \E at \in Links : ListInsertBefore(n, at) \/ ListInsertAfter(n, at)
  \/ \E h \in Lists : StartEmptying(h)
  \/ UnlinkAll \/ DeleteAll \/ Emptied

Spec == Init /\ [][Next]_vars

\* A loop over a list is not interrupted.
FairSpec == Spec /\ WF_vars(UnlinkAll) /\ WF_vars(DeleteAll) /\ WF_vars(Emptied)

-----------------------------------------------------------------------------
(* Queries *)

\* TLink::Next and Prev: the neighbour, or NoList at the end.
NextOf(l) == IF next[l].end THEN NoList ELSE next[l].to

\* Mutant: the object of the previous link is taken for the previous one.
PrevOfNear(l) == LET p == next[prev[l]] IN IF p.end THEN NoList ELSE p.to

PrevOf(l) ==
  LET p == next[prev[prev[l]]] IN IF p.end THEN NoList ELSE p.to

\* The nodes of a list, in the order of Head, Next, Next ...
ListSeq(h) ==
  LET size == Cardinality(Nodes)
      at[i \in 0 .. size] == IF i = 0 THEN h ELSE next[at[i - 1]].to
      n == CHOOSE i \in 0 .. size :
             /\ next[at[i]].end \/ i = size
             /\ \A j \in 0 .. i - 1 : ~ next[at[j]].end
  IN [i \in 1 .. n |-> at[i]]

-----------------------------------------------------------------------------
(* Properties *)

\* A link the program may follow: that of a list or of a living object.
Live == alive \cup Lists

\* On a set of links, next and prev are inverse and lead to links of the set,
\* and the end bit marks the lists and nothing else but a link of its own.
GoodOn(s, V) ==
  \A l \in V :
    /\ s.next[l].to \in V /\ s.prev[s.next[l].to] = l
    /\ s.prev[l] \in V /\ s.next[s.prev[l]].to = l
    /\ s.next[l].to \in Lists => s.next[l].end
    /\ s.next[l].end => (s.next[l].to \in Lists \/ s.next[l].to = l)

\* The live links are coherent: nothing leads to a deleted object, and every
\* loop over Next meets the end.  NextLink computes the place of a link from
\* m_prevLink->m_nextNode, and is right only where this holds.
Coherent == GoodOn(Now, Live)

\* The lists are the sequences that ListSpec says.
Abstract == INSTANCE ListSpec WITH contents <- [h \in Lists |-> ListSeq(h)]
ImplementsListSpec == Abstract!Spec

\* Next and Prev undo each other on every link the program may follow: walking
\* back from any node gives the nodes that walking forward gave, Prev of the
\* first is the end, and Prev of the list is its last node.
PrevAgrees ==
  \A l \in Live :
    LET this == IF l \in Lists THEN NoList ELSE l IN
    /\ NextOf(l) # NoList => PrevOf(NextOf(l)) = this
    /\ PrevOf(l) # NoList => NextOf(PrevOf(l)) = this

\* Emptying a list ends.
EmptyingEnds == (emptying # NoList) ~> (emptying = NoList)

=============================================================================
