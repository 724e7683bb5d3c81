------------------------------ MODULE ListSpec ------------------------------
(***************************************************************************)
(* What a set of lists with embedded links promises: a node is in one list *)
(* at most, inserting it somewhere takes it out of where it was, and the   *)
(* order of the other nodes never changes.                                 *)
(***************************************************************************)
EXTENDS Naturals, SequencesExt

CONSTANTS Lists, Nodes

VARIABLE contents   \* [Lists -> Seq(Nodes)]

Init == contents = [h \in Lists |-> <<>>]

\* q without n, which it has once at most.
Without(q, n) ==
  IF n \in ToSet(q) THEN RemoveAt(q, CHOOSE i \in DOMAIN q : q[i] = n) ELSE q

Others(n) == [h \in Lists |-> Without(contents[h], n)]

\* n is put behind the first i nodes of the others in h.
Put(h, n, i) ==
  contents' = [Others(n) EXCEPT ![h] = InsertAt(@, i + 1, n)]

Insert(h, n) == \E i \in 0 .. Len(Others(n)[h]) : Put(h, n, i)

Take(n) == contents' = Others(n)

Next == \E n \in Nodes : Take(n) \/ \E h \in Lists : Insert(h, n)

Spec == Init /\ [][Next]_contents

=============================================================================
