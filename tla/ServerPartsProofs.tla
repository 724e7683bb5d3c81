-------------------------- MODULE ServerPartsProofs --------------------------
(***************************************************************************)
(* Proofs about the parts of the hackermud server that share no state with *)
(* one another: NList and Framing, for any number of lists and objects,    *)
(* any commands, sizes of chunks, pieces of the network, widths of a       *)
(* length and values of a byte; SpamTracker, for any names, limits, drops  *)
(* and periods; Reboot, for any delay, any notices and any largest gap     *)
(* between two calls that GapAssumption allows; NPCSpawn, for any          *)
(* programs, rooms, zones and tables.                                      *)
(*                                                                         *)
(* First the links of nutil_list.h: they stay coherent, and the lists they *)
(* make are the sequences of ListSpec.                                     *)
(*                                                                         *)
(* Then the framed stream.  A history of the bytes makes the argument:     *)
(* Flow is what is in the stream followed by what is still in the network, *)
(* and as long as the receiver has its socket it is the commands in sent   *)
(* one behind the other, each at its mark, and at most a part of one more  *)
(* that the sender gave up on.  readPos is the mark of the first command   *)
(* that is not handled.  No step but a sender's adds to Flow, and none     *)
(* changes it.                                                             *)
(*                                                                         *)
(* Last the parts of UpdateEvent.                                          *)
(***************************************************************************)
EXTENDS NList, Framing, SpamTracker, Reboot, NPCSpawn, Loops, SequenceTheorems

-----------------------------------------------------------------------------
(* Lists                                                                   *)

States == [prev : [Links -> Links], next : [Links -> Pointers]]

\* Taking a link out leaves the others coherent.
LEMMA RemoveGood ==
  ASSUME NEW s \in States, NEW V \in SUBSET Links, NEW l \in V, GoodOn(s, V)
  PROVE  /\ RemoveFromList(s, l) \in States
         /\ GoodOn(RemoveFromList(s, l), V \ {l})
<1> DEFINE out == RemoveFromList(s, l)
           back == [s.prev EXCEPT ![s.next[l].to] = s.prev[l]]
<1>1. /\ s.next[l].to \in V /\ s.prev[s.next[l].to] = l
      /\ s.prev[l] \in V /\ s.next[s.prev[l]].to = l
  BY DEF GoodOn
<1>2. back[l] = s.prev[l]
  BY <1>1 DEF States
<1>3. /\ out.prev = back
      /\ out.next = [s.next EXCEPT ![s.prev[l]] = s.next[l]]
  BY <1>2 DEF RemoveFromList
<1>4. out \in States
  <2>1. back \in [Links -> Links]
    BY DEF States
  <2>2. [s.next EXCEPT ![s.prev[l]] = s.next[l]] \in [Links -> Pointers]
    BY DEF States
  <2> QED BY <1>2, <2>1, <2>2 DEF States, RemoveFromList
<1>5. ASSUME NEW x \in V \ {l}
      PROVE  /\ out.next[x].to \in V \ {l} /\ out.prev[out.next[x].to] = x
             /\ out.prev[x] \in V \ {l} /\ out.next[out.prev[x]].to = x
             /\ out.next[x].to \in Lists => out.next[x].end
             /\ out.next[x].end => (out.next[x].to \in Lists \/ out.next[x].to = x)
  <2>1. /\ s.next[x].to \in V /\ s.prev[s.next[x].to] = x
        /\ s.prev[x] \in V /\ s.next[s.prev[x]].to = x
        /\ s.next[x].to \in Lists => s.next[x].end
        /\ s.next[x].end => (s.next[x].to \in Lists \/ s.next[x].to = x)
    BY DEF GoodOn
  <2>2. /\ s.next[l].to \in Lists => s.next[l].end
        /\ s.next[l].end => (s.next[l].to \in Lists \/ s.next[l].to = l)
    BY DEF GoodOn
  <2>3. out.next[x] = IF x = s.prev[l] THEN s.next[l] ELSE s.next[x]
    BY <1>3, <2>1 DEF States
  <2>4. out.prev[x] = IF x = s.next[l].to THEN s.prev[l] ELSE s.prev[x]
    BY <1>3, <2>1 DEF States
  <2>5. CASE x = s.prev[l]
    <3>1. s.next[l].to # l
      BY <1>1, <2>5
    <3>2. out.prev[s.next[l].to] = x
      BY <1>1, <1>3, <2>5 DEF States
    <3>3. out.prev[x] \in V \ {l} /\ out.next[out.prev[x]].to = x
      <4>1. CASE x = s.next[l].to
        BY <4>1, <2>5, <2>3, <2>4, <1>1
      <4>2. CASE x # s.next[l].to
        <5>1. s.prev[x] # l
          BY <4>2, <2>1
        <5>2. s.prev[x] # s.prev[l]
          BY <2>1, <1>1
        <5> QED BY <4>2, <5>1, <5>2, <1>3, <2>1, <2>4 DEF States
      <4> QED BY <4>1, <4>2
    <3> QED BY <1>1, <2>2, <2>3, <2>5, <3>1, <3>2, <3>3
  <2>6. CASE x # s.prev[l]
    <3>1. s.next[x].to # l
      BY <2>1, <2>6
    <3>2. out.prev[s.next[x].to] = x
      <4>1. s.next[x].to # s.next[l].to
        BY <2>1, <1>1
      <4> QED BY <4>1, <1>3, <2>1 DEF States
    <3>3. out.prev[x] \in V \ {l} /\ out.next[out.prev[x]].to = x
      <4>1. CASE x = s.next[l].to
        BY <4>1, <1>1, <1>3, <2>4 DEF States
      <4>2. CASE x # s.next[l].to
        <5>1. s.prev[x] # l /\ s.prev[x] # s.prev[l]
          BY <4>2, <2>1, <1>1
        <5> QED BY <4>2, <5>1, <1>3, <2>1, <2>4 DEF States
      <4> QED BY <4>1, <4>2
    <3> QED BY <2>1, <2>3, <2>6, <3>1, <3>2, <3>3
  <2> QED BY <2>5, <2>6
<1> HIDE DEF out
<1> QED BY <1>4, <1>5 DEF GoodOn, out

\* A linked node that is left alone by this does not look unlinked.
LEMMA RemoveKeepsLinked ==
  ASSUME NEW s \in States, NEW V \in SUBSET Links, NEW l \in V, GoodOn(s, V),
         NEW at \in V \ {l}, at \notin Lists, s.prev[at] # at,
         RemoveFromList(s, l).next[at].to = at
  PROVE  ~ RemoveFromList(s, l).next[at].end
<1>1. /\ s.next[l].to \in V /\ s.prev[s.next[l].to] = l
      /\ s.prev[l] \in V /\ s.next[s.prev[l]].to = l
      /\ s.next[l].end => (s.next[l].to \in Lists \/ s.next[l].to = l)
      /\ s.prev[s.next[at].to] = at
  BY DEF GoodOn
<1>2. [s.prev EXCEPT ![s.next[l].to] = s.prev[l]][l] = s.prev[l]
  BY <1>1 DEF States
<1>3. RemoveFromList(s, l).next = [s.next EXCEPT ![s.prev[l]] = s.next[l]]
  BY <1>2 DEF RemoveFromList
<1>4. CASE at = s.prev[l]
  BY <1>1, <1>3, <1>4 DEF States
<1>5. CASE at # s.prev[l]
  BY <1>1, <1>3, <1>5 DEF States
<1> QED BY <1>4, <1>5

\* Putting a node between two neighbours keeps the links coherent.
LEMMA BetweenGood ==
  ASSUME NEW s \in States, NEW W \in SUBSET Links, GoodOn(s, W),
         NEW n \in Links \ W, n \notin Lists, NEW p \in W, NEW q \in W,
         s.next[p].to = q, s.next[p].end => q \in Lists,
         NEW t \in States,
         t.prev = [s.prev EXCEPT ![n] = p, ![q] = n],
         t.next = [s.next EXCEPT ![n] = s.next[p], ![p] = Node(n)]
  PROVE  GoodOn(t, W \cup {n})
<1>1. n # p /\ n # q
  OBVIOUS
<1>2. t.prev[n] = p /\ t.prev[q] = n /\ t.next[n] = s.next[p] /\ t.next[p] = Node(n)
  BY <1>1 DEF States
<1>3. \A x \in W : /\ x # q => t.prev[x] = s.prev[x]
                   /\ x # p => t.next[x] = s.next[x]
  BY <1>1 DEF States
<1>4. Node(n).to = n /\ Node(n).end = FALSE
  BY DEF Node
<1>5. s.prev[q] = p
  BY DEF GoodOn
<1>6. ASSUME NEW x \in W \cup {n}
      PROVE  /\ t.next[x].to \in W \cup {n} /\ t.prev[t.next[x].to] = x
             /\ t.prev[x] \in W \cup {n} /\ t.next[t.prev[x]].to = x
             /\ t.next[x].to \in Lists => t.next[x].end
             /\ t.next[x].end => (t.next[x].to \in Lists \/ t.next[x].to = x)
  <2>1. CASE x = n
    <3>1. q \in Lists => s.next[p].end
      BY DEF GoodOn
    <3> QED BY <1>2, <1>4, <2>1, <3>1
  <2>2. CASE x \in W
    <3>1. /\ s.next[x].to \in W /\ s.prev[s.next[x].to] = x
          /\ s.prev[x] \in W /\ s.next[s.prev[x]].to = x
          /\ s.next[x].to \in Lists => s.next[x].end
          /\ s.next[x].end => (s.next[x].to \in Lists \/ s.next[x].to = x)
      BY <2>2 DEF GoodOn
    <3>2. /\ t.next[x].to \in W \cup {n} /\ t.prev[t.next[x].to] = x
          /\ t.next[x].to \in Lists => t.next[x].end
          /\ t.next[x].end => (t.next[x].to \in Lists \/ t.next[x].to = x)
      <4>1. CASE x = p
        BY <4>1, <1>2, <1>4
      <4>2. CASE x # p
        <5>1. s.next[x].to # q
          BY <4>2, <3>1, <1>5
        <5> QED BY <4>2, <5>1, <3>1, <2>2, <1>3
      <4> QED BY <4>1, <4>2
    <3>3. t.prev[x] \in W \cup {n} /\ t.next[t.prev[x]].to = x
      <4>1. CASE x = q
        BY <4>1, <1>2
      <4>2. CASE x # q
        <5>1. s.prev[x] # p
          BY <4>2, <3>1
        <5> QED BY <4>2, <5>1, <3>1, <2>2, <1>3
      <4> QED BY <4>1, <4>2
    <3> QED BY <3>2, <3>3
  <2> QED BY <2>1, <2>2
<1> QED BY <1>6 DEF GoodOn

\* Both ways of inserting a node keep the links coherent.
LEMMA InsertGood ==
  ASSUME NEW s \in States, NEW V \in SUBSET Links, GoodOn(s, V),
         NEW n \in V, n \notin Lists, NEW at \in V \ {n},
         at \in Lists \/ s.prev[at] # at
  PROVE  /\ InsertBefore(s, n, at) \in States /\ GoodOn(InsertBefore(s, n, at), V)
         /\ InsertAfter(s, n, at) \in States /\ GoodOn(InsertAfter(s, n, at), V)
<1> DEFINE out == RemoveFromList(s, n)
<1>1. out \in States /\ GoodOn(out, V \ {n})
  BY RemoveGood
<1>2. at \notin Lists /\ out.next[at].to = at => ~ out.next[at].end
  BY RemoveKeepsLinked
<1>3. (V \ {n}) \cup {n} = V
  OBVIOUS
<1> HIDE DEF out
<1>4. /\ out.prev[at] \in V \ {n} /\ out.next[out.prev[at]].to = at
      /\ out.next[at].to \in V \ {n}
      /\ out.next[at].end => (out.next[at].to \in Lists \/ out.next[at].to = at)
      /\ out.next[out.prev[at]].end => (at \in Lists \/ at = out.prev[at])
  BY <1>1 DEF GoodOn
<1>5. InsertBefore(s, n, at) \in States /\ GoodOn(InsertBefore(s, n, at), V)
  <2> DEFINE t == InsertBefore(s, n, at)
             p == out.prev[at]
  <2>1. [out.prev EXCEPT ![n] = p][at] = p
    BY <1>1 DEF States
  <2>2. /\ t.prev = [out.prev EXCEPT ![n] = p, ![at] = n]
        /\ t.next = [out.next EXCEPT ![n] = out.next[p], ![p] = Node(n)]
    BY <2>1 DEF InsertBefore, out
  <2>3. t \in States
    <3>1. t = [prev |-> t.prev, next |-> t.next]
      BY DEF InsertBefore
    <3>2. t.prev \in [Links -> Links]
      BY <2>2, <1>1 DEF States
    <3>3. t.next \in [Links -> Pointers]
      <4>1. Node(n) \in Pointers
        BY DEF Node, Pointers, Links
      <4>2. out.next[p] \in Pointers
        BY <1>1, <1>4 DEF States
      <4> QED BY <2>2, <1>1, <4>1, <4>2 DEF States
    <3> HIDE DEF t
    <3> QED BY <3>1, <3>2, <3>3 DEF States
  <2>4. out.next[p].end => at \in Lists
    BY <1>2, <1>4
  <2>5. /\ n \in Links \ (V \ {n}) /\ p \in V \ {n} /\ out.next[p].to = at
        /\ V \ {n} \in SUBSET Links
    BY <1>4
  <2> HIDE DEF t, p
  <2>6. GoodOn(t, (V \ {n}) \cup {n})
    <3> DEFINE W == V \ {n}
    <3>1. W \in SUBSET Links /\ n \in Links \ W /\ p \in W /\ at \in W /\ GoodOn(out, W)
      BY <1>1, <2>5
    <3>2. out \in States /\ out.next[p].to = at
      BY <1>1, <2>5
    <3> HIDE DEF W
    <3>3. GoodOn(t, W \cup {n})
      BY ONLY n \notin Lists, <2>2, <2>3, <2>4, <3>1, <3>2, BetweenGood, ZenonT(60)
    <3> QED BY <3>3 DEF W
  <2> QED BY <1>3, <2>3, <2>6 DEF t
<1>6. InsertAfter(s, n, at) \in States /\ GoodOn(InsertAfter(s, n, at), V)
  <2> DEFINE t == InsertAfter(s, n, at)
             q == out.next[at].to
  <2>1. [out.next EXCEPT ![n] = out.next[at]][at].to = q
    BY <1>1 DEF States
  <2>2. /\ t.prev = [out.prev EXCEPT ![n] = at, ![q] = n]
        /\ t.next = [out.next EXCEPT ![n] = out.next[at], ![at] = Node(n)]
    BY <2>1 DEF InsertAfter, out
  <2>3. t \in States
    <3>1. t = [prev |-> t.prev, next |-> t.next]
      BY DEF InsertAfter
    <3>2. t.prev \in [Links -> Links]
      BY <2>2, <1>1, <1>4 DEF States
    <3>3. t.next \in [Links -> Pointers]
      <4>1. Node(n) \in Pointers
        BY DEF Node, Pointers, Links
      <4> QED BY <2>2, <1>1, <4>1 DEF States
    <3> HIDE DEF t
    <3> QED BY <3>1, <3>2, <3>3 DEF States
  <2>4. out.next[at].end => q \in Lists
    BY <1>2, <1>4
  <2>5. /\ n \in Links \ (V \ {n}) /\ q \in V \ {n} /\ out.next[at].to = q
        /\ V \ {n} \in SUBSET Links
    BY <1>4
  <2> HIDE DEF t, q
  <2>6. GoodOn(t, (V \ {n}) \cup {n})
    <3> DEFINE W == V \ {n}
    <3>1. W \in SUBSET Links /\ n \in Links \ W /\ at \in W /\ q \in W /\ GoodOn(out, W)
      BY <1>1, <2>5
    <3>2. out \in States /\ out.next[at].to = q
      BY <1>1, <2>5
    <3> HIDE DEF W
    <3>3. GoodOn(t, W \cup {n})
      BY ONLY n \notin Lists, <2>2, <2>3, <2>4, <3>1, <3>2, BetweenGood, ZenonT(60)
    <3> QED BY <3>3 DEF W
  <2> QED BY <1>3, <2>3, <2>6 DEF t
<1> QED BY <1>5, <1>6

\* A link of its own is coherent with any coherent set it is not in.
LEMMA AloneGood ==
  ASSUME NEW s \in States, NEW W \in SUBSET Links, GoodOn(s, W),
         NEW n \in Links \ W, NEW t \in States,
         t.prev = [s.prev EXCEPT ![n] = n], t.next = [s.next EXCEPT ![n] = End(n)]
  PROVE  GoodOn(t, W \cup {n})
<1>1. t.prev[n] = n /\ t.next[n] = End(n)
  BY DEF States
<1>2. \A x \in W : t.prev[x] = s.prev[x] /\ t.next[x] = s.next[x]
  BY DEF States
<1>3. End(n).to = n /\ End(n).end
  BY DEF End
<1> QED BY <1>1, <1>2, <1>3 DEF GoodOn

LEMMA UnlinkGood ==
  ASSUME NEW s \in States, NEW V \in SUBSET Links, NEW l \in V, GoodOn(s, V)
  PROVE  Unlinked(s, l) \in States /\ GoodOn(Unlinked(s, l), V)
<1> DEFINE out == RemoveFromList(s, l)
           t == Unlinked(s, l)
<1>1. out \in States /\ GoodOn(out, V \ {l})
  BY RemoveGood
<1>2. t.prev = [out.prev EXCEPT ![l] = l] /\ t.next = [out.next EXCEPT ![l] = End(l)]
  BY DEF Unlinked
<1>3. t = [prev |-> t.prev, next |-> t.next]
  BY DEF Unlinked
<1> HIDE DEF out, t
<1>4. End(l) \in Pointers
  BY DEF End, Pointers
<1>5. t \in States
  BY <1>1, <1>2, <1>3, <1>4 DEF States
<1>6. (V \ {l}) \cup {l} = V
  OBVIOUS
<1> QED BY <1>1, <1>2, <1>5, <1>6, AloneGood DEF t

-----------------------------------------------------------------------------

Inv == TypeOK /\ Coherent

LEMMA NowIsState == TypeOK => Now \in States
  BY DEF TypeOK, Now, States

\* A step that turns the links into a coherent state keeps the invariant.
LEMMA BecomeInv ==
  ASSUME NEW s \in States, Become(s), GoodOn(s, alive' \cup Lists),
         alive' \subseteq Nodes, emptying' \in Lists \cup {NoList}, deleting' \in BOOLEAN
  PROVE  Inv'
<1>1. Now' = s
  BY DEF Become, Now, States
<1>2. TypeOK'
  BY DEF TypeOK, Become, States
<1> QED BY <1>1, <1>2 DEF Inv, Coherent, Live, Now

LEMMA InitInv == Init => Inv
<1> SUFFICES ASSUME Init PROVE Inv
  OBVIOUS
<1>1. TypeOK
  BY DEF Init, TypeOK, End, Pointers
<1>2. Coherent
  BY DEF Init, Coherent, GoodOn, Now, Live, End, Links
<1> QED BY <1>1, <1>2 DEF Inv

LEMMA StepInv == Inv /\ [Next]_vars => Inv'
<1> SUFFICES ASSUME Inv, [Next]_vars PROVE Inv'
  OBVIOUS
<1> USE DEF Inv
<1>1. /\ Now \in States /\ GoodOn(Now, Live) /\ Live \in SUBSET Links
      /\ alive \subseteq Nodes
      /\ emptying \in Lists \cup {NoList} /\ deleting \in BOOLEAN
      /\ Now.prev = prev /\ Now.next = next
  BY NowIsState DEF TypeOK, Coherent, Live, Links, Now
<1>2. ASSUME NEW n \in Nodes, New(n) PROVE Inv'
  <2> DEFINE t == [prev |-> [prev EXCEPT ![n] = n], next |-> [next EXCEPT ![n] = End(n)]]
  <2>1. n \in Links \ Live
    BY <1>2, NListAssumption DEF New, Live, Links
  <2>2. End(n) \in Pointers
    BY <2>1 DEF End, Pointers
  <2>3. t \in States
    BY <1>1, <2>1, <2>2 DEF States, Now
  <2>4. t.prev = [Now.prev EXCEPT ![n] = n] /\ t.next = [Now.next EXCEPT ![n] = End(n)]
    BY DEF Now
  <2> HIDE DEF t
  <2>5. GoodOn(t, Live \cup {n})
    BY <1>1, <2>1, <2>3, <2>4, AloneGood
  <2>6. Become(t) /\ alive' = alive \cup {n} /\ UNCHANGED <<emptying, deleting>>
    BY <1>2 DEF New, t
  <2>7. Live \cup {n} = alive' \cup Lists
    BY <2>6 DEF Live
  <2> QED BY <1>1, <2>3, <2>5, <2>6, <2>7, BecomeInv
<1>3. ASSUME NEW n \in Nodes, Unlink(n) PROVE Inv'
  <2>1. n \in Live /\ Become(Unlinked(Now, n)) /\ UNCHANGED <<alive, emptying, deleting>>
    BY <1>3 DEF Unlink, Live
  <2>2. Unlinked(Now, n) \in States /\ GoodOn(Unlinked(Now, n), Live)
    BY <1>1, <2>1, UnlinkGood
  <2> QED BY <1>1, <2>1, <2>2, BecomeInv DEF Live
<1>4. ASSUME NEW n \in Nodes, Delete(n) PROVE Inv'
  <2>1. /\ n \in Live /\ Become(RemoveFromList(Now, n))
        /\ alive' = alive \ {n} /\ UNCHANGED <<emptying, deleting>>
    BY <1>4 DEF Delete, Live
  <2>2. RemoveFromList(Now, n) \in States /\ GoodOn(RemoveFromList(Now, n), Live \ {n})
    BY <1>1, <2>1, RemoveGood
  <2>3. Live \ {n} = alive' \cup Lists
    BY <2>1, NListAssumption DEF Live
  <2> QED BY <1>1, <2>1, <2>2, <2>3, BecomeInv
<1>5. ASSUME NEW n \in Nodes, NEW at \in Links,
             ListInsertBefore(n, at) \/ ListInsertAfter(n, at)
      PROVE  Inv'
  <2>1. /\ n \in Live /\ n \notin Lists /\ at \in Live \ {n}
        /\ at \in Lists \/ Now.prev[at] # at
        /\ UNCHANGED <<alive, emptying, deleting>>
    BY <1>1, <1>5, NListAssumption
       DEF ListInsertBefore, ListInsertAfter, Place, IsLinked, Live
  <2>2. /\ InsertBefore(Now, n, at) \in States /\ GoodOn(InsertBefore(Now, n, at), Live)
        /\ InsertAfter(Now, n, at) \in States /\ GoodOn(InsertAfter(Now, n, at), Live)
    BY <1>1, <2>1, InsertGood
  <2>3. Become(InsertBefore(Now, n, at)) \/ Become(InsertAfter(Now, n, at))
    BY <1>5 DEF ListInsertBefore, ListInsertAfter
  <2>4. Live = alive' \cup Lists
    BY <2>1 DEF Live
  <2>5. CASE Become(InsertBefore(Now, n, at))
    BY <1>1, <2>1, <2>2, <2>4, <2>5, BecomeInv
  <2>6. CASE Become(InsertAfter(Now, n, at))
    BY <1>1, <2>1, <2>2, <2>4, <2>6, BecomeInv
  <2> QED BY <2>3, <2>5, <2>6
<1>6. ASSUME NEW h \in Lists, StartEmptying(h) PROVE Inv'
  <2>1. Now' = Now /\ Live' = Live
    BY <1>6 DEF StartEmptying, Now, Live
  <2>2. TypeOK'
    BY <1>6 DEF StartEmptying, TypeOK
  <2> QED BY <1>1, <2>1, <2>2 DEF Coherent
<1>7. CASE UnlinkAll
  <2>1. /\ prev[emptying] \in Live /\ Become(Unlinked(Now, prev[emptying]))
        /\ UNCHANGED <<alive, emptying, deleting>>
    <3>1. emptying \in Live
      BY <1>1, <1>7 DEF UnlinkAll, Live
    <3> QED BY <1>1, <1>7, <3>1 DEF UnlinkAll, GoodOn
  <2>2. /\ Unlinked(Now, prev[emptying]) \in States
        /\ GoodOn(Unlinked(Now, prev[emptying]), Live)
    BY <1>1, <2>1, UnlinkGood
  <2> QED BY <1>1, <2>1, <2>2, BecomeInv DEF Live
<1>8. CASE DeleteAll
  <2> DEFINE n == next[emptying].to
  <2>1. n \in Live /\ n \notin Lists
    <3>1. emptying \in Live
      BY <1>1, <1>8 DEF DeleteAll, Live
    <3> QED BY <1>1, <1>8, <3>1 DEF DeleteAll, GoodOn
  <2>2. /\ Become(RemoveFromList(Now, n))
        /\ alive' = alive \ {n} /\ UNCHANGED <<emptying, deleting>>
    BY <1>8 DEF DeleteAll
  <2>3. RemoveFromList(Now, n) \in States /\ GoodOn(RemoveFromList(Now, n), Live \ {n})
    BY <1>1, <2>1, RemoveGood
  <2>4. Live \ {n} = alive' \cup Lists
    BY <2>1, <2>2 DEF Live
  <2> HIDE DEF n
  <2> QED BY <1>1, <2>2, <2>3, <2>4, BecomeInv
<1>9. CASE Emptied
  <2>1. Now' = Now /\ Live' = Live
    BY <1>9 DEF Emptied, Now, Live
  <2>2. TypeOK'
    BY <1>9 DEF Emptied, TypeOK
  <2> QED BY <1>1, <2>1, <2>2 DEF Coherent
<1>10. CASE UNCHANGED vars
  <2>1. Now' = Now /\ Live' = Live
    BY <1>10 DEF vars, Now, Live
  <2>2. TypeOK'
    BY <1>10 DEF vars, TypeOK
  <2> QED BY <1>1, <2>1, <2>2 DEF Coherent
<1> QED BY <1>2, <1>3, <1>4, <1>5, <1>6, <1>7, <1>8, <1>9, <1>10 DEF Next

\* The links of all lists and living objects are coherent at all times, in
\* any number of lists and objects: deleting an object never leaves a pointer
\* to it in a list, and NextLink always finds the link it is looking for.
THEOREM ListsCoherent == Spec => []Coherent
<1>1. Inv => Coherent
  BY DEF Inv
<1> QED BY <1>1, InitInv, StepInv, PTL DEF Spec

LEMMA CoherentAgrees == Inv => PrevAgrees
<1> SUFFICES ASSUME Inv, NEW l \in Live,
                    NEW this, this = IF l \in Lists THEN NoList ELSE l
             PROVE  /\ NextOf(l) # NoList => PrevOf(NextOf(l)) = this
                    /\ PrevOf(l) # NoList => NextOf(PrevOf(l)) = this
  BY DEF PrevAgrees
<1>1. GoodOn([prev |-> prev, next |-> next], Live)
  BY DEF Inv, Coherent, Now
<1>2. \A x \in Live :
        /\ next[x].to \in Live /\ prev[next[x].to] = x
        /\ prev[x] \in Live /\ next[prev[x]].to = x
        /\ next[x].to \in Lists => next[x].end
        /\ next[x].end => (next[x].to \in Lists \/ next[x].to = x)
  BY <1>1 DEF GoodOn
<1>3. ASSUME NextOf(l) # NoList PROVE PrevOf(NextOf(l)) = this
  <2>1. ~ next[l].end /\ NextOf(l) = next[l].to
    BY <1>3 DEF NextOf
  <2>2. prev[next[l].to] = l /\ next[prev[l]].to = l /\ prev[l] \in Live
    BY <1>2
  <2>3. next[prev[l]].end <=> l \in Lists
    BY <1>2, <2>1, <2>2
  <2> QED BY <2>1, <2>2, <2>3 DEF PrevOf
<1>4. ASSUME PrevOf(l) # NoList PROVE NextOf(PrevOf(l)) = this
  <2>1. ~ next[prev[prev[l]]].end /\ PrevOf(l) = next[prev[prev[l]]].to
    BY <1>4 DEF PrevOf
  <2>2. prev[l] \in Live /\ next[prev[l]].to = l /\ next[prev[prev[l]]].to = prev[l]
    BY <1>2
  <2>3. next[prev[l]].end <=> l \in Lists
    BY <1>2, <2>1, <2>2
  <2> QED BY <2>1, <2>2, <2>3 DEF NextOf
<1> QED BY <1>3, <1>4

\* Next and Prev undo each other on every living link, in any number of lists
\* and objects.
THEOREM NextAndPrevAgree == Spec => []PrevAgrees
<1> QED BY CoherentAgrees, InitInv, StepInv, PTL DEF Spec

\* The variables of the list model keep their types.
THEOREM ListsTypeCorrect == Spec => []TypeOK
<1>1. Inv => TypeOK
  BY DEF Inv
<1> QED BY <1>1, InitInv, StepInv, PTL DEF Spec

-----------------------------------------------------------------------------
(* Sequences without a node and with one more *)

LEMMA Concat ==
  ASSUME NEW S, NEW s \in Seq(S), NEW t \in Seq(S)
  PROVE  /\ s \o t \in Seq(S) /\ Len(s \o t) = Len(s) + Len(t)
         /\ \A i \in 1 .. Len(s) : (s \o t)[i] = s[i]
         /\ \A i \in 1 .. Len(t) : (s \o t)[Len(s) + i] = t[i]
  OBVIOUS

\* No node is in q twice.
Once(q) == \A i, j \in 1 .. Len(q) : q[i] = q[j] => i = j

Shorter(q, k) == [i \in 1 .. (Len(q) - 1) |-> IF i < k THEN q[i] ELSE q[i + 1]]

LEMMA RemoveAtIs ==
  ASSUME NEW S, NEW q \in Seq(S), NEW k \in 1 .. Len(q)
  PROVE  Abstract!RemoveAt(q, k) = Shorter(q, k) /\ Shorter(q, k) \in Seq(S)
<1>1. Len(q) \in Nat /\ k \in Nat /\ 1 <= k /\ k <= Len(q)
  OBVIOUS
<1> DEFINE a == SubSeq(q, 1, k - 1)
           b == SubSeq(q, k + 1, Len(q))
           c == a \o b
           n == Len(q)
<1>2. a \in Seq(S) /\ Len(a) = k - 1 /\ \A i \in 1 .. (k - 1) : a[i] = q[i]
  BY <1>1
<1>3. b \in Seq(S) /\ Len(b) = n - k /\ \A i \in 1 .. (n - k) : b[i] = q[k + i]
  BY <1>1
<1>4. Abstract!RemoveAt(q, k) = c
  BY DEF Abstract!RemoveAt
<1>5. n \in Nat /\ k <= n
  BY <1>1
<1> HIDE DEF a, b, n
<1>6. /\ c \in Seq(S) /\ Len(c) = n - 1
      /\ \A i \in 1 .. (k - 1) : c[i] = a[i]
      /\ \A i \in 1 .. (n - k) : c[k - 1 + i] = b[i]
  <2>1. /\ c \in Seq(S) /\ Len(c) = Len(a) + Len(b)
        /\ \A i \in 1 .. Len(a) : c[i] = a[i]
        /\ \A i \in 1 .. Len(b) : c[Len(a) + i] = b[i]
    <3>1. a \in Seq(S) /\ b \in Seq(S)
      BY <1>2, <1>3
    <3> QED BY ONLY <3>1, Concat
  <2> HIDE DEF c
  <2> QED BY <1>1, <1>2, <1>3, <1>5, <2>1
<1> HIDE DEF c
<1>7. ASSUME NEW i \in 1 .. (n - 1) PROVE c[i] = IF i < k THEN q[i] ELSE q[i + 1]
  <2>1. CASE i < k
    <3>1. i \in 1 .. (k - 1)
      BY <1>1, <2>1
    <3> QED BY <1>2, <1>6, <2>1, <3>1
  <2>2. CASE ~ (i < k)
    <3> DEFINE j == i - k + 1
    <3>1. j \in 1 .. (n - k) /\ k - 1 + j = i /\ k + j = i + 1
      BY <1>1, <1>5, <2>2
    <3> HIDE DEF j
    <3>2. c[k - 1 + j] = b[j] /\ b[j] = q[k + j]
      BY <1>3, <1>6, <3>1
    <3> QED BY <2>2, <3>1, <3>2
  <2> QED BY <2>1, <2>2
<1>8. c = [i \in 1 .. Len(c) |-> c[i]]
  BY ONLY <1>6
<1>9. c = [i \in 1 .. (n - 1) |-> IF i < k THEN q[i] ELSE q[i + 1]]
  BY <1>6, <1>7, <1>8
<1> QED BY <1>4, <1>6, <1>9 DEF Shorter, n

\* q with x behind the first k elements.
Inserted(q, k, x) ==
  [i \in 1 .. (Len(q) + 1) |-> IF i <= k THEN q[i] ELSE IF i = k + 1 THEN x ELSE q[i - 1]]

LEMMA InsertAtIs ==
  ASSUME NEW S, NEW q \in Seq(S), NEW k \in 0 .. Len(q), NEW x \in S
  PROVE  Abstract!InsertAt(q, k + 1, x) = Inserted(q, k, x) /\ Inserted(q, k, x) \in Seq(S)
<1>1. Len(q) \in Nat /\ k \in Nat /\ k <= Len(q)
  OBVIOUS
<1> DEFINE a == SubSeq(q, 1, k)
           b == SubSeq(q, k + 1, Len(q))
           e == a \o <<x>>
           c == e \o b
           n == Len(q)
<1>2. a \in Seq(S) /\ Len(a) = k /\ \A i \in 1 .. k : a[i] = q[i]
  BY <1>1
<1>3. b \in Seq(S) /\ Len(b) = n - k /\ \A i \in 1 .. (n - k) : b[i] = q[k + i]
  BY <1>1
<1>4. Abstract!InsertAt(q, k + 1, x) = c
  <2>1. (k + 1) - 1 = k
    BY <1>1
  <2> QED BY <2>1 DEF Abstract!InsertAt
<1>5. n \in Nat /\ k <= n
  BY <1>1
<1> HIDE DEF a, b, n
<1>10. e \in Seq(S) /\ Len(e) = k + 1 /\ e[k + 1] = x /\ \A i \in 1 .. k : e[i] = a[i]
  BY <1>1, <1>2
<1> HIDE DEF e
<1>6. /\ c \in Seq(S) /\ Len(c) = n + 1
      /\ \A i \in 1 .. (k + 1) : c[i] = e[i]
      /\ \A i \in 1 .. (n - k) : c[k + 1 + i] = b[i]
  <2>1. /\ c \in Seq(S) /\ Len(c) = Len(e) + Len(b)
        /\ \A i \in 1 .. Len(e) : c[i] = e[i]
        /\ \A i \in 1 .. Len(b) : c[Len(e) + i] = b[i]
    <3>1. e \in Seq(S) /\ b \in Seq(S)
      BY <1>3, <1>10
    <3> QED BY ONLY <3>1, Concat
  <2> HIDE DEF c
  <2> QED BY <1>1, <1>3, <1>5, <1>10, <2>1
<1> HIDE DEF c
<1>7. ASSUME NEW i \in 1 .. (n + 1)
      PROVE  c[i] = IF i <= k THEN q[i] ELSE IF i = k + 1 THEN x ELSE q[i - 1]
  <2>1. CASE i <= k
    <3>1. i \in 1 .. k /\ i \in 1 .. (k + 1)
      BY <1>1, <2>1
    <3> QED BY <1>2, <1>6, <1>10, <2>1, <3>1
  <2>2. CASE i = k + 1
    <3>1. i \in 1 .. (k + 1) /\ ~ (i <= k)
      BY <1>1, <2>2
    <3> QED BY <1>6, <1>10, <2>2, <3>1
  <2>3. CASE ~ (i <= k) /\ i # k + 1
    <3> DEFINE j == i - k - 1
    <3>1. j \in 1 .. (n - k) /\ k + 1 + j = i /\ k + j = i - 1
      BY <1>1, <1>5, <2>3
    <3> HIDE DEF j
    <3>2. c[k + 1 + j] = b[j] /\ b[j] = q[k + j]
      BY <1>3, <1>6, <3>1
    <3> QED BY <2>3, <3>1, <3>2
  <2> QED BY <2>1, <2>2, <2>3
<1>8. c = [i \in 1 .. Len(c) |-> c[i]]
  BY ONLY <1>6
<1>9. c = [i \in 1 .. (n + 1) |-> IF i <= k THEN q[i] ELSE IF i = k + 1 THEN x ELSE q[i - 1]]
  BY <1>6, <1>7, <1>8
<1> QED BY <1>4, <1>6, <1>9 DEF Inserted, n

LEMMA WithoutIs ==
  ASSUME NEW S, NEW q \in Seq(S), Once(q), NEW x
  PROVE  /\ \A k \in 1 .. Len(q) : q[k] = x => Abstract!Without(q, x) = Shorter(q, k)
         /\ (\A k \in 1 .. Len(q) : q[k] # x) => Abstract!Without(q, x) = q
<1>1. DOMAIN q = 1 .. Len(q)
  OBVIOUS
<1>2. ASSUME NEW k \in 1 .. Len(q), q[k] = x PROVE Abstract!Without(q, x) = Shorter(q, k)
  <2>1. x \in Abstract!ToSet(q)
    BY <1>1, <1>2 DEF Abstract!ToSet
  <2>2. (CHOOSE i \in DOMAIN q : q[i] = x) = k
    BY <1>1, <1>2 DEF Once
  <2>3. Abstract!Without(q, x) = Abstract!RemoveAt(q, k)
    BY <2>1, <2>2 DEF Abstract!Without
  <2> QED BY <2>3, RemoveAtIs
<1>3. ASSUME \A k \in 1 .. Len(q) : q[k] # x PROVE Abstract!Without(q, x) = q
  <2>1. x \notin Abstract!ToSet(q)
    BY <1>1, <1>3 DEF Abstract!ToSet
  <2> QED BY <2>1 DEF Abstract!Without
<1> QED BY <1>2, <1>3

-----------------------------------------------------------------------------
(* The lists that the links make *)

\* Where a list is after i steps: at its own link, then at its nodes.
LinkAt(h, q, i) == IF i = 0 THEN h ELSE q[i]

\* From the link of h the links lead through the nodes of q and back.
Ring(s, h, q) ==
  /\ \A i \in 1 .. Len(q) : s.next[LinkAt(h, q, i - 1)] = Node(q[i])
  /\ s.next[LinkAt(h, q, Len(q))] = End(h)

\* No node is in two lists, or twice in one.
Apart(c) ==
  \A h, g \in Lists : \A i \in 1 .. Len(c[h]), j \in 1 .. Len(c[g]) :
    c[h][i] = c[g][j] => h = g /\ i = j

Member(c, n) == \E h \in Lists : \E i \in 1 .. Len(c[h]) : c[h][i] = n

\* The links of the lists and of the objects in A make the sequences of c.
Shape(s, A, c) ==
  /\ c \in [Lists -> Seq(A)]
  /\ Apart(c)
  /\ \A h \in Lists : Ring(s, h, c[h])
  /\ \A n \in A : s.prev[n] = n \/ Member(c, n)

LEMMA PlacesApart ==
  ASSUME NEW A \in SUBSET Nodes, NEW c \in [Lists -> Seq(A)], Apart(c),
         NEW h \in Lists, NEW g \in Lists,
         NEW i \in 0 .. Len(c[h]), NEW j \in 0 .. Len(c[g]),
         LinkAt(h, c[h], i) = LinkAt(g, c[g], j)
  PROVE  h = g /\ i = j
<1>1. c[h] \in Seq(A) /\ c[g] \in Seq(A) /\ Len(c[h]) \in Nat /\ Len(c[g]) \in Nat
  OBVIOUS
<1>2. i # 0 => i \in 1 .. Len(c[h]) /\ c[h][i] \in A
  BY <1>1
<1>3. j # 0 => j \in 1 .. Len(c[g]) /\ c[g][j] \in A
  BY <1>1
<1>4. A \cap Lists = {}
  BY NListAssumption
<1>5. CASE i = 0 /\ j = 0
  BY <1>5 DEF LinkAt
<1>6. CASE i = 0 /\ j # 0
  BY <1>3, <1>4, <1>6 DEF LinkAt
<1>7. CASE i # 0 /\ j = 0
  BY <1>2, <1>4, <1>7 DEF LinkAt
<1>8. CASE i # 0 /\ j # 0
  BY <1>2, <1>3, <1>8 DEF LinkAt, Apart
<1> QED BY <1>5, <1>6, <1>7, <1>8

\* The places of a list are links.
LEMMA PlaceIsLink ==
  ASSUME NEW A \in SUBSET Nodes, NEW h \in Lists, NEW q \in Seq(A), NEW i \in 0 .. Len(q)
  PROVE  LinkAt(h, q, i) \in A \cup Lists /\ LinkAt(h, q, i) \in Links
<1>1. i # 0 => q[i] \in A
  OBVIOUS
<1> QED BY <1>1 DEF LinkAt, Links

\* The previous link of a node is the place before it.
LEMMA RingPrev ==
  ASSUME NEW s, NEW A \in SUBSET Nodes, GoodOn(s, A \cup Lists),
         NEW h \in Lists, NEW q \in Seq(A), Ring(s, h, q)
  PROVE  /\ \A i \in 1 .. Len(q) : s.prev[q[i]] = LinkAt(h, q, i - 1)
         /\ s.prev[h] = LinkAt(h, q, Len(q))
<1>1. \A i \in 0 .. Len(q) : s.prev[s.next[LinkAt(h, q, i)].to] = LinkAt(h, q, i)
  BY PlaceIsLink DEF GoodOn
<1>2. ASSUME NEW i \in 1 .. Len(q) PROVE s.prev[q[i]] = LinkAt(h, q, i - 1)
  <2>1. i - 1 \in 0 .. Len(q) /\ s.next[LinkAt(h, q, i - 1)] = Node(q[i])
    BY DEF Ring
  <2>2. s.next[LinkAt(h, q, i - 1)].to = q[i]
    BY <2>1 DEF Node
  <2> QED BY <1>1, <2>1, <2>2
<1>3. s.prev[h] = LinkAt(h, q, Len(q))
  <2>1. Len(q) \in 0 .. Len(q) /\ s.next[LinkAt(h, q, Len(q))] = End(h)
    BY DEF Ring
  <2>2. s.next[LinkAt(h, q, Len(q))].to = h
    BY <2>1 DEF End
  <2> QED BY <1>1, <2>1, <2>2
<1> QED BY <1>2, <1>3

-----------------------------------------------------------------------------
(* Taking a node out *)

\* The lists without n.
Minus(c, n) == [h \in Lists |-> Abstract!Without(c[h], n)]

LEMMA MinusIs ==
  ASSUME NEW A, NEW c \in [Lists -> Seq(A)], Apart(c), NEW n
  PROVE  /\ ~ Member(c, n) => Minus(c, n) = c
         /\ \A h \in Lists : \A k \in 1 .. Len(c[h]) : c[h][k] = n =>
              Minus(c, n) = [c EXCEPT ![h] = Shorter(c[h], k)]
<1>1. \A h \in Lists : Once(c[h]) /\ c[h] \in Seq(A)
  BY DEF Once, Apart
<1>2. ASSUME ~ Member(c, n) PROVE Minus(c, n) = c
  <2>1. ASSUME NEW h \in Lists PROVE Abstract!Without(c[h], n) = c[h]
    <3>1. \A k \in 1 .. Len(c[h]) : c[h][k] # n
      BY <1>2 DEF Member
    <3> QED BY <1>1, <3>1, WithoutIs
  <2> QED BY <2>1 DEF Minus
<1>3. ASSUME NEW h \in Lists, NEW k \in 1 .. Len(c[h]), c[h][k] = n
      PROVE  Minus(c, n) = [c EXCEPT ![h] = Shorter(c[h], k)]
  <2>1. Abstract!Without(c[h], n) = Shorter(c[h], k)
    BY <1>1, <1>3, WithoutIs
  <2>2. ASSUME NEW g \in Lists, g # h PROVE Abstract!Without(c[g], n) = c[g]
    <3>1. \A j \in 1 .. Len(c[g]) : c[g][j] # n
      BY <1>3, <2>2 DEF Apart
    <3> QED BY <1>1, <3>1, WithoutIs
  <2> QED BY <2>1, <2>2 DEF Minus
<1> QED BY <1>2, <1>3

LEMMA ShorterIs ==
  ASSUME NEW A, NEW q \in Seq(A), Once(q), NEW k \in 1 .. Len(q)
  PROVE  /\ Shorter(q, k) \in Seq(A \ {q[k]}) /\ Len(Shorter(q, k)) = Len(q) - 1
         /\ \A i \in 1 .. (Len(q) - 1) : Shorter(q, k)[i] = IF i < k THEN q[i] ELSE q[i + 1]
<1> DEFINE r == Shorter(q, k)
           n == Len(q)
<1>1. n \in Nat /\ k \in 1 .. n
  OBVIOUS
<1>2. r = [i \in 1 .. (n - 1) |-> IF i < k THEN q[i] ELSE q[i + 1]]
  BY DEF Shorter
<1>3. ASSUME NEW i \in 1 .. (n - 1) PROVE r[i] \in A \ {q[k]}
  <2>1. i \in 1 .. n /\ i + 1 \in 1 .. n /\ (i < k => i # k) /\ (~ (i < k) => i + 1 # k)
    BY <1>1
  <2>2. r[i] = IF i < k THEN q[i] ELSE q[i + 1]
    BY <1>2
  <2> QED BY <2>1, <2>2 DEF Once
<1> HIDE DEF r
<1>4. r \in [1 .. (n - 1) -> A \ {q[k]}]
  BY <1>2, <1>3
<1>5. n - 1 \in Nat
  BY <1>1
<1>6. r \in Seq(A \ {q[k]}) /\ Len(r) = n - 1
  <2> DEFINE B == A \ {q[k]}
             m == n - 1
  <2>1. m \in Nat /\ r \in [1 .. m -> B]
    BY <1>4, <1>5
  <2> HIDE DEF B, m
  <2>2. r \in Seq(B) /\ Len(r) = m
    BY <2>1
  <2> QED BY <2>2 DEF B, m
<1> QED BY <1>2, <1>6 DEF r, n

\* What taking a link out does to the others.
LEMMA RemoveIs ==
  ASSUME NEW s \in States, NEW V \in SUBSET Links, NEW l \in V, GoodOn(s, V)
  PROVE  /\ s.prev[l] \in V /\ s.next[l].to \in V
         /\ s.prev[s.next[l].to] = l /\ s.next[s.prev[l]].to = l
         /\ RemoveFromList(s, l).next = [s.next EXCEPT ![s.prev[l]] = s.next[l]]
         /\ RemoveFromList(s, l).prev = [s.prev EXCEPT ![s.next[l].to] = s.prev[l]]
<1> DEFINE back == [s.prev EXCEPT ![s.next[l].to] = s.prev[l]]
<1>1. /\ s.next[l].to \in V /\ s.prev[s.next[l].to] = l
      /\ s.prev[l] \in V /\ s.next[s.prev[l]].to = l
  BY DEF GoodOn
<1>2. back[l] = s.prev[l]
  BY <1>1 DEF States
<1> QED BY <1>1, <1>2 DEF RemoveFromList

\* The nodes but n are still in the lists.
LEMMA StillMember ==
  ASSUME NEW A, NEW c \in [Lists -> Seq(A)], Apart(c), NEW n, NEW m, m # n, Member(c, m)
  PROVE  Member(Minus(c, n), m)
<1>0. PICK g \in Lists : \E i \in 1 .. Len(c[g]) : c[g][i] = m
  BY DEF Member
<1>1. PICK i \in 1 .. Len(c[g]) : c[g][i] = m
  BY <1>0
<1>2. CASE ~ Member(c, n)
  BY <1>2, MinusIs
<1>3. CASE Member(c, n)
  <2>0. PICK h \in Lists : \E k \in 1 .. Len(c[h]) : c[h][k] = n
    BY <1>3 DEF Member
  <2>1. PICK k \in 1 .. Len(c[h]) : c[h][k] = n
    BY <2>0
  <2>2. Minus(c, n) = [c EXCEPT ![h] = Shorter(c[h], k)]
    BY <2>1, MinusIs
  <2>3. CASE g # h
    <3>1. Minus(c, n)[g] = c[g]
      BY <2>2, <2>3
    <3> QED BY <1>1, <3>1 DEF Member
  <2>4. CASE g = h
    <3> DEFINE q == c[h]
               r == Shorter(q, k)
    <3>1. q \in Seq(A) /\ Once(q) /\ Len(q) \in Nat
      BY DEF Once, Apart
    <3>2. Len(r) = Len(q) - 1 /\ \A j \in 1 .. (Len(q) - 1) : r[j] = IF j < k THEN q[j] ELSE q[j + 1]
      BY <2>1, <3>1, ShorterIs
    <3>3. Minus(c, n)[h] = r
      BY <2>2
    <3>4. i \in 1 .. Len(q) /\ q[i] = m /\ i # k /\ k \in 1 .. Len(q)
      BY <1>1, <2>1, <2>4
    <3> HIDE DEF q, r
    <3>5. CASE i < k
      <4>1. i \in 1 .. (Len(q) - 1)
        BY <3>1, <3>4, <3>5
      <4>2. r[i] = m /\ i \in 1 .. Len(r)
        BY <3>2, <3>4, <3>5, <4>1
      <4> QED BY <3>3, <4>2 DEF Member
    <3>6. CASE ~ (i < k)
      <4>1. i - 1 \in 1 .. (Len(q) - 1) /\ ~ (i - 1 < k) /\ (i - 1) + 1 = i
        BY <3>1, <3>4, <3>6
      <4>2. r[i - 1] = m /\ i - 1 \in 1 .. Len(r)
        BY <3>2, <3>4, <4>1
      <4> QED BY <3>3, <4>2 DEF Member
    <3> QED BY <3>5, <3>6
  <2> QED BY <2>3, <2>4
<1> QED BY <1>2, <1>3

\* The ring of a list that had the node.
LEMMA RingWithout ==
  ASSUME NEW s \in States, NEW A \in SUBSET Nodes, NEW h \in Lists, NEW q \in Seq(A),
         Once(q), Ring(s, h, q), NEW k \in 1 .. Len(q), NEW t,
         t.next = [s.next EXCEPT ![LinkAt(h, q, k - 1)] = s.next[q[k]]]
  PROVE  Ring(t, h, Shorter(q, k))
<1> DEFINE r == Shorter(q, k)
           n == Len(q)
           p == LinkAt(h, q, k - 1)
<1>1. n \in Nat /\ k \in 1 .. n /\ k - 1 \in 0 .. n
  OBVIOUS
<1>2. Len(r) = n - 1 /\ \A i \in 1 .. (n - 1) : r[i] = IF i < k THEN q[i] ELSE q[i + 1]
  <2>1. q \in Seq(A) /\ Once(q) /\ k \in 1 .. Len(q)
    OBVIOUS
  <2> QED BY ONLY <2>1, ShorterIs
<1>3. /\ \A i \in 1 .. n : s.next[LinkAt(h, q, i - 1)] = Node(q[i])
      /\ s.next[LinkAt(h, q, n)] = End(h)
  BY DEF Ring
<1>4. LinkAt(h, q, k) = q[k] /\ p \in Links
  <2>1. k # 0 /\ k - 1 \in 0 .. Len(q)
    BY <1>1
  <2> QED BY <2>1, PlaceIsLink DEF LinkAt
<1>5. ASSUME NEW i \in 0 .. n
      PROVE  t.next[LinkAt(h, q, i)] = IF i = k - 1 THEN s.next[q[k]] ELSE s.next[LinkAt(h, q, i)]
  <2>1. LinkAt(h, q, i) \in Links
    BY PlaceIsLink
  <2>2. CASE i = k - 1
    BY <1>4, <2>1, <2>2 DEF States
  <2>3. CASE i # k - 1
    <3>1. LinkAt(h, q, i) # p
      <4>1. CASE i = 0 /\ k - 1 # 0
        <5>1. k - 1 \in 1 .. n
          BY <1>1, <4>1
        <5> QED BY <4>1, <5>1, NListAssumption DEF LinkAt
      <4>2. CASE i # 0 /\ k - 1 = 0
        BY <4>2, NListAssumption DEF LinkAt
      <4>3. CASE i # 0 /\ k - 1 # 0
        <5>1. i \in 1 .. n /\ k - 1 \in 1 .. n
          BY <1>1, <4>3
        <5> QED BY <2>3, <4>3, <5>1 DEF LinkAt, Once
      <4> QED BY <2>3, <4>1, <4>2, <4>3
    <3> QED BY <1>4, <2>1, <2>3, <3>1 DEF States
  <2> QED BY <2>2, <2>3
<1> HIDE DEF r
<1>6. ASSUME NEW i \in 0 .. (n - 1)
      PROVE  LinkAt(h, r, i) = IF i < k THEN LinkAt(h, q, i) ELSE LinkAt(h, q, i + 1)
  <2>1. CASE i = 0
    BY <1>1, <2>1 DEF LinkAt
  <2>2. CASE i # 0
    <3>1. i \in 1 .. (n - 1) /\ i + 1 # 0
      BY <1>1, <2>2
    <3> QED BY <1>2, <2>2, <3>1 DEF LinkAt
  <2> QED BY <2>1, <2>2
<1> HIDE DEF p, n
<1>7. ASSUME NEW i \in 1 .. (n - 1) PROVE t.next[LinkAt(h, r, i - 1)] = Node(r[i])
  <2>1. CASE i < k
    <3>1. i - 1 \in 0 .. (n - 1) /\ i - 1 < k /\ i - 1 # k - 1 /\ i - 1 \in 0 .. n /\ i \in 1 .. n
      BY <1>1, <2>1
    <3>2. LinkAt(h, r, i - 1) = LinkAt(h, q, i - 1) /\ r[i] = q[i]
      BY <1>2, <1>6, <2>1, <3>1
    <3> QED BY <1>3, <1>5, <3>1, <3>2
  <2>2. CASE i = k
    <3>1. /\ i - 1 \in 0 .. (n - 1) /\ i - 1 < k /\ i - 1 = k - 1 /\ i - 1 \in 0 .. n
          /\ k + 1 \in 1 .. n /\ (k + 1) - 1 = k /\ ~ (i < k)
      BY <1>1, <2>2
    <3>2. LinkAt(h, r, i - 1) = LinkAt(h, q, i - 1) /\ r[i] = q[k + 1]
      BY <1>2, <1>6, <2>2, <3>1
    <3>3. s.next[q[k]] = Node(q[k + 1])
      BY <1>3, <1>4, <3>1
    <3> QED BY <1>5, <3>1, <3>2, <3>3
  <2>3. CASE i > k
    <3>1. /\ i - 1 \in 0 .. (n - 1) /\ ~ (i - 1 < k) /\ (i - 1) + 1 = i /\ i \in 0 .. n
          /\ i + 1 \in 1 .. n /\ (i + 1) - 1 = i /\ ~ (i < k) /\ i # k - 1
      BY <1>1, <2>3
    <3>2. LinkAt(h, r, i - 1) = LinkAt(h, q, i) /\ r[i] = q[i + 1]
      BY <1>2, <1>6, <3>1
    <3> QED BY <1>3, <1>5, <3>1, <3>2
  <2> QED BY <1>1, <2>1, <2>2, <2>3
<1>8. t.next[LinkAt(h, r, n - 1)] = End(h)
  <2>1. n - 1 \in 0 .. (n - 1)
    BY <1>1
  <2>2. CASE n = k
    <3>1. n - 1 < k /\ n - 1 = k - 1 /\ n - 1 \in 0 .. n
      BY <1>1, <2>2
    <3>2. LinkAt(h, r, n - 1) = LinkAt(h, q, n - 1)
      BY <1>6, <2>1, <3>1
    <3>3. s.next[q[k]] = End(h)
      BY <1>3, <1>4, <2>2
    <3> QED BY <1>5, <3>1, <3>2, <3>3
  <2>3. CASE n # k
    <3>1. ~ (n - 1 < k) /\ (n - 1) + 1 = n /\ n \in 0 .. n /\ n # k - 1
      BY <1>1, <2>3
    <3>2. LinkAt(h, r, n - 1) = LinkAt(h, q, n)
      BY <1>6, <2>1, <3>1
    <3> QED BY <1>3, <1>5, <3>1, <3>2
  <2> QED BY <2>2, <2>3
<1> QED BY <1>2, <1>7, <1>8 DEF Ring, r

\* A ring is not touched by a change elsewhere.
LEMMA RingKept ==
  ASSUME NEW s, NEW t, NEW h, NEW q, Len(q) \in Nat, Ring(s, h, q),
         \A i \in 0 .. Len(q) : t.next[LinkAt(h, q, i)] = s.next[LinkAt(h, q, i)]
  PROVE  Ring(t, h, q)
<1>1. ASSUME NEW i \in 1 .. Len(q) PROVE t.next[LinkAt(h, q, i - 1)] = Node(q[i])
  <2>1. i - 1 \in 0 .. Len(q)
    OBVIOUS
  <2> QED BY <2>1 DEF Ring
<1>2. Len(q) \in 0 .. Len(q)
  OBVIOUS
<1> QED BY <1>1, <1>2 DEF Ring

LEMMA RemoveShape ==
  ASSUME NEW s \in States, NEW A \in SUBSET Nodes, GoodOn(s, A \cup Lists),
         NEW c, Shape(s, A, c), NEW l \in A
  PROVE  Shape(RemoveFromList(s, l), A \ {l}, Minus(c, l))
<1> DEFINE t == RemoveFromList(s, l)
           V == A \cup Lists
           B == A \ {l}
<1>1. /\ c \in [Lists -> Seq(A)] /\ Apart(c) /\ \A h \in Lists : Ring(s, h, c[h])
      /\ \A n \in A : s.prev[n] = n \/ Member(c, n)
  BY DEF Shape
<1>2. V \in SUBSET Links /\ l \in V
  BY DEF Links
<1>3. /\ s.prev[l] \in V /\ s.next[l].to \in V
      /\ s.prev[s.next[l].to] = l /\ s.next[s.prev[l]].to = l
      /\ t.next = [s.next EXCEPT ![s.prev[l]] = s.next[l]]
      /\ t.prev = [s.prev EXCEPT ![s.next[l].to] = s.prev[l]]
  BY <1>2, RemoveIs
<1> HIDE DEF t
<1>4. ASSUME NEW n \in B PROVE t.prev[n] = n \/ Member(Minus(c, l), n)
  <2>1. n \in A /\ n # l
    OBVIOUS
  <2>2. CASE s.prev[n] = n
    <3>1. n # s.next[l].to
      BY <1>3, <2>1, <2>2
    <3> QED BY <1>3, <2>2, <3>1 DEF States
  <2>3. CASE Member(c, n)
    BY <1>1, <2>1, <2>3, StillMember
  <2> QED BY <1>1, <2>1, <2>2, <2>3
<1>5. CASE ~ Member(c, l)
  <2>1. Minus(c, l) = c
    BY <1>1, <1>5, MinusIs
  <2>2. s.prev[l] = l /\ s.next[l].to = l
    BY <1>1, <1>3, <1>5
  <2>3. t.next = s.next
    BY <1>3, <2>2 DEF States
  <2>4. \A h \in Lists : Ring(t, h, c[h])
    BY <1>1, <2>3 DEF Ring
  <2>5. c \in [Lists -> Seq(B)]
    <3>1. ASSUME NEW h \in Lists PROVE c[h] \in Seq(B)
      <4>1. c[h] \in Seq(A) /\ \A i \in 1 .. Len(c[h]) : c[h][i] # l
        BY <1>1, <1>5 DEF Member
      <4>2. \A i \in 1 .. Len(c[h]) : c[h][i] \in B
        BY <4>1
      <4> HIDE DEF B
      <4> QED BY <4>1, <4>2
    <3> HIDE DEF B
    <3> QED BY <1>1, <3>1
  <2> QED BY <1>1, <1>4, <2>1, <2>4, <2>5 DEF Shape, t
<1>6. CASE Member(c, l)
  <2>0. PICK h \in Lists : \E k \in 1 .. Len(c[h]) : c[h][k] = l
    BY <1>6 DEF Member
  <2>1. PICK k \in 1 .. Len(c[h]) : c[h][k] = l
    BY <2>0
  <2> DEFINE q == c[h]
             d == Minus(c, l)
  <2>2. d = [c EXCEPT ![h] = Shorter(q, k)]
    BY <1>1, <2>1, MinusIs
  <2>3. q \in Seq(A) /\ Once(q) /\ Ring(s, h, q) /\ k \in 1 .. Len(q) /\ q[k] = l
    BY <1>1, <2>1 DEF Once, Apart
  <2>4. s.prev[l] = LinkAt(h, q, k - 1) /\ k - 1 \in 0 .. Len(q)
    BY <2>3, RingPrev
  <2>5. Ring(t, h, Shorter(q, k))
    BY <1>3, <2>3, <2>4, RingWithout
  <2>6. ASSUME NEW g \in Lists, g # h PROVE Ring(t, g, c[g])
    <3>1. ASSUME NEW i \in 0 .. Len(c[g])
          PROVE t.next[LinkAt(g, c[g], i)] = s.next[LinkAt(g, c[g], i)]
      <4>1. LinkAt(g, c[g], i) # LinkAt(h, c[h], k - 1)
        BY <1>1, <2>4, <2>6, PlacesApart
      <4>2. LinkAt(g, c[g], i) \in Links
        BY <1>1, PlaceIsLink
      <4> QED BY <1>3, <2>4, <4>1, <4>2 DEF States
    <3>2. Len(c[g]) \in Nat
      BY <1>1
    <3> QED BY <1>1, <3>1, <3>2, RingKept
  <2>7. /\ Shorter(q, k) \in Seq(B) /\ Len(Shorter(q, k)) = Len(q) - 1
        /\ \A i \in 1 .. (Len(q) - 1) : Shorter(q, k)[i] = IF i < k THEN q[i] ELSE q[i + 1]
    BY <2>3, ShorterIs
  <2>8. ASSUME NEW g \in Lists, g # h PROVE c[g] \in Seq(B)
    <3>1. c[g] \in Seq(A) /\ \A i \in 1 .. Len(c[g]) : c[g][i] # l
      BY <1>1, <2>1, <2>8 DEF Apart
    <3>2. \A i \in 1 .. Len(c[g]) : c[g][i] \in B
      BY <3>1
    <3> HIDE DEF B
    <3> QED BY <3>1, <3>2
  <2> HIDE DEF q, d
  <2>9. d[h] = Shorter(q, k) /\ \A g \in Lists : g # h => d[g] = c[g]
    BY <1>1, <2>2
  <2>10. d \in [Lists -> Seq(B)]
    <3> DEFINE S == Seq(B)
    <3>1. \A g \in Lists : d[g] \in S
      BY <2>7, <2>8, <2>9
    <3> HIDE DEF S
    <3>2. d \in [Lists -> S]
      BY <1>1, <2>2, <3>1
    <3> QED BY <3>2 DEF S
  <2>11. \A g \in Lists : Ring(t, g, d[g])
    BY <2>5, <2>6, <2>9
  <2>12. Apart(d)
    <3> DEFINE idx(g, i) == IF g = h /\ ~ (i < k) THEN i + 1 ELSE i
    <3>1. ASSUME NEW g \in Lists, NEW i \in 1 .. Len(d[g])
          PROVE  i \in Nat /\ idx(g, i) \in 1 .. Len(c[g]) /\ d[g][i] = c[g][idx(g, i)]
      <4>1. CASE g = h
        <5>1. i \in 1 .. (Len(q) - 1) /\ Len(q) \in Nat /\ k \in 1 .. Len(q)
          BY <2>3, <2>7, <2>9, <4>1
        <5>2. i \in 1 .. Len(q) /\ i + 1 \in 1 .. Len(q)
          BY <5>1
        <5> QED BY <2>7, <2>9, <4>1, <5>1, <5>2 DEF q
      <4>2. CASE g # h
        BY <2>9, <4>2
      <4> QED BY <4>1, <4>2
    <3> SUFFICES ASSUME NEW g \in Lists, NEW f \in Lists,
                        NEW i \in 1 .. Len(d[g]), NEW j \in 1 .. Len(d[f]), d[g][i] = d[f][j]
                 PROVE  g = f /\ i = j
      BY DEF Apart
    <3>2. i \in Nat /\ j \in Nat /\ idx(g, i) \in 1 .. Len(c[g]) /\ idx(f, j) \in 1 .. Len(c[f])
          /\ c[g][idx(g, i)] = c[f][idx(f, j)]
      BY <3>1
    <3>3. g = f /\ idx(g, i) = idx(f, j)
      <4> HIDE DEF idx
      <4> QED BY <1>1, <3>2 DEF Apart
    <3>4. k \in Nat
      OBVIOUS
    <3> QED BY <3>2, <3>3, <3>4
  <2> QED BY <1>4, <2>10, <2>11, <2>12 DEF Shape, t, d
<1> QED BY <1>5, <1>6

-----------------------------------------------------------------------------
(* Putting a node in *)

\* r is q with x behind the first k elements.
HasMore(r, q, k, x) ==
  /\ Len(r) = Len(q) + 1
  /\ \A i \in 1 .. (Len(q) + 1) :
       r[i] = IF i <= k THEN q[i] ELSE IF i = k + 1 THEN x ELSE q[i - 1]

LEMMA LongerIs ==
  ASSUME NEW S, NEW q \in Seq(S), NEW k \in 0 .. Len(q), NEW x \in S
  PROVE  Inserted(q, k, x) \in Seq(S) /\ HasMore(Inserted(q, k, x), q, k, x)
<1>1. Len(q) + 1 \in Nat
  OBVIOUS
<1> QED BY <1>1, InsertAtIs DEF Inserted, HasMore

LEMMA PutShape ==
  ASSUME NEW s \in States, NEW W \in SUBSET Nodes, GoodOn(s, W \cup Lists),
         NEW c, Shape(s, W, c), NEW n \in Nodes \ W,
         NEW h \in Lists, NEW k \in 0 .. Len(c[h]),
         NEW p, p = LinkAt(h, c[h], k), NEW t \in States,
         t.prev = [s.prev EXCEPT ![n] = p, ![s.next[p].to] = n],
         t.next = [s.next EXCEPT ![n] = s.next[p], ![p] = Node(n)]
  PROVE  Shape(t, W \cup {n}, [c EXCEPT ![h] = Inserted(c[h], k, n)])
<1> DEFINE B == W \cup {n}
           q == c[h]
           r == Inserted(q, k, n)
           d == [c EXCEPT ![h] = r]
<1>1. /\ c \in [Lists -> Seq(W)] /\ Apart(c) /\ \A g \in Lists : Ring(s, g, c[g])
      /\ \A m \in W : s.prev[m] = m \/ Member(c, m)
  BY DEF Shape
<1>2. q \in Seq(W) /\ Len(q) \in Nat /\ k \in Nat /\ k <= Len(q)
  BY <1>1
<1>3. q \in Seq(B) /\ n \in B
  <2>1. \A i \in 1 .. Len(q) : q[i] \in B
    BY <1>2
  <2> HIDE DEF B
  <2>2. q \in Seq(B)
    BY <1>2, <2>1
  <2> QED BY <2>2 DEF B
<1>4. /\ r \in Seq(B) /\ Len(r) = Len(q) + 1
      /\ \A i \in 1 .. (Len(q) + 1) : r[i] = IF i <= k THEN q[i] ELSE IF i = k + 1 THEN n ELSE q[i - 1]
  <2>1. k \in 0 .. Len(q)
    OBVIOUS
  <2> HIDE DEF B, q, r
  <2>2. Inserted(q, k, n) \in Seq(B) /\ HasMore(Inserted(q, k, n), q, k, n)
    BY ONLY <1>3, <2>1, LongerIs
  <2> QED BY <2>2 DEF r, HasMore
<1>5. d[h] = r /\ \A g \in Lists : g # h => d[g] = c[g]
  BY <1>1
<1>6. ASSUME NEW g \in Lists, NEW i \in 0 .. Len(c[g])
      PROVE  /\ LinkAt(g, c[g], i) \in W \cup Lists /\ LinkAt(g, c[g], i) \in Links
             /\ LinkAt(g, c[g], i) # n
             /\ LinkAt(g, c[g], i) = p => g = h /\ i = k
  <2>1. LinkAt(g, c[g], i) \in W \cup Lists /\ LinkAt(g, c[g], i) \in Links
    BY <1>1, PlaceIsLink
  <2>2. LinkAt(g, c[g], i) # n
    BY <2>1, NListAssumption
  <2>3. LinkAt(g, c[g], i) = p => g = h /\ i = k
    <3> SUFFICES ASSUME LinkAt(g, c[g], i) = p PROVE g = h /\ i = k
      OBVIOUS
    <3>1. /\ W \in SUBSET Nodes /\ c \in [Lists -> Seq(W)] /\ Apart(c)
          /\ g \in Lists /\ h \in Lists /\ i \in 0 .. Len(c[g]) /\ k \in 0 .. Len(c[h])
          /\ LinkAt(g, c[g], i) = LinkAt(h, c[h], k)
      BY <1>1
    <3> QED BY ONLY <3>1, PlacesApart
  <2> QED BY <2>1, <2>2, <2>3
<1>7. p \in W \cup Lists /\ p \in Links /\ p # n
  BY <1>6
<1>8. /\ t.next[p] = Node(n) /\ t.next[n] = s.next[p]
      /\ \A x \in Links : x # n /\ x # p => t.next[x] = s.next[x]
  BY <1>7 DEF States, Links
<1>9. ASSUME NEW m \in B PROVE t.prev[m] = m \/ Member(d, m)
  <2>1. CASE m = n
    <3>1. k + 1 \in 1 .. Len(r) /\ r[k + 1] = n
      BY <1>2, <1>4
    <3> HIDE DEF r
    <3> QED BY <1>5, <2>1, <3>1 DEF Member
  <2>2. CASE m # n /\ Member(c, m)
    <3>1. PICK g \in Lists : \E i \in 1 .. Len(c[g]) : c[g][i] = m
      BY <2>2 DEF Member
    <3>2. PICK i \in 1 .. Len(c[g]) : c[g][i] = m
      BY <3>1
    <3> HIDE DEF r
    <3>3. CASE g # h
      BY <1>5, <3>2, <3>3 DEF Member
    <3>4. CASE g = h /\ i <= k
      <4>1. i \in 1 .. (Len(q) + 1) /\ i \in 1 .. Len(r)
        BY <1>2, <1>4, <3>4
      <4>2. r[i] = m
        BY <1>4, <3>2, <3>4, <4>1
      <4> QED BY <1>5, <4>1, <4>2 DEF Member
    <3>5. CASE g = h /\ ~ (i <= k)
      <4>1. i + 1 \in 1 .. (Len(q) + 1) /\ i + 1 \in 1 .. Len(r) /\ ~ (i + 1 <= k) /\ i + 1 # k + 1
            /\ (i + 1) - 1 = i
        BY <1>2, <1>4, <3>5
      <4>2. r[i + 1] = m
        BY <1>4, <3>2, <3>5, <4>1
      <4> QED BY <1>5, <4>1, <4>2 DEF Member
    <3> QED BY <3>3, <3>4, <3>5
  <2>3. CASE m # n /\ ~ Member(c, m)
    <3>1. m \in W /\ s.prev[m] = m /\ m \in Links
      BY <1>1, <2>3 DEF Links
    <3>2. m # s.next[p].to
      <4>1. s.prev[s.next[p].to] = p
        BY <1>7 DEF GoodOn
      <4>2. m # p
        <5> SUFFICES ASSUME m = p PROVE FALSE
          OBVIOUS
        <5>1. k # 0
          BY <3>1, NListAssumption DEF LinkAt
        <5>2. k \in 1 .. Len(c[h]) /\ c[h][k] = m
          BY <1>2, <5>1 DEF LinkAt
        <5> QED BY <2>3, <5>2 DEF Member
      <4> QED BY <3>1, <4>1, <4>2
    <3>3. t.prev[m] = s.prev[m]
      BY <2>3, <3>1, <3>2 DEF States
    <3> QED BY <3>1, <3>3
  <2> QED BY <2>1, <2>2, <2>3
<1>10. ASSUME NEW g \in Lists, g # h PROVE Ring(t, g, c[g])
  <2>1. \A i \in 0 .. Len(c[g]) : t.next[LinkAt(g, c[g], i)] = s.next[LinkAt(g, c[g], i)]
    BY <1>6, <1>8, <1>10
  <2>2. Len(c[g]) \in Nat
    BY <1>1
  <2> QED BY <1>1, <2>1, <2>2, RingKept
<1> HIDE DEF r
<1>11. ASSUME NEW i \in 0 .. (Len(q) + 1)
       PROVE  LinkAt(h, r, i) = IF i <= k THEN LinkAt(h, q, i) ELSE IF i = k + 1 THEN n ELSE LinkAt(h, q, i - 1)
  <2>1. CASE i = 0
    BY <1>2, <2>1 DEF LinkAt
  <2>2. CASE i # 0
    <3>1. i \in 1 .. (Len(q) + 1)
      BY <1>2, <2>2
    <3>2. ~ (i <= k) /\ i # k + 1 => i - 1 # 0
      BY <1>2, <2>2
    <3> QED BY <1>4, <2>2, <3>1, <3>2 DEF LinkAt
  <2> QED BY <2>1, <2>2
<1>12. /\ \A i \in 1 .. Len(q) : s.next[LinkAt(h, q, i - 1)] = Node(q[i])
       /\ s.next[LinkAt(h, q, Len(q))] = End(h)
  BY <1>1 DEF Ring
<1>13. \A i \in 0 .. Len(q) : t.next[LinkAt(h, q, i)] = IF i = k THEN Node(n) ELSE s.next[LinkAt(h, q, i)]
  BY <1>6, <1>8
<1> HIDE DEF q
<1>14. ASSUME NEW i \in 1 .. (Len(q) + 1) PROVE t.next[LinkAt(h, r, i - 1)] = Node(r[i])
  <2>1. CASE i <= k
    <3>1. i - 1 \in 0 .. (Len(q) + 1) /\ i - 1 <= k /\ i - 1 # k /\ i - 1 \in 0 .. Len(q) /\ i \in 1 .. Len(q)
      BY <1>2, <2>1
    <3>2. LinkAt(h, r, i - 1) = LinkAt(h, q, i - 1) /\ r[i] = q[i]
      BY <1>4, <1>11, <2>1, <3>1
    <3> QED BY <1>12, <1>13, <3>1, <3>2
  <2>2. CASE i = k + 1
    <3>1. i - 1 = k /\ i - 1 \in 0 .. (Len(q) + 1) /\ i - 1 \in 0 .. Len(q) /\ ~ (i <= k)
      BY <1>2, <2>2
    <3>2. LinkAt(h, r, i - 1) = LinkAt(h, q, i - 1) /\ r[i] = n
      BY <1>4, <1>11, <2>2, <3>1
    <3> QED BY <1>13, <3>1, <3>2
  <2>3. CASE i = k + 2
    <3>1. /\ i - 1 = k + 1 /\ i - 1 \in 0 .. (Len(q) + 1) /\ ~ (i - 1 <= k) /\ ~ (i <= k) /\ i # k + 1
          /\ i - 1 \in 1 .. Len(q) /\ (i - 1) - 1 = k
      <4>1. PICK z \in Nat : z = Len(q)
        BY <1>2
      <4>2. k \in Nat /\ i = k + 2 /\ i <= z + 1
        BY <1>2, <2>3, <4>1
      <4>3. /\ i - 1 = k + 1 /\ i - 1 \in 0 .. (z + 1) /\ ~ (i - 1 <= k) /\ ~ (i <= k) /\ i # k + 1
            /\ i - 1 \in 1 .. z /\ (i - 1) - 1 = k
        BY ONLY z \in Nat, <4>2
      <4> QED BY ONLY <4>1, <4>3
    <3>2. LinkAt(h, r, i - 1) = n /\ r[i] = q[i - 1]
      BY <1>4, <1>11, <3>1
    <3>3. s.next[p] = Node(q[i - 1])
      BY <1>12, <3>1 DEF q
    <3> QED BY <1>8, <3>2, <3>3
  <2>4. CASE i > k + 2
    <3>1. /\ i - 1 \in 0 .. (Len(q) + 1) /\ ~ (i - 1 <= k) /\ i - 1 # k + 1 /\ ~ (i <= k) /\ i # k + 1
          /\ i - 1 \in 1 .. Len(q) /\ (i - 1) - 1 \in 0 .. Len(q) /\ (i - 1) - 1 # k
      BY <1>2, <2>4
    <3>2. LinkAt(h, r, i - 1) = LinkAt(h, q, (i - 1) - 1) /\ r[i] = q[i - 1]
      BY <1>4, <1>11, <3>1
    <3> DEFINE j == i - 1
    <3>3. j \in 1 .. Len(q) /\ j - 1 \in 0 .. Len(q) /\ j - 1 # k
      BY <3>1
    <3> HIDE DEF j
    <3>4. t.next[LinkAt(h, q, j - 1)] = Node(q[j])
      BY <1>12, <1>13, <3>3
    <3> QED BY <3>2, <3>4 DEF j
  <2>5. i \in Nat /\ k \in Nat
    BY <1>2
  <2>6. i <= k \/ i = k + 1 \/ i = k + 2 \/ i > k + 2
    BY <2>5
  <2> QED BY <2>1, <2>2, <2>3, <2>4, <2>6
<1>15. t.next[LinkAt(h, r, Len(q) + 1)] = End(h)
  <2>1. Len(q) + 1 \in 0 .. (Len(q) + 1) /\ ~ (Len(q) + 1 <= k) /\ (Len(q) + 1) - 1 = Len(q)
        /\ Len(q) \in 0 .. Len(q)
    BY <1>2
  <2>2. CASE k = Len(q)
    <3>1. LinkAt(h, r, Len(q) + 1) = n
      BY <1>11, <2>1, <2>2
    <3>2. s.next[p] = End(h)
      BY <1>12, <2>2 DEF q
    <3> QED BY <1>8, <3>1, <3>2
  <2>3. CASE k # Len(q)
    <3>1. Len(q) + 1 # k + 1
      BY <1>2, <2>3
    <3>2. LinkAt(h, r, Len(q) + 1) = LinkAt(h, q, Len(q))
      BY <1>11, <2>1, <3>1
    <3> QED BY <1>12, <1>13, <2>1, <2>3, <3>2
  <2> QED BY <2>2, <2>3
<1>16. Ring(t, h, r)
  BY <1>4, <1>14, <1>15 DEF Ring
<1> HIDE DEF d
<1>17. \A g \in Lists : Ring(t, g, d[g])
  BY <1>5, <1>10, <1>16
<1>18. d \in [Lists -> Seq(B)]
  <2>1. ASSUME NEW g \in Lists, g # h PROVE c[g] \in Seq(B)
    <3>1. c[g] \in Seq(W) /\ \A i \in 1 .. Len(c[g]) : c[g][i] \in B
      BY <1>1
    <3> HIDE DEF B
    <3> QED BY <3>1
  <2> DEFINE S == Seq(B)
  <2>2. \A g \in Lists : d[g] \in S
    BY <1>4, <1>5, <2>1
  <2> HIDE DEF S
  <2>3. d \in [Lists -> S]
    BY <1>1, <2>2 DEF d
  <2> QED BY <2>3 DEF S
<1>19. Apart(d)
  <2> DEFINE idx(g, i) == IF g = h /\ i > k + 1 THEN i - 1 ELSE i
             new(g, i) == g = h /\ i = k + 1
  <2>1. ASSUME NEW g \in Lists, NEW i \in 1 .. Len(d[g])
        PROVE  /\ i \in Nat
               /\ new(g, i) => d[g][i] = n
               /\ ~ new(g, i) => idx(g, i) \in 1 .. Len(c[g]) /\ d[g][i] = c[g][idx(g, i)]
                                   /\ c[g][idx(g, i)] \in W
    <3>1. CASE g = h
      <4>1. i \in 1 .. (Len(q) + 1)
        BY <1>4, <1>5, <3>1
      <4>2. i <= k => i \in 1 .. Len(q) /\ ~ (i > k + 1)
        BY <1>2, <4>1
      <4>3. i > k + 1 => i - 1 \in 1 .. Len(q) /\ ~ (i <= k) /\ i # k + 1
        BY <1>2, <4>1
      <4>4. i <= k \/ i = k + 1 \/ i > k + 1
        BY <1>2, <4>1
      <4>5. d[g][i] = IF i <= k THEN q[i] ELSE IF i = k + 1 THEN n ELSE q[i - 1]
        BY <1>4, <1>5, <3>1, <4>1
      <4>6. i = k + 1 => ~ (i <= k)
        BY <1>2
      <4>7. \A j \in 1 .. Len(q) : q[j] \in W
        BY <1>2
      <4>8. ~ new(g, i) => idx(g, i) \in 1 .. Len(q) /\ d[g][i] = q[idx(g, i)]
        BY <3>1, <4>2, <4>3, <4>4, <4>5
      <4> QED BY <3>1, <4>1, <4>5, <4>6, <4>7, <4>8 DEF q
    <3>2. CASE g # h
      BY <1>1, <1>5, <3>2
    <3> QED BY <3>1, <3>2
  <2> SUFFICES ASSUME NEW g \in Lists, NEW f \in Lists,
                      NEW i \in 1 .. Len(d[g]), NEW j \in 1 .. Len(d[f]), d[g][i] = d[f][j]
               PROVE  g = f /\ i = j
    BY DEF Apart
  <2>2. CASE new(g, i) /\ new(f, j)
    BY <2>2
  <2>3. CASE new(g, i) /\ ~ new(f, j)
    BY <2>1, <2>3
  <2>4. CASE ~ new(g, i) /\ new(f, j)
    <3>1. d[f][j] = n /\ d[g][i] = c[g][idx(g, i)] /\ c[g][idx(g, i)] \in W
      BY <2>1, <2>4
    <3> QED BY <3>1
  <2>5. CASE ~ new(g, i) /\ ~ new(f, j)
    <3>1. /\ i \in Nat /\ j \in Nat /\ idx(g, i) \in 1 .. Len(c[g]) /\ idx(f, j) \in 1 .. Len(c[f])
          /\ c[g][idx(g, i)] = c[f][idx(f, j)]
      BY <2>1, <2>5
    <3>2. g = f /\ idx(g, i) = idx(f, j)
      <4> HIDE DEF idx
      <4> QED BY <1>1, <3>1 DEF Apart
    <3> QED BY <1>2, <2>5, <3>1, <3>2
  <2> QED BY <2>2, <2>3, <2>4, <2>5
<1> QED BY <1>9, <1>17, <1>18, <1>19 DEF Shape, d, r, q

-----------------------------------------------------------------------------
(* The operations on links as operations on lists *)

LEMMA AloneShape ==
  ASSUME NEW s \in States, NEW W \in SUBSET Nodes, NEW c, Shape(s, W, c), NEW n \in Nodes \ W,
         NEW t \in States,
         t.prev = [s.prev EXCEPT ![n] = n], t.next = [s.next EXCEPT ![n] = End(n)]
  PROVE  Shape(t, W \cup {n}, c)
<1> DEFINE B == W \cup {n}
<1>1. /\ c \in [Lists -> Seq(W)] /\ Apart(c) /\ \A g \in Lists : Ring(s, g, c[g])
      /\ \A m \in W : s.prev[m] = m \/ Member(c, m)
  BY DEF Shape
<1>2. n \in Links /\ n \notin Lists
  BY NListAssumption DEF Links
<1>3. ASSUME NEW g \in Lists PROVE Ring(t, g, c[g]) /\ c[g] \in Seq(B)
  <2>1. c[g] \in Seq(W) /\ Len(c[g]) \in Nat /\ Ring(s, g, c[g])
    BY <1>1
  <2>2. ASSUME NEW i \in 0 .. Len(c[g])
        PROVE t.next[LinkAt(g, c[g], i)] = s.next[LinkAt(g, c[g], i)]
    <3>1. LinkAt(g, c[g], i) \in W \cup Lists /\ LinkAt(g, c[g], i) \in Links
      BY <2>1, PlaceIsLink
    <3> QED BY <1>2, <3>1 DEF States
  <2>3. \A i \in 1 .. Len(c[g]) : c[g][i] \in B
    BY <2>1
  <2> HIDE DEF B
  <2>4. c[g] \in Seq(B)
    BY <2>1, <2>3
  <2> QED BY <2>1, <2>2, <2>4, RingKept
<1>4. c \in [Lists -> Seq(B)]
  <2> HIDE DEF B
  <2> QED BY <1>1, <1>3
<1>5. ASSUME NEW m \in B PROVE t.prev[m] = m \/ Member(c, m)
  <2>1. m \in Links
    BY DEF Links
  <2> QED BY <1>1, <1>2, <2>1 DEF States
<1> QED BY <1>1, <1>3, <1>4, <1>5 DEF Shape

LEMMA UnlinkShape ==
  ASSUME NEW s \in States, NEW A \in SUBSET Nodes, GoodOn(s, A \cup Lists),
         NEW c, Shape(s, A, c), NEW l \in A
  PROVE  Shape(Unlinked(s, l), A, Minus(c, l))
<1> DEFINE out == RemoveFromList(s, l)
           t == Unlinked(s, l)
<1>1. Shape(out, A \ {l}, Minus(c, l))
  BY RemoveShape
<1>2. out \in States /\ t \in States
  <2>1. A \cup Lists \in SUBSET Links /\ l \in A \cup Lists
    BY DEF Links
  <2> QED BY <2>1, RemoveGood, UnlinkGood
<1>3. t.prev = [out.prev EXCEPT ![l] = l] /\ t.next = [out.next EXCEPT ![l] = End(l)]
  BY DEF Unlinked
<1>4. A \ {l} \in SUBSET Nodes /\ l \in Nodes \ (A \ {l}) /\ (A \ {l}) \cup {l} = A
  OBVIOUS
<1> HIDE DEF out, t
<1>5. Shape(t, (A \ {l}) \cup {l}, Minus(c, l))
  BY <1>1, <1>2, <1>3, <1>4, AloneShape
<1> QED BY <1>4, <1>5 DEF t

\* t has the lists of c but n, and n at some place of one of them.
PutIn(t, A, c, n) ==
  \E h \in Lists : \E k \in 0 .. Len(Minus(c, n)[h]) :
    Shape(t, A, [Minus(c, n) EXCEPT ![h] = Inserted(Minus(c, n)[h], k, n)])

LEMMA InsertShape ==
  ASSUME NEW s \in States, NEW A \in SUBSET Nodes, GoodOn(s, A \cup Lists),
         NEW c, Shape(s, A, c), NEW n \in A, NEW at \in (A \cup Lists) \ {n},
         at \in Lists \/ s.prev[at] # at
  PROVE  PutIn(InsertBefore(s, n, at), A, c, n) /\ PutIn(InsertAfter(s, n, at), A, c, n)
<1> DEFINE out == RemoveFromList(s, n)
           W == A \ {n}
           V == A \cup Lists
           d == Minus(c, n)
<1>1. /\ V \in SUBSET Links /\ n \in V /\ n \notin Lists /\ at \in V \ {n} /\ V \ {n} = W \cup Lists
      /\ W \in SUBSET Nodes /\ n \in Nodes \ W /\ W \cup {n} = A
  BY NListAssumption DEF Links
<1>2. out \in States /\ GoodOn(out, W \cup Lists)
  <2>1. out \in States /\ GoodOn(out, V \ {n})
    BY <1>1, RemoveGood
  <2> QED BY <1>1, <2>1
<1>3. Shape(out, W, d)
  BY RemoveShape
<1>4. /\ InsertBefore(s, n, at) \in States /\ InsertAfter(s, n, at) \in States
  <2> HIDE DEF V
  <2> QED BY <1>1, InsertGood DEF V
<1> HIDE DEF d, out
<1>5. /\ d \in [Lists -> Seq(W)] /\ Apart(d) /\ \A g \in Lists : Ring(out, g, d[g])
  BY <1>3 DEF Shape
<1>6. \E h \in Lists : \E k \in 0 .. Len(d[h]) : at = LinkAt(h, d[h], k)
  <2>1. CASE at \in Lists
    <3>1. 0 \in 0 .. Len(d[at]) /\ at = LinkAt(at, d[at], 0)
      BY <1>5, <2>1 DEF LinkAt
    <3> QED BY <2>1, <3>1
  <2>2. CASE at \notin Lists
    <3>1. c \in [Lists -> Seq(A)] /\ Apart(c) /\ Member(c, at) /\ at # n
      BY <2>2 DEF Shape
    <3>2. Member(d, at)
      BY <3>1, StillMember DEF d
    <3>3. PICK h \in Lists : \E k \in 1 .. Len(d[h]) : d[h][k] = at
      BY <3>2 DEF Member
    <3>4. PICK k \in 1 .. Len(d[h]) : d[h][k] = at
      BY <3>3
    <3>5. k \in 0 .. Len(d[h]) /\ at = LinkAt(h, d[h], k)
      BY <1>5, <3>4 DEF LinkAt
    <3> QED BY <3>5
  <2> QED BY <2>1, <2>2
<1>7. ASSUME NEW t \in States, NEW h \in Lists, NEW k \in 0 .. Len(d[h]),
             t.prev = [out.prev EXCEPT ![n] = LinkAt(h, d[h], k),
                 ![out.next[LinkAt(h, d[h], k)].to] = n],
             t.next = [out.next EXCEPT ![n] = out.next[LinkAt(h, d[h], k)],
                 ![LinkAt(h, d[h], k)] = Node(n)]
      PROVE  PutIn(t, A, c, n)
  <2> DEFINE p == LinkAt(h, d[h], k)
  <2>1. /\ out \in States /\ W \in SUBSET Nodes /\ GoodOn(out, W \cup Lists) /\ Shape(out, W, d)
        /\ n \in Nodes \ W /\ h \in Lists /\ k \in 0 .. Len(d[h]) /\ p = LinkAt(h, d[h], k)
        /\ t \in States
        /\ t.prev = [out.prev EXCEPT ![n] = p, ![out.next[p].to] = n]
        /\ t.next = [out.next EXCEPT ![n] = out.next[p], ![p] = Node(n)]
    BY <1>1, <1>2, <1>3, <1>7
  <2> HIDE DEF p, W
  <2>2. Shape(t, W \cup {n}, [d EXCEPT ![h] = Inserted(d[h], k, n)])
    BY ONLY <2>1, PutShape, ZenonT(60)
  <2>3. Shape(t, A, [d EXCEPT ![h] = Inserted(d[h], k, n)])
    BY <1>1, <2>2 DEF W
  <2> QED BY <2>3 DEF PutIn, d
<1>8. PICK h \in Lists : \E k \in 0 .. Len(d[h]) : at = LinkAt(h, d[h], k)
  BY <1>6
<1>9. PICK k \in 0 .. Len(d[h]) : at = LinkAt(h, d[h], k)
  BY <1>8
<1>10. PutIn(InsertAfter(s, n, at), A, c, n)
  <2> DEFINE t == InsertAfter(s, n, at)
             q == out.next[at].to
  <2>1. [out.next EXCEPT ![n] = out.next[at]][at].to = q
    BY <1>1, <1>2 DEF States
  <2>2. /\ t.prev = [out.prev EXCEPT ![n] = at, ![q] = n]
        /\ t.next = [out.next EXCEPT ![n] = out.next[at], ![at] = Node(n)]
    BY <2>1 DEF InsertAfter, out
  <2>3. t \in States
    BY <1>4
  <2> HIDE DEF t
  <2>4. PutIn(t, A, c, n)
    BY <1>7, <1>9, <2>2, <2>3
  <2> QED BY <2>4 DEF t
<1>11. PutIn(InsertBefore(s, n, at), A, c, n)
  <2> DEFINE t == InsertBefore(s, n, at)
             p == out.prev[at]
             j == IF k = 0 THEN Len(d[h]) ELSE k - 1
  <2>1. [out.prev EXCEPT ![n] = p][at] = p
    BY <1>1, <1>2 DEF States
  <2>2. /\ t.prev = [out.prev EXCEPT ![n] = p, ![at] = n]
        /\ t.next = [out.next EXCEPT ![n] = out.next[p], ![p] = Node(n)]
    BY <2>1 DEF InsertBefore, out
  <2>3. t \in States
    BY <1>4
  <2>4. out.next[p].to = at
    BY <1>1, <1>2 DEF GoodOn
  <2>5. j \in 0 .. Len(d[h]) /\ p = LinkAt(h, d[h], j)
    <3>1. /\ \A i \in 1 .. Len(d[h]) : out.prev[d[h][i]] = LinkAt(h, d[h], i - 1)
          /\ out.prev[h] = LinkAt(h, d[h], Len(d[h])) /\ Len(d[h]) \in Nat
      <4>1. d[h] \in Seq(W) /\ Ring(out, h, d[h])
        BY <1>5
      <4> HIDE DEF W
      <4> QED BY <1>1, <1>2, <4>1, RingPrev
    <3>2. CASE k = 0
      BY <1>9, <3>1, <3>2 DEF LinkAt
    <3>3. CASE k # 0
      <4>1. k \in 1 .. Len(d[h]) /\ at = d[h][k] /\ j = k - 1 /\ k - 1 \in 0 .. Len(d[h])
        BY <1>9, <3>1, <3>3 DEF LinkAt
      <4> QED BY <3>1, <4>1
    <3> QED BY <3>2, <3>3
  <2> HIDE DEF t, p, j
  <2>6. PutIn(t, A, c, n)
    BY <1>7, <2>2, <2>3, <2>4, <2>5
  <2> QED BY <2>6 DEF t
<1> QED BY <1>10, <1>11

-----------------------------------------------------------------------------
(* Reading a list *)

\* A list is not longer than there are nodes.
LEMMA SizeIs ==
  ASSUME NEW A \in SUBSET Nodes, NEW q \in Seq(A), Once(q)
  PROVE  Cardinality(Nodes) \in Nat /\ Len(q) \in 0 .. Cardinality(Nodes)
<1>1. Cardinality(Nodes) \in Nat /\ IsFiniteSet(Nodes)
  BY NListAssumption, FS_CardinalityType
<1> DEFINE m == Len(q)
           D == 1 .. m
<1>2. m \in Nat
  OBVIOUS
<1>3. q \in [D -> A] /\ DOMAIN q = D
  OBVIOUS
<1>4. q \in [D -> Nodes] /\ \A i, j \in D : q[i] = q[j] => i = j
  BY <1>3 DEF Once
<1> HIDE DEF D
<1>5. q \in Injection(D, Nodes)
  BY <1>3, <1>4 DEF Injection, IsInjective
<1>6. Cardinality(D) <= Cardinality(Nodes)
  BY <1>1, <1>5, FS_Injection
<1>7. Cardinality(D) = m
  <2>1. 1 \in Int /\ m \in Int
    BY <1>2
  <2>2. Cardinality(1 .. m) = IF 1 > m THEN 0 ELSE m - 1 + 1
    BY <2>1, FS_Interval
  <2> QED BY <1>2, <2>2 DEF D
<1> QED BY <1>1, <1>2, <1>6, <1>7

\* Walking over Next reads the sequence of the ring.
LEMMA SpellIs ==
  ASSUME TypeOK, NEW A \in SUBSET Nodes, NEW h \in Lists, NEW q \in Seq(A),
         Once(q), Ring(Now, h, q)
  PROVE  ListSeq(h) = q
<1> DEFINE size == Cardinality(Nodes)
           F == [i \in 1 .. size |-> [x \in Links |-> next[x].to]]
<1>1. size \in Nat /\ Len(q) \in 0 .. size /\ Len(q) \in Nat
  BY SizeIs
<1>2. h \in Links /\ next \in [Links -> Pointers] /\ \A x \in Links : next[x].to \in Links
  BY DEF TypeOK, Pointers, Links
<1>3. \E g : IsLoop(g, size, Links, h, F)
  <2>1. F \in [1 .. size -> [Links -> Links]]
    BY <1>2
  <2> HIDE DEF F, size
  <2> QED BY <1>1, <1>2, <2>1, LoopExists
<1>4. PICK g : IsLoop(g, size, Links, h, F)
  BY <1>3
<1>5. \A i \in 1 .. size : g[i] = next[g[i - 1]].to
  <2> SUFFICES ASSUME NEW i \in 1 .. size PROVE g[i] = next[g[i - 1]].to
    OBVIOUS
  <2>1. i - 1 \in 0 .. size /\ g[i - 1] \in Links
    BY <1>1, <1>4 DEF IsLoop
  <2>2. F[i][g[i - 1]] = next[g[i - 1]].to
    BY <2>1
  <2> QED BY <1>4, <2>2 DEF IsLoop
<1>6. g = [i \in 0 .. size |-> IF i = 0 THEN h ELSE next[g[i - 1]].to]
  BY <1>1, <1>4, <1>5 DEF IsLoop
<1> DEFINE f == CHOOSE at : at = [i \in 0 .. size |-> IF i = 0 THEN h ELSE next[at[i - 1]].to]
           ends(i) == /\ next[f[i]].end \/ i = size
                      /\ \A j \in 0 .. i - 1 : ~ next[f[j]].end
           n == CHOOSE i \in 0 .. size : ends(i)
<1>7. f = [i \in 0 .. size |-> IF i = 0 THEN h ELSE next[f[i - 1]].to]
  BY <1>6
<1>8. ListSeq(h) = [i \in 1 .. n |-> f[i]]
  BY DEF ListSeq
<1> HIDE DEF f, F
<1>9. f[0] = h /\ \A i \in 1 .. size : f[i] = next[f[i - 1]].to
  BY <1>1, <1>7
<1>10. /\ \A i \in 1 .. Len(q) : next[LinkAt(h, q, i - 1)] = Node(q[i])
       /\ next[LinkAt(h, q, Len(q))] = End(h)
  BY DEF Ring, Now
<1> DEFINE S == {i \in 0 .. Len(q) : f[i] = LinkAt(h, q, i)}
<1> HIDE DEF size
<1>11. 0 \in S
  BY <1>1, <1>9 DEF LinkAt
<1>12. ASSUME NEW j \in 1 .. Len(q), j - 1 \in S PROVE j \in S
  <2>1. j \in 1 .. size /\ j # 0 /\ j \in 0 .. Len(q)
    BY <1>1
  <2>2. f[j] = next[LinkAt(h, q, j - 1)].to
    BY <1>9, <1>12, <2>1
  <2>3. next[LinkAt(h, q, j - 1)] = Node(q[j]) /\ Node(q[j]).to = q[j]
    BY <1>10 DEF Node
  <2>4. f[j] = q[j]
    BY <2>2, <2>3
  <2> QED BY <2>1, <2>4 DEF LinkAt
<1>13. 0 .. Len(q) \subseteq S
  <2>1. \A j \in 1 .. Len(q) : j - 1 \in S => j \in S
    BY <1>12
  <2> HIDE DEF S
  <2> QED BY <1>1, <1>11, <2>1, LoopInduction
<1>14. \A i \in 0 .. Len(q) : f[i] = LinkAt(h, q, i)
  BY <1>13
<1> HIDE DEF S
<1>15. ASSUME NEW i \in 0 .. Len(q) PROVE next[f[i]].end <=> i = Len(q)
  <2>1. CASE i = Len(q)
    BY <1>10, <1>14, <2>1 DEF End
  <2>2. CASE i # Len(q)
    <3> DEFINE j == i + 1
    <3>1. j \in 1 .. Len(q) /\ j - 1 = i
      BY <1>1, <2>2
    <3>2. next[LinkAt(h, q, j - 1)] = Node(q[j])
      BY <1>10, <3>1
    <3> QED BY <1>14, <2>2, <3>1, <3>2 DEF Node
  <2> QED BY <2>1, <2>2
<1>16. n = Len(q)
  <2>1. ends(Len(q))
    <3>1. \A j \in 0 .. Len(q) - 1 : j \in 0 .. Len(q) /\ j # Len(q)
      BY <1>1
    <3>2. Len(q) \in 0 .. Len(q)
      BY <1>1
    <3> QED BY <1>15, <3>1, <3>2
  <2>2. ASSUME NEW i \in 0 .. size, ends(i) PROVE i = Len(q)
    <3>1. CASE i < Len(q)
      <4>1. i \in 0 .. Len(q) /\ i # size /\ i # Len(q)
        BY <1>1, <3>1
      <4> QED BY <1>15, <2>2, <4>1
    <3>2. CASE i > Len(q)
      <4>1. Len(q) \in 0 .. i - 1 /\ Len(q) \in 0 .. Len(q)
        BY <1>1, <3>2
      <4> QED BY <1>15, <2>2, <4>1
    <3> QED BY <1>1, <3>1, <3>2
  <2> HIDE DEF ends
  <2> QED BY <1>1, <2>1, <2>2
<1> HIDE DEF n
<1>17. ListSeq(h) = [i \in 1 .. Len(q) |-> q[i]]
  <2>1. \A i \in 1 .. Len(q) : f[i] = q[i]
    BY <1>1, <1>14 DEF LinkAt
  <2> QED BY <1>8, <1>16, <2>1
<1>18. q = [i \in 1 .. Len(q) |-> q[i]]
  OBVIOUS
<1> QED BY <1>17, <1>18

-----------------------------------------------------------------------------
(* The steps *)

Contents == [h \in Lists |-> ListSeq(h)]

LEMMA ContentsAre == \A c : TypeOK /\ Shape(Now, alive, c) => Contents = c
<1> SUFFICES ASSUME NEW c, TypeOK, Shape(Now, alive, c) PROVE Contents = c
  OBVIOUS
<1>1. alive \in SUBSET Nodes /\ c \in [Lists -> Seq(alive)]
  BY DEF TypeOK, Shape
<1>2. ASSUME NEW h \in Lists PROVE ListSeq(h) = c[h]
  <2>1. c[h] \in Seq(alive) /\ Once(c[h]) /\ Ring(Now, h, c[h])
    BY <1>1 DEF Shape, Apart, Once
  <2> QED BY <1>1, <2>1, SpellIs
<1> QED BY <1>1, <1>2 DEF Contents

LEMMA ContentsArePrimed == (\A c : TypeOK /\ Shape(Now, alive, c) => Contents = c)'
  BY ContentsAre, PTL

\* What ListSpec lets the lists do.
Moves(c, d) ==
  \/ d = c
  \/ \E n \in Nodes :
       \/ d = Minus(c, n)
       \/ \E h \in Lists : \E k \in 0 .. Len(Minus(c, n)[h]) :
            d = [Minus(c, n) EXCEPT ![h] = Inserted(Minus(c, n)[h], k, n)]

\* A step leads from the lists c to lists that ListSpec allows next.
Shaped(c) == \E d : Shape(Now', alive', d) /\ Moves(c, d)

LEMMA BecomesNow ==
  ASSUME NEW s \in States, Become(s)
  PROVE  Now' = s
  BY DEF Become, Now, States

LEMMA StepShape ==
  ASSUME Inv, NEW c, Shape(Now, alive, c), [Next]_vars
  PROVE  Shaped(c)
<1>1. /\ Now \in States /\ GoodOn(Now, alive \cup Lists) /\ alive \cup Lists \in SUBSET Links
      /\ alive \in SUBSET Nodes
      /\ emptying \in Lists \cup {NoList} /\ deleting \in BOOLEAN
      /\ Now.prev = prev /\ Now.next = next
  BY NowIsState DEF Inv, TypeOK, Coherent, Live, Links, Now
<1>2. ASSUME NEW n \in Nodes, New(n) PROVE Shaped(c)
  <2> DEFINE t == [prev |-> [prev EXCEPT ![n] = n], next |-> [next EXCEPT ![n] = End(n)]]
  <2>1. n \in Nodes \ alive /\ n \in Links
    BY <1>2 DEF New, Links
  <2>2. End(n) \in Pointers
    BY <2>1 DEF End, Pointers
  <2>3. t \in States
    BY <1>1, <2>1, <2>2 DEF States, Now
  <2>4. t.prev = [Now.prev EXCEPT ![n] = n] /\ t.next = [Now.next EXCEPT ![n] = End(n)]
    BY DEF Now
  <2>5. Become(t) /\ alive' = alive \cup {n}
    BY <1>2 DEF New
  <2> HIDE DEF t
  <2>6. Shape(t, alive \cup {n}, c)
    BY <1>1, <2>1, <2>3, <2>4, AloneShape
  <2>7. Shape(Now', alive', c)
    BY <2>3, <2>5, <2>6, BecomesNow
  <2> QED BY <2>7 DEF Shaped, Moves
<1>3. ASSUME NEW n \in alive, Become(Unlinked(Now, n)), alive' = alive PROVE Shaped(c)
  <2>1. Shape(Unlinked(Now, n), alive, Minus(c, n))
    BY <1>1, UnlinkShape
  <2>2. Unlinked(Now, n) \in States
    BY <1>1, UnlinkGood
  <2>3. Shape(Now', alive', Minus(c, n)) /\ n \in Nodes
    BY <1>1, <1>3, <2>1, <2>2, BecomesNow
  <2> QED BY <2>3 DEF Shaped, Moves
<1>4. ASSUME NEW n \in alive, Become(RemoveFromList(Now, n)), alive' = alive \ {n}
      PROVE  Shaped(c)
  <2>1. Shape(RemoveFromList(Now, n), alive \ {n}, Minus(c, n))
    BY <1>1, RemoveShape
  <2>2. RemoveFromList(Now, n) \in States
    BY <1>1, RemoveGood
  <2>3. Shape(Now', alive', Minus(c, n)) /\ n \in Nodes
    BY <1>1, <1>4, <2>1, <2>2, BecomesNow
  <2> QED BY <2>3 DEF Shaped, Moves
<1>5. ASSUME NEW n \in Nodes, NEW at \in Links,
             ListInsertBefore(n, at) \/ ListInsertAfter(n, at)
      PROVE  Shaped(c)
  <2>1. /\ n \in alive /\ n \notin Lists /\ at \in (alive \cup Lists) \ {n}
        /\ at \in Lists \/ Now.prev[at] # at
        /\ alive' = alive
    BY <1>1, <1>5, NListAssumption
       DEF ListInsertBefore, ListInsertAfter, Place, IsLinked
  <2>2. PICK t \in States : Become(t) /\ PutIn(t, alive, c, n)
    <3>1. PutIn(InsertBefore(Now, n, at), alive, c, n) /\ PutIn(InsertAfter(Now, n, at), alive, c, n)
      BY <1>1, <2>1, InsertShape
    <3>2. InsertBefore(Now, n, at) \in States /\ InsertAfter(Now, n, at) \in States
      <4> DEFINE V == alive \cup Lists
      <4>1. V \in SUBSET Links /\ GoodOn(Now, V) /\ n \in V /\ at \in V \ {n}
        BY <1>1, <2>1
      <4> HIDE DEF V
      <4> QED BY <1>1, <2>1, <4>1, InsertGood
    <3>3. Become(InsertBefore(Now, n, at)) \/ Become(InsertAfter(Now, n, at))
      BY <1>5 DEF ListInsertBefore, ListInsertAfter
    <3> QED BY <3>1, <3>2, <3>3
  <2>3. Now' = t
    BY <2>2, BecomesNow
  <2>4. PICK h \in Lists : \E k \in 0 .. Len(Minus(c, n)[h]) :
               Shape(t, alive, [Minus(c, n) EXCEPT ![h] = Inserted(Minus(c, n)[h], k, n)])
    BY <2>2 DEF PutIn
  <2>5. PICK k \in 0 .. Len(Minus(c, n)[h]) :
               Shape(t, alive, [Minus(c, n) EXCEPT ![h] = Inserted(Minus(c, n)[h], k, n)])
    BY <2>4
  <2> DEFINE d == [Minus(c, n) EXCEPT ![h] = Inserted(Minus(c, n)[h], k, n)]
  <2>6. Moves(c, d)
    BY DEF Moves
  <2>7. Shape(Now', alive', d)
    BY <2>1, <2>3, <2>5
  <2> HIDE DEF d
  <2> QED BY <2>6, <2>7 DEF Shaped
<1>6. ASSUME UNCHANGED <<alive, next, prev>> PROVE Shaped(c)
  <2>1. Now' = Now /\ alive' = alive
    BY <1>6 DEF Now
  <2> QED BY <2>1 DEF Shaped, Moves
<1>7. CASE UnlinkAll
  <2> DEFINE n == prev[emptying]
  <2>1. emptying \in Lists /\ n # emptying /\ Become(Unlinked(Now, n)) /\ alive' = alive
    BY <1>1, <1>7 DEF UnlinkAll
  <2>2. n \in alive
    <3> DEFINE q == c[emptying]
    <3>1. q \in Seq(alive) /\ Ring(Now, emptying, q) /\ Len(q) \in Nat
      BY <2>1 DEF Shape
    <3> HIDE DEF q
    <3>2. n = LinkAt(emptying, q, Len(q))
      BY <1>1, <2>1, <3>1, RingPrev
    <3>3. Len(q) \in 1 .. Len(q) /\ n = q[Len(q)]
      BY <2>1, <3>1, <3>2 DEF LinkAt
    <3> QED BY <3>1, <3>3
  <2> QED BY <1>3, <2>1, <2>2
<1>8. CASE DeleteAll
  <2> DEFINE n == next[emptying].to
  <2>1. emptying \in Lists /\ ~ next[emptying].end /\ Become(RemoveFromList(Now, n)) /\ alive' = alive \ {n}
    BY <1>1, <1>8 DEF DeleteAll
  <2>2. n \in alive
    BY <1>1, <2>1 DEF GoodOn
  <2> QED BY <1>4, <2>1, <2>2
<1>9. \/ \E n \in Nodes : New(n)
      \/ \E n \in Nodes : Unlink(n) \/ Delete(n)
      \/ \E n \in Nodes : \E at \in Links : ListInsertBefore(n, at) \/ ListInsertAfter(n, at)
      \/ UnlinkAll \/ DeleteAll
      \/ UNCHANGED <<alive, next, prev>>
  BY DEF Next, vars, StartEmptying, Emptied
<1>10. ASSUME NEW n \in Nodes, Unlink(n) \/ Delete(n) PROVE Shaped(c)
  BY <1>3, <1>4, <1>10 DEF Unlink, Delete
<1> QED BY <1>2, <1>5, <1>6, <1>7, <1>8, <1>9, <1>10

\* The links make lists.
MakesLists == \E c : Shape(Now, alive, c)

LEMMA InitLists == Init => MakesLists /\ Abstract!Init
<1> SUFFICES ASSUME Init PROVE MakesLists /\ Abstract!Init
  OBVIOUS
<1> DEFINE c == [h \in Lists |-> <<>>]
<1>1. \A h \in Lists : c[h] = <<>> /\ Len(c[h]) = 0
  OBVIOUS
<1>2. alive = {} /\ \A l \in Links : Now.next[l] = End(l)
  BY DEF Init, Now
<1>3. c \in [Lists -> Seq(alive)]
  OBVIOUS
<1> HIDE DEF c
<1>4. Apart(c)
  BY <1>1 DEF Apart
<1>5. ASSUME NEW h \in Lists PROVE Ring(Now, h, c[h])
  BY <1>1, <1>2 DEF Ring, LinkAt, Links
<1>6. Shape(Now, alive, c)
  BY <1>2, <1>3, <1>4, <1>5 DEF Shape
<1>7. TypeOK
  BY InitInv DEF Inv
<1>8. Contents = c
  BY <1>6, <1>7, ContentsAre
<1> QED BY <1>6, <1>8 DEF MakesLists, Abstract!Init, Contents, c

LEMMA StepLists ==
  Inv /\ MakesLists /\ [Next]_vars => MakesLists' /\ [Abstract!Next]_Contents
<1> SUFFICES ASSUME Inv, MakesLists, [Next]_vars
             PROVE  MakesLists' /\ [Abstract!Next]_Contents
  OBVIOUS
<1>1. PICK c : Shape(Now, alive, c)
  BY DEF MakesLists
<1>2. PICK d : Shape(Now', alive', d) /\ Moves(c, d)
  BY <1>1, StepShape DEF Shaped
<1>3. TypeOK /\ TypeOK'
  BY StepInv DEF Inv
<1>4. Contents = c
  BY <1>1, <1>3, ContentsAre
<1>5. Contents' = d
  BY <1>2, <1>3, ContentsArePrimed
<1>6. MakesLists'
  BY <1>2 DEF MakesLists
<1>7. \A n : Abstract!Others(n) = Minus(c, n)
  BY <1>4 DEF Abstract!Others, Minus, Contents
<1>8. CASE d = c
  BY <1>4, <1>5, <1>6, <1>8
<1>9. ASSUME NEW n \in Nodes, d = Minus(c, n) PROVE Abstract!Next
  <2>1. Abstract!Take(n)
    BY <1>5, <1>7, <1>9 DEF Abstract!Take, Contents
  <2> QED BY <2>1 DEF Abstract!Next
<1>10. ASSUME NEW n \in Nodes, NEW h \in Lists, NEW k \in 0 .. Len(Minus(c, n)[h]),
              d = [Minus(c, n) EXCEPT ![h] = Inserted(Minus(c, n)[h], k, n)]
       PROVE  Abstract!Next
  <2> DEFINE e == Minus(c, n)
  <2>1. Abstract!InsertAt(e[h], k + 1, n) = Inserted(e[h], k, n)
    <3>1. e[h] \in Seq(Nodes)
      <4>1. c[h] \in Seq(alive) /\ Once(c[h]) /\ alive \subseteq Nodes
        BY <1>1, <1>3 DEF Shape, Apart, Once, TypeOK
      <4>2. c[h] \in Seq(Nodes)
        BY <4>1
      <4>3. CASE \E i \in 1 .. Len(c[h]) : c[h][i] = n
        BY <4>1, <4>2, <4>3, WithoutIs, RemoveAtIs DEF Minus
      <4>4. CASE \A i \in 1 .. Len(c[h]) : c[h][i] # n
        BY <4>1, <4>2, <4>4, WithoutIs DEF Minus
      <4> QED BY <4>3, <4>4
    <3> HIDE DEF e
    <3> QED BY <1>10, <3>1, InsertAtIs DEF e
  <2>2. d = [Abstract!Others(n) EXCEPT ![h] = Abstract!InsertAt(@, k + 1, n)]
    BY <1>7, <1>10, <2>1
  <2>3. Abstract!Put(h, n, k)
    BY <1>5, <2>2 DEF Abstract!Put, Contents
  <2>4. k \in 0 .. Len(Abstract!Others(n)[h])
    BY <1>7
  <2>5. Abstract!Insert(h, n)
    BY <2>3, <2>4 DEF Abstract!Insert
  <2> QED BY <2>5 DEF Abstract!Next
<1>11. CASE \E n \in Nodes : d = Minus(c, n)
  BY <1>6, <1>9, <1>11
<1>12. CASE \E n \in Nodes : \E h \in Lists : \E k \in 0 .. Len(Minus(c, n)[h]) :
              d = [Minus(c, n) EXCEPT ![h] = Inserted(Minus(c, n)[h], k, n)]
  BY <1>6, <1>10, <1>12
<1>13. \/ d = c
       \/ \E n \in Nodes : d = Minus(c, n)
       \/ \E n \in Nodes : \E h \in Lists : \E k \in 0 .. Len(Minus(c, n)[h]) :
            d = [Minus(c, n) EXCEPT ![h] = Inserted(Minus(c, n)[h], k, n)]
  BY <1>2 DEF Moves
<1> QED BY <1>8, <1>11, <1>12, <1>13

\* The lists of nutil_list.h are the sequences ListSpec says, in any number of
\* lists and of objects: each operation on links takes one node out of the list
\* it is in or puts it at one place, and nothing else moves.
THEOREM ListsImplementSpec == Spec => ImplementsListSpec
<1>1. Init => Abstract!Init /\ Inv /\ MakesLists
  BY InitLists, InitInv
<1>2. Inv /\ MakesLists /\ [Next]_vars
        => (Inv /\ MakesLists)' /\ [Abstract!Next]_[h \in Lists |-> ListSeq(h)]
  BY StepInv, StepLists DEF Contents
<1> QED BY <1>1, <1>2, PTL DEF Spec, ImplementsListSpec, Abstract!Spec

-----------------------------------------------------------------------------
(* The framed stream                                                       *)

Bytes == 0 .. Base - 1

-----------------------------------------------------------------------------
(* Lengths *)

LEMMA PowerIs ==
  /\ Power[0] = 1
  /\ \A k \in 1 .. LenBytes : Power[k] = Base * Power[k - 1]
  /\ \A k \in 0 .. LenBytes : Power[k] \in Nat /\ Power[k] > 0
<1>1. LenBytes \in Nat /\ Base \in Nat /\ Base > 0
  BY FramingAssumption
<1>2. \E g : g = [k \in 0 .. LenBytes |-> IF k = 0 THEN 1 ELSE Base * g[k - 1]]
  BY <1>1, PowersExist
<1>3. Power = [k \in 0 .. LenBytes |-> IF k = 0 THEN 1 ELSE Base * Power[k - 1]]
  BY <1>2 DEF Power
<1> QED BY <1>1, <1>3, PowersAre

\* One digit more of a number.
LEMMA OneDigitMore ==
  ASSUME NEW b \in Nat, b > 0, NEW p \in Nat, p > 0, NEW n \in Nat
  PROVE  n % (b * p) = (n % p) + ((n \div p) % b) * p
<1> DEFINE q == n \div p
           r == n % p
           s == q \div b
           t == q % b
<1>1. q \in Nat /\ r \in 0 .. (p - 1) /\ n = p * q + r
  BY DivisionIs
<1> HIDE DEF q, r
<1>2. s \in Nat /\ t \in 0 .. (b - 1) /\ q = b * s + t
  BY <1>1, DivisionIs
<1> HIDE DEF s, t
<1> DEFINE w == b * p
           u == t * p + r
<1>3. w \in Nat /\ w > 0
  OBVIOUS
<1>4. u \in 0 .. (w - 1)
  <2>1. t * p <= (b - 1) * p /\ t * p \in Nat
    BY <1>2
  <2>2. (b - 1) * p = w - p
    OBVIOUS
  <2> QED BY <1>1, <1>3, <2>1, <2>2
<1>5. n = w * s + u
  <2>1. p * (b * s + t) = (b * p) * s + t * p
    BY <1>2
  <2> QED BY <1>1, <1>2, <2>1
<1> HIDE DEF w, u
<1>6. n % w = u
  BY <1>2, <1>3, <1>4, <1>5, QuotientUnique
<1> QED BY <1>1, <1>6 DEF w, u, t, q, r

\* The bytes of a length are bytes.
LEMMA LengthBytesIs ==
  ASSUME NEW n \in Nat
  PROVE  /\ LengthBytes(n) \in Seq(Bytes) /\ Len(LengthBytes(n)) = LenBytes
         /\ \A i \in 1 .. LenBytes : /\ LengthBytes(n)[i] = (n \div Power[i - 1]) % Base
                                     /\ LengthBytes(n)[i] \in Bytes
<1>1. LenBytes \in Nat /\ Base \in Nat /\ Base > 0
  BY FramingAssumption
<1>2. ASSUME NEW i \in 1 .. LenBytes PROVE (n \div Power[i - 1]) % Base \in Bytes
  <2>1. Power[i - 1] \in Nat /\ Power[i - 1] > 0
    BY <1>1, PowerIs
  <2>2. n \div Power[i - 1] \in Nat
    BY <2>1, DivisionIs
  <2> QED BY <1>1, <2>2, DivisionIs DEF Bytes
<1>3. LengthBytes(n) \in [1 .. LenBytes -> Bytes]
  BY <1>2 DEF LengthBytes
<1> QED BY <1>1, <1>2, <1>3 DEF LengthBytes

\* What LengthOf reads is what LengthBytes wrote.
LEMMA LengthOfIs ==
  ASSUME NEW n \in Nat, n < Word, NEW header,
         \A i \in 1 .. LenBytes : header[i + 1] = LengthBytes(n)[i]
  PROVE  LengthOf(header) = n
<1>1. LenBytes \in Nat /\ Base \in Nat /\ Base > 0
  BY FramingAssumption
<1>2. ASSUME NEW i \in 1 .. LenBytes
      PROVE  /\ header[i + 1] = (n \div Power[i - 1]) % Base
             /\ header[i + 1] * Power[i - 1] \in Nat
             /\ Power[i - 1] \in Nat /\ Power[i - 1] > 0
             /\ Power[i] = Base * Power[i - 1]
  <2>1. Power[i - 1] \in Nat /\ Power[i - 1] > 0 /\ Power[i] = Base * Power[i - 1]
    BY <1>1, PowerIs
  <2>2. header[i + 1] = (n \div Power[i - 1]) % Base /\ header[i + 1] \in Nat
    <3>1. LengthBytes(n)[i] = (n \div Power[i - 1]) % Base /\ LengthBytes(n)[i] \in Bytes
      BY LengthBytesIs
    <3> QED BY <1>1, <3>1 DEF Bytes
  <2>3. header[i + 1] * Power[i - 1] \in Nat
    <3> DEFINE x == header[i + 1]
               y == Power[i - 1]
    <3>1. x \in Nat /\ y \in Nat
      BY <2>1, <2>2
    <3> HIDE DEF x, y
    <3>2. x * y \in Nat
      BY <3>1
    <3> QED BY <3>2 DEF x, y
  <2> QED BY <2>1, <2>2, <2>3
<1> DEFINE X == Nat
           zero == 0
           F == [i \in 1 .. LenBytes |-> [x \in Nat |-> x + header[i + 1] * Power[i - 1]]]
<1>3. \E g : IsLoop(g, LenBytes, Nat, 0, F)
  <2>1. zero \in X /\ F \in [1 .. LenBytes -> [X -> X]]
    BY <1>2
  <2> HIDE DEF F, X, zero
  <2>2. \E g : IsLoop(g, LenBytes, X, zero, F)
    BY <1>1, <2>1, LoopExists
  <2> QED BY <2>2 DEF X, zero
<1>4. PICK g : IsLoop(g, LenBytes, Nat, 0, F)
  BY <1>3
<1>5. \A i \in 1 .. LenBytes : g[i] = g[i - 1] + header[i + 1] * Power[i - 1]
  <2> SUFFICES ASSUME NEW i \in 1 .. LenBytes
               PROVE  g[i] = g[i - 1] + header[i + 1] * Power[i - 1]
    OBVIOUS
  <2>1. i - 1 \in 0 .. LenBytes /\ g[i - 1] \in Nat
    BY <1>1, <1>4 DEF IsLoop
  <2>2. F[i][g[i - 1]] = g[i - 1] + header[i + 1] * Power[i - 1]
    BY <2>1
  <2> QED BY <1>4, <2>2 DEF IsLoop
<1>6. g = [i \in 0 .. LenBytes |-> IF i = 0 THEN 0 ELSE g[i - 1] + header[i + 1] * Power[i - 1]]
  BY <1>4, <1>5 DEF IsLoop
<1> DEFINE f == CHOOSE h :
             h = [i \in 0 .. LenBytes |-> IF i = 0 THEN 0 ELSE h[i - 1] + header[i + 1] * Power[i - 1]]
<1>7. f = [i \in 0 .. LenBytes |-> IF i = 0 THEN 0 ELSE f[i - 1] + header[i + 1] * Power[i - 1]]
  BY <1>6
<1>8. LengthOf(header) = f[LenBytes]
  BY DEF LengthOf
<1> HIDE DEF f, F
<1>9. f[0] = 0 /\ \A i \in 1 .. LenBytes : f[i] = f[i - 1] + header[i + 1] * Power[i - 1]
  BY <1>1, <1>7
<1> DEFINE S == {i \in 0 .. LenBytes : f[i] = n % Power[i]}
<1>10. 0 \in S
  <2>1. n % 1 = 0 /\ Power[0] = 1
    BY PowerIs
  <2> QED BY <1>1, <1>9, <2>1
<1>11. ASSUME NEW i \in 1 .. LenBytes, i - 1 \in S PROVE i \in S
  <2>1. f[i - 1] = n % Power[i - 1]
    BY <1>11
  <2>2. f[i] = f[i - 1] + header[i + 1] * Power[i - 1]
    BY <1>9
  <2>3. n % (Base * Power[i - 1]) = (n % Power[i - 1]) + ((n \div Power[i - 1]) % Base) * Power[i - 1]
    <3> DEFINE p == Power[i - 1]
    <3>1. p \in Nat /\ p > 0
      BY <1>2
    <3> HIDE DEF p
    <3>2. n % (Base * p) = (n % p) + ((n \div p) % Base) * p
      BY <1>1, <3>1, OneDigitMore
    <3> QED BY <3>2 DEF p
  <2>4. f[i] = n % Power[i]
    BY <1>2, <2>1, <2>2, <2>3
  <2> QED BY <2>4
<1> HIDE DEF S
<1>12. 0 .. LenBytes \subseteq S
  BY ONLY <1>1, <1>10, <1>11, LoopInduction
<1>13. f[LenBytes] = n % Power[LenBytes]
  BY <1>1, <1>12 DEF S
<1>14. n % Word = n
  <2>1. Word \in Nat /\ Word > 0
    BY <1>1, PowerIs DEF Word
  <2> DEFINE w == Word
             z == 0
  <2>2. w \in Nat /\ w > 0 /\ n \in 0 .. (w - 1) /\ z \in Nat /\ w * z + n = n
    BY <2>1
  <2> HIDE DEF w, z
  <2>3. (w * z + n) % w = n
    BY <2>2, QuotientUnique
  <2> QED BY <2>2, <2>3 DEF w
<1> QED BY <1>8, <1>13, <1>14 DEF Word

\* Any bytes are a length.
LEMMA LengthOfTyped ==
  ASSUME NEW header, \A i \in 1 .. LenBytes : header[i + 1] \in Bytes
  PROVE  LengthOf(header) \in Nat
<1>1. LenBytes \in Nat /\ Base \in Nat /\ Base > 0
  BY FramingAssumption
<1>2. ASSUME NEW i \in 1 .. LenBytes PROVE header[i + 1] * Power[i - 1] \in Nat
  <2> DEFINE x == header[i + 1]
             y == Power[i - 1]
  <2>1. x \in Nat /\ y \in Nat
    BY <1>1, PowerIs DEF Bytes
  <2> HIDE DEF x, y
  <2>2. x * y \in Nat
    BY <2>1
  <2> QED BY <2>2 DEF x, y
<1> DEFINE X == Nat
           zero == 0
           F == [i \in 1 .. LenBytes |-> [x \in Nat |-> x + header[i + 1] * Power[i - 1]]]
<1>3. \E g : IsLoop(g, LenBytes, Nat, 0, F)
  <2>1. zero \in X /\ F \in [1 .. LenBytes -> [X -> X]]
    BY <1>2
  <2> HIDE DEF F, X, zero
  <2>2. \E g : IsLoop(g, LenBytes, X, zero, F)
    BY <1>1, <2>1, LoopExists
  <2> QED BY <2>2 DEF X, zero
<1>4. PICK g : IsLoop(g, LenBytes, Nat, 0, F)
  BY <1>3
<1>5. \A i \in 1 .. LenBytes : g[i] = g[i - 1] + header[i + 1] * Power[i - 1]
  <2> SUFFICES ASSUME NEW i \in 1 .. LenBytes
               PROVE  g[i] = g[i - 1] + header[i + 1] * Power[i - 1]
    OBVIOUS
  <2>1. i - 1 \in 0 .. LenBytes /\ g[i - 1] \in Nat
    BY <1>1, <1>4 DEF IsLoop
  <2>2. F[i][g[i - 1]] = g[i - 1] + header[i + 1] * Power[i - 1]
    BY <2>1
  <2> QED BY <1>4, <2>2 DEF IsLoop
<1>6. g = [i \in 0 .. LenBytes |-> IF i = 0 THEN 0 ELSE g[i - 1] + header[i + 1] * Power[i - 1]]
  BY <1>4, <1>5 DEF IsLoop
<1> DEFINE f == CHOOSE h :
             h = [i \in 0 .. LenBytes |-> IF i = 0 THEN 0 ELSE h[i - 1] + header[i + 1] * Power[i - 1]]
<1>7. f = [i \in 0 .. LenBytes |-> IF i = 0 THEN 0 ELSE f[i - 1] + header[i + 1] * Power[i - 1]]
  BY <1>6
<1>8. LengthOf(header) = f[LenBytes]
  BY DEF LengthOf
<1> HIDE DEF f, F
<1>9. f[0] = 0 /\ \A i \in 1 .. LenBytes : f[i] = f[i - 1] + header[i + 1] * Power[i - 1]
  BY <1>1, <1>7
<1> DEFINE S == {i \in 0 .. LenBytes : f[i] \in Nat}
<1>10. 0 \in S
  BY <1>1, <1>9
<1>11. ASSUME NEW i \in 1 .. LenBytes, i - 1 \in S PROVE i \in S
  <2>1. f[i] = f[i - 1] + header[i + 1] * Power[i - 1]
    BY <1>9
  <2> QED BY <1>2, <1>11, <2>1
<1> HIDE DEF S
<1>12. 0 .. LenBytes \subseteq S
  BY ONLY <1>1, <1>10, <1>11, LoopInduction
<1> QED BY <1>1, <1>8, <1>12 DEF S

-----------------------------------------------------------------------------
(* Commands as bytes *)

\* Two sequences of bytes one behind the other.
LEMMA Joined ==
  ASSUME NEW s \in Seq(Bytes), NEW t \in Seq(Bytes)
  PROVE  /\ s \o t \in Seq(Bytes) /\ Len(s \o t) = Len(s) + Len(t)
         /\ \A i \in 1 .. Len(s) : (s \o t)[i] = s[i]
         /\ \A i \in 1 .. Len(t) : (s \o t)[Len(s) + i] = t[i]
<1> DEFINE B == Bytes
<1>1. s \in Seq(B) /\ t \in Seq(B)
  OBVIOUS
<1> HIDE DEF B
<1>2. /\ s \o t \in Seq(B) /\ Len(s \o t) = Len(s) + Len(t)
      /\ \A i \in 1 .. Len(s) : (s \o t)[i] = s[i]
      /\ \A i \in 1 .. Len(t) : (s \o t)[Len(s) + i] = t[i]
  BY ONLY <1>1
<1> QED BY <1>2 DEF B

\* The bytes that command c takes.
Size(c) == HeaderLen + Len(c.body)

LEMMA EncodeIs ==
  ASSUME NEW c \in Commands
  PROVE  /\ c.number \in Bytes /\ c.body \in Seq(Bytes) /\ Len(c.body) \in Nat
         /\ HeaderLen \in Nat /\ HeaderLen > 1 /\ Size(c) \in Nat /\ Size(c) < Word /\ Word \in Nat
         /\ Encode(c) \in Seq(Bytes) /\ Len(Encode(c)) = Size(c)
         /\ Encode(c)[1] = c.number
         /\ \A i \in 1 .. LenBytes : Encode(c)[i + 1] = LengthBytes(Len(c.body))[i]
         /\ \A i \in 1 .. Len(c.body) : Encode(c)[HeaderLen + i] = c.body[i]
<1>1. LenBytes \in Nat /\ LenBytes > 0 /\ HeaderLen = 1 + LenBytes /\ Word \in Nat
  BY FramingAssumption, PowerIs DEF HeaderLen, Word
<1>2. c.number \in Bytes /\ c.body \in Seq(Bytes) /\ Len(c.body) + HeaderLen < Word
  BY FramingAssumption DEF Commands, Bytes
<1>3. Len(c.body) \in Nat
  BY <1>2
<1> DEFINE s == LengthBytes(Len(c.body))
           t == c.body
           e == <<c.number>> \o s \o t
<1>4. s \in Seq(Bytes) /\ Len(s) = LenBytes
  BY <1>3, LengthBytesIs
<1>5. t \in Seq(Bytes) /\ Len(t) \in Nat
  BY <1>2
<1>6. Encode(c) = e
  BY DEF Encode
<1> HIDE DEF s, t
<1> DEFINE d == <<c.number>> \o s
<1>7. /\ d \in Seq(Bytes) /\ Len(d) = HeaderLen /\ d[1] = c.number
      /\ \A i \in 1 .. LenBytes : d[i + 1] = s[i]
  BY <1>1, <1>2, <1>4
<1> HIDE DEF d
<1>8. /\ e \in Seq(Bytes) /\ Len(e) = HeaderLen + Len(t)
      /\ \A i \in 1 .. HeaderLen : e[i] = d[i]
      /\ \A i \in 1 .. Len(t) : e[HeaderLen + i] = t[i]
  <2>1. e = d \o t
    BY DEF d
  <2>2. /\ d \o t \in Seq(Bytes) /\ Len(d \o t) = Len(d) + Len(t)
        /\ \A i \in 1 .. Len(d) : (d \o t)[i] = d[i]
        /\ \A i \in 1 .. Len(t) : (d \o t)[Len(d) + i] = t[i]
    BY <1>5, <1>7, Joined
  <2> HIDE DEF e
  <2> QED BY <1>7, <2>1, <2>2
<1> HIDE DEF e
<1>9. e[1] = c.number /\ \A i \in 1 .. LenBytes : e[i + 1] = s[i]
  <2>1. 1 \in 1 .. HeaderLen /\ \A i \in 1 .. LenBytes : i + 1 \in 1 .. HeaderLen
    BY <1>1
  <2> QED BY <1>7, <1>8, <2>1
<1>10. Size(c) = HeaderLen + Len(t) /\ Size(c) < Word /\ Size(c) \in Nat
  <2>1. Size(c) = HeaderLen + Len(c.body)
    BY DEF Size
  <2>2. HeaderLen \in Nat
    BY <1>1
  <2>3. HeaderLen + Len(c.body) = Len(c.body) + HeaderLen /\ HeaderLen + Len(c.body) \in Nat
    BY <1>3, <2>2
  <2> QED BY <1>2, <2>1, <2>3 DEF t
<1>11. HeaderLen \in Nat /\ HeaderLen > 1
  BY <1>1
<1>12. Len(e) = Size(c)
  BY <1>8, <1>10
<1> QED
  BY <1>1, <1>2, <1>3, <1>6, <1>8, <1>9, <1>10, <1>11, <1>12, Zenon DEF s, t

\* T holds the first n bytes of c from position p on.
HasAt(T, p, c, n) == \A i \in 1 .. n : T[p + i - 1] = Encode(c)[i]

\* Of the commands ss, the first begins at 0 and the (j + 1)st at b[j], where
\* the one before it ends.
Marks(b, ss) ==
  /\ b \in [0 .. Len(ss) -> Nat] /\ b[0] = 0
  /\ \A j \in 1 .. Len(ss) : b[j] = b[j - 1] + Size(ss[j])

Holds(T, b, ss) == \A j \in 1 .. Len(ss) : HasAt(T, b[j - 1], ss[j], Size(ss[j]))

\* What follows position p up to m: nothing, a command that is not whole, or anything.
Ends(T, m, p, tail) ==
  /\ tail = "none" => m = p
  /\ tail = "part" => \E c \in Commands : m < p + Size(c) /\ HasAt(T, p, c, m - p)

\* T holds the bytes of m positions, which begin with those of the commands ss.
Carries(T, m, ss, tail, b) ==
  /\ m \in Nat /\ Marks(b, ss)
  /\ \A j \in 0 .. Len(ss) : b[j] <= m
  /\ Holds(T, b, ss)
  /\ Ends(T, m, b[Len(ss)], tail)

\* A command lies between its mark and the next.
LEMMA MarkAt ==
  ASSUME NEW ss \in Seq(Commands), NEW b, Marks(b, ss), NEW j \in 1 .. Len(ss)
  PROVE  /\ Len(ss) \in Nat /\ ss[j] \in Commands /\ Size(ss[j]) \in Nat
         /\ b[j - 1] \in Nat /\ b[j] \in Nat /\ b[j] = b[j - 1] + Size(ss[j])
<1>1. Len(ss) \in Nat /\ ss[j] \in Commands /\ j \in 0 .. Len(ss) /\ j - 1 \in 0 .. Len(ss)
  OBVIOUS
<1>2. Size(ss[j]) \in Nat
  BY <1>1, EncodeIs
<1>3. b[j - 1] \in Nat /\ b[j] \in Nat
  BY <1>1 DEF Marks
<1>4. b[j] = b[j - 1] + Size(ss[j])
  BY DEF Marks
<1> QED BY <1>1, <1>2, <1>3, <1>4

\* T with the first k of the bytes e behind it.
Longer(T, m, e, k) == [x \in 0 .. (m + k - 1) |-> IF x < m THEN T[x] ELSE e[x - m + 1]]

\* What was there stays where it was.
LEMMA LongerKeeps ==
  ASSUME NEW T, NEW m \in Nat, NEW e, NEW k \in Nat,
         NEW p \in Nat, NEW d, NEW n \in Nat, HasAt(T, p, d, n), p + n <= m
  PROVE  HasAt(Longer(T, m, e, k), p, d, n)
<1> SUFFICES ASSUME NEW i \in 1 .. n
             PROVE  Longer(T, m, e, k)[p + i - 1] = Encode(d)[i]
  BY DEF HasAt
<1> DEFINE x == p + i - 1
<1>1. x \in 0 .. (m + k - 1) /\ x < m
  OBVIOUS
<1>2. T[x] = Encode(d)[i]
  BY DEF HasAt
<1> HIDE DEF x
<1>3. Longer(T, m, e, k)[x] = T[x]
  BY <1>1 DEF Longer
<1> QED BY <1>2, <1>3 DEF x

LEMMA LongerHas ==
  ASSUME NEW T, NEW m \in Nat, NEW c, NEW k \in Nat
  PROVE  HasAt(Longer(T, m, Encode(c), k), m, c, k)
<1> SUFFICES ASSUME NEW i \in 1 .. k
             PROVE  Longer(T, m, Encode(c), k)[m + i - 1] = Encode(c)[i]
  BY DEF HasAt
<1> DEFINE x == m + i - 1
<1>1. x \in 0 .. (m + k - 1) /\ ~ (x < m) /\ x - m + 1 = i
  OBVIOUS
<1> HIDE DEF x
<1>2. Longer(T, m, Encode(c), k)[x] = Encode(c)[i]
  BY <1>1 DEF Longer
<1> QED BY <1>2 DEF x

LEMMA LongerHolds ==
  ASSUME NEW T, NEW m \in Nat, NEW ss \in Seq(Commands), NEW b, Marks(b, ss), Holds(T, b, ss),
         \A j \in 0 .. Len(ss) : b[j] <= m, NEW e, NEW k \in Nat
  PROVE  Holds(Longer(T, m, e, k), b, ss)
<1> SUFFICES ASSUME NEW j \in 1 .. Len(ss)
             PROVE  HasAt(Longer(T, m, e, k), b[j - 1], ss[j], Size(ss[j]))
  BY DEF Holds
<1>1. Size(ss[j]) \in Nat /\ b[j - 1] \in Nat /\ b[j - 1] + Size(ss[j]) <= m
  BY MarkAt
<1>2. HasAt(T, b[j - 1], ss[j], Size(ss[j]))
  BY DEF Holds
<1> QED BY <1>1, <1>2, LongerKeeps

\* With command c behind the commands ss, the marks of b stay where they are.
Continued(T, m, ss, b, c) ==
  \E d : /\ Carries(Longer(T, m, Encode(c), Size(c)), m + Size(c), Append(ss, c), "none", d)
         /\ \A j \in 0 .. Len(ss) : d[j] = b[j]

LEMMA WholeFollows ==
  ASSUME NEW T, NEW m, NEW ss \in Seq(Commands), NEW b, Carries(T, m, ss, "none", b),
         NEW c \in Commands
  PROVE  Continued(T, m, ss, b, c)
<1> DEFINE k == Size(c)
           U == Longer(T, m, Encode(c), k)
           n == Len(ss)
           tt == Append(ss, c)
           d == [j \in 0 .. (n + 1) |-> IF j <= n THEN b[j] ELSE m + k]
<1>1. /\ m \in Nat /\ n \in Nat /\ b[n] = m /\ k \in Nat /\ Marks(b, ss) /\ Holds(T, b, ss)
      /\ \A j \in 0 .. n : b[j] <= m
  BY EncodeIs DEF Carries, Ends
<1>2. Holds(U, b, ss) /\ HasAt(U, m, c, k)
  BY <1>1, LongerHolds, LongerHas
<1>3. Len(tt) = n + 1 /\ tt[n + 1] = c /\ \A j \in 1 .. n : tt[j] = ss[j]
  BY <1>1
<1>4. /\ b \in [0 .. n -> Nat] /\ b[0] = 0
      /\ \A j \in 1 .. n : b[j] = b[j - 1] + Size(ss[j])
  BY <1>1 DEF Marks
<1>5. \A j \in 1 .. n : HasAt(U, b[j - 1], ss[j], Size(ss[j]))
  BY <1>2 DEF Holds
<1> HIDE DEF U, tt, n
<1>6. /\ d \in [0 .. (n + 1) -> Nat] /\ d[n + 1] = m + k
      /\ \A j \in 0 .. n : d[j] = b[j]
  <2> HIDE DEF k
  <2> QED BY <1>1, <1>4
<1> HIDE DEF d
<1>7. ASSUME NEW j \in 1 .. (n + 1)
      PROVE  d[j] = d[j - 1] + Size(tt[j]) /\ HasAt(U, d[j - 1], tt[j], Size(tt[j]))
  <2>1. CASE j = n + 1
    <3>1. j - 1 = n /\ n \in 0 .. n
      BY <1>1, <2>1
    <3>2. d[j - 1] = m /\ tt[j] = c /\ d[j] = m + k
      BY <1>1, <1>3, <1>6, <2>1, <3>1
    <3> QED BY <1>2, <3>2 DEF k
  <2>2. CASE j # n + 1
    <3>1. j \in 1 .. n /\ j - 1 \in 0 .. n /\ j \in 0 .. n
      BY <1>1, <2>2
    <3>2. d[j - 1] = b[j - 1] /\ d[j] = b[j] /\ tt[j] = ss[j]
      BY <1>3, <1>6, <3>1
    <3> QED BY <1>4, <1>5, <3>1, <3>2
  <2> QED BY <2>1, <2>2
<1>8. ASSUME NEW j \in 0 .. (n + 1) PROVE d[j] <= m + k
  <2> HIDE DEF k
  <2>1. CASE j = n + 1
    BY <1>1, <1>6, <2>1
  <2>2. CASE j # n + 1
    <3>1. j \in 0 .. n /\ b[j] \in Nat /\ b[j] <= m
      BY <1>1, <1>4, <2>2
    <3> QED BY <1>1, <1>6, <3>1
  <2> QED BY <2>1, <2>2
<1>9. d[0] = 0
  BY <1>1, <1>4, <1>6
<1>10. Marks(d, tt)
  BY <1>3, <1>6, <1>7, <1>9 DEF Marks
<1>11. Holds(U, d, tt)
  BY <1>3, <1>7 DEF Holds
<1>12. m + k \in Nat /\ d[Len(tt)] = m + k
  BY <1>1, <1>3, <1>6
<1>13. Carries(U, m + k, tt, "none", d)
  BY <1>3, <1>8, <1>10, <1>11, <1>12 DEF Carries, Ends
<1> QED BY <1>6, <1>13 DEF U, tt, n, Continued

LEMMA PartFollows ==
  ASSUME NEW T, NEW m, NEW ss \in Seq(Commands), NEW b, Carries(T, m, ss, "none", b),
         NEW c \in Commands, NEW k \in 0 .. (Size(c) - 1)
  PROVE  Carries(Longer(T, m, Encode(c), k), m + k, ss, "part", b)
<1> DEFINE U == Longer(T, m, Encode(c), k)
<1>1. /\ m \in Nat /\ Len(ss) \in Nat /\ b[Len(ss)] = m /\ Marks(b, ss) /\ Holds(T, b, ss)
      /\ \A j \in 0 .. Len(ss) : b[j] <= m
  BY DEF Carries, Ends
<1>2. Size(c) \in Nat /\ k \in Nat /\ k < Size(c)
  BY EncodeIs
<1>3. Holds(U, b, ss) /\ HasAt(U, m, c, k)
  BY <1>1, <1>2, LongerHolds, LongerHas
<1> HIDE DEF U
<1>4. ASSUME NEW j \in 0 .. Len(ss) PROVE b[j] <= m + k
  <2>1. b[j] \in Nat /\ b[j] <= m
    BY <1>1 DEF Marks
  <2> QED BY <1>1, <1>2, <2>1
<1>5. m + k \in Nat /\ m + k < m + Size(c) /\ (m + k) - m = k
  BY <1>1, <1>2
<1>6. Ends(U, m + k, b[Len(ss)], "part")
  BY <1>1, <1>3, <1>5 DEF Ends
<1>7. Carries(U, m + k, ss, "part", b)
  BY <1>1, <1>3, <1>4, <1>5, <1>6 DEF Carries
<1> QED BY <1>7 DEF U

LEMMA OtherFollows ==
  ASSUME NEW T, NEW m, NEW ss \in Seq(Commands), NEW b, Carries(T, m, ss, "none", b),
         NEW e, NEW k \in Nat
  PROVE  Carries(Longer(T, m, e, k), m + k, ss, "any", b)
<1> DEFINE U == Longer(T, m, e, k)
<1>1. /\ m \in Nat /\ Len(ss) \in Nat /\ Marks(b, ss) /\ Holds(T, b, ss)
      /\ \A j \in 0 .. Len(ss) : b[j] <= m
  BY DEF Carries
<1>2. Holds(U, b, ss)
  BY <1>1, LongerHolds
<1> HIDE DEF U
<1>3. ASSUME NEW j \in 0 .. Len(ss) PROVE b[j] <= m + k
  <2>1. b[j] \in Nat /\ b[j] <= m
    BY <1>1 DEF Marks
  <2> QED BY <1>1, <2>1
<1> QED BY <1>1, <1>2, <1>3 DEF Carries, Ends, U

-----------------------------------------------------------------------------
(* The stream *)

\* The byte at position x of all that was sent and not lost: it is in the
\* stream or still in the network.
At(x) == IF x < writePos THEN ByteAt(x) ELSE wire[x - writePos + 1]
Total == writePos + Len(wire)
Flow == [x \in 0 .. (Total - 1) |-> At(x)]

\* The counters are within the chunks, and the chunks behind them are made.
StreamOK ==
  /\ writePos \in Nat /\ readPos \in Nat
  /\ readPos <= writePos /\ writePos <= ChunkSize * MaxChunks
  /\ chunks \in [0 .. MaxChunks - 1 -> [0 .. ChunkSize - 1 -> Bytes] \cup {NoChunk}]
  /\ \A x \in 0 .. (writePos - 1) : Made(x)
  /\ wire \in Seq(Bytes)

\* What comes behind the commands that were sent whole.
Remainder == IF sending THEN "none" ELSE IF foreign THEN "any" ELSE "part"

Received == [number : Bytes, body : Seq(Bytes)]

\* What is in the stream and the network continues the commands that were handled with
\* those that were sent after them, until all of them are handled.
Continues ==
  socket /\ Len(handled) <= Len(sent) =>
    \E b : Carries(Flow, Total, sent, Remainder, b) /\ readPos = b[Len(handled)]

\* The inductive invariant: only of a sender that has sent something else is more
\* handled than the commands it sent.
FramingInv ==
  /\ StreamOK
  /\ role \in Roles /\ sending \in BOOLEAN /\ foreign \in BOOLEAN
  /\ socket \in BOOLEAN /\ draining \in BOOLEAN
  /\ sent \in Seq(Commands) /\ handled \in Seq(Received)
  /\ foreign => ~ sending
  /\ ~ foreign => Len(handled) <= Len(sent)
  /\ Continues

\* The parts of the next invariant.
LEMMA InvNext ==
  ASSUME StreamOK', role' \in Roles, sending' \in BOOLEAN, foreign' \in BOOLEAN, socket' \in BOOLEAN,
         draining' \in BOOLEAN, sent' \in Seq(Commands), handled' \in Seq(Received),
         foreign' => ~ sending', ~ foreign' => Len(handled') <= Len(sent'),
         socket' /\ Len(handled') <= Len(sent') =>
           \E b : Carries(Flow', Total', sent', Remainder', b) /\ readPos' = b[Len(handled')]
  PROVE  FramingInv'
BY DEF FramingInv, Continues

LEMMA CommandsReceived == ASSUME NEW c \in Commands PROVE c \in Received
<1> DEFINE B == Bytes
<1>1. c.number \in B /\ c.body \in Seq(B)
  BY EncodeIs
<1>2. c = [number |-> c.number, body |-> c.body]
  BY DEF Commands
<1> HIDE DEF B
<1>3. c \in [number : B, body : Seq(B)]
  BY <1>1, <1>2
<1> QED BY <1>3 DEF Received, B

\* Where a position is in its chunk.
LEMMA PlaceOf ==
  ASSUME NEW x \in Nat, x < ChunkSize * MaxChunks
  PROVE  /\ x \div ChunkSize \in 0 .. (MaxChunks - 1) /\ x % ChunkSize \in 0 .. (ChunkSize - 1)
         /\ x = (x \div ChunkSize) * ChunkSize + (x % ChunkSize)
<1>1. ChunkSize \in Nat /\ ChunkSize > 0 /\ MaxChunks \in Nat /\ MaxChunks > 0
  BY FramingAssumption
<1> DEFINE w == ChunkSize
           n == MaxChunks
           q == x \div w
           r == x % w
<1>2. q \in Nat /\ r \in 0 .. (w - 1) /\ x = w * q + r
  BY <1>1, DivisionIs
<1>3. w \in Nat /\ w > 0 /\ n \in Nat /\ x < w * n
  BY <1>1
<1> HIDE DEF q, r, w, n
<1>4. q <= n - 1
  <2> SUFFICES ASSUME q >= n PROVE FALSE
    BY <1>2, <1>3
  <2>1. w * q >= w * n
    BY <1>2, <1>3
  <2> QED BY <1>2, <1>3, <2>1
<1>5. w * q = q * w
  BY <1>2, <1>3
<1>6. q \in 0 .. (n - 1) /\ r \in 0 .. (w - 1) /\ x = q * w + r
  BY <1>2, <1>3, <1>4, <1>5
<1> QED BY <1>6 DEF q, r, w, n

\* Write leaves the bytes before the write position alone, puts the new ones
\* behind it, and makes the chunks they need.
LEMMA WrittenIs ==
  ASSUME StreamOK, NEW data \in Seq(Bytes)
  PROVE  LET cs == Written(data) IN
         /\ cs \in [0 .. MaxChunks - 1 -> [0 .. ChunkSize - 1 -> Bytes] \cup {NoChunk}]
         /\ \A x \in 0 .. (writePos - 1) :
              cs[x \div ChunkSize] # NoChunk /\ cs[x \div ChunkSize][x % ChunkSize] = ByteAt(x)
         /\ \A x \in Nat : writePos <= x /\ x < writePos + Len(data) /\ x < ChunkSize * MaxChunks =>
              /\ cs[x \div ChunkSize] # NoChunk
              /\ cs[x \div ChunkSize][x % ChunkSize] = data[x - writePos + 1]
<1> DEFINE Chunk == [0 .. ChunkSize - 1 -> Bytes]
           cs == Written(data)
           mine(c) == {i \in 1 .. Len(data) : (writePos + i - 1) \div ChunkSize = c}
           new(c) == [o \in 0 .. ChunkSize - 1 |->
                        LET i == (c * ChunkSize + o + 1) - writePos
                        IN IF i \in mine(c) THEN data[i]
                           ELSE IF chunks[c] # NoChunk THEN chunks[c][o] ELSE 0]
<1>1. /\ ChunkSize \in Nat /\ ChunkSize > 0 /\ MaxChunks \in Nat /\ MaxChunks > 0
      /\ Base \in Nat /\ Base > 0 /\ NoChunk \notin Chunk
  BY FramingAssumption DEF Bytes
<1>2. /\ writePos \in Nat /\ writePos <= ChunkSize * MaxChunks
      /\ chunks \in [0 .. MaxChunks - 1 -> Chunk \cup {NoChunk}]
      /\ \A x \in 0 .. (writePos - 1) : Made(x)
      /\ Len(data) \in Nat /\ \A i \in 1 .. Len(data) : data[i] \in Bytes
      /\ 0 \in Bytes
  BY <1>1 DEF StreamOK, Bytes
<1>3. cs = [c \in 0 .. MaxChunks - 1 |-> IF mine(c) = {} THEN chunks[c] ELSE new(c)]
  BY DEF Written
<1>4. ASSUME NEW c \in 0 .. MaxChunks - 1 PROVE new(c) \in Chunk
  <2>1. ASSUME NEW o \in 0 .. ChunkSize - 1, chunks[c] # NoChunk PROVE chunks[c][o] \in Bytes
    BY <1>2, <2>1
  <2>2. \A i \in mine(c) : data[i] \in Bytes
    BY <1>2
  <2> HIDE DEF mine
  <2> QED BY <1>2, <2>1, <2>2
<1>5. ASSUME NEW c \in 0 .. MaxChunks - 1, NEW o \in 0 .. ChunkSize - 1
      PROVE  new(c)[o] = LET i == (c * ChunkSize + o + 1) - writePos
                         IN IF i \in mine(c) THEN data[i]
                            ELSE IF chunks[c] # NoChunk THEN chunks[c][o] ELSE 0
  OBVIOUS
<1> HIDE DEF cs, new
<1>6. cs \in [0 .. MaxChunks - 1 -> Chunk \cup {NoChunk}]
  <2>1. ASSUME NEW c \in 0 .. MaxChunks - 1 PROVE chunks[c] \in Chunk \cup {NoChunk}
    BY <1>2
  <2> HIDE DEF Chunk, mine
  <2> QED BY <1>3, <1>4, <2>1
<1>7. ASSUME NEW x \in 0 .. (writePos - 1)
      PROVE  cs[x \div ChunkSize] # NoChunk /\ cs[x \div ChunkSize][x % ChunkSize] = ByteAt(x)
  <2> DEFINE c == x \div ChunkSize
             o == x % ChunkSize
  <2>1. x \in Nat /\ x < writePos /\ x < ChunkSize * MaxChunks
    BY <1>1, <1>2
  <2>2. c \in 0 .. MaxChunks - 1 /\ o \in 0 .. ChunkSize - 1 /\ x = c * ChunkSize + o
    BY <2>1, PlaceOf
  <2>3. chunks[c] # NoChunk /\ ByteAt(x) = chunks[c][o]
    BY <1>2 DEF Made, ByteAt
  <2> HIDE DEF c, o
  <2>4. CASE mine(c) = {}
    <3>1. cs[c] = chunks[c]
      BY <1>3, <2>2, <2>4
    <3> QED BY <2>3, <3>1 DEF c, o
  <2>5. CASE mine(c) # {}
    <3>1. cs[c] = new(c)
      BY <1>3, <2>2, <2>5
    <3>2. (c * ChunkSize + o + 1) - writePos \notin 1 .. Len(data)
      BY <1>1, <1>2, <2>1, <2>2
    <3>3. new(c)[o] = chunks[c][o]
      BY <1>5, <2>2, <2>3, <3>2
    <3>4. cs[c] # NoChunk
      BY <1>1, <1>4, <2>2, <3>1
    <3> QED BY <2>3, <3>1, <3>3, <3>4 DEF c, o
  <2> QED BY <2>4, <2>5
<1>8. ASSUME NEW x \in Nat, writePos <= x, x < writePos + Len(data), x < ChunkSize * MaxChunks
      PROVE  /\ cs[x \div ChunkSize] # NoChunk
             /\ cs[x \div ChunkSize][x % ChunkSize] = data[x - writePos + 1]
  <2> DEFINE c == x \div ChunkSize
             o == x % ChunkSize
             i == x - writePos + 1
  <2>1. c \in 0 .. MaxChunks - 1 /\ o \in 0 .. ChunkSize - 1 /\ x = c * ChunkSize + o
    BY <1>8, PlaceOf
  <2>2. i \in 1 .. Len(data) /\ writePos + i - 1 = x
    BY <1>2, <1>8
  <2>3. i \in mine(c)
    BY <2>2
  <2>4. (c * ChunkSize + o + 1) - writePos = i
    <3> HIDE DEF c, o
    <3> QED BY <1>1, <1>2, <2>1
  <2> HIDE DEF c, o, i, mine
  <2>5. cs[c] = new(c)
    BY <1>3, <2>1, <2>3
  <2>6. new(c)[o] = data[i]
    BY <1>5, <2>1, <2>3, <2>4
  <2>7. cs[c] # NoChunk
    BY <1>1, <1>4, <2>1, <2>5
  <2> QED BY <2>5, <2>6, <2>7 DEF c, o, i
<1> HIDE DEF mine
<1> QED BY <1>6, <1>7, <1>8 DEF cs

-----------------------------------------------------------------------------
(* The sender *)

LEMMA WireGrows ==
  ASSUME StreamOK, NEW e \in Seq(Bytes), NEW k \in 0 .. Len(e),
         wire' = wire \o SubSeq(e, 1, k), UNCHANGED stream
  PROVE  StreamOK' /\ Total' = Total + k /\ Flow' = Longer(Flow, Total, e, k)
<1> DEFINE d == SubSeq(e, 1, k)
<1>1. Len(e) \in Nat
  OBVIOUS
<1>2. k \in Nat /\ k <= Len(e)
  BY <1>1
<1>3. d \in Seq(Bytes) /\ Len(d) = k /\ \A i \in 1 .. k : d[i] = e[i]
  BY <1>1, <1>2
<1>4. wire \in Seq(Bytes) /\ Len(wire) \in Nat /\ writePos \in Nat
  BY DEF StreamOK
<1>5. wire' = wire \o d
  BY DEF d
<1> HIDE DEF d
<1>6. /\ wire' \in Seq(Bytes) /\ Len(wire') = Len(wire) + k
      /\ \A i \in 1 .. Len(wire) : wire'[i] = wire[i]
      /\ \A i \in 1 .. k : wire'[Len(wire) + i] = d[i]
  <2>1. /\ wire \o d \in Seq(Bytes) /\ Len(wire \o d) = Len(wire) + Len(d)
        /\ \A i \in 1 .. Len(wire) : (wire \o d)[i] = wire[i]
        /\ \A i \in 1 .. Len(d) : (wire \o d)[Len(wire) + i] = d[i]
    BY <1>3, <1>4, Joined
  <2> QED BY <1>3, <1>5, <2>1
<1>7. chunks' = chunks /\ writePos' = writePos /\ readPos' = readPos
  BY DEF stream
<1>8. StreamOK'
  BY <1>6, <1>7 DEF StreamOK, Made
<1>9. Total' = Total + k /\ Total \in Nat
  BY <1>2, <1>4, <1>6, <1>7 DEF Total
<1>10. ASSUME NEW x \in 0 .. (Total + k - 1)
       PROVE  At(x)' = IF x < Total THEN Flow[x] ELSE e[x - Total + 1]
  <2>1. x \in Nat /\ x < Total + k
    BY <1>2, <1>9
  <2>2. CASE x < writePos
    <3>1. At(x)' = At(x) /\ x \in 0 .. (Total - 1) /\ x < Total
      BY <1>4, <1>7, <2>1, <2>2 DEF At, ByteAt, Total
    <3> QED BY <3>1 DEF Flow
  <2>3. CASE ~ (x < writePos) /\ x < Total
    <3>1. x - writePos + 1 \in 1 .. Len(wire) /\ x \in 0 .. (Total - 1)
      BY <1>4, <2>1, <2>3 DEF Total
    <3>2. At(x)' = wire'[x - writePos + 1] /\ At(x) = wire[x - writePos + 1]
      BY <1>7, <2>3 DEF At
    <3> QED BY <1>6, <2>3, <3>1, <3>2 DEF Flow
  <2>4. CASE ~ (x < Total)
    <3> DEFINE i == x - Total + 1
    <3>1. i \in 1 .. k /\ x - writePos + 1 = Len(wire) + i /\ ~ (x < writePos)
      BY <1>2, <1>4, <2>1, <2>4 DEF Total
    <3>2. At(x)' = wire'[Len(wire) + i]
      BY <1>7, <3>1 DEF At
    <3>3. wire'[Len(wire) + i] = e[i]
      <4> HIDE DEF i
      <4> QED BY <1>3, <1>6, <3>1
    <3> QED BY <2>4, <3>2, <3>3
  <2> QED BY <2>2, <2>3, <2>4
<1>11. Flow' = [x \in 0 .. (Total + k - 1) |-> At(x)']
  BY <1>9 DEF Flow
<1>12. Longer(Flow, Total, e, k) =
         [x \in 0 .. (Total + k - 1) |-> IF x < Total THEN Flow[x] ELSE e[x - Total + 1]]
  BY DEF Longer
<1>13. Flow' = Longer(Flow, Total, e, k)
  BY <1>10, <1>11, <1>12
<1> QED BY <1>8, <1>9, <1>13

LEMMA SendInv == ASSUME FramingInv, NEW c \in Commands, SendCommand(c) PROVE FramingInv'
<1>1. /\ StreamOK /\ sent \in Seq(Commands) /\ handled \in Seq(Received)
      /\ Len(handled) <= Len(sent) /\ Len(sent) \in Nat /\ Len(handled) \in Nat
      /\ sending /\ ~ foreign /\ Remainder = "none"
  BY DEF FramingInv, SendCommand, Remainder
<1>2. /\ sending /\ foreign' = foreign /\ wire' = wire \o Encode(c) /\ sent' = Append(sent, c)
      /\ sending' = sending /\ socket' = socket /\ UNCHANGED stream
      /\ handled' = handled /\ readPos' = readPos
  BY DEF SendCommand, stream
<1>3. /\ Encode(c) \in Seq(Bytes) /\ Len(Encode(c)) = Size(c) /\ Size(c) \in Nat
  BY EncodeIs
<1>4. wire' = wire \o SubSeq(Encode(c), 1, Size(c)) /\ Size(c) \in 0 .. Size(c)
  <2> DEFINE e == Encode(c)
             B == Bytes
             k == Size(c)
  <2>1. e \in Seq(B) /\ Len(e) = k /\ wire' = wire \o e
    BY <1>2, <1>3
  <2> HIDE DEF e, B, k
  <2>2. SubSeq(e, 1, Len(e)) = e
    BY ONLY <2>1
  <2>3. wire' = wire \o SubSeq(e, 1, k)
    BY ONLY <2>1, <2>2
  <2> QED BY <1>3, <2>3 DEF e, k
<1>5. StreamOK' /\ Total' = Total + Size(c) /\ Flow' = Longer(Flow, Total, Encode(c), Size(c))
  BY <1>1, <1>2, <1>3, <1>4, WireGrows
<1>6. sent' \in Seq(Commands) /\ Len(handled') <= Len(sent')
  BY <1>1, <1>2
<1>7. ASSUME socket
      PROVE  \E b : Carries(Flow', Total', sent', "none", b) /\ readPos = b[Len(handled)]
  <2>1. PICK b : Carries(Flow, Total, sent, "none", b) /\ readPos = b[Len(handled)]
    BY <1>1, <1>7 DEF FramingInv, Continues
  <2>2. PICK d : /\ Carries(Longer(Flow, Total, Encode(c), Size(c)), Total + Size(c), Append(sent, c), "none", d)
                 /\ \A j \in 0 .. Len(sent) : d[j] = b[j]
    <3>1. Continued(Flow, Total, sent, b, c)
      <4> DEFINE F == Flow
                 m == Total
      <4>1. sent \in Seq(Commands) /\ Carries(F, m, sent, "none", b) /\ c \in Commands
        BY <1>1, <2>1
      <4> HIDE DEF F, m
      <4>2. Continued(F, m, sent, b, c)
        BY ONLY <4>1, WholeFollows
      <4> QED BY <4>2 DEF F, m
    <3> QED BY <3>1 DEF Continued
  <2>3. d[Len(handled)] = readPos
    BY <1>1, <2>1, <2>2
  <2> QED BY <1>2, <1>5, <2>2, <2>3
<1>8. /\ sending' = TRUE /\ foreign' = FALSE /\ Remainder' = "none"
      /\ role' \in Roles /\ draining' \in BOOLEAN /\ socket' \in BOOLEAN
      /\ handled' \in Seq(Received)
  BY <1>1, <1>2 DEF FramingInv, SendCommand, Remainder
<1>9. socket' => \E b : Carries(Flow', Total', sent', Remainder', b) /\ readPos' = b[Len(handled')]
  BY <1>2, <1>7, <1>8
<1> QED
  BY <1>5, <1>6, <1>8, <1>9, InvNext

LEMMA SendFailsInv == ASSUME FramingInv, NEW c \in Commands, SendCommandFails(c) PROVE FramingInv'
<1>1. /\ StreamOK /\ sent \in Seq(Commands) /\ handled \in Seq(Received)
      /\ Len(handled) <= Len(sent) /\ Len(sent) \in Nat /\ Len(handled) \in Nat
      /\ sending /\ ~ foreign /\ Remainder = "none"
  BY DEF FramingInv, SendCommandFails, Remainder
<1>2. PICK k \in 0 .. Len(Encode(c)) - 1 : wire' = wire \o SubSeq(Encode(c), 1, k)
  BY DEF SendCommandFails
<1>3. /\ sending /\ sent' = sent /\ sending' = FALSE /\ foreign' = foreign /\ socket' = socket /\ UNCHANGED stream
      /\ handled' = handled /\ readPos' = readPos
  BY DEF SendCommandFails, stream
<1>4. k \in 0 .. (Size(c) - 1) /\ k \in 0 .. Len(Encode(c)) /\ Encode(c) \in Seq(Bytes)
  <2>1. Len(Encode(c)) = Size(c) /\ Size(c) \in Nat /\ Encode(c) \in Seq(Bytes)
    BY EncodeIs
  <2> QED BY <2>1
<1>5. StreamOK' /\ Total' = Total + k /\ Flow' = Longer(Flow, Total, Encode(c), k)
  BY <1>1, <1>2, <1>3, <1>4, WireGrows
<1>6. ASSUME socket
      PROVE  \E b : Carries(Flow', Total', sent', "part", b) /\ readPos = b[Len(handled)]
  <2>1. PICK b : Carries(Flow, Total, sent, "none", b) /\ readPos = b[Len(handled)]
    BY <1>1, <1>6 DEF FramingInv, Continues
  <2>2. Carries(Longer(Flow, Total, Encode(c), k), Total + k, sent, "part", b)
    BY <1>1, <1>4, <2>1, PartFollows
  <2> QED BY <1>3, <1>5, <2>1, <2>2
<1>7. /\ sending' = FALSE /\ foreign' = FALSE /\ Remainder' = "part"
      /\ role' \in Roles /\ draining' \in BOOLEAN /\ socket' \in BOOLEAN
      /\ sent' \in Seq(Commands) /\ handled' \in Seq(Received) /\ Len(handled') <= Len(sent')
  BY <1>1, <1>3 DEF FramingInv, SendCommandFails, Remainder
<1>8. socket' => \E b : Carries(Flow', Total', sent', Remainder', b) /\ readPos' = b[Len(handled')]
  BY <1>3, <1>6, <1>7
<1> QED
  BY <1>5, <1>7, <1>8, InvNext

LEMMA SendOtherInv == ASSUME FramingInv, NEW e \in OtherBytes, SendOther(e) PROVE FramingInv'
<1>1. /\ StreamOK /\ sent \in Seq(Commands) /\ handled \in Seq(Received)
      /\ Len(handled) <= Len(sent) /\ Len(sent) \in Nat /\ Len(handled) \in Nat
      /\ sending /\ ~ foreign /\ Remainder = "none"
  BY DEF FramingInv, SendOther, Remainder
<1>2. /\ sending' = FALSE /\ foreign' = TRUE /\ wire' = wire \o e /\ sent' = sent
      /\ socket' = socket /\ UNCHANGED stream /\ handled' = handled /\ readPos' = readPos
  BY DEF SendOther, stream
<1>3. e \in Seq(Bytes) /\ Len(e) \in Nat /\ Len(e) \in 0 .. Len(e)
  <2>1. e \in Seq(Bytes)
    BY FramingAssumption DEF Bytes
  <2> QED BY <2>1
<1>4. wire' = wire \o SubSeq(e, 1, Len(e))
  <2> DEFINE B == Bytes
  <2>1. e \in Seq(B)
    BY <1>3
  <2> HIDE DEF B
  <2>2. SubSeq(e, 1, Len(e)) = e
    BY ONLY <2>1
  <2> QED BY <1>2, <2>2
<1>5. StreamOK' /\ Total' = Total + Len(e) /\ Flow' = Longer(Flow, Total, e, Len(e))
  BY <1>1, <1>2, <1>3, <1>4, WireGrows
<1>6. ASSUME socket
      PROVE  \E b : Carries(Flow', Total', sent', "any", b) /\ readPos = b[Len(handled)]
  <2>1. PICK b : Carries(Flow, Total, sent, "none", b) /\ readPos = b[Len(handled)]
    BY <1>1, <1>6 DEF FramingInv, Continues
  <2>2. Carries(Longer(Flow, Total, e, Len(e)), Total + Len(e), sent, "any", b)
    BY <1>1, <1>3, <2>1, OtherFollows
  <2> QED BY <1>2, <1>5, <2>1, <2>2
<1>7. /\ sending' = FALSE /\ foreign' = TRUE /\ Remainder' = "any"
      /\ role' \in Roles /\ draining' \in BOOLEAN /\ socket' \in BOOLEAN
      /\ sent' \in Seq(Commands) /\ handled' \in Seq(Received)
  BY <1>1, <1>2 DEF FramingInv, SendOther, Remainder
<1>8. socket' => \E b : Carries(Flow', Total', sent', Remainder', b) /\ readPos' = b[Len(handled')]
  BY <1>2, <1>6, <1>7
<1> QED
  BY <1>5, <1>7, <1>8, InvNext

-----------------------------------------------------------------------------
(* Reading from the network *)

\* The first n bytes of the wire and the rest.
LEMMA Divided ==
  ASSUME NEW w \in Seq(Bytes), NEW n \in 0 .. Len(w)
  PROVE  /\ SubSeq(w, 1, n) \in Seq(Bytes) /\ Len(SubSeq(w, 1, n)) = n
         /\ \A i \in 1 .. n : SubSeq(w, 1, n)[i] = w[i]
         /\ SubSeq(w, n + 1, Len(w)) \in Seq(Bytes) /\ Len(SubSeq(w, n + 1, Len(w))) = Len(w) - n
         /\ \A i \in 1 .. (Len(w) - n) : SubSeq(w, n + 1, Len(w))[i] = w[n + i]
<1> DEFINE B == Bytes
<1>1. w \in Seq(B) /\ Len(w) \in Nat /\ n \in Nat /\ n <= Len(w)
  OBVIOUS
<1> HIDE DEF B
<1>2. /\ SubSeq(w, 1, n) \in Seq(B) /\ Len(SubSeq(w, 1, n)) = n
      /\ \A i \in 1 .. n : SubSeq(w, 1, n)[i] = w[i]
  BY ONLY <1>1
<1>3. /\ SubSeq(w, n + 1, Len(w)) \in Seq(B) /\ Len(SubSeq(w, n + 1, Len(w))) = Len(w) - n
      /\ \A i \in 1 .. (Len(w) - n) : SubSeq(w, n + 1, Len(w))[i] = w[n + i]
  BY ONLY <1>1
<1> QED BY <1>2, <1>3 DEF B

\* A read moves bytes from the wire into the stream and changes none.
LEMMA ReadStreamInv == ASSUME FramingInv, NEW n, ReadStream(n) PROVE FramingInv'
<1>1. /\ StreamOK /\ wire \in Seq(Bytes) /\ Len(wire) \in Nat /\ writePos \in Nat /\ readPos \in Nat
      /\ readPos <= writePos /\ ChunkSize * MaxChunks \in Nat
  BY FramingAssumption DEF FramingInv, StreamOK
<1>2. n \in Nat /\ n \in 0 .. Len(wire) /\ n <= Len(wire) /\ writePos + n <= ChunkSize * MaxChunks
  BY <1>1, FramingAssumption DEF ReadStream, Fits
<1> DEFINE data == SubSeq(wire, 1, n)
<1>3. /\ chunks' = Written(data) /\ writePos' = writePos + n /\ wire' = SubSeq(wire, n + 1, Len(wire))
      /\ draining' = TRUE /\ socket' = socket /\ sending' = sending /\ role' = role
      /\ readPos' = readPos /\ sent' = sent /\ handled' = handled
  BY DEF ReadStream
<1>4. /\ data \in Seq(Bytes) /\ Len(data) = n /\ \A i \in 1 .. n : data[i] = wire[i]
      /\ wire' \in Seq(Bytes) /\ Len(wire') = Len(wire) - n
      /\ \A i \in 1 .. (Len(wire) - n) : wire'[i] = wire[n + i]
  BY <1>1, <1>2, <1>3, Divided
<1> HIDE DEF data
<1>5. /\ chunks' \in [0 .. MaxChunks - 1 -> [0 .. ChunkSize - 1 -> Bytes] \cup {NoChunk}]
      /\ \A x \in 0 .. (writePos - 1) :
           chunks'[x \div ChunkSize] # NoChunk /\ chunks'[x \div ChunkSize][x % ChunkSize] = ByteAt(x)
      /\ \A x \in Nat : writePos <= x /\ x < writePos + n /\ x < ChunkSize * MaxChunks =>
           /\ chunks'[x \div ChunkSize] # NoChunk
           /\ chunks'[x \div ChunkSize][x % ChunkSize] = data[x - writePos + 1]
  BY <1>1, <1>3, <1>4, WrittenIs
<1>6. ASSUME NEW x \in 0 .. (writePos + n - 1)
      PROVE  Made(x)' /\ ByteAt(x)' = At(x)
  <2>1. CASE x < writePos
    <3>1. x \in 0 .. (writePos - 1)
      BY <1>1, <1>2, <2>1
    <3> QED BY <1>5, <2>1, <3>1 DEF Made, ByteAt, At
  <2>2. CASE ~ (x < writePos)
    <3>1. /\ x \in Nat /\ writePos <= x /\ x < writePos + n /\ x < ChunkSize * MaxChunks
          /\ x - writePos + 1 \in 1 .. n
      BY <1>1, <1>2, <2>2
    <3>2. Made(x)' /\ ByteAt(x)' = data[x - writePos + 1]
      BY <1>5, <3>1 DEF Made, ByteAt
    <3> QED BY <1>4, <2>2, <3>1, <3>2 DEF At
  <2> QED BY <2>1, <2>2
<1>7. writePos' \in Nat /\ readPos' \in Nat /\ readPos' <= writePos' /\ writePos' <= ChunkSize * MaxChunks
  BY <1>1, <1>2, <1>3
<1>8. \A x \in 0 .. (writePos' - 1) : Made(x)'
  <2> SUFFICES ASSUME NEW x \in 0 .. (writePos' - 1) PROVE Made(x)'
    OBVIOUS
  <2>1. writePos' = writePos + n
    BY <1>3
  <2>2. x \in 0 .. (writePos + n - 1)
    BY <1>1, <1>2, <2>1
  <2> QED BY <1>6, <2>2
<1>9. StreamOK'
  BY <1>4, <1>5, <1>7, <1>8 DEF StreamOK
<1>10. Total' = Total /\ Total \in Nat
  BY <1>1, <1>2, <1>3, <1>4 DEF Total
<1>11. ASSUME NEW x \in 0 .. (Total - 1) PROVE At(x)' = At(x)
  <2>1. CASE x < writePos + n
    <3>1. x \in 0 .. (writePos + n - 1) /\ x < writePos'
      BY <1>1, <1>2, <1>3, <2>1
    <3> QED BY <1>6, <3>1 DEF At
  <2>2. CASE ~ (x < writePos + n)
    <3> DEFINE i == x - writePos' + 1
    <3>1. i \in 1 .. (Len(wire) - n) /\ n + i = x - writePos + 1 /\ ~ (x < writePos') /\ ~ (x < writePos)
      BY <1>1, <1>2, <1>3, <2>2 DEF Total
    <3>2. At(x)' = wire'[i] /\ At(x) = wire[x - writePos + 1]
      BY <3>1 DEF At
    <3> QED BY <1>4, <3>1, <3>2
  <2> QED BY <2>1, <2>2
<1>12. Flow' = Flow
  <2>1. Flow' = [x \in 0 .. (Total - 1) |-> At(x)']
    BY <1>10 DEF Flow
  <2> QED BY <1>11, <2>1 DEF Flow
<1>13. /\ role' \in Roles /\ sending' \in BOOLEAN /\ socket' \in BOOLEAN /\ draining' \in BOOLEAN
       /\ sent' = sent /\ handled' = handled /\ foreign' = foreign /\ Remainder' = Remainder
       /\ sent \in Seq(Commands) /\ handled \in Seq(Received) /\ foreign \in BOOLEAN
       /\ (foreign => ~ sending) /\ (~ foreign => Len(handled) <= Len(sent))
  BY <1>3 DEF FramingInv, ReadStream, Remainder
<1>14. socket /\ Len(handled) <= Len(sent) =>
         \E b : Carries(Flow, Total, sent, Remainder, b) /\ readPos = b[Len(handled)]
  BY DEF FramingInv, Continues
<1>15. socket' /\ Len(handled') <= Len(sent') =>
         \E b : Carries(Flow', Total', sent', Remainder', b) /\ readPos' = b[Len(handled')]
  BY <1>3, <1>10, <1>12, <1>13, <1>14
<1>16. (foreign' => ~ sending') /\ (~ foreign' => Len(handled') <= Len(sent'))
  BY <1>3, <1>13
<1> QED BY <1>9, <1>13, <1>15, <1>16, InvNext

\* A read that fails loses what it read, and with it the connection.
LEMMA ReadStreamFailsInv == ASSUME FramingInv, NEW n, ReadStreamFails(n) PROVE FramingInv'
<1>1. StreamOK /\ wire \in Seq(Bytes) /\ Len(wire) \in Nat /\ n \in 0 .. Len(wire)
  BY FramingAssumption DEF FramingInv, StreamOK, ReadStreamFails
<1> DEFINE data == SubSeq(wire, 1, n)
<1>2. /\ chunks' = Written(data) /\ wire' = SubSeq(wire, n + 1, Len(wire)) /\ socket' = FALSE
      /\ writePos' = writePos /\ draining' = draining /\ sending' = sending /\ role' = role
      /\ readPos' = readPos /\ sent' = sent /\ handled' = handled /\ foreign' = foreign
  BY DEF ReadStreamFails
<1>3. data \in Seq(Bytes) /\ wire' \in Seq(Bytes)
  BY <1>1, <1>2, Divided
<1> HIDE DEF data
<1>4. /\ chunks' \in [0 .. MaxChunks - 1 -> [0 .. ChunkSize - 1 -> Bytes] \cup {NoChunk}]
      /\ \A x \in 0 .. (writePos - 1) : chunks'[x \div ChunkSize] # NoChunk
  BY <1>1, <1>2, <1>3, WrittenIs
<1>5. \A x \in 0 .. (writePos' - 1) : Made(x)'
  BY <1>2, <1>4 DEF Made
<1>6. StreamOK'
  BY <1>2, <1>3, <1>4, <1>5 DEF FramingInv, StreamOK
<1>7. /\ role \in Roles /\ sending \in BOOLEAN /\ draining \in BOOLEAN /\ foreign \in BOOLEAN
      /\ sent \in Seq(Commands) /\ handled \in Seq(Received)
      /\ (foreign => ~ sending) /\ (~ foreign => Len(handled) <= Len(sent))
  BY DEF FramingInv
<1>8. socket' /\ Len(handled') <= Len(sent') =>
        \E b : Carries(Flow', Total', sent', Remainder', b) /\ readPos' = b[Len(handled')]
  BY <1>2
<1>9. /\ role' \in Roles /\ sending' \in BOOLEAN /\ socket' \in BOOLEAN /\ draining' \in BOOLEAN
      /\ sent' \in Seq(Commands) /\ handled' \in Seq(Received) /\ foreign' \in BOOLEAN
      /\ (foreign' => ~ sending') /\ (~ foreign' => Len(handled') <= Len(sent'))
  BY <1>2, <1>7
<1> QED BY <1>6, <1>8, <1>9, InvNext

-----------------------------------------------------------------------------
(* The command at the front of the stream *)

LEMMA ReadableIs ==
  ASSUME StreamOK, NEW pos \in Nat, NEW n \in Nat, pos + n <= writePos
  PROVE  Readable(pos, n)
<1>1. writePos \in Nat /\ writePos <= ChunkSize * MaxChunks /\ ChunkSize * MaxChunks \in Nat
  BY FramingAssumption DEF StreamOK
<1>2. n <= writePos - pos
  BY <1>1
<1>3. ASSUME NEW k \in pos .. pos + n - 1 PROVE k < ChunkSize * MaxChunks /\ Made(k)
  <2>1. k \in 0 .. (writePos - 1)
    BY <1>1
  <2> QED BY <1>1, <2>1 DEF StreamOK
<1> QED BY <1>2, <1>3 DEF Readable

\* The stream begins with command c, or with a part of it and nothing more.
Leads(c) ==
  /\ c \in Commands
  /\ \E k \in Nat : HasAt(Flow, readPos, c, k) /\ (GetReadAvailable <= k \/ Size(c) <= k)

LEMMA LeadIs ==
  ASSUME StreamOK, NEW c, Leads(c), NEW i \in 1 .. GetReadAvailable, i <= Size(c)
  PROVE  ByteAt(readPos + i - 1) = Encode(c)[i]
<1>1. PICK k \in Nat : HasAt(Flow, readPos, c, k) /\ (GetReadAvailable <= k \/ Size(c) <= k)
  BY DEF Leads
<1>0. Size(c) \in Nat
  BY EncodeIs DEF Leads
<1>2. writePos \in Nat /\ readPos \in Nat /\ readPos <= writePos /\ Len(wire) \in Nat
  BY DEF StreamOK
<1> DEFINE x == readPos + i - 1
<1>3. i \in 1 .. k /\ x \in 0 .. (Total - 1) /\ x < writePos
  BY <1>0, <1>1, <1>2 DEF GetReadAvailable, Total
<1>4. Flow[x] = Encode(c)[i]
  BY <1>1, <1>3 DEF HasAt
<1> HIDE DEF x
<1>5. Flow[x] = ByteAt(x)
  BY <1>3 DEF Flow, At
<1> QED BY <1>4, <1>5 DEF x

\* Its header tells its number and its length.
LEMMA HeaderIs ==
  ASSUME StreamOK, NEW c, Leads(c), GetReadAvailable >= HeaderLen
  PROVE  Header[1] = c.number /\ LengthOf(Header) = Len(c.body)
<1>1. /\ c \in Commands /\ LenBytes \in Nat /\ HeaderLen = 1 + LenBytes
      /\ writePos \in Nat /\ readPos \in Nat /\ GetReadAvailable \in Int
  BY FramingAssumption DEF Leads, StreamOK, GetReadAvailable, HeaderLen
<1>2. /\ HeaderLen \in Nat /\ HeaderLen > 1 /\ Size(c) < Word /\ Size(c) = HeaderLen + Len(c.body)
      /\ Len(c.body) \in Nat /\ Word \in Nat /\ Encode(c)[1] = c.number
      /\ \A i \in 1 .. LenBytes : Encode(c)[i + 1] = LengthBytes(Len(c.body))[i]
  BY <1>1, EncodeIs DEF Size
<1>3. ASSUME NEW i \in 1 .. HeaderLen PROVE Header[i] = Encode(c)[i]
  <2>1. i \in 1 .. GetReadAvailable
    BY <1>1, <1>2
  <2>3. i <= Size(c)
    BY <1>2
  <2>2. Header[i] = ByteAt(readPos + i - 1)
    BY <1>2 DEF Header, Read
  <2> QED BY <2>1, <2>2, <2>3, LeadIs
<1>4. \A i \in 1 .. LenBytes : Header[i + 1] = LengthBytes(Len(c.body))[i]
  <2> SUFFICES ASSUME NEW i \in 1 .. LenBytes PROVE Header[i + 1] = LengthBytes(Len(c.body))[i]
    OBVIOUS
  <2>1. i + 1 \in 1 .. HeaderLen
    BY <1>1
  <2> QED BY <1>2, <1>3, <2>1
<1>5. LengthOf(Header) = Len(c.body)
  <2> DEFINE n == Len(c.body)
             h == Header
  <2>1. n \in Nat /\ n < Word /\ \A i \in 1 .. LenBytes : h[i + 1] = LengthBytes(n)[i]
    BY <1>2, <1>4
  <2> HIDE DEF n, h
  <2>2. LengthOf(h) = n
    BY <2>1, LengthOfIs
  <2> QED BY <2>2 DEF n, h
<1> QED BY <1>2, <1>3, <1>5

\* It is complete when all its bytes are there.
LEMMA CompleteIs ==
  ASSUME StreamOK, NEW c, Leads(c), GetReadAvailable >= HeaderLen
  PROVE  Complete <=> GetReadAvailable >= Size(c)
<1>1. LengthOf(Header) = Len(c.body) /\ c \in Commands
  BY HeaderIs DEF Leads
<1>2. /\ HeaderLen \in Nat /\ Size(c) < Word /\ Size(c) = HeaderLen + Len(c.body)
      /\ Len(c.body) \in Nat /\ Word \in Nat /\ Size(c) \in Nat
  BY <1>1, EncodeIs DEF Size
<1> DEFINE w == Word
           s == Size(c)
           z == 0
<1>3. w \in Nat /\ w > 0 /\ z \in Nat /\ s \in 0 .. (w - 1) /\ w * z + s = s
  <2> HIDE DEF w, s
  <2>1. w \in Nat /\ s \in Nat /\ s < w
    BY <1>2 DEF w, s
  <2> QED BY <2>1
<1>4. LengthOf(Header) + HeaderLen = s
  BY <1>1, <1>2
<1> HIDE DEF w, s, z
<1>5. (w * z + s) % w = s
  BY <1>3, QuotientUnique
<1>6. (LengthOf(Header) + HeaderLen) % Word = Size(c)
  BY <1>3, <1>4, <1>5 DEF w, s
<1> QED BY <1>6 DEF Complete

LEMMA BodyIs ==
  ASSUME StreamOK, NEW c, Leads(c), GetReadAvailable >= Size(c)
  PROVE  Read(readPos + HeaderLen, Len(c.body)) = c.body
<1>1. /\ c \in Commands /\ writePos \in Nat /\ readPos \in Nat /\ GetReadAvailable \in Int
  BY DEF Leads, StreamOK, GetReadAvailable
<1>2. /\ HeaderLen \in Nat /\ Size(c) = HeaderLen + Len(c.body) /\ Len(c.body) \in Nat
      /\ c.body \in Seq(Bytes)
      /\ \A i \in 1 .. Len(c.body) : Encode(c)[HeaderLen + i] = c.body[i]
  BY <1>1, EncodeIs DEF Size
<1>3. ASSUME NEW i \in 1 .. Len(c.body) PROVE ByteAt(readPos + HeaderLen + i - 1) = c.body[i]
  <2> DEFINE j == HeaderLen + i
  <2>1. j \in 1 .. GetReadAvailable /\ j <= Size(c) /\ readPos + j - 1 = readPos + HeaderLen + i - 1
    BY <1>1, <1>2
  <2> HIDE DEF j
  <2>2. ByteAt(readPos + j - 1) = Encode(c)[j]
    BY <2>1, LeadIs
  <2> QED BY <1>2, <2>1, <2>2 DEF j
<1>4. Read(readPos + HeaderLen, Len(c.body)) = [i \in 1 .. Len(c.body) |-> c.body[i]]
  BY <1>3 DEF Read
<1> DEFINE B == Bytes
           t == c.body
<1>5. t \in Seq(B)
  BY <1>2
<1> HIDE DEF B, t
<1>6. t = [i \in 1 .. Len(t) |-> t[i]]
  BY ONLY <1>5
<1> QED BY <1>4, <1>6 DEF t

\* The stream begins with the first command that is not handled, or with one
\* that was not sent whole.
LEMMA FrontIs ==
  ASSUME FramingInv, socket, Len(handled) <= Len(sent)
  PROVE  /\ Len(handled) < Len(sent) => Leads(sent[Len(handled) + 1])
         /\ Len(handled) = Len(sent) /\ ~ foreign /\ GetReadAvailable > 0 =>
              \E c : Leads(c) /\ GetReadAvailable < Size(c)
<1>1. /\ sent \in Seq(Commands) /\ Len(sent) \in Nat /\ Len(handled) \in Nat /\ Len(handled) <= Len(sent)
      /\ writePos \in Nat /\ readPos \in Nat /\ readPos <= writePos /\ Len(wire) \in Nat
  BY DEF FramingInv, StreamOK
<1>2. PICK b : Carries(Flow, Total, sent, Remainder, b) /\ readPos = b[Len(handled)]
  BY DEF FramingInv, Continues
<1>3. /\ Marks(b, sent) /\ Holds(Flow, b, sent) /\ Ends(Flow, Total, b[Len(sent)], Remainder)
      /\ \A j \in 0 .. Len(sent) : b[j] <= Total
  BY <1>2 DEF Carries
<1>4. Total = writePos + Len(wire) /\ GetReadAvailable = writePos - readPos
  BY DEF Total, GetReadAvailable
<1>5. ASSUME Len(handled) < Len(sent) PROVE Leads(sent[Len(handled) + 1])
  <2> DEFINE j == Len(handled) + 1
             c == sent[j]
  <2>1. j \in 1 .. Len(sent) /\ j - 1 = Len(handled) /\ j \in 0 .. Len(sent)
    BY <1>1, <1>5
  <2>2. b[j - 1] = readPos
    BY <1>2, <2>1
  <2> HIDE DEF j
  <2>3. c \in Commands /\ Size(c) \in Nat
    BY <1>1, <1>3, <2>1, MarkAt
  <2>4. HasAt(Flow, readPos, c, Size(c))
    BY <1>3, <2>1, <2>2 DEF Holds
  <2>5. Leads(c)
    BY <2>3, <2>4 DEF Leads
  <2> QED BY <2>5 DEF j
<1>6. ASSUME Len(handled) = Len(sent), ~ foreign, GetReadAvailable > 0
      PROVE  \E c : Leads(c) /\ GetReadAvailable < Size(c)
  <2>1. readPos < Total /\ Total - readPos \in Nat /\ GetReadAvailable <= Total - readPos
    BY <1>1, <1>4, <1>6
  <2>2. \E c \in Commands : Total < readPos + Size(c) /\ HasAt(Flow, readPos, c, Total - readPos)
    BY <1>1, <1>2, <1>3, <1>6, <2>1 DEF Ends, Remainder
  <2>3. PICK c \in Commands : Total < readPos + Size(c) /\ HasAt(Flow, readPos, c, Total - readPos)
    BY <2>2
  <2>4. Leads(c)
    BY <2>1, <2>3 DEF Leads
  <2>5. Size(c) \in Nat
    BY EncodeIs
  <2>6. GetReadAvailable < Size(c)
    BY <1>1, <1>4, <2>3, <2>5
  <2> QED BY <2>4, <2>6
<1> QED BY <1>5, <1>6

-----------------------------------------------------------------------------
(* The receiver's loop *)

\* What RecvCommand returns is the first command that is not handled, whole.
LEMMA RecvIs ==
  ASSUME FramingInv, socket, Complete, Len(handled) < Len(sent) \/ ~ foreign
  PROVE  /\ Len(handled) < Len(sent)
         /\ sent[Len(handled) + 1] \in Commands
         /\ LengthOf(Header) = Len(sent[Len(handled) + 1].body)
         /\ GetReadAvailable >= Size(sent[Len(handled) + 1])
         /\ sent[Len(handled) + 1] =
              [number |-> Header[1], body |-> Read(readPos + HeaderLen, LengthOf(Header))]
<1>1. /\ StreamOK /\ sent \in Seq(Commands) /\ Len(sent) \in Nat /\ Len(handled) \in Nat
      /\ Len(handled) <= Len(sent) /\ GetReadAvailable \in Int /\ HeaderLen \in Nat /\ HeaderLen > 0
  BY FramingAssumption DEF FramingInv, StreamOK, GetReadAvailable, HeaderLen
<1>2. GetReadAvailable >= HeaderLen /\ GetReadAvailable > 0
  BY <1>1 DEF Complete
<1>3. Len(handled) < Len(sent)
  <2> SUFFICES ASSUME Len(handled) = Len(sent), ~ foreign PROVE FALSE
    BY <1>1
  <2>1. PICK c : Leads(c) /\ GetReadAvailable < Size(c)
    BY <1>2, FrontIs
  <2>2. GetReadAvailable >= Size(c)
    BY <1>1, <1>2, <2>1, CompleteIs
  <2>3. Size(c) \in Nat
    BY <2>1, EncodeIs DEF Leads
  <2> QED BY <1>1, <2>1, <2>2, <2>3
<1> DEFINE c == sent[Len(handled) + 1]
<1>4. Leads(c)
  BY <1>3, FrontIs
<1> HIDE DEF c
<1>5. GetReadAvailable >= Size(c) /\ c \in Commands
  BY <1>1, <1>2, <1>4, CompleteIs DEF Leads
<1>6. Header[1] = c.number /\ LengthOf(Header) = Len(c.body)
  BY <1>1, <1>2, <1>4, HeaderIs
<1>7. Read(readPos + HeaderLen, Len(c.body)) = c.body
  BY <1>1, <1>4, <1>5, BodyIs
<1>8. c = [number |-> c.number, body |-> c.body]
  BY <1>5 DEF Commands
<1>9. c = [number |-> Header[1], body |-> Read(readPos + HeaderLen, LengthOf(Header))]
  BY <1>6, <1>7, <1>8
<1> QED BY <1>3, <1>5, <1>6, <1>9 DEF c

\* Whoever sent it, what is read are bytes.
LEMMA ReadTyped ==
  ASSUME StreamOK, NEW pos \in Nat, NEW n \in Nat, pos + n <= writePos
  PROVE  Read(pos, n) \in Seq(Bytes) /\ \A i \in 1 .. n : Read(pos, n)[i] \in Bytes
<1>1. /\ writePos \in Nat /\ writePos <= ChunkSize * MaxChunks /\ ChunkSize * MaxChunks \in Nat
      /\ chunks \in [0 .. MaxChunks - 1 -> [0 .. ChunkSize - 1 -> Bytes] \cup {NoChunk}]
  BY FramingAssumption DEF StreamOK
<1>2. ASSUME NEW i \in 1 .. n PROVE ByteAt(pos + i - 1) \in Bytes
  <2> DEFINE x == pos + i - 1
             c == x \div ChunkSize
             o == x % ChunkSize
  <2>1. x \in Nat /\ x \in 0 .. (writePos - 1) /\ x < ChunkSize * MaxChunks
    BY <1>1
  <2> HIDE DEF x
  <2>2. c \in 0 .. (MaxChunks - 1) /\ o \in 0 .. (ChunkSize - 1)
    BY <2>1, PlaceOf
  <2>3. chunks[c] # NoChunk
    BY <2>1 DEF StreamOK, Made
  <2>4. ByteAt(x) = chunks[c][o]
    BY DEF ByteAt
  <2> HIDE DEF c, o
  <2>5. chunks[c] \in [0 .. ChunkSize - 1 -> Bytes]
    BY <1>1, <2>2, <2>3
  <2> QED BY <2>2, <2>4, <2>5 DEF x
<1> DEFINE r == Read(pos, n)
           B == Bytes
<1>3. r = [i \in 1 .. n |-> ByteAt(pos + i - 1)]
  BY DEF Read
<1> HIDE DEF r, B
<1>4. r \in [1 .. n -> B] /\ \A i \in 1 .. n : r[i] \in B
  BY <1>2, <1>3 DEF B
<1>5. r \in Seq(B)
  BY ONLY <1>4, n \in Nat
<1> QED BY <1>4, <1>5 DEF r, B

LEMMA HeaderTyped ==
  ASSUME StreamOK, GetReadAvailable >= HeaderLen
  PROVE  Header[1] \in Bytes /\ LengthOf(Header) \in Nat
<1>1. /\ readPos \in Nat /\ writePos \in Nat /\ LenBytes \in Nat /\ HeaderLen = 1 + LenBytes
      /\ GetReadAvailable = writePos - readPos
  BY FramingAssumption DEF StreamOK, GetReadAvailable, HeaderLen
<1>2. HeaderLen \in Nat /\ readPos + HeaderLen <= writePos
  BY <1>1
<1>3. \A i \in 1 .. HeaderLen : Header[i] \in Bytes
  BY <1>1, <1>2, ReadTyped DEF Header
<1> HIDE DEF Header
<1>4. 1 \in 1 .. HeaderLen /\ \A i \in 1 .. LenBytes : i + 1 \in 1 .. HeaderLen
  BY <1>1
<1> QED BY <1>3, <1>4, LengthOfTyped

\* What RecvCommand hands over is a command of bytes, and of those that are there.
LEMMA RecvTyped ==
  ASSUME FramingInv, RecvCommand
  PROVE  /\ StreamOK' /\ Flow' = Flow /\ Total' = Total
         /\ handled' \in Seq(Received) /\ Len(handled') = Len(handled) + 1
         /\ socket' \in BOOLEAN /\ draining' \in BOOLEAN
         /\ UNCHANGED <<role, sending, foreign, sent>> /\ Remainder' = Remainder
<1>1. /\ StreamOK /\ handled \in Seq(Received)
      /\ writePos \in Nat /\ readPos \in Nat /\ readPos <= writePos
  BY DEF FramingInv, StreamOK
<1> DEFINE n == LengthOf(Header)
           pos == readPos + HeaderLen
           body == Read(pos, n)
           c == [number |-> Header[1], body |-> body]
<1>2. /\ GetReadAvailable >= HeaderLen /\ Readable(pos, n)
      /\ handled' = Append(handled, c) /\ readPos' = pos + Len(body)
      /\ socket' \in BOOLEAN /\ draining' \in BOOLEAN
      /\ role' = role /\ sending' = sending /\ foreign' = foreign /\ wire' = wire
      /\ chunks' = chunks /\ writePos' = writePos /\ sent' = sent
  BY DEF RecvCommand, Complete
<1>3. Header[1] \in Bytes /\ n \in Nat
  BY <1>1, <1>2, HeaderTyped
<1>4. Len(body) = n
  <2>1. body = [i \in 1 .. n |-> ByteAt(pos + i - 1)]
    BY DEF Read
  <2> HIDE DEF body, n, pos
  <2> QED BY <1>3, <2>1
<1>5. pos \in Nat /\ pos + n <= writePos
  <2>1. HeaderLen \in Nat /\ n <= writePos - pos
    BY <1>2, FramingAssumption DEF Readable, HeaderLen
  <2> HIDE DEF n
  <2> QED BY <1>1, <1>3, <2>1
<1>6. body \in Seq(Bytes)
  <2> HIDE DEF n, pos
  <2> QED BY <1>1, <1>3, <1>5, ReadTyped
<1>7. c \in Received
  <2> HIDE DEF body
  <2> QED BY <1>3, <1>6 DEF Received
<1>8. readPos' \in Nat /\ readPos' <= writePos
  <2> HIDE DEF n, pos, body
  <2> QED BY <1>1, <1>2, <1>3, <1>4, <1>5
<1> HIDE DEF n, pos, body, c
<1>9. StreamOK'
  BY <1>1, <1>2, <1>8 DEF StreamOK, Made
<1>10. Flow' = Flow /\ Total' = Total
  <2>1. \A x : At(x)' = At(x)
    BY <1>2 DEF At, ByteAt
  <2>2. Total' = Total
    BY <1>2 DEF Total
  <2>3. Flow' = [x \in 0 .. (Total - 1) |-> At(x)']
    BY <2>2 DEF Flow
  <2> QED BY <2>1, <2>2, <2>3 DEF Flow
<1>11. handled' \in Seq(Received) /\ Len(handled') = Len(handled) + 1
  BY <1>1, <1>2, <1>7
<1>12. Remainder' = Remainder
  BY <1>2 DEF Remainder
<1> QED BY <1>2, <1>9, <1>10, <1>11, <1>12

\* While one of the commands sent is not handled, that is the one.
LEMMA RecvOwn ==
  ASSUME FramingInv, RecvCommand, Len(handled) < Len(sent) \/ ~ foreign
  PROVE  /\ Len(handled) < Len(sent)
         /\ handled' = Append(handled, sent[Len(handled) + 1])
         /\ readPos' = readPos + Size(sent[Len(handled) + 1])
<1>1. socket /\ Complete
  BY DEF RecvCommand
<1> DEFINE c == sent[Len(handled) + 1]
<1>2. /\ Len(handled) < Len(sent) /\ c \in Commands
      /\ LengthOf(Header) = Len(c.body)
      /\ c = [number |-> Header[1], body |-> Read(readPos + HeaderLen, LengthOf(Header))]
  BY <1>1, RecvIs
<1>3. handled' = Append(handled, c) /\ readPos' = readPos + HeaderLen + Len(c.body)
  <2> DEFINE d == [number |-> Header[1], body |-> Read(readPos + HeaderLen, LengthOf(Header))]
  <2>1. handled' = Append(handled, d) /\ readPos' = readPos + HeaderLen + Len(d.body)
    BY DEF RecvCommand
  <2>2. c = d
    BY <1>2
  <2> HIDE DEF c, d
  <2> QED BY <2>1, <2>2
<1>4. /\ HeaderLen \in Nat /\ Size(c) = HeaderLen + Len(c.body) /\ Len(c.body) \in Nat
      /\ readPos \in Nat
  BY <1>2, EncodeIs DEF Size, FramingInv, StreamOK
<1> HIDE DEF c
<1> DEFINE l == Len(c.body)
           k == Size(c)
<1>5. readPos' = readPos + HeaderLen + l /\ k = HeaderLen + l /\ l \in Nat
  BY <1>3, <1>4
<1> HIDE DEF l, k
<1>6. readPos' = readPos + k
  BY ONLY <1>4, <1>5
<1> QED BY <1>2, <1>3, <1>6 DEF c, k

LEMMA RecvCommandInv == ASSUME FramingInv, RecvCommand PROVE FramingInv'
<1>1. /\ sent \in Seq(Commands) /\ Len(sent) \in Nat /\ Len(handled) \in Nat /\ socket
      /\ role \in Roles /\ sending \in BOOLEAN /\ foreign \in BOOLEAN /\ (foreign => ~ sending)
  BY DEF FramingInv, RecvCommand
<1>2. /\ StreamOK' /\ Flow' = Flow /\ Total' = Total
      /\ handled' \in Seq(Received) /\ Len(handled') = Len(handled) + 1
      /\ socket' \in BOOLEAN /\ draining' \in BOOLEAN /\ role' = role /\ sending' = sending
      /\ foreign' = foreign /\ sent' = sent /\ Remainder' = Remainder
  BY RecvTyped
<1>3. ~ foreign => Len(handled') <= Len(sent)
  <2> SUFFICES ASSUME ~ foreign PROVE Len(handled') <= Len(sent)
    OBVIOUS
  <2>1. Len(handled) < Len(sent)
    BY RecvOwn
  <2> QED BY <1>1, <1>2, <2>1
<1>4. ASSUME Len(handled') <= Len(sent)
      PROVE  \E b : Carries(Flow, Total, sent, Remainder, b) /\ readPos' = b[Len(handled')]
  <2> DEFINE j == Len(handled) + 1
  <2>1. j \in 1 .. Len(sent) /\ j - 1 = Len(handled) /\ Len(handled) < Len(sent)
        /\ Len(handled) <= Len(sent) /\ Len(handled') = j
    BY <1>1, <1>2, <1>4
  <2>2. readPos' = readPos + Size(sent[j])
    BY <2>1, RecvOwn
  <2>3. PICK b : Carries(Flow, Total, sent, Remainder, b) /\ readPos = b[Len(handled)]
    BY <1>1, <2>1 DEF FramingInv, Continues
  <2> HIDE DEF j
  <2>4. b[j] = b[j - 1] + Size(sent[j])
    BY <1>1, <2>1, <2>3, MarkAt DEF Carries
  <2>5. readPos' = b[Len(handled')]
    BY <2>1, <2>2, <2>3, <2>4
  <2> QED BY <2>3, <2>5
<1>5. socket' /\ Len(handled') <= Len(sent') =>
        \E b : Carries(Flow', Total', sent', Remainder', b) /\ readPos' = b[Len(handled')]
  BY <1>2, <1>4
<1>6. /\ role' \in Roles /\ sending' \in BOOLEAN /\ foreign' \in BOOLEAN /\ sent' \in Seq(Commands)
      /\ (foreign' => ~ sending') /\ (~ foreign' => Len(handled') <= Len(sent'))
  BY <1>1, <1>2, <1>3
<1> QED BY <1>2, <1>5, <1>6, InvNext

\* Nothing changes of what the invariant is about but the flags.
LEMMA FlagsInv ==
  ASSUME FramingInv, UNCHANGED <<role, sending, foreign, wire, stream, sent, handled>>,
         socket' \in BOOLEAN, draining' \in BOOLEAN, socket' => socket
  PROVE  FramingInv'
<1>1. /\ chunks' = chunks /\ writePos' = writePos /\ readPos' = readPos /\ wire' = wire
      /\ role' = role /\ sending' = sending /\ foreign' = foreign /\ sent' = sent /\ handled' = handled
  BY DEF stream
<1>2. StreamOK'
  BY <1>1 DEF FramingInv, StreamOK, Made
<1>3. Flow' = Flow /\ Total' = Total
  <2>1. \A x : At(x)' = At(x)
    BY <1>1 DEF At, ByteAt
  <2>2. Total' = Total
    BY <1>1 DEF Total
  <2>3. Flow' = [x \in 0 .. (Total - 1) |-> At(x)']
    BY <2>2 DEF Flow
  <2> QED BY <2>1, <2>2, <2>3 DEF Flow
<1>4. /\ role' \in Roles /\ sending' \in BOOLEAN /\ sent' \in Seq(Commands) /\ foreign' \in BOOLEAN
      /\ handled' \in Seq(Received) /\ (foreign' => ~ sending')
      /\ (~ foreign' => Len(handled') <= Len(sent')) /\ Remainder' = Remainder
  BY <1>1 DEF FramingInv, Remainder
<1>5. socket /\ Len(handled) <= Len(sent) =>
        \E b : Carries(Flow, Total, sent, Remainder, b) /\ readPos = b[Len(handled)]
  BY DEF FramingInv, Continues
<1>6. socket' /\ Len(handled') <= Len(sent') =>
        \E b : Carries(Flow', Total', sent', Remainder', b) /\ readPos' = b[Len(handled')]
  BY <1>1, <1>3, <1>4, <1>5
<1> QED BY <1>2, <1>4, <1>6, InvNext

LEMMA DrainedInv == ASSUME FramingInv, Drained PROVE FramingInv'
<1>1. UNCHANGED <<role, sending, foreign, wire, stream, sent, handled>> /\ socket /\ socket' \in BOOLEAN
      /\ draining' \in BOOLEAN
  BY DEF Drained
<1> QED BY <1>1, FlagsInv

LEMMA ThrowsInv == ASSUME FramingInv, RecvCommandThrows PROVE FramingInv'
<1>1. UNCHANGED <<role, sending, foreign, wire, stream, sent, handled>> /\ socket /\ socket' \in BOOLEAN
      /\ draining' \in BOOLEAN
  BY DEF RecvCommandThrows, FramingInv
<1> QED BY <1>1, FlagsInv

LEMMA FramingInitInv == ASSUME FramingInit PROVE FramingInv
<1>1. /\ role \in Roles /\ sending = TRUE /\ foreign = FALSE /\ wire = <<>> /\ socket = TRUE /\ draining = FALSE
      /\ chunks = [i \in 0 .. MaxChunks - 1 |-> NoChunk] /\ writePos = 0 /\ readPos = 0
      /\ sent = <<>> /\ handled = <<>>
  BY DEF FramingInit
<1>2. ChunkSize * MaxChunks \in Nat /\ ChunkSize * MaxChunks >= 0
  BY FramingAssumption
<1>3. StreamOK
  BY <1>1, <1>2 DEF StreamOK
<1> DEFINE b == [j \in 0 .. 0 |-> 0]
<1>4. Len(sent) = 0 /\ Len(handled) = 0 /\ Total = 0
  BY <1>1 DEF Total
<1>5. Marks(b, sent) /\ Holds(Flow, b, sent)
  BY <1>4 DEF Marks, Holds
<1>6. b[0] = 0
  OBVIOUS
<1> HIDE DEF b
<1>7. Carries(Flow, Total, sent, Remainder, b)
  BY <1>1, <1>4, <1>5, <1>6 DEF Carries, Ends, Remainder
<1>8. readPos = b[Len(handled)]
  BY <1>1, <1>4, <1>6
<1>9. sent \in Seq(Commands) /\ handled \in Seq(Received) /\ Len(handled) <= Len(sent)
  BY <1>1
<1> QED BY <1>1, <1>3, <1>7, <1>8, <1>9 DEF FramingInv, Continues

LEMMA FramingStepInv == ASSUME FramingInv, [FramingNext]_framingVars PROVE FramingInv'
<1>1. ASSUME NEW c \in Commands, SendCommand(c) PROVE FramingInv'
  BY <1>1, SendInv
<1>2. ASSUME NEW c \in Commands, SendCommandFails(c) PROVE FramingInv'
  BY <1>2, SendFailsInv
<1>3. ASSUME NEW n \in 0 .. RecvMax, ReadStream(n) PROVE FramingInv'
  BY <1>3, ReadStreamInv
<1>4. ASSUME NEW n \in 0 .. RecvMax, ReadStreamFails(n) PROVE FramingInv'
  BY <1>4, ReadStreamFailsInv
<1>5. ASSUME RecvCommand PROVE FramingInv'
  BY <1>5, RecvCommandInv
<1>6. ASSUME Drained PROVE FramingInv'
  BY <1>6, DrainedInv
<1>7. ASSUME UNCHANGED framingVars PROVE FramingInv'
  <2>1. UNCHANGED <<role, sending, foreign, wire, stream, sent, handled>>
        /\ socket' = socket /\ draining' = draining
    BY <1>7 DEF framingVars
  <2>2. socket' \in BOOLEAN /\ draining' \in BOOLEAN
    BY <2>1 DEF FramingInv
  <2> QED BY <2>1, <2>2, FlagsInv
<1>8. ASSUME NEW bytes \in OtherBytes, SendOther(bytes) PROVE FramingInv'
  BY <1>8, SendOtherInv
<1>9. ASSUME RecvCommandThrows PROVE FramingInv'
  BY <1>9, ThrowsInv
<1> QED BY <1>1, <1>2, <1>3, <1>4, <1>5, <1>6, <1>7, <1>8, <1>9 DEF FramingNext

\* Peak and Read find the chunks behind the bytes that RecvCommand asks for; what it
\* cannot read is a length near the end of its range.
LEMMA ReadsAreThere == ASSUME FramingInv PROVE ThrowsOnWrapOnly
<1> DEFINE n == LengthOf(Header)
           pos == readPos + HeaderLen
           w == Word
           s == n + HeaderLen
<1> SUFFICES ASSUME socket
             PROVE  /\ GetReadAvailable >= HeaderLen => Readable(readPos, HeaderLen)
                    /\ Complete => (Readable(pos, n) <=> s < w)
                    /\ Complete /\ s >= w => foreign /\ Len(handled) >= Len(sent)
  BY DEF ThrowsOnWrapOnly
<1>1. /\ StreamOK /\ readPos \in Nat /\ writePos \in Nat /\ readPos <= writePos /\ HeaderLen \in Nat
      /\ writePos <= ChunkSize * MaxChunks /\ ChunkSize * MaxChunks \in Nat /\ ChunkSize * MaxChunks < w
      /\ w \in Nat /\ w > 0 /\ GetReadAvailable = writePos - readPos
  <2>1. w \in Nat /\ w > 0
    BY PowerIs, FramingAssumption DEF Word
  <2> HIDE DEF w
  <2>2. ChunkSize * MaxChunks < w
    BY FramingAssumption DEF w
  <2> QED BY <2>1, <2>2, FramingAssumption DEF FramingInv, StreamOK, HeaderLen, GetReadAvailable
<1>2. ASSUME GetReadAvailable >= HeaderLen PROVE Readable(readPos, HeaderLen)
  <2>1. readPos + HeaderLen <= writePos
    BY <1>1, <1>2
  <2> QED BY <1>1, <2>1, ReadableIs
<1>3. ASSUME Complete PROVE n \in Nat /\ s \in Nat /\ pos \in Nat /\ writePos - readPos >= s % w
  <2>1. GetReadAvailable >= HeaderLen /\ GetReadAvailable >= s % w
    BY <1>3 DEF Complete
  <2>2. n \in Nat
    BY <1>1, <2>1, HeaderTyped
  <2> HIDE DEF n
  <2>3. s \in Nat /\ pos \in Nat
    BY <1>1, <2>2
  <2> QED BY <1>1, <2>1, <2>2, <2>3
<1> HIDE DEF w
<1>4. ASSUME Complete, s < w PROVE Readable(pos, n)
  <2> DEFINE z == 0
  <2>1. w \in Nat /\ w > 0 /\ z \in Nat /\ s \in 0 .. (w - 1) /\ w * z + s = s
    <3> HIDE DEF n
    <3> QED BY <1>1, <1>3, <1>4
  <2> HIDE DEF z, s
  <2>2. (w * z + s) % w = s
    BY <2>1, QuotientUnique
  <2>3. s % w = s
    BY <2>1, <2>2
  <2>4. pos + n <= writePos
    <3>1. writePos - readPos >= s
      BY <1>3, <1>4, <2>3
    <3> HIDE DEF n
    <3> QED BY <1>1, <1>3, <1>4, <3>1 DEF s
  <2> HIDE DEF n, pos
  <2> QED BY <1>1, <1>3, <1>4, <2>4, ReadableIs
<1>5. ASSUME Complete, Readable(pos, n) PROVE s < w
  <2>1. n <= writePos - pos
    BY <1>5 DEF Readable
  <2> HIDE DEF n
  <2> QED BY <1>1, <1>3, <1>5, <2>1
<1>6. ASSUME Complete, s >= w PROVE foreign /\ Len(handled) >= Len(sent)
  <2>1. Len(sent) \in Nat /\ Len(handled) \in Nat
    BY DEF FramingInv
  <2> SUFFICES ASSUME Len(handled) < Len(sent) \/ ~ foreign PROVE FALSE
    BY <2>1 DEF FramingInv
  <2> DEFINE c == sent[Len(handled) + 1]
  <2>2. c \in Commands /\ n = Len(c.body)
    BY <1>6, RecvIs
  <2> HIDE DEF c
  <2>3. HeaderLen + Len(c.body) < w /\ Len(c.body) \in Nat
    BY <2>2, EncodeIs DEF Size, w
  <2> HIDE DEF n
  <2> QED BY <1>1, <1>6, <2>2, <2>3
<1> QED BY <1>2, <1>4, <1>5, <1>6

LEMMA FramingInvTypes == ASSUME FramingInv PROVE FramingTypeOK
<1>1. handled \in Seq([number : 0 .. Base - 1, body : Seq(0 .. Base - 1)])
  BY DEF FramingInv, Received, Bytes
<1>2. 0 <= readPos
  BY DEF FramingInv, StreamOK
<1> QED BY <1>1, <1>2 DEF FramingInv, StreamOK, FramingTypeOK, Bytes

\* Types and counters: the read position is never behind the write position,
\* and the write position never behind the last chunk.
THEOREM FramingTypes == FramingSpec => []FramingTypeOK
<1>1. FramingInit => FramingInv
  BY FramingInitInv
<1>2. FramingInv /\ [FramingNext]_framingVars => FramingInv'
  BY FramingStepInv
<1>3. FramingInv => FramingTypeOK
  BY FramingInvTypes
<1> QED BY <1>1, <1>2, <1>3, PTL DEF FramingSpec

\* Peak and Read throw out of RecvCommand (connection.cpp:114, :119) for a length whose sum
\* with the header's wraps and for nothing else, whatever bytes are sent, however the network
\* cuts them and however long the connection has been used.  No command of SendCommand does it.
THEOREM ReadsThrowOnWrapOnly == FramingSpec => []ThrowsOnWrapOnly
<1>1. FramingInit => FramingInv
  BY FramingInitInv
<1>2. FramingInv /\ [FramingNext]_framingVars => FramingInv'
  BY FramingStepInv
<1>3. FramingInv => ThrowsOnWrapOnly
  BY ReadsAreThere
<1> QED BY <1>1, <1>2, <1>3, PTL DEF FramingSpec

-----------------------------------------------------------------------------
(* The queue of commands *)

Pending == SubSeq(sent, Len(handled) + 1, Len(sent))

LEMMA PendingGrows ==
  ASSUME NEW ss \in Seq(Commands), NEW h \in 0 .. Len(ss), NEW c \in Commands
  PROVE  SubSeq(Append(ss, c), h + 1, Len(Append(ss, c))) = Append(SubSeq(ss, h + 1, Len(ss)), c)
<1> DEFINE C == Commands
           n == Len(ss)
           l == SubSeq(Append(ss, c), h + 1, n + 1)
           r == Append(SubSeq(ss, h + 1, n), c)
<1>1. ss \in Seq(C) /\ c \in C /\ n \in Nat /\ h \in Nat /\ h <= n
  OBVIOUS
<1>2. n = Len(ss)
  OBVIOUS
<1> HIDE DEF C, n
<1>3. /\ Append(ss, c) \in Seq(C) /\ Len(Append(ss, c)) = n + 1
      /\ \A i \in 1 .. n : Append(ss, c)[i] = ss[i]
      /\ Append(ss, c)[n + 1] = c
  BY ONLY <1>1, <1>2
<1>4. l \in Seq(C) /\ Len(l) = n - h + 1 /\ \A i \in 1 .. (n - h + 1) : l[i] = Append(ss, c)[h + i]
  BY ONLY <1>1, <1>3
<1>5. /\ r \in Seq(C) /\ Len(r) = n - h + 1 /\ r[n - h + 1] = c
      /\ \A i \in 1 .. (n - h) : r[i] = ss[h + i]
  <2> DEFINE q == SubSeq(ss, h + 1, n)
  <2>1. q \in Seq(C) /\ Len(q) = n - h /\ \A i \in 1 .. (n - h) : q[i] = ss[h + i]
    BY ONLY <1>1, <1>2
  <2> HIDE DEF q
  <2>2. /\ Append(q, c) \in Seq(C) /\ Len(Append(q, c)) = n - h + 1 /\ Append(q, c)[n - h + 1] = c
        /\ \A i \in 1 .. (n - h) : Append(q, c)[i] = q[i]
    BY ONLY <1>1, <2>1
  <2> QED BY <2>1, <2>2 DEF q
<1> HIDE DEF l, r
<1>6. ASSUME NEW i \in 1 .. (n - h + 1) PROVE l[i] = r[i]
  <2>1. CASE i = n - h + 1
    <3>1. h + i = n + 1
      BY <1>1, <2>1
    <3> QED BY <1>3, <1>4, <1>5, <2>1, <3>1
  <2>2. CASE i # n - h + 1
    <3>1. i \in 1 .. (n - h) /\ h + i \in 1 .. n
      BY <1>1, <2>2
    <3> QED BY <1>3, <1>4, <1>5, <3>1
  <2> QED BY <2>1, <2>2
<1>7. l = r
  <2>1. l = [i \in 1 .. Len(l) |-> l[i]] /\ r = [i \in 1 .. Len(r) |-> r[i]]
    BY ONLY <1>4, <1>5
  <2> QED BY <1>4, <1>5, <1>6, <2>1
<1> QED BY <1>3, <1>7 DEF l, r, n

LEMMA PendingShrinks ==
  ASSUME NEW ss \in Seq(Commands), NEW h \in Nat, h < Len(ss)
  PROVE  /\ SubSeq(ss, h + 1, Len(ss)) # <<>>
         /\ Head(SubSeq(ss, h + 1, Len(ss))) = ss[h + 1]
         /\ Tail(SubSeq(ss, h + 1, Len(ss))) = SubSeq(ss, h + 2, Len(ss))
<1> DEFINE C == Commands
           n == Len(ss)
           q == SubSeq(ss, h + 1, n)
           r == SubSeq(ss, h + 2, n)
<1>1. ss \in Seq(C) /\ n \in Nat /\ h \in Nat /\ h < n
  OBVIOUS
<1>2. n = Len(ss)
  OBVIOUS
<1> HIDE DEF C, n
<1>3. q \in Seq(C) /\ Len(q) = n - h /\ \A i \in 1 .. (n - h) : q[i] = ss[h + i]
  BY ONLY <1>1, <1>2
<1>4. r \in Seq(C) /\ Len(r) = n - h - 1 /\ \A i \in 1 .. (n - h - 1) : r[i] = ss[h + 1 + i]
  BY ONLY <1>1, <1>2
<1> HIDE DEF q, r
<1>5. q # <<>> /\ Head(q) = q[1] /\ q[1] = ss[h + 1]
  BY <1>1, <1>3
<1> DEFINE t == Tail(q)
<1>6. t \in Seq(C) /\ Len(t) = n - h - 1 /\ \A i \in 1 .. (n - h - 1) : t[i] = q[i + 1]
  BY <1>1, <1>3, <1>5
<1> HIDE DEF t
<1>7. ASSUME NEW i \in 1 .. (n - h - 1) PROVE t[i] = r[i]
  <2>1. i + 1 \in 1 .. (n - h) /\ h + (i + 1) = h + 1 + i
    BY <1>1
  <2> QED BY <1>3, <1>4, <1>6, <2>1
<1>8. t = r
  <2>1. t = [i \in 1 .. Len(t) |-> t[i]] /\ r = [i \in 1 .. Len(r) |-> r[i]]
    BY ONLY <1>4, <1>6
  <2> QED BY <1>4, <1>6, <1>7, <2>1
<1> QED BY <1>5, <1>8 DEF q, r, n, t

\* A command behind those that were sent changes nothing for them.
LEMMA OwnKept ==
  ASSUME NEW h \in Seq(Received), NEW c \in Received, NEW n \in Nat, Len(h) >= n
  PROVE  SubSeq(Append(h, c), 1, n) = IF Len(h) > n THEN SubSeq(h, 1, n) ELSE h
<1> DEFINE R == Received
           m == Len(h)
           a == Append(h, c)
           l == SubSeq(a, 1, n)
           r == SubSeq(h, 1, n)
<1>1. h \in Seq(R) /\ c \in R /\ m \in Nat /\ n <= m /\ m = Len(h)
  OBVIOUS
<1> HIDE DEF R, m
<1>2. a \in Seq(R) /\ Len(a) = m + 1 /\ \A i \in 1 .. m : a[i] = h[i]
  BY ONLY <1>1
<1> HIDE DEF a
<1>3. l \in Seq(R) /\ Len(l) = n /\ \A i \in 1 .. n : l[i] = a[i]
  BY ONLY <1>1, <1>2, n \in Nat
<1>4. r \in Seq(R) /\ Len(r) = n /\ \A i \in 1 .. n : r[i] = h[i]
  BY ONLY <1>1, n \in Nat
<1> HIDE DEF l, r
<1>5. \A i \in 1 .. n : i \in 1 .. m
  BY <1>1
<1>6. l = [i \in 1 .. n |-> l[i]] /\ r = [i \in 1 .. n |-> r[i]]
  BY ONLY <1>3, <1>4
<1>7. l = r
  BY <1>2, <1>3, <1>4, <1>5, <1>6
<1>8. m = n => r = h
  <2> SUFFICES ASSUME m = n PROVE r = h
    OBVIOUS
  <2>1. h = [i \in 1 .. Len(h) |-> h[i]]
    BY ONLY <1>1
  <2>2. Len(h) = n
    BY <1>1
  <2> QED BY <1>4, <1>6, <2>1, <2>2
<1>9. m > n \/ m = n
  BY <1>1
<1> QED BY <1>7, <1>8, <1>9 DEF l, r, a, m

LEMMA QueueInit == ASSUME FramingInit PROVE Queue!Init
<1>1. sent = <<>> /\ handled = <<>> /\ sending = TRUE /\ socket = TRUE /\ foreign = FALSE
  BY DEF FramingInit
<1>2. SubSeq(sent, Len(handled) + 1, Len(sent)) = <<>> /\ Own(handled) = handled
  BY <1>1 DEF Own
<1> QED BY <1>1, <1>2 DEF Queue!Init

LEMMA QueueStep ==
  ASSUME FramingInv, [FramingNext]_framingVars
  PROVE  [Queue!Next]_Queue!vars
<1> USE DEF Queue!vars
<1>0. FramingInv'
  BY FramingStepInv
<1>1. /\ sent \in Seq(Commands) /\ handled \in Seq(Received) /\ Len(sent) \in Nat
      /\ Len(handled) \in Nat /\ socket \in BOOLEAN /\ sending \in BOOLEAN /\ foreign \in BOOLEAN
      /\ (foreign => ~ sending) /\ (~ foreign => Len(handled) <= Len(sent))
  BY DEF FramingInv
<1>a. ASSUME UNCHANGED <<handled, sent>>, foreign' = foreign
      PROVE  Own(handled)' = Own(handled) /\ Pending' = Pending
  BY <1>a DEF Own, Pending
<1>b. ASSUME ~ foreign', foreign' = foreign
      PROVE  Own(handled)' = handled' /\ Own(handled) = handled
  BY <1>b DEF Own
<1>2. ASSUME NEW c \in Commands, SendCommand(c) PROVE [Queue!Next]_Queue!vars
  <2>1. /\ sending /\ sent' = Append(sent, c) /\ handled' = handled /\ sending' = sending
        /\ socket' = socket /\ foreign' = foreign /\ ~ foreign
    BY <1>1, <1>2 DEF SendCommand
  <2>2. Pending' = Append(Pending, c)
    <3>1. Pending' = SubSeq(Append(sent, c), Len(handled) + 1, Len(Append(sent, c)))
      BY <2>1 DEF Pending
    <3>2. Len(handled) \in 0 .. Len(sent)
      BY <1>1, <2>1
    <3>3. SubSeq(Append(sent, c), Len(handled) + 1, Len(Append(sent, c))) =
            Append(SubSeq(sent, Len(handled) + 1, Len(sent)), c)
      BY <1>1, <3>2, PendingGrows
    <3> QED BY <3>1, <3>3 DEF Pending
  <2>3. Own(handled)' = Own(handled)
    BY <1>b, <2>1
  <2>4. Queue!Send(c)
    BY <2>1, <2>2, <2>3 DEF Queue!Send, Pending
  <2> QED BY <2>4 DEF Queue!Next
<1>3. ASSUME NEW c \in Commands, SendCommandFails(c) PROVE [Queue!Next]_Queue!vars
  <2>1. /\ sending /\ sending' = FALSE /\ sent' = sent /\ handled' = handled /\ socket' = socket
        /\ foreign' = foreign
    BY <1>3 DEF SendCommandFails
  <2>2. Own(handled)' = Own(handled) /\ Pending' = Pending
    BY <1>a, <2>1
  <2>3. Queue!StopSending
    BY <2>1, <2>2 DEF Queue!StopSending, Pending
  <2> QED BY <2>3 DEF Queue!Next
<1>4. ASSUME NEW n \in 0 .. RecvMax, ReadStream(n) PROVE [Queue!Next]_Queue!vars
  <2>1. /\ sending' = sending /\ sent' = sent /\ handled' = handled /\ socket' = socket
        /\ foreign' = foreign
    BY <1>4 DEF ReadStream
  <2>2. Own(handled)' = Own(handled) /\ Pending' = Pending
    BY <1>a, <2>1
  <2> QED BY <2>1, <2>2 DEF Pending
<1>5. ASSUME NEW n \in 0 .. RecvMax, ReadStreamFails(n) PROVE [Queue!Next]_Queue!vars
  <2>1. /\ socket /\ socket' = FALSE /\ sent' = sent /\ handled' = handled /\ sending' = sending
        /\ foreign' = foreign
    BY <1>5 DEF ReadStreamFails
  <2>2. Own(handled)' = Own(handled) /\ Pending' = Pending
    BY <1>a, <2>1
  <2>3. Queue!Close
    BY <2>1, <2>2 DEF Queue!Close, Pending
  <2> QED BY <2>3 DEF Queue!Next
<1>6. ASSUME RecvCommand, Len(handled) < Len(sent) \/ ~ foreign PROVE [Queue!Next]_Queue!vars
  <2>1. Len(handled) < Len(sent) /\ handled' = Append(handled, sent[Len(handled) + 1])
    BY <1>6, RecvOwn
  <2>2. /\ socket /\ sending' = sending /\ sent' = sent /\ socket' \in BOOLEAN
        /\ foreign' = foreign /\ Len(handled') = Len(handled) + 1
    BY <1>0, <1>6, RecvTyped DEF RecvCommand, FramingInv
  <2>3. Pending # <<>> /\ Head(Pending) = sent[Len(handled) + 1]
        /\ Tail(Pending) = SubSeq(sent, Len(handled) + 2, Len(sent))
    BY <1>1, <2>1, PendingShrinks DEF Pending
  <2>4. Pending' = Tail(Pending)
    <3>1. Len(handled') + 1 = Len(handled) + 2
      BY <1>1, <2>2
    <3> QED BY <2>2, <2>3, <3>1 DEF Pending
  <2>5. Own(handled) = handled /\ Own(handled)' = handled'
    <3>1. ~ (Len(handled) > Len(sent)) /\ ~ (Len(handled') > Len(sent'))
      BY <1>1, <2>1, <2>2
    <3> QED BY <3>1 DEF Own
  <2>6. Queue!Handle
    BY <2>1, <2>2, <2>3, <2>4, <2>5 DEF Queue!Handle, Pending
  <2> QED BY <2>6 DEF Queue!Next
<1>7. ASSUME RecvCommand, foreign, ~ (Len(handled) < Len(sent)) PROVE [Queue!Next]_Queue!vars
  <2>1. /\ socket /\ sending' = sending /\ sent' = sent /\ socket' \in BOOLEAN
        /\ foreign' = foreign /\ Len(handled') = Len(handled) + 1
    BY <1>0, <1>7, RecvTyped DEF RecvCommand, FramingInv
  <2>2. PICK c \in Received : handled' = Append(handled, c)
    <3> DEFINE c == [number |-> Header[1],
                     body   |-> Read(readPos + HeaderLen, LengthOf(Header))]
    <3>1. handled' = Append(handled, c)
      BY <1>7 DEF RecvCommand
    <3> HIDE DEF c
    <3>2. handled' \in Seq(Received) /\ handled'[Len(handled')] = c /\ Len(handled') \in 1 .. Len(handled')
      BY <1>0, <1>1, <2>1, <3>1 DEF FramingInv
    <3>3. c \in Received
      BY <3>2
    <3> QED BY <3>1, <3>3
  <2>3. Len(handled) >= Len(sent) /\ Len(handled') > Len(sent)
    BY <1>1, <1>7, <2>1
  <2>4. Own(handled)' = Own(handled)
    <3>1. Own(handled)' = SubSeq(Append(handled, c), 1, Len(sent))
      BY <1>7, <2>1, <2>2, <2>3 DEF Own
    <3>2. SubSeq(Append(handled, c), 1, Len(sent)) =
            IF Len(handled) > Len(sent) THEN SubSeq(handled, 1, Len(sent)) ELSE handled
      BY <1>1, <2>3, OwnKept
    <3> QED BY <1>7, <3>1, <3>2 DEF Own
  <2>5. Pending' = Pending
    <3> DEFINE C == Commands
    <3>1. \A k \in Nat : k > Len(sent) => SubSeq(sent, k, Len(sent)) = <<>>
      <4>1. sent \in Seq(C) /\ Len(sent) \in Nat
        BY <1>1
      <4> HIDE DEF C
      <4> QED BY ONLY <4>1
    <3>2. Len(handled) + 1 > Len(sent) /\ Len(handled') + 1 > Len(sent)
          /\ Len(handled) + 1 \in Nat /\ Len(handled') + 1 \in Nat
      BY <1>1, <2>1, <2>3
    <3> QED BY <2>1, <3>1, <3>2 DEF Pending
  <2>6. CASE socket'
    BY <2>1, <2>4, <2>5, <2>6 DEF Pending
  <2>7. CASE ~ socket'
    <3>1. Queue!Close
      BY <2>1, <2>4, <2>5, <2>7 DEF Queue!Close, Pending
    <3> QED BY <3>1 DEF Queue!Next
  <2> QED BY <2>6, <2>7
<1>8. ASSUME Drained \/ RecvCommandThrows PROVE [Queue!Next]_Queue!vars
  <2>1. /\ socket /\ sent' = sent /\ handled' = handled /\ sending' = sending /\ socket' \in BOOLEAN
        /\ foreign' = foreign
    BY <1>8 DEF Drained, RecvCommandThrows
  <2>2. Own(handled)' = Own(handled) /\ Pending' = Pending
    BY <1>a, <2>1
  <2>3. CASE socket'
    BY <2>1, <2>2, <2>3 DEF Pending
  <2>4. CASE ~ socket'
    <3>1. Queue!Close
      BY <2>1, <2>2, <2>4 DEF Queue!Close, Pending
    <3> QED BY <3>1 DEF Queue!Next
  <2> QED BY <2>3, <2>4
<1>9. ASSUME NEW e \in OtherBytes, SendOther(e) PROVE [Queue!Next]_Queue!vars
  <2>1. /\ sending /\ sending' = FALSE /\ sent' = sent /\ handled' = handled /\ socket' = socket
        /\ ~ foreign
    BY <1>1, <1>9 DEF SendOther
  <2>2. Own(handled)' = Own(handled) /\ Pending' = Pending
    <3>1. Len(handled) <= Len(sent)
      BY <1>1, <2>1
    <3>2. ~ (Len(handled) > Len(sent))
      BY <1>1, <3>1
    <3> QED BY <2>1, <3>2 DEF Own, Pending
  <2>3. Queue!StopSending
    BY <2>1, <2>2 DEF Queue!StopSending, Pending
  <2> QED BY <2>3 DEF Queue!Next
<1>10. ASSUME UNCHANGED framingVars PROVE [Queue!Next]_Queue!vars
  <2>1. /\ sending' = sending /\ sent' = sent /\ handled' = handled /\ socket' = socket
        /\ foreign' = foreign
    BY <1>10 DEF framingVars
  <2>2. Own(handled)' = Own(handled) /\ Pending' = Pending
    BY <1>a, <2>1
  <2> QED BY <2>1, <2>2 DEF Pending
<1> QED
  BY <1>1, <1>2, <1>3, <1>4, <1>5, <1>6, <1>7, <1>8, <1>9, <1>10 DEF FramingNext

\* The connection implements the queue of commands: what one side sends the
\* other handles, in order, once and whole, until one of them gives up.
THEOREM ImplementsCommandQueue == FramingSpec => HandlesWhatWasSent
<1>1. FramingInit => FramingInv /\ Queue!Init
  BY FramingInitInv, QueueInit
<1>2. FramingInv /\ [FramingNext]_framingVars => FramingInv' /\ [Queue!Next]_Queue!vars
  BY FramingStepInv, QueueStep
<1> QED BY <1>1, <1>2, PTL DEF FramingSpec, HandlesWhatWasSent, Queue!Spec

-----------------------------------------------------------------------------
(* Spam counters *)

Counts == [Names -> Nat]

\* The counters are numbers within their limits, and a name without a tracker
\* has said nothing.
CountersInv ==
  /\ say \in Counts /\ wall \in Counts
  /\ \A n \in Names : say[n] <= MAX_SAY_COUNTER /\ wall[n] <= MAX_WALL_COUNTER
  /\ \A n \in Names : n \notin tracked => say[n] = 0 /\ wall[n] = 0

\* The accounts are numbers, and stay under the bound of the model.
AccountsInv ==
  /\ said \in Counts /\ walled \in Counts /\ sayDue \in Counts /\ wallDue \in Counts
  /\ \A n \in Names : said[n] <= MaxSpoken /\ walled[n] <= MaxSpoken

\* The inductive invariant.
SpamInv == CountersInv /\ AccountsInv /\ CountersCover

-----------------------------------------------------------------------------

\* Lowering a counter takes off no more than the drop, and never raises it.
LEMMA LoweredBounds ==
  ASSUME NEW k \in Nat, NEW d \in Nat
  PROVE  Lowered(k, d) \in Nat /\ Lowered(k, d) <= k /\ k <= Lowered(k, d) + d
BY DEF Lowered

\* The cap leaves what is under the bound.
LEMMA CappedBounds ==
  ASSUME NEW k \in Nat
  PROVE  Capped(k) \in Nat /\ (Capped(k) = k \/ Capped(k) = MaxSpoken)
BY SpamAssumption DEF Capped

\* What a tick may do to the four functions of a message kind: a counter that
\* covers its account still does.
LEMMA TickCovers ==
  ASSUME NEW heardOf \in Nat, heardOf <= MaxSpoken,
         NEW k \in Nat, NEW due \in Nat, NEW d \in Nat, heardOf <= k + due
  PROVE  heardOf <= Lowered(k, d) + Capped(due + d)
<1>1. Lowered(k, d) \in Nat /\ k <= Lowered(k, d) + d
  BY LoweredBounds
<1>2. Capped(due + d) \in Nat /\ (Capped(due + d) = due + d \/ Capped(due + d) = MaxSpoken)
  BY CappedBounds
<1>3. QED
  BY <1>1, <1>2, SpamAssumption

LEMMA InitSpam == SpamInit => SpamInv
BY SpamAssumption DEF SpamInit, SpamInv, CountersInv, AccountsInv, CountersCover, Counts

LEMMA SaySpam ==
  ASSUME SpamInv, NEW n \in Names, NWCSay(n)
  PROVE  SpamInv'
<1>1. say[n] < MAX_SAY_COUNTER
  BY SpamAssumption DEF SpamInv, CountersInv, NWCSay, MaySay, CanSay
<1>2. CountersInv'
  BY <1>1, SpamAssumption DEF SpamInv, CountersInv, NWCSay, Counts
<1>3. AccountsInv'
  BY SpamAssumption DEF SpamInv, AccountsInv, NWCSay, Counts
<1>4. CountersCover'
  BY DEF SpamInv, CountersInv, AccountsInv, CountersCover, NWCSay, Counts
<1>5. QED
  BY <1>2, <1>3, <1>4 DEF SpamInv

LEMMA WallSpam ==
  ASSUME SpamInv, NEW n \in Names, NWCWall(n)
  PROVE  SpamInv'
<1>1. wall[n] < MAX_WALL_COUNTER
  BY SpamAssumption DEF SpamInv, CountersInv, NWCWall, MayWall, CanWall
<1>2. CountersInv'
  BY <1>1, SpamAssumption DEF SpamInv, CountersInv, NWCWall, Counts
<1>3. AccountsInv'
  BY SpamAssumption DEF SpamInv, AccountsInv, NWCWall, Counts
<1>4. CountersCover'
  BY DEF SpamInv, CountersInv, AccountsInv, CountersCover, NWCWall, Counts
<1>5. QED
  BY <1>2, <1>3, <1>4 DEF SpamInv

\* The tick that lowers the counters of the names it reaches.
LEMMA TickSpam ==
  ASSUME SpamInv, UpdateSpamTracker, UNCHANGED <<tracked, said, walled>>
  PROVE  SpamInv'
<1> USE SpamAssumption
<1> DEFINE
      sayAfter(n) == IF n \in Reached THEN Lowered(say[n], SayDrop) ELSE say[n]
      wallAfter(n) == IF n \in Reached THEN Lowered(wall[n], WallDrop) ELSE wall[n]
      sayOwed(n) == IF n \in Reached THEN Capped(sayDue[n] + SayDrop) ELSE sayDue[n]
      wallOwed(n) == IF n \in Reached THEN Capped(wallDue[n] + WallDrop) ELSE wallDue[n]
<1>1. ASSUME NEW n \in Names
      PROVE  /\ sayAfter(n) \in Nat /\ sayAfter(n) <= say[n] /\ sayOwed(n) \in Nat
             /\ wallAfter(n) \in Nat /\ wallAfter(n) <= wall[n] /\ wallOwed(n) \in Nat
             /\ said[n] <= sayAfter(n) + sayOwed(n)
             /\ walled[n] <= wallAfter(n) + wallOwed(n)
  <2>1. /\ say[n] \in Nat /\ wall[n] \in Nat /\ said[n] \in Nat /\ walled[n] \in Nat
        /\ sayDue[n] \in Nat /\ wallDue[n] \in Nat
        /\ said[n] <= MaxSpoken /\ walled[n] <= MaxSpoken
        /\ said[n] <= say[n] + sayDue[n] /\ walled[n] <= wall[n] + wallDue[n]
    BY DEF SpamInv, CountersInv, AccountsInv, CountersCover, Counts
  <2>2. CASE n \notin Reached
    BY <2>1, <2>2
  <2>3. CASE n \in Reached
    <3>1. said[n] <= Lowered(say[n], SayDrop) + Capped(sayDue[n] + SayDrop)
      BY <2>1, TickCovers
    <3>2. walled[n] <= Lowered(wall[n], WallDrop) + Capped(wallDue[n] + WallDrop)
      BY <2>1, TickCovers
    <3>3. /\ Lowered(say[n], SayDrop) \in Nat /\ Lowered(say[n], SayDrop) <= say[n]
          /\ Lowered(wall[n], WallDrop) \in Nat /\ Lowered(wall[n], WallDrop) <= wall[n]
      BY <2>1, LoweredBounds
    <3>4. Capped(sayDue[n] + SayDrop) \in Nat /\ Capped(wallDue[n] + WallDrop) \in Nat
      BY <2>1, CappedBounds
    <3>5. QED
      BY <2>3, <3>1, <3>2, <3>3, <3>4
  <2>4. QED
    BY <2>2, <2>3
<1>2. /\ say' = [n \in Names |-> sayAfter(n)] /\ wall' = [n \in Names |-> wallAfter(n)]
      /\ sayDue' = [n \in Names |-> sayOwed(n)] /\ wallDue' = [n \in Names |-> wallOwed(n)]
  BY DEF UpdateSpamTracker
<1> HIDE DEF sayAfter, wallAfter, sayOwed, wallOwed
<1>3. \A n \in Names : n \notin tracked => sayAfter(n) = say[n] /\ wallAfter(n) = wall[n]
  BY DEF Reached, sayAfter, wallAfter
<1>4. CountersInv'
  <2>1. say' \in Counts /\ wall' \in Counts
    BY <1>1, <1>2 DEF Counts
  <2>2. ASSUME NEW n \in Names
        PROVE  say'[n] <= MAX_SAY_COUNTER /\ wall'[n] <= MAX_WALL_COUNTER
    BY <1>1, <1>2 DEF SpamInv, CountersInv, Counts
  <2>3. ASSUME NEW n \in Names, n \notin tracked'
        PROVE  say'[n] = 0 /\ wall'[n] = 0
    BY <1>2, <1>3, <2>3 DEF SpamInv, CountersInv
  <2>4. QED
    BY <2>1, <2>2, <2>3 DEF CountersInv
<1>5. AccountsInv'
  BY <1>1, <1>2 DEF SpamInv, AccountsInv, Counts
<1>6. CountersCover'
  BY <1>1, <1>2 DEF CountersCover
<1>7. QED
  BY <1>4, <1>5, <1>6 DEF SpamInv

LEMMA StepSpam == SpamInv /\ [SpamNext]_spamVars => SpamInv'
<1> SUFFICES ASSUME SpamInv, [SpamNext]_spamVars PROVE SpamInv'
  OBVIOUS
<1>1. ASSUME UNCHANGED <<tracked, say, wall, said, walled, sayDue, wallDue>>
      PROVE  SpamInv'
  BY <1>1 DEF SpamInv, CountersInv, AccountsInv, CountersCover
<1>2. CASE UNCHANGED spamVars
  BY <1>1, <1>2 DEF spamVars
<1>3. ASSUME NEW n \in Names, NWCAuth(n) \/ Leave(n)
      PROVE  SpamInv'
  BY <1>1, <1>3 DEF NWCAuth, Leave, heard
<1>4. ASSUME NEW n \in Names, NWCSay(n) \/ NWCWall(n)
      PROVE  SpamInv'
  BY <1>4, SaySpam, WallSpam
<1>5. CASE UpdateEvent
  <2>1. CASE SpamTick
    BY <1>5, <2>1, TickSpam DEF UpdateEvent
  <2>2. CASE ~ SpamTick
    BY <1>1, <1>5, <2>2 DEF UpdateEvent
  <2>3. QED
    BY <2>1, <2>2
<1>6. QED
  BY <1>2, <1>3, <1>4, <1>5 DEF SpamNext

\* A counter is always at least what was heard beyond what ticks gave back:
\* trackers outlive sessions and are never lowered for whoever is away.
THEOREM CountersAreCovered == SpamSpec => []CountersCover
<1>1. SpamInv => CountersCover
  BY DEF SpamInv
<1>2. QED
  BY <1>1, InitSpam, StepSpam, PTL DEF SpamSpec

\* Nobody is heard more often than the limit and the ticks spent in the world
\* allow, whatever sequence of logins and logouts (networkcommands.cpp:1579).
THEOREM RatesAreLimited == SpamSpec => []RateLimited
<1>1. SpamInv => RateLimited
  <2> SUFFICES ASSUME SpamInv, NEW n \in Names
               PROVE  /\ said[n] <= MAX_SAY_COUNTER + sayDue[n]
                      /\ walled[n] <= MAX_WALL_COUNTER + wallDue[n]
    BY DEF RateLimited
  <2>1. /\ said[n] \in Nat /\ walled[n] \in Nat /\ sayDue[n] \in Nat /\ wallDue[n] \in Nat
        /\ say[n] \in Nat /\ wall[n] \in Nat
    BY DEF SpamInv, CountersInv, AccountsInv, Counts
  <2>2. /\ said[n] <= say[n] + sayDue[n] /\ walled[n] <= wall[n] + wallDue[n]
        /\ say[n] <= MAX_SAY_COUNTER /\ wall[n] <= MAX_WALL_COUNTER
    BY DEF SpamInv, CountersInv, CountersCover
  <2>3. QED
    BY <2>1, <2>2, SpamAssumption
<1>2. QED
  BY <1>1, InitSpam, StepSpam, PTL DEF SpamSpec

-----------------------------------------------------------------------------
(* The scheduled reboot *)

\* The time that the notices from stage k on can take, one per call.
Needed(k) == MaxGap * (Stages - k)

\* The inductive invariant: while a notice is missing there is time for all
\* that are.
TimeLeft ==
  /\ left \in Nat /\ state \in 0 .. Stages
  /\ state < Stages => running /\ left > Needed(state)

-----------------------------------------------------------------------------

\* One stage more needs one gap less.
LEMMA NeededSteps ==
  ASSUME NEW k \in 0 .. Stages - 1
  PROVE  Needed(k + 1) \in Nat /\ Needed(k) = Needed(k + 1) + MaxGap
<1>1. Stages \in Nat /\ MaxGap \in Nat
  BY RebootAssumption DEF Stages
<1>2. PICK m \in Nat : m = Stages - (k + 1)
  BY <1>1
<1>3. Stages - k = m + 1
  BY <1>1, <1>2
<1>4. MaxGap * m \in Nat /\ MaxGap * (m + 1) = MaxGap * m + MaxGap
  BY <1>1
<1>5. QED
  BY <1>2, <1>3, <1>4 DEF Needed

\* What main accepts leaves time for all the notices.
LEMMA InitTime == RebootInit => TimeLeft
<1> SUFFICES ASSUME RebootInit PROVE TimeLeft
  OBVIOUS
<1>1. PICK seconds \in Delays : left = Accepted(seconds) /\ state = 0 /\ running = TRUE
  BY DEF RebootInit
<1>2. left \in Nat /\ left >= MinDelay
  BY <1>1, RebootAssumption DEF Accepted
<1>3. Stages \in Nat /\ MaxGap * Stages \in Nat
  BY RebootAssumption DEF Stages
<1>4. Needed(0) = MaxGap * Stages /\ Needed(0) < MinDelay
  BY <1>3, GapAssumption DEF Needed
<1>5. QED
  BY <1>1, <1>2, <1>3, <1>4, RebootAssumption DEF TimeLeft

\* A call gives the next notice or is before its time, and time stays for the rest.
LEMMA CallTime ==
  ASSUME TimeLeft, NEW gap \in 0 .. MaxGap, UpdateCheckReboot(gap)
  PROVE  TimeLeft'
<1> DEFINE now == IF gap < left THEN left - gap ELSE 0
<1>1. Stages \in Nat /\ MaxGap \in Nat /\ gap \in Nat /\ gap <= MaxGap
  BY RebootAssumption DEF Stages
<1>2. left \in Nat /\ state \in 0 .. Stages /\ now \in Nat
  BY <1>1 DEF TimeLeft
<1>3. left' = now /\ running' = (now > 0)
  BY DEF UpdateCheckReboot
<1>4. state' = IF now > 0 /\ Due(now) THEN state + 1 ELSE state
  BY DEF UpdateCheckReboot
<1>5. CASE state = Stages
  BY <1>1, <1>2, <1>3, <1>4, <1>5 DEF TimeLeft, Due
<1>6. CASE state < Stages
  <2>1. left > Needed(state)
    BY <1>6 DEF TimeLeft
  <2>2. Needed(state + 1) \in Nat /\ Needed(state) = Needed(state + 1) + MaxGap
    BY <1>1, <1>2, <1>6, NeededSteps
  <2>3. now > Needed(state + 1)
    BY <1>1, <1>2, <2>1, <2>2
  <2>4. running'
    <3>1. now > 0
      BY <1>2, <2>2, <2>3
    <3>2. QED
      BY <1>3, <3>1, Zenon
  <2>5. CASE Due(now)
    <3>1. state' = state + 1
      BY <1>2, <1>4, <2>2, <2>3, <2>5
    <3>2. QED
      BY <1>1, <1>2, <1>3, <1>6, <2>3, <2>4, <3>1 DEF TimeLeft, Needed, Stages
  <2>6. CASE ~ Due(now)
    <3>1. state' = state
      BY <1>4, <2>6
    <3>2. Notice[state + 1] \in Nat /\ Needed(state) <= Notice[state + 1]
      <4>1. state + 1 \in 1 .. Stages /\ Stages - (state + 1) + 1 = Stages - state
        BY <1>1, <1>2, <1>6
      <4>2. MaxGap * (Stages - (state + 1) + 1) <= Notice[state + 1]
        BY <4>1, GapAssumption
      <4>3. Notice[state + 1] \in Nat
        BY <4>1, RebootAssumption DEF Stages
      <4>4. QED
        BY <4>1, <4>2, <4>3 DEF Needed
    <3>3. now > Needed(state)
      BY <1>1, <1>2, <1>6, <2>2, <2>6, <3>2 DEF Due
    <3>4. QED
      BY <1>1, <1>2, <1>3, <2>4, <3>1, <3>3 DEF TimeLeft, Needed, Stages
  <2>7. QED
    BY <2>5, <2>6
<1>7. QED
  BY <1>1, <1>2, <1>5, <1>6

\* No user sees the server exit without the last notice, whatever the delay and
\* however the calls are delayed within the gap (world.cpp:199, main.cpp).
THEOREM NoticesPrecedeExit == RebootSpec => []AllNoticesGiven
<1>1. TimeLeft /\ [RebootNext]_rebootVars => TimeLeft'
  <2>1. ASSUME TimeLeft, UNCHANGED rebootVars PROVE TimeLeft'
    BY <2>1 DEF TimeLeft, Needed, Stages, rebootVars
  <2>2. QED
    BY <2>1, CallTime DEF RebootNext, Down
<1>2. TimeLeft => AllNoticesGiven
  <2>1. Stages \in Nat
    BY RebootAssumption DEF Stages
  <2>2. QED
    BY <2>1 DEF TimeLeft, AllNoticesGiven
<1>3. QED
  BY InitTime, <1>1, <1>2, PTL DEF RebootSpec

-----------------------------------------------------------------------------
(* The programs of a zone *)

\* The inductive invariant: an object with a room has been made, so a new one has none.
SpawnInv == NPCTypeOK /\ PopulationBounded

\* Sets of programs are finite, and smaller ones count less.
LEMMA Counted ==
  ASSUME NEW A \in SUBSET NPCs, NEW B \in SUBSET A
  PROVE  /\ IsFiniteSet(A) /\ IsFiniteSet(B)
         /\ Cardinality(A) \in Nat /\ Cardinality(B) \in Nat
         /\ Cardinality(B) <= Cardinality(A)
<1>1. IsFiniteSet(A)
  BY SpawnAssumption, FS_Subset
<1>2. QED
  BY <1>1, FS_Subset, FS_CardinalityType

\* The programs of a zone are programs.
LEMMA ZoneTyped ==
  ASSUME NEW zone, NEW vnum
  PROVE  InZone(zone, vnum) \in SUBSET NPCs /\ InZone(zone, vnum)' \in SUBSET NPCs
BY DEF InZone, Alive

LEMMA InitSpawn == NPCInit => SpawnInv
<1> SUFFICES ASSUME NPCInit PROVE SpawnInv
  OBVIOUS
<1>1. NPCTypeOK
  BY DEF NPCInit, NPCTypeOK
<1>2. ASSUME NEW e \in Table PROVE Cardinality(InZone(e.zone, e.vnum)) <= e.count
  <2>1. InZone(e.zone, e.vnum) = {}
    BY DEF NPCInit, InZone, Alive
  <2>2. QED
    BY <2>1, FS_EmptySet, SpawnAssumption
<1>3. QED
  BY <1>1, <1>2 DEF SpawnInv, PopulationBounded

\* An action after which no zone has a program that it did not have.
LEMMA NoneArrives ==
  ASSUME SpawnInv, \A zone, vnum : InZone(zone, vnum)' \subseteq InZone(zone, vnum)
  PROVE  PopulationBounded'
<1> SUFFICES ASSUME NEW e \in Table PROVE Cardinality(InZone(e.zone, e.vnum)') <= e.count
  BY DEF PopulationBounded
<1>1. Cardinality(InZone(e.zone, e.vnum)) <= e.count
  BY DEF SpawnInv, PopulationBounded
<1>2. InZone(e.zone, e.vnum) \in SUBSET NPCs
  BY ZoneTyped
<1>3. /\ Cardinality(InZone(e.zone, e.vnum)') <= Cardinality(InZone(e.zone, e.vnum))
      /\ Cardinality(InZone(e.zone, e.vnum)) \in Nat /\ Cardinality(InZone(e.zone, e.vnum)') \in Nat
  BY <1>2, Counted
<1>4. e.count \in Nat
  BY SpawnAssumption
<1>5. QED
  BY <1>1, <1>3, <1>4

LEMMA RoamSpawn ==
  ASSUME SpawnInv, NEW n \in NPCs, NEW to \in Rooms, Roam(n, to)
  PROVE  SpawnInv'
<1>1. NPCTypeOK'
  BY DEF SpawnInv, NPCTypeOK, Roam, Alive
<1>2. ASSUME NEW zone, NEW vnum PROVE InZone(zone, vnum)' \subseteq InZone(zone, vnum)
  <2> SUFFICES ASSUME NEW m \in InZone(zone, vnum)' PROVE m \in InZone(zone, vnum)
    OBVIOUS
  <2>1. m \in NPCs /\ room'[m] # NoRoom /\ Zone[room'[m]] = zone /\ kind[m] = vnum
    BY DEF InZone, Alive, Roam
  <2>2. CASE m = n
    BY <2>1, <2>2 DEF Roam, InZone, Alive, SpawnInv, NPCTypeOK
  <2>3. CASE m # n
    BY <2>1, <2>3 DEF Roam, InZone, Alive, SpawnInv, NPCTypeOK
  <2>4. QED
    BY <2>2, <2>3
<1>3. QED
  BY <1>1, <1>2, NoneArrives DEF SpawnInv

LEMMA KillSpawn ==
  ASSUME SpawnInv, NEW n \in NPCs, Kill(n)
  PROVE  SpawnInv'
<1>1. NPCTypeOK'
  BY DEF SpawnInv, NPCTypeOK, Kill, Alive
<1>2. ASSUME NEW zone, NEW vnum PROVE InZone(zone, vnum)' \subseteq InZone(zone, vnum)
  BY DEF Kill, InZone, Alive, SpawnInv, NPCTypeOK
<1>3. QED
  BY <1>1, <1>2, NoneArrives DEF SpawnInv

\* What one call makes fills each entry up to its count and no further.
LEMMA UpdateSpawn ==
  ASSUME SpawnInv, UpdateNPCSpawn
  PROVE  SpawnInv'
<1>1. PICK new \in SUBSET (NPCs \ made) : \E in \in [new -> Rooms] :
        /\ \A e \in Served : Cardinality(For(e, new, in)) = Missing(e)
        /\ new = UNION {For(e, new, in) : e \in Served}
        /\ made' = made \cup new
        /\ room' = [n \in NPCs |-> IF n \in new THEN in[n] ELSE room[n]]
        /\ UNCHANGED kind
  BY DEF UpdateNPCSpawn
<1>2. PICK in \in [new -> Rooms] :
        /\ \A e \in Served : Cardinality(For(e, new, in)) = Missing(e)
        /\ made' = made \cup new
        /\ room' = [n \in NPCs |-> IF n \in new THEN in[n] ELSE room[n]]
        /\ UNCHANGED kind
  BY <1>1
<1>3. NPCTypeOK'
  BY <1>2 DEF SpawnInv, NPCTypeOK
<1>4. ASSUME NEW e \in Table PROVE Cardinality(InZone(e.zone, e.vnum)') <= e.count
  <2> DEFINE old == InZone(e.zone, e.vnum)
             more == For(e, new, in)
  <2>1. e.count \in Nat
    BY SpawnAssumption
  <2>2. CASE e \in Served
    <3>1. old' = old \cup more
      BY <1>2, SpawnAssumption DEF InZone, Alive, For, SpawnInv, NPCTypeOK
    <3>2. old \cap more = {}
      BY <1>2 DEF InZone, Alive, For, SpawnInv, NPCTypeOK
    <3>3. old \in SUBSET NPCs /\ more \in SUBSET NPCs
      BY ZoneTyped DEF For
    <3>4. /\ IsFiniteSet(old) /\ IsFiniteSet(more)
          /\ Cardinality(old) \in Nat /\ Cardinality(more) \in Nat
      BY <3>3, Counted
    <3>5. Cardinality(old') = Cardinality(old) + Cardinality(more)
      <4>1. Cardinality(old \cup more) = Cardinality(old) + Cardinality(more) - Cardinality(old \cap more)
        BY <3>4, FS_Union
      <4>2. Cardinality(old \cap more) = 0
        BY <3>2, FS_EmptySet
      <4>3. Cardinality(old') = Cardinality(old \cup more)
        BY <3>1
      <4>4. QED
        BY <3>4, <4>1, <4>2, <4>3
    <3>6. Cardinality(more) = IF Cardinality(old) < e.count THEN e.count - Cardinality(old) ELSE 0
      BY <1>2, <2>2 DEF Missing
    <3>7. Cardinality(old) <= e.count
      BY DEF SpawnInv, PopulationBounded
    <3>8. QED
      BY <2>1, <3>4, <3>5, <3>6, <3>7
  <2>3. CASE e \notin Served
    <3>1. old' = {}
      <4> SUFFICES ASSUME NEW n \in old' PROVE FALSE
        OBVIOUS
      <4>1. room'[n] \in Rooms /\ Zone[room'[n]] = e.zone
        BY <1>3 DEF InZone, Alive, NPCTypeOK
      <4>2. QED
        BY <2>3, <4>1 DEF Served
    <3>2. QED
      BY <2>1, <3>1, FS_EmptySet
  <2>4. QED
    BY <2>2, <2>3
<1>5. QED
  BY <1>3, <1>4 DEF SpawnInv, PopulationBounded

\* No zone ever has more programs of a kind than the table says, whatever the map,
\* the table and the programs that roam and die (world.cpp:325, npc.cpp).
THEOREM PopulationStaysBounded == NPCSpec => []PopulationBounded
<1>1. SpawnInv /\ [NPCNext]_npcVars => SpawnInv'
  <2>1. ASSUME SpawnInv, UNCHANGED npcVars PROVE SpawnInv'
    BY <2>1 DEF SpawnInv, NPCTypeOK, PopulationBounded, InZone, Alive, npcVars
  <2>2. QED
    BY <2>1, UpdateSpawn, KillSpawn, RoamSpawn DEF NPCNext
<1>2. SpawnInv => PopulationBounded
  BY DEF SpawnInv
<1>3. QED
  BY InitSpawn, <1>1, <1>2, PTL DEF NPCSpec

===============================================================================
