---- MODULE DiscoveryProofs ----
(***************************************************************************)
(* Proofs about module Discovery, for any number of programs, any          *)
(* announcements and queues and lobbies of any size.                       *)
(***************************************************************************)
EXTENDS Discovery, FiniteSetTheorems, TLAPS

-----------------------------------------------------------------------------
(* The inductive invariant *)

\* A program that is to be removed from the lobby needs something on its way
\* as much as one that is not listed.
Delivered ==
  \A p \in Program :
    HeardOf(p) /\ (p \notin lobby \/ Contains(removals, p)) => OnItsWay(p) \/ p \in lost

\* What is on its way to the lobby is there, or its removal went unseen.
Vouched == \A p \in Program : OnItsWay(p) => HeardOf(p) \/ p \in unsure

IInv == TypeOK /\ IsFiniteSet(lobby) /\ Delivered /\ Vouched /\ GhostsExplained

-----------------------------------------------------------------------------
(* Lemmas on sequences and on the operators *)

\* Membership in a queue that grows at its end.
LEMMA AppendContains ==
  ASSUME NEW S, NEW s \in Seq(S), NEW x \in S
  PROVE  /\ Append(s, x) \in Seq(S)
         /\ Len(Append(s, x)) = Len(s) + 1
         /\ \A y : Contains(Append(s, x), y) <=> Contains(s, y) \/ y = x
<1>1. Append(s, x) \in Seq(S) /\ Len(Append(s, x)) = Len(s) + 1 /\ Len(s) \in Nat
  OBVIOUS
<1>2. \A i \in 1 .. Len(s) : Append(s, x)[i] = s[i]
  OBVIOUS
<1>3. Append(s, x)[Len(s) + 1] = x
  OBVIOUS
<1>4. ASSUME NEW y
      PROVE  Contains(Append(s, x), y) <=> Contains(s, y) \/ y = x
  <2>1. ASSUME Contains(Append(s, x), y)
        PROVE  Contains(s, y) \/ y = x
    <3>1. PICK i \in 1 .. Len(s) + 1 : Append(s, x)[i] = y
      BY <1>1, <2>1 DEF Contains
    <3>2. i \in 1 .. Len(s) \/ i = Len(s) + 1
      BY <1>1, <3>1
    <3> QED
      BY <1>2, <1>3, <3>1, <3>2 DEF Contains
  <2>2. ASSUME Contains(s, y) \/ y = x
        PROVE  Contains(Append(s, x), y)
    <3>1. CASE y = x
      BY <1>1, <1>3, <3>1 DEF Contains
    <3>2. CASE Contains(s, y)
      BY <1>1, <1>2, <3>2 DEF Contains
    <3> QED
      BY <2>2, <3>1, <3>2
  <2> QED
    BY <2>1, <2>2
<1> QED
  BY <1>1, <1>4

\* A queue without repetitions stays so when something new is added.
LEMMA AppendInjective1 ==
  ASSUME NEW S, NEW s \in Seq(S), NEW x \in S, IsInjective(s), ~Contains(s, x)
  PROVE  IsInjective(Append(s, x))
<1>1. DOMAIN Append(s, x) = 1 .. Len(s) + 1 /\ DOMAIN s = 1 .. Len(s) /\ Len(s) \in Nat
  OBVIOUS
<1>2. \A i \in 1 .. Len(s) : Append(s, x)[i] = s[i] /\ s[i] # x
  BY DEF Contains
<1>3. Append(s, x)[Len(s) + 1] = x
  OBVIOUS
<1>4. \A i \in 1 .. Len(s) + 1 : i \in 1 .. Len(s) \/ i = Len(s) + 1
  BY <1>1
<1> QED
  BY <1>1, <1>2, <1>3, <1>4 DEF IsInjective

\* Cutting a queue in three: what is before place k, there, and after it.
LEMMA Cut ==
  ASSUME NEW S, NEW s \in Seq(S), NEW k \in 1 .. Len(s)
  PROVE  /\ SubSeq(s, k + 1, Len(s)) \in Seq(S)
         /\ Len(SubSeq(s, k + 1, Len(s))) <= Len(s)
         /\ IsInjective(s) => IsInjective(SubSeq(s, k + 1, Len(s)))
         /\ \A y : Contains(SubSeq(s, k + 1, Len(s)), y) => Contains(s, y)
         /\ \A y : Contains(s, y) => \/ y \in ToSet(SubSeq(s, 1, k - 1))
                                     \/ y = s[k]
                                     \/ Contains(SubSeq(s, k + 1, Len(s)), y)
<1> DEFINE r == SubSeq(s, k + 1, Len(s))
           l == SubSeq(s, 1, k - 1)
<1>1. Len(s) \in Nat /\ k \in Nat /\ k >= 1 /\ k <= Len(s)
  OBVIOUS
<1>2. r \in Seq(S) /\ Len(r) = Len(s) - k /\ DOMAIN r = 1 .. Len(s) - k
  BY <1>1
<1>3. \A i \in 1 .. Len(s) - k : r[i] = s[k + i]
  BY <1>1
<1>4. DOMAIN l = 1 .. k - 1 /\ \A i \in 1 .. k - 1 : l[i] = s[i]
  BY <1>1
<1>5. ASSUME IsInjective(s)
      PROVE  IsInjective(r)
  <2>1. \A i \in 1 .. Len(s) - k : k + i \in 1 .. Len(s)
    BY <1>1
  <2>2. DOMAIN s = 1 .. Len(s)
    OBVIOUS
  <2>3. ASSUME NEW i \in 1 .. Len(s) - k, NEW j \in 1 .. Len(s) - k, r[i] = r[j]
        PROVE  i = j
    <3>1. s[k + i] = s[k + j]
      BY <1>3, <2>3
    <3>2. k + i = k + j
      BY <1>5, <2>1, <2>2, <3>1 DEF IsInjective
    <3> QED
      BY <1>1, <3>2
  <2> QED
    BY <1>2, <2>3 DEF IsInjective
<1>6. ASSUME NEW y, Contains(r, y)
      PROVE  Contains(s, y)
  <2>1. PICK i \in 1 .. Len(s) - k : r[i] = y
    BY <1>2, <1>6 DEF Contains
  <2>2. k + i \in 1 .. Len(s) /\ s[k + i] = y
    BY <1>1, <1>3, <2>1
  <2> QED
    BY <2>2 DEF Contains
<1>7. ASSUME NEW y, Contains(s, y)
      PROVE  y \in ToSet(l) \/ y = s[k] \/ Contains(r, y)
  <2>1. PICK i \in 1 .. Len(s) : s[i] = y
    BY <1>7 DEF Contains
  <2>2. CASE i < k
    <3>1. i \in 1 .. k - 1
      BY <1>1, <2>1, <2>2
    <3> QED
      BY <1>4, <2>1, <3>1 DEF ToSet
  <2>3. CASE i > k
    <3>1. i - k \in 1 .. Len(s) - k /\ k + (i - k) = i
      BY <1>1, <2>1, <2>3
    <3>2. r[i - k] = y
      BY <1>3, <2>1, <3>1
    <3> QED
      BY <1>2, <3>1, <3>2 DEF Contains
  <2> QED
    BY <1>1, <2>1, <2>2, <2>3
<1> QED
  BY <1>1, <1>2, <1>5, <1>6, <1>7

\* All of a queue, as a set.
LEMMA ContainsToSet ==
  ASSUME NEW S, NEW s \in Seq(S)
  PROVE  /\ \A y : y \in ToSet(s) <=> Contains(s, y)
         /\ SubSeq(s, 1, (Len(s) + 1) - 1) = s
         /\ \A y : Contains(s, y) => y \in S
<1>1. DOMAIN s = 1 .. Len(s) /\ Len(s) \in Nat
  OBVIOUS
<1>2. (Len(s) + 1) - 1 = Len(s)
  BY <1>1
<1>3. SubSeq(s, 1, Len(s)) = s
  OBVIOUS
<1>4. \A y : y \in ToSet(s) <=> Contains(s, y)
  BY <1>1 DEF ToSet, Contains
<1>5. \A i \in 1 .. Len(s) : s[i] \in S
  OBVIOUS
<1>6. \A y : Contains(s, y) => y \in S
  BY <1>5 DEF Contains
<1> QED
  BY <1>2, <1>3, <1>4, <1>6

\* What is left of the lobby, and who is added: all that matters of Listed is
\* that the removed are gone, the others stay, and that only a full lobby turns
\* an answer away.
LEMMA ListedEffect ==
  ASSUME TypeOK, IsFiniteSet(lobby),
         NEW found, found = {} \/ \E x \in Program : found = {x}
  PROVE  /\ Listed(found) \subseteq Program /\ IsFiniteSet(Listed(found))
         /\ Cardinality(Listed(found)) <= MaxListed
         /\ \A q \in lobby : ~Contains(removals, q) => q \in Listed(found)
         /\ \A q \in Listed(found) : (q \in lobby /\ ~Contains(removals, q)) \/ q \in found
         /\ found \subseteq Listed(found) \/ Cardinality(Listed(found)) = MaxListed
<1> DEFINE stay == lobby \ ToSet(removals)
<1>1. stay \in SUBSET lobby /\ lobby \subseteq Program /\ Cardinality(lobby) <= MaxListed
  BY DEF TypeOK
<1>2. IsFiniteSet(stay) /\ Cardinality(stay) <= Cardinality(lobby)
  BY <1>1, FS_Subset
<1>3. Cardinality(stay) \in Nat /\ Cardinality(lobby) \in Nat /\ MaxListed \in Nat
  BY <1>2, FS_CardinalityType, DiscoveryAssumption
<1>4. Cardinality(stay) <= MaxListed
  BY <1>1, <1>2, <1>3
<1>5. \A q : q \in stay <=> q \in lobby /\ ~Contains(removals, q)
  <2>1. removals \in Seq(Program)
    BY DEF TypeOK
  <2> QED
    BY <2>1, ContainsToSet
<1>6. CASE found = {}
  <2>1. Listed(found) = stay
    BY <1>6 DEF Listed
  <2> QED
    BY <1>1, <1>2, <1>4, <1>5, <1>6, <2>1
<1>7. CASE \E x \in Program : found = {x}
  <2>1. PICK x \in Program : found = {x}
    BY <1>7
  <2>2. /\ IsFiniteSet(stay \cup {x})
        /\ Cardinality(stay \cup {x}) = IF x \in stay THEN Cardinality(stay)
                                        ELSE Cardinality(stay) + 1
    BY <1>2, FS_AddElement
  <2>3. CASE Cardinality(stay \cup found) <= MaxListed
    <3>1. Listed(found) = stay \cup {x}
      BY <2>1, <2>3 DEF Listed
    <3>2. Listed(found) \subseteq Program /\ IsFiniteSet(Listed(found))
      BY <1>1, <2>2, <3>1
    <3>3. Cardinality(Listed(found)) <= MaxListed
      BY <2>1, <2>3, <3>1
    <3> QED
      BY <1>5, <2>1, <3>1, <3>2, <3>3
  <2>4. CASE ~(Cardinality(stay \cup found) <= MaxListed)
    <3>1. Listed(found) = stay
      BY <2>4 DEF Listed
    <3>2. ~(Cardinality(stay \cup {x}) <= MaxListed)
      BY <2>1, <2>4
    <3>3. Cardinality(stay) = MaxListed
      BY <1>3, <1>4, <2>2, <3>2
    <3> QED
      BY <1>1, <1>2, <1>4, <1>5, <3>1, <3>3
  <2> QED
    BY <2>3, <2>4
<1> QED
  BY <1>6, <1>7

\* Starting the next resolve loses nobody but those it records.
LEMMA StartNextEffect ==
  ASSUME TypeOK, NEW dropped \in SUBSET Program, StartNext(dropped)
  PROVE  /\ ready' = None
         /\ queue' \in Seq(Program) /\ Len(queue') <= MaxQueue /\ IsInjective(queue')
         /\ resolving' \in Program \cup {None}
         /\ resolvers' \in [Program -> Nat]
         /\ lost' \subseteq Program /\ lost \subseteq lost' /\ dropped \subseteq lost'
         /\ \A q : InQueue(q) => Contains(queue', q) \/ resolving' = q \/ q \in lost'
         /\ \A q : Contains(queue', q) => InQueue(q)
         /\ \A q \in Program : resolving' = q => InQueue(q)
         /\ \A q \in Program : resolvers[q] > 0 => resolvers'[q] > 0
         /\ \A q \in Program : resolvers'[q] > 0 => resolvers[q] > 0 \/ InQueue(q)
<1> USE DEF InQueue
<1>1. /\ queue \in Seq(Program) /\ Len(queue) <= MaxQueue /\ IsInjective(queue)
      /\ resolvers \in [Program -> Nat] /\ lost \subseteq Program
      /\ Len(queue) \in Nat /\ MaxQueue \in Nat
  BY DiscoveryAssumption DEF TypeOK
<1>2. PICK k \in 1 .. Len(queue) + 1 :
         /\ lost' = (lost \cup ToSet(SubSeq(queue, 1, k - 1))) \cup dropped
         /\ IF k > Len(queue)
            THEN queue' = <<>> /\ resolving' = None /\ UNCHANGED resolvers
            ELSE /\ queue' = SubSeq(queue, k + 1, Len(queue))
                 /\ resolving' = queue[k]
                 /\ resolvers' = [resolvers EXCEPT ![queue[k]] = @ + 1]
  BY DEF StartNext
<1>3. ready' = None
  BY DEF StartNext
<1>4. CASE k > Len(queue)
  <2>1. k = Len(queue) + 1
    BY <1>1, <1>2, <1>4
  <2>2. lost' = (lost \cup ToSet(queue)) \cup dropped
    BY <1>1, <1>2, <2>1, ContainsToSet
  <2>3. queue' = <<>> /\ resolving' = None /\ resolvers' = resolvers
    BY <1>2, <1>4
  <2>4. /\ \A y : y \in ToSet(queue) <=> Contains(queue, y)
        /\ \A y : Contains(queue, y) => y \in Program
    BY <1>1, ContainsToSet
  <2>5. /\ queue' \in Seq(Program) /\ Len(queue') <= MaxQueue /\ IsInjective(queue')
        /\ \A q : ~Contains(queue', q)
    BY <1>1, <2>3 DEF IsInjective, Contains
  <2>6. None \notin Program
    BY DiscoveryAssumption
  <2> QED
    BY <1>1, <1>3, <2>2, <2>3, <2>4, <2>5, <2>6
<1>5. CASE ~(k > Len(queue))
  <2>1. k \in 1 .. Len(queue)
    BY <1>1, <1>2, <1>5
  <2>2. /\ queue' = SubSeq(queue, k + 1, Len(queue))
        /\ resolving' = queue[k]
        /\ resolvers' = [resolvers EXCEPT ![queue[k]] = @ + 1]
    BY <1>2, <1>5
  <2>3. /\ queue' \in Seq(Program) /\ Len(queue') <= Len(queue) /\ IsInjective(queue')
        /\ \A y : Contains(queue', y) => Contains(queue, y)
        /\ \A y : Contains(queue, y) =>
             \/ y \in ToSet(SubSeq(queue, 1, k - 1)) \/ y = queue[k] \/ Contains(queue', y)
    BY <1>1, <2>1, <2>2, Cut
  <2>4. Len(queue') \in Nat
    BY <2>3
  <2>5. Len(queue') <= MaxQueue
    BY <1>1, <2>3, <2>4
  <2>6. queue[k] \in Program /\ Contains(queue, queue[k])
    BY <1>1, <2>1 DEF Contains
  <2>7. /\ resolvers' \in [Program -> Nat]
        /\ \A q \in Program : q # queue[k] => resolvers'[q] = resolvers[q]
        /\ resolvers'[queue[k]] > 0
    BY <1>1, <2>2, <2>6
  <2>8. ToSet(SubSeq(queue, 1, k - 1)) \subseteq Program
    <3>1. SubSeq(queue, 1, k - 1) \in Seq(Program)
      BY <1>1, <2>1
    <3> QED
      BY <3>1, ContainsToSet
  <2> QED
    BY <1>1, <1>2, <1>3, <2>2, <2>3, <2>5, <2>6, <2>7, <2>8
<1> QED
  BY <1>4, <1>5

-----------------------------------------------------------------------------
(* One lemma per action that moves a program along *)

\* The announcements name programs.
LEMMA AnnouncementNames == \A r \in Announcement : r[1] \in Program
BY DiscoveryAssumption

\* A service is reported: whatever becomes of it is on its way or recorded.
LEMMA ServiceNewInv ==
  ASSUME IInv, NEW r \in Announcement, ServiceNew(r)
  PROVE  IInv'
<1> USE DEF InQueue
<1> DEFINE p == r[1]
<1>1. p \in Program /\ None \notin Program /\ MaxQueue \in Nat
  BY DiscoveryAssumption
<1>2. TypeOK /\ IsFiniteSet(lobby) /\ Delivered /\ Vouched /\ GhostsExplained
  BY DEF IInv
<1>3. /\ heard' = heard \cup {r} /\ unsure' = unsure \ {p}
      /\ UNCHANGED <<advertised, removals, lobby, started, changes>>
      /\ \/ /\ resolving = p \/ InQueue(p)
            /\ lost' = lost \ {p} /\ UNCHANGED pipeline
         \/ /\ resolving # p /\ ~InQueue(p) /\ Len(queue) < MaxQueue
            /\ queue' = Append(queue, p) /\ lost' = lost \ {p}
            /\ UNCHANGED <<resolving, resolvers, ready>>
         \/ lost' = lost \cup {p} /\ UNCHANGED pipeline
         \/ Free /\ ResolveNow(p) /\ UNCHANGED queue
  BY DEF ServiceNew
<1>4. \A q : HeardOf(q)' <=> HeardOf(q) \/ q = p
  BY <1>3 DEF HeardOf
<1>5. /\ queue \in Seq(Program) /\ Len(queue) \in Nat /\ Len(queue) <= MaxQueue
      /\ IsInjective(queue) /\ resolvers \in [Program -> Nat]
  BY <1>2 DEF TypeOK
<1> DEFINE Moved == /\ queue' \in Seq(Program) /\ Len(queue') <= MaxQueue
                    /\ IsInjective(queue')
                    /\ resolving' \in Program \cup {None}
                    /\ ready' \in Program \cup {None}
                    /\ resolvers' \in [Program -> Nat] /\ lost' \subseteq Program
                    /\ \A q \in Program \ {p} : /\ OnItsWay(q)' <=> OnItsWay(q)
                                                /\ q \in lost' <=> q \in lost
                    /\ OnItsWay(p)' \/ p \in lost'
<1>6. Moved
  <2>1. CASE (resolving = p \/ InQueue(p)) /\ lost' = lost \ {p} /\ UNCHANGED pipeline
    BY <1>1, <1>2, <1>5, <2>1 DEF TypeOK, OnItsWay, pipeline
  <2>2. CASE /\ resolving # p /\ ~InQueue(p) /\ Len(queue) < MaxQueue
             /\ queue' = Append(queue, p) /\ lost' = lost \ {p}
             /\ UNCHANGED <<resolving, resolvers, ready>>
    <3>1. /\ queue' \in Seq(Program) /\ Len(queue') = Len(queue) + 1
          /\ \A y : Contains(queue', y) <=> Contains(queue, y) \/ y = p
      BY <1>1, <1>5, <2>2, AppendContains
    <3>2. IsInjective(queue')
      BY <1>1, <1>5, <2>2, AppendInjective1
    <3> QED
      BY <1>1, <1>2, <1>5, <2>2, <3>1, <3>2 DEF TypeOK, OnItsWay
  <2>3. CASE lost' = lost \cup {p} /\ UNCHANGED pipeline
    BY <1>1, <1>2, <1>5, <2>3 DEF TypeOK, OnItsWay, pipeline
  <2>4. CASE Free /\ ResolveNow(p) /\ UNCHANGED queue
    <3>1. ready = None /\ resolving = None /\ ready' = None /\ queue' = queue
      BY <2>4 DEF Free, ResolveNow
    <3>2. CASE /\ resolving' = p /\ resolvers' = [resolvers EXCEPT ![p] = @ + 1]
               /\ lost' = lost \ {p}
      <4>1. /\ resolvers' \in [Program -> Nat]
            /\ \A q \in Program \ {p} : resolvers'[q] = resolvers[q]
        BY <1>1, <1>5, <3>2
      <4> QED
        BY <1>1, <1>2, <1>5, <3>1, <3>2, <4>1 DEF TypeOK, OnItsWay
    <3>3. CASE lost' = lost \cup {p} /\ UNCHANGED <<resolving, resolvers>>
      BY <1>1, <1>2, <1>5, <3>1, <3>3 DEF TypeOK, OnItsWay
    <3> QED
      BY <2>4, <3>2, <3>3 DEF ResolveNow
  <2> QED
    BY <1>3, <2>1, <2>2, <2>3, <2>4
<1>7. TypeOK' /\ IsFiniteSet(lobby)'
  BY <1>2, <1>3, <1>6 DEF TypeOK
<1>8. Delivered' /\ Vouched' /\ GhostsExplained'
  BY <1>2, <1>3, <1>4, <1>6 DEF Delivered, Vouched, GhostsExplained
<1> QED
  BY <1>7, <1>8 DEF IInv

\* A service is removed on one interface.
LEMMA ServiceRemovedInv ==
  ASSUME IInv, NEW r \in Announcement, ServiceRemoved(r)
  PROVE  IInv'
<1> DEFINE p == r[1]
<1>1. p \in Program
  BY AnnouncementNames
<1>2. TypeOK /\ IsFiniteSet(lobby) /\ Delivered /\ Vouched /\ GhostsExplained
  BY DEF IInv
<1>3. /\ heard' = heard \ {r} /\ removals' = QueuedRemoval(p)
      /\ unsure' = IF OnItsWay(p) \/ (~Contains(removals, p) /\ Len(removals) = MaxRemovals)
                   THEN unsure \cup {p} ELSE unsure
      /\ lost' = IF \E s \in heard \ {r} : s[1] = p THEN lost \cup {p} ELSE lost
      /\ UNCHANGED <<advertised, pipeline, lobby, started, changes>>
  BY DEF ServiceRemoved
<1>4. \A q : HeardOf(q)' => HeardOf(q)
  BY <1>3 DEF HeardOf
<1>5. \A q : q # p => (HeardOf(q) => HeardOf(q)')
  BY <1>3 DEF HeardOf
<1>6. HeardOf(p)' => p \in lost'
  BY <1>3 DEF HeardOf
<1>7. \A q : OnItsWay(q)' <=> OnItsWay(q)
  BY <1>3 DEF OnItsWay, InQueue, pipeline
<1>8. /\ removals' \in Seq(Program) /\ Len(removals') <= MaxRemovals
      /\ \A q : Contains(removals, q) => Contains(removals', q)
      /\ \A q : q # p /\ Contains(removals', q) => Contains(removals, q)
      /\ Contains(removals', p) \/ (~Contains(removals, p) /\ Len(removals) = MaxRemovals)
  <2>1. /\ removals \in Seq(Program) /\ Len(removals) <= MaxRemovals
        /\ Len(removals) \in Nat /\ MaxRemovals \in Nat
    BY <1>2, DiscoveryAssumption DEF TypeOK
  <2>2. CASE Contains(removals, p) \/ Len(removals) = MaxRemovals
    BY <1>3, <2>1, <2>2 DEF QueuedRemoval
  <2>3. CASE ~(Contains(removals, p) \/ Len(removals) = MaxRemovals)
    <3>1. removals' = Append(removals, p)
      BY <1>3, <2>3 DEF QueuedRemoval
    <3>2. /\ removals' \in Seq(Program) /\ Len(removals') = Len(removals) + 1
          /\ \A y : Contains(removals', y) <=> Contains(removals, y) \/ y = p
      BY <1>1, <2>1, <3>1, AppendContains
    <3> QED
      BY <2>1, <2>3, <3>2
  <2> QED
    BY <2>2, <2>3
<1>9. TypeOK' /\ IsFiniteSet(lobby)'
  BY <1>1, <1>2, <1>3, <1>8 DEF TypeOK, pipeline
<1>10. Delivered'
  BY <1>2, <1>3, <1>4, <1>6, <1>7, <1>8 DEF Delivered
<1>11. Vouched'
  BY <1>2, <1>3, <1>5, <1>7 DEF Vouched
<1>12. GhostsExplained'
  BY <1>2, <1>3, <1>5, <1>8 DEF GhostsExplained
<1> QED
  BY <1>9, <1>10, <1>11, <1>12 DEF IInv

\* A resolver answers or fails.
LEMMA AnswerInv ==
  ASSUME IInv, NEW p \in Program, Answer(p) \/ AnswerFailed(p)
  PROVE  IInv'
<1>1. TypeOK /\ IsFiniteSet(lobby) /\ Delivered /\ Vouched /\ GhostsExplained
  BY DEF IInv
<1>2. /\ resolvers[p] > 0 /\ resolvers' = [resolvers EXCEPT ![p] = @ - 1]
      /\ \/ ready = None /\ ready' = p /\ UNCHANGED lost
         \/ lost' = lost \cup {p} /\ UNCHANGED ready
      /\ UNCHANGED <<advertised, heard, queue, resolving, removals, lobby, started,
                     unsure, changes>>
  BY DEF Answer, AnswerFailed
<1>3. /\ resolvers' \in [Program -> Nat] /\ resolvers'[p] = resolvers[p] - 1
      /\ \A q \in Program \ {p} : resolvers'[q] = resolvers[q]
  BY <1>1, <1>2 DEF TypeOK
<1>4. OnItsWay(p)
  BY <1>2 DEF OnItsWay
<1>5. \A q \in Program \ {p} : OnItsWay(q)' <=> OnItsWay(q)
  BY <1>2, <1>3, DiscoveryAssumption DEF OnItsWay, InQueue
<1>6. OnItsWay(p)' \/ p \in lost'
  BY <1>2 DEF OnItsWay
<1>7. \A q : HeardOf(q)' <=> HeardOf(q)
  BY <1>2 DEF HeardOf
<1>8. TypeOK' /\ IsFiniteSet(lobby)'
  BY <1>1, <1>2, <1>3 DEF TypeOK
<1>9. Delivered' /\ Vouched' /\ GhostsExplained'
  BY <1>1, <1>2, <1>4, <1>5, <1>6, <1>7 DEF Delivered, Vouched, GhostsExplained
<1> QED
  BY <1>8, <1>9 DEF IInv

-----------------------------------------------------------------------------
(* The main loop *)

\* What a poll must do for the invariant: list what it found, and let nothing
\* else that was on its way disappear unrecorded.
LEMMA PollKeepsInv ==
  ASSUME IInv,
         NEW found, found = {} \/ \E x \in Program : found = {x},
         lobby' = Listed(found), removals' = <<>>,
         UNCHANGED <<advertised, heard, started, unsure, changes>>,
         queue' \in Seq(Program), Len(queue') <= MaxQueue, IsInjective(queue'),
         resolving' \in Program \cup {None}, ready' \in Program \cup {None},
         resolvers' \in [Program -> Nat], lost' \subseteq Program,
         \A q \in Program : OnItsWay(q) \/ q \in lost
                              => OnItsWay(q)' \/ q \in lost' \/ q \in lobby',
         \A q \in Program : OnItsWay(q)' => OnItsWay(q),
         \A q \in found : OnItsWay(q)
  PROVE  IInv'
<1>1. TypeOK /\ IsFiniteSet(lobby) /\ Delivered /\ Vouched /\ GhostsExplained
  BY DEF IInv
<1>2. /\ lobby' \subseteq Program /\ IsFiniteSet(lobby') /\ Cardinality(lobby') <= MaxListed
      /\ \A q \in lobby : ~Contains(removals, q) => q \in lobby'
      /\ \A q \in lobby' : (q \in lobby /\ ~Contains(removals, q)) \/ q \in found
  BY <1>1, ListedEffect
<1>3. \A q : HeardOf(q)' <=> HeardOf(q)
  BY DEF HeardOf
<1>4. \A q : ~Contains(removals', q)
  BY DEF Contains
<1>5. removals' \in Seq(Program) /\ Len(removals') <= MaxRemovals
  BY DiscoveryAssumption
<1>6. TypeOK'
  BY <1>1, <1>2, <1>5 DEF TypeOK
<1>7. Delivered'
  BY <1>1, <1>2, <1>3, <1>4 DEF Delivered
<1>8. Vouched'
  BY <1>1, <1>3 DEF Vouched
<1>9. GhostsExplained'
  <2>1. ASSUME NEW q \in lobby'
        PROVE  HeardOf(q) \/ q \in unsure
    <3>1. q \in Program
      BY <1>2
    <3>2. CASE q \in lobby /\ ~Contains(removals, q)
      BY <1>1, <3>2 DEF GhostsExplained
    <3>3. CASE q \in found
      BY <1>1, <3>1, <3>3 DEF Vouched
    <3> QED
      BY <1>2, <3>2, <3>3
  <2> QED
    BY <1>3, <2>1 DEF GhostsExplained
<1> QED
  BY <1>2, <1>6, <1>7, <1>8, <1>9 DEF IInv

\* A poll lists the answer and starts the next resolve.
LEMMA PollInv ==
  ASSUME IInv, Poll
  PROVE  IInv'
<1> DEFINE found == {ready} \ {None}
           full == IF Cardinality(lobby') = MaxListed THEN found ELSE {}
           dropped == (({resolving} \ found) \cup full) \ (lobby' \cup {None})
<1>1. TypeOK /\ IsFiniteSet(lobby)
  BY DEF IInv
<1>2. ready \in Program \cup {None} /\ resolving \in Program \cup {None} /\ None \notin Program
  BY <1>1, DiscoveryAssumption DEF TypeOK
<1>3. found = {} \/ \E x \in Program : found = {x}
  BY <1>2
<1>4. /\ lobby' = Listed(found) /\ removals' = <<>>
      /\ UNCHANGED <<advertised, heard, started, unsure, changes>>
      /\ IF MayAdvance THEN StartNext(dropped) ELSE UNCHANGED <<pipeline, lost>>
  BY DEF Poll
<1>5. found \subseteq lobby' \/ Cardinality(lobby') = MaxListed
  BY <1>1, <1>3, <1>4, ListedEffect
<1>6. \A q \in found : OnItsWay(q)
  BY DEF OnItsWay
<1>7. CASE MayAdvance
  <2>1. dropped \in SUBSET Program
    BY <1>2
  <2>2. StartNext(dropped)
    BY <1>4, <1>7
  <2>3. /\ ready' = None
        /\ queue' \in Seq(Program) /\ Len(queue') <= MaxQueue /\ IsInjective(queue')
        /\ resolving' \in Program \cup {None}
        /\ resolvers' \in [Program -> Nat]
        /\ lost' \subseteq Program /\ lost \subseteq lost' /\ dropped \subseteq lost'
        /\ \A q : InQueue(q) => Contains(queue', q) \/ resolving' = q \/ q \in lost'
        /\ \A q : Contains(queue', q) => InQueue(q)
        /\ \A q \in Program : resolving' = q => InQueue(q)
        /\ \A q \in Program : resolvers[q] > 0 => resolvers'[q] > 0
        /\ \A q \in Program : resolvers'[q] > 0 => resolvers[q] > 0 \/ InQueue(q)
    BY <1>1, <2>1, <2>2, StartNextEffect
  <2>4. \A q \in Program : resolving = q \/ ready = q => q \in lost' \/ q \in lobby'
    BY <1>2, <1>5, <2>3
  <2>5. \A q \in Program : OnItsWay(q) \/ q \in lost
                             => OnItsWay(q)' \/ q \in lost' \/ q \in lobby'
    BY <2>3, <2>4 DEF OnItsWay, InQueue
  <2>6. \A q \in Program : OnItsWay(q)' => OnItsWay(q)
    BY <1>2, <2>3 DEF OnItsWay, InQueue
  <2> HIDE DEF found, dropped
  <2> QED
    BY <1>3, <1>4, <1>6, <2>3, <2>5, <2>6, PollKeepsInv
<1>8. CASE ~MayAdvance
  <2>1. UNCHANGED <<pipeline, lost>>
    BY <1>4, <1>8
  <2>2. \A q : OnItsWay(q)' <=> OnItsWay(q)
    BY <2>1 DEF OnItsWay, InQueue, pipeline
  <2>3. /\ queue' \in Seq(Program) /\ Len(queue') <= MaxQueue /\ IsInjective(queue')
        /\ resolving' \in Program \cup {None} /\ ready' \in Program \cup {None}
        /\ resolvers' \in [Program -> Nat] /\ lost' \subseteq Program /\ lost' = lost
    BY <1>1, <2>1 DEF TypeOK, pipeline
  <2> HIDE DEF found, dropped
  <2> QED
    BY <1>3, <1>4, <1>6, <2>2, <2>3, PollKeepsInv
<1> QED
  BY <1>7, <1>8

\* A poll gives up the resolve in progress.
LEMMA PollTimedOutInv ==
  ASSUME IInv, PollTimedOut
  PROVE  IInv'
<1>1. TypeOK /\ IsFiniteSet(lobby)
  BY DEF IInv
<1>2. ready = None /\ resolving \in Program /\ None \notin Program
  BY <1>1, DiscoveryAssumption DEF PollTimedOut, MayGiveUp, TypeOK
<1>3. /\ lobby' = Listed({}) /\ removals' = <<>>
      /\ UNCHANGED <<advertised, heard, started, unsure, changes>>
      /\ IF queue # <<>> THEN StartNext({resolving})
         ELSE /\ resolving' = None /\ lost' = lost \cup {resolving}
              /\ UNCHANGED <<queue, resolvers, ready>>
  BY DEF PollTimedOut
<1>4. CASE queue # <<>>
  <2>1. {resolving} \in SUBSET Program /\ StartNext({resolving})
    BY <1>2, <1>3, <1>4
  <2>2. /\ ready' = None
        /\ queue' \in Seq(Program) /\ Len(queue') <= MaxQueue /\ IsInjective(queue')
        /\ resolving' \in Program \cup {None}
        /\ resolvers' \in [Program -> Nat]
        /\ lost' \subseteq Program /\ lost \subseteq lost' /\ {resolving} \subseteq lost'
        /\ \A q : InQueue(q) => Contains(queue', q) \/ resolving' = q \/ q \in lost'
        /\ \A q : Contains(queue', q) => InQueue(q)
        /\ \A q \in Program : resolving' = q => InQueue(q)
        /\ \A q \in Program : resolvers[q] > 0 => resolvers'[q] > 0
        /\ \A q \in Program : resolvers'[q] > 0 => resolvers[q] > 0 \/ InQueue(q)
    BY <1>1, <2>1, StartNextEffect
  <2>3. \A q \in Program : OnItsWay(q) \/ q \in lost => OnItsWay(q)' \/ q \in lost'
    BY <1>2, <2>2 DEF OnItsWay, InQueue
  <2>4. \A q \in Program : OnItsWay(q)' => OnItsWay(q)
    BY <1>2, <2>2 DEF OnItsWay, InQueue
  <2> QED
    BY <1>3, <2>2, <2>3, <2>4, PollKeepsInv
<1>5. CASE queue = <<>>
  <2>1. /\ resolving' = None /\ lost' = lost \cup {resolving}
        /\ UNCHANGED <<queue, resolvers, ready>>
    BY <1>3, <1>5
  <2>2. \A q \in Program : OnItsWay(q) \/ q \in lost => OnItsWay(q)' \/ q \in lost'
    BY <2>1 DEF OnItsWay, InQueue
  <2>3. \A q \in Program : OnItsWay(q)' => OnItsWay(q)
    BY <1>2, <2>1 DEF OnItsWay, InQueue
  <2>4. /\ queue' \in Seq(Program) /\ Len(queue') <= MaxQueue /\ IsInjective(queue')
        /\ resolving' \in Program \cup {None} /\ ready' \in Program \cup {None}
        /\ resolvers' \in [Program -> Nat] /\ lost' \subseteq Program
    BY <1>1, <1>2, <2>1 DEF TypeOK
  <2> QED
    BY <1>3, <2>2, <2>3, <2>4, PollKeepsInv
<1> QED
  BY <1>4, <1>5

-----------------------------------------------------------------------------
(* Restarts and the network *)

\* Discovery that is stopped has heard of nobody and has nothing on its way.
LEMMA StoppedClean ==
  ASSUME Stopped
  PROVE  /\ \A q : ~HeardOf(q)' /\ ~Contains(removals', q)
         /\ \A q \in Program : ~OnItsWay(q)'
<1>1. \A q : ~HeardOf(q)'
  BY DEF Stopped, HeardOf
<1>2. \A q : ~Contains(removals', q) /\ ~Contains(queue', q)
  BY DEF Stopped, Contains
<1>3. \A q \in Program : ~OnItsWay(q)'
  BY <1>2, DiscoveryAssumption DEF Stopped, OnItsWay, InQueue
<1> QED
  BY <1>1, <1>2, <1>3

\* The fields that are reset have the types they start with.
LEMMA StoppedTypes ==
  ASSUME Stopped
  PROVE  /\ heard' \subseteq Announcement
         /\ queue' \in Seq(Program) /\ Len(queue') <= MaxQueue /\ IsInjective(queue')
         /\ resolving' \in Program \cup {None} /\ ready' \in Program \cup {None}
         /\ resolvers' \in [Program -> Nat]
         /\ removals' \in Seq(Program) /\ Len(removals') <= MaxRemovals
         /\ lost' \subseteq Program
<1>1. MaxQueue \in Nat /\ MaxRemovals \in Nat
  BY DiscoveryAssumption
<1>2. queue' = <<>> /\ removals' = <<>>
  BY DEF Stopped
<1>3. IsInjective(queue')
  BY <1>2 DEF IsInjective
<1> QED
  BY <1>1, <1>2, <1>3 DEF Stopped

\* Whoever stays listed over a restart is one whose removal may go unseen.
LEMMA RestartInv ==
  ASSUME IInv, Stopped, lobby' \subseteq lobby, unsure' = lobby',
         started' \in BOOLEAN, changes' \in 0 .. MaxChanges, UNCHANGED advertised
  PROVE  IInv'
<1>1. TypeOK /\ IsFiniteSet(lobby)
  BY DEF IInv
<1>2. IsFiniteSet(lobby') /\ Cardinality(lobby') <= Cardinality(lobby)
  BY <1>1, FS_Subset
<1>3. Cardinality(lobby') <= MaxListed
  <2>1. Cardinality(lobby') \in Nat /\ Cardinality(lobby) \in Nat /\ MaxListed \in Nat
    BY <1>1, <1>2, FS_CardinalityType, DiscoveryAssumption
  <2>2. Cardinality(lobby) <= MaxListed
    BY <1>1 DEF TypeOK
  <2> QED
    BY <1>2, <2>1, <2>2
<1>4. TypeOK'
  BY <1>1, <1>3, StoppedTypes DEF TypeOK
<1>5. Delivered' /\ Vouched' /\ GhostsExplained'
  BY StoppedClean DEF Delivered, Vouched, GhostsExplained
<1> QED
  BY <1>2, <1>4, <1>5 DEF IInv

\* Announcements change what is on the network, not what has been heard.
LEMMA NetworkInv ==
  ASSUME IInv, advertised' \subseteq Announcement, changes' \in 0 .. MaxChanges,
         UNCHANGED <<heard, pipeline, removals, lobby, started, lost, unsure>>
  PROVE  IInv'
<1>1. TypeOK /\ IsFiniteSet(lobby) /\ Delivered /\ Vouched /\ GhostsExplained
  BY DEF IInv
<1>2. TypeOK'
  BY <1>1 DEF TypeOK, pipeline
<1>3. \A q : (HeardOf(q)' <=> HeardOf(q)) /\ (OnItsWay(q)' <=> OnItsWay(q))
  BY DEF HeardOf, OnItsWay, InQueue, pipeline
<1>4. Delivered' /\ Vouched' /\ GhostsExplained'
  BY <1>1, <1>3 DEF Delivered, Vouched, GhostsExplained
<1> QED
  BY <1>1, <1>2, <1>4 DEF IInv

-----------------------------------------------------------------------------
(* The theorems *)

\* The program starts with nothing heard and nobody listed.
LEMMA InitInv == Init => IInv
<1> SUFFICES ASSUME Init
             PROVE  IInv
  OBVIOUS
<1>1. {MaxQueue, MaxRemovals, MaxListed, MaxChanges} \subseteq Nat
  BY DiscoveryAssumption
<1>2. IsFiniteSet(lobby) /\ Cardinality(lobby) = 0
  BY FS_EmptySet DEF Init
<1>3. IsInjective(queue)
  BY DEF Init, IsInjective
<1>4. TypeOK
  BY <1>1, <1>2, <1>3 DEF Init, TypeOK
<1>5. \A q : ~HeardOf(q)
  BY DEF Init, HeardOf
<1>6. \A q \in Program : ~OnItsWay(q)
  BY DiscoveryAssumption DEF Init, OnItsWay, InQueue, Contains
<1>7. Delivered /\ Vouched /\ GhostsExplained
  BY <1>5, <1>6 DEF Init, Delivered, Vouched, GhostsExplained
<1> QED
  BY <1>2, <1>4, <1>7 DEF IInv

\* Every step keeps the invariant.
LEMMA NextInv == IInv /\ [Next]_vars => IInv'
<1> SUFFICES ASSUME IInv, [Next]_vars
             PROVE  IInv'
  OBVIOUS
<1>1. TypeOK
  BY DEF IInv
<1>2. Change => changes' \in 0 .. MaxChanges
  <2>1. changes \in 0 .. MaxChanges /\ MaxChanges \in Nat
    BY <1>1, DiscoveryAssumption DEF TypeOK
  <2> QED
    BY <2>1 DEF Change
<1>3. ASSUME NEW r \in Announcement, Advertise(r) \/ Withdraw(r)
      PROVE  IInv'
  <2>1. /\ advertised' \subseteq Announcement /\ Change
        /\ UNCHANGED <<heard, pipeline, removals, lobby, started, lost, unsure>>
    BY <1>1, <1>3 DEF Advertise, Withdraw, TypeOK
  <2> QED
    BY <1>2, <2>1, NetworkInv
<1>4. ASSUME GameBegins
      PROVE  IInv'
  BY <1>1, <1>4, RestartInv DEF GameBegins, TypeOK
<1>5. ASSUME ReturnToLobby
      PROVE  IInv'
  BY <1>2, <1>5, RestartInv DEF ReturnToLobby
<1>6. ASSUME NEW p \in Program, PeerDisconnects(p)
      PROVE  IInv'
  <2>1. lobby' \subseteq lobby
    BY <1>6 DEF PeerDisconnects
  <2> QED
    BY <1>2, <1>6, <2>1, RestartInv DEF PeerDisconnects
<1>7. CASE UNCHANGED vars
  <2>1. IsFiniteSet(lobby) /\ Delivered /\ Vouched /\ GhostsExplained
    BY DEF IInv
  <2>2. TypeOK'
    BY <1>1, <1>7 DEF vars, TypeOK
  <2>3. \A q : (HeardOf(q)' <=> HeardOf(q)) /\ (OnItsWay(q)' <=> OnItsWay(q))
    BY <1>7 DEF vars, HeardOf, OnItsWay, InQueue
  <2> QED
    BY <1>7, <2>1, <2>2, <2>3 DEF vars, IInv, Delivered, Vouched, GhostsExplained
<1> QED
  BY <1>3, <1>4, <1>5, <1>6, <1>7, ServiceNewInv, ServiceRemovedInv, AnswerInv, PollInv,
     PollTimedOutInv DEF Next

\* The invariant holds in every state the program reaches.
THEOREM Invariance == Spec => []IInv
BY InitInv, NextInv, PTL DEF Spec

\* The queues and the lobby stay within their bounds, and no service is queued
\* twice, whatever the callbacks do (avahi_browse_callback, queue_pending).
THEOREM TypeCorrect == Spec => []TypeOK
<1>1. IInv => TypeOK
  BY DEF IInv
<1> QED
  BY <1>1, Invariance, PTL

\* No order of callbacks and polls loses a program that was reported, but in
\* the ways the code has (discovery_avahi.c, app_poll_discovery_and_update_lobby).
THEOREM NobodyLost == Spec => []NobodyVanishes
<1>1. IInv => NobodyVanishes
  BY DEF IInv, Delivered, NobodyVanishes
<1> QED
  BY <1>1, Invariance, PTL

\* A program listed in vain is one whose removal the lobby could not see.
THEOREM GhostsAccountedFor == Spec => []GhostsExplained
<1>1. IInv => GhostsExplained
  BY DEF IInv
<1> QED
  BY <1>1, Invariance, PTL

\* No answer waits while discovery does not run.
StoppedIdle == ~started => ready = None

\* Only a restart ends a stop, and a stop begins with nothing waiting.
LEMMA StoppedIdleInv ==
  /\ Init => StoppedIdle
  /\ StoppedIdle /\ [Next]_vars => StoppedIdle'
<1>1. Init => StoppedIdle
  BY DEF Init, StoppedIdle
<1> SUFFICES ASSUME StoppedIdle, [Next]_vars
             PROVE  StoppedIdle'
  BY <1>1
<1>2. CASE UNCHANGED vars
  BY <1>2 DEF vars, StoppedIdle
<1>3. CASE \E r \in Announcement : Advertise(r) \/ Withdraw(r)
  BY <1>3 DEF Advertise, Withdraw, pipeline, StoppedIdle
<1>4. CASE \E r \in Announcement : ServiceNew(r) \/ ServiceRemoved(r)
  BY <1>4 DEF ServiceNew, ServiceRemoved, StoppedIdle
<1>5. CASE \E p \in Program : Answer(p) \/ AnswerFailed(p)
  BY <1>5 DEF Answer, AnswerFailed, StoppedIdle
<1>6. CASE Poll \/ PollTimedOut
  BY <1>6 DEF Poll, PollTimedOut, StoppedIdle
<1>7. CASE GameBegins \/ ReturnToLobby \/ \E p \in Program : PeerDisconnects(p)
  BY <1>7 DEF GameBegins, ReturnToLobby, PeerDisconnects, Stopped, StoppedIdle
<1> QED
  BY <1>2, <1>3, <1>4, <1>5, <1>6, <1>7 DEF Next

\* A step that takes the answer away lists it, finds the lobby full, or restarts
\* discovery.
LEMMA AnswerStep ==
  ASSUME IInv, StoppedIdle, [Next]_vars, ready # None, ready' # ready
  PROVE  \/ ready \in lobby' \/ Cardinality(lobby') = MaxListed
         \/ GameBegins \/ \E p \in Program : PeerDisconnects(p)
<1>1. TypeOK /\ IsFiniteSet(lobby)
  BY DEF IInv
<1>2. CASE UNCHANGED vars
  BY <1>2 DEF vars
<1>3. CASE \E r \in Announcement :
             Advertise(r) \/ Withdraw(r) \/ ServiceNew(r) \/ ServiceRemoved(r)
  BY <1>3 DEF Advertise, Withdraw, ServiceNew, ServiceRemoved, pipeline, Free
<1>4. CASE \E p \in Program : Answer(p) \/ AnswerFailed(p)
  BY <1>4 DEF Answer, AnswerFailed
<1>5. CASE Poll
  <2>1. ready \in Program /\ {ready} \ {None} = {ready}
    BY <1>1 DEF TypeOK
  <2>2. lobby' = Listed({ready})
    BY <1>5, <2>1 DEF Poll
  <2>3. {ready} \subseteq lobby' \/ Cardinality(lobby') = MaxListed
    BY <1>1, <2>1, <2>2, ListedEffect
  <2> QED
    BY <2>3
<1>6. CASE PollTimedOut
  BY <1>6 DEF PollTimedOut, MayGiveUp
<1>7. CASE ReturnToLobby
  BY <1>7 DEF ReturnToLobby, StoppedIdle
<1> QED
  BY <1>2, <1>3, <1>4, <1>5, <1>6, <1>7 DEF Next

\* An answer waits until a poll lists it; later services and late answers do not
\* overwrite pending_peer (avahi_resolver_callback, chess_discovery_avahi_check_result).
THEOREM AnswersWait == Spec => AnswerKept
<1>1. IInv /\ StoppedIdle /\ [Next]_vars =>
        [ready # None /\ ready' # ready =>
           \/ ready \in lobby' \/ Cardinality(lobby') = MaxListed
           \/ GameBegins \/ \E p \in Program : PeerDisconnects(p)]_vars
  BY AnswerStep
<1>2. Spec => []StoppedIdle
  BY StoppedIdleInv, PTL DEF Spec
<1> QED
  BY <1>1, <1>2, Invariance, PTL DEF Spec, AnswerKept
====
