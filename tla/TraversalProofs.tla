-------------------------- MODULE TraversalProofs --------------------------
(* What the traversal iterators return, for every graph.                      *)
EXTENDS Traversal, WellOrder, FiniteSetTheorems, SequenceTheorems, TLAPS

(* Reachable sets hold the start and are closed under links: a neighbour that *)
(* the generator lists for a reachable atom is reachable.                     *)
LEMMA ReachableClosed ==
    ASSUME NEW E, E \subseteq V \X V, NEW v \in V
    PROVE  /\ v \in Reachable(V, E, v)
           /\ \A u \in Reachable(V, E, v) : Successors(E, u) \subseteq Reachable(V, E, v)
<1>1. v \in Reachable(V, E, v)
  BY DEF Reachable
<1>2. ASSUME NEW u \in Reachable(V, E, v), NEW w \in Successors(E, u)
      PROVE  w \in Reachable(V, E, v)
  <2>1. <<u, w>> \in E
    BY <1>2 DEF Successors
  <2>2. w \in V
    BY <2>1
  <2>3. ASSUME NEW C \in SUBSET V, v \in C, ClosedUnder(E, C) PROVE w \in C
    BY <1>2, <2>1, <2>3 DEF Reachable, ClosedUnder
  <2> QED BY <2>2, <2>3 DEF Reachable
<1> QED BY <1>1, <1>2

(* A set that holds the start and the successors of its members holds all the *)
(* reachable atoms: an exhausted iterator has met them all.                   *)
LEMMA ReachableLeast ==
    ASSUME NEW E, NEW v, NEW C \in SUBSET V, v \in C,
           \A u \in C : Successors(E, u) \subseteq C, E \subseteq V \X V
    PROVE  Reachable(V, E, v) \subseteq C
<1>1. ClosedUnder(E, C)
  <2> SUFFICES ASSUME NEW e \in E, e[1] \in C PROVE e[2] \in C
    BY DEF ClosedUnder
  <2>1. e[2] \in Successors(E, e[1])
    BY DEF Successors
  <2> QED BY <2>1
<1> QED BY <1>1 DEF Reachable

-----------------------------------------------------------------------------
(* The part of the state that does not depend on the order of to_explore.     *)
Reached ==
    /\ edges \subseteq V \X V
    /\ examined \subseteq V
    /\ to_explore \in Seq(Entry)
    /\ returned \in Seq(Entry)
    /\ initialized \in BOOLEAN

(* The marked atoms are those returned, those still to be returned and the    *)
(* start; all are reachable, and the neighbours of those returned are marked. *)
Covered ==
    IF initialized
    THEN /\ examined = {Start} \cup Visited \cup Pending
         /\ examined \subseteq Reachable(V, edges, Start)
         /\ MaxDistance = NoLimit =>
               \A v \in {Start} \cup Visited : Successors(edges, v) \subseteq examined
    ELSE to_explore = <<>> /\ returned = <<>>

(* Every mark but the start's stands for one entry.                           *)
Counted ==
    initialized => Cardinality(examined) = 1 + Len(returned) + Len(to_explore)

TInv == Reached /\ Covered /\ Counted

(* te is rest, followed by entries for atoms of F at distance d.              *)
Appended(te, rest, F, d) ==
    /\ \A i \in 1..Len(rest) : te[i] = rest[i]
    /\ \A i \in (Len(rest) + 1)..Len(te) : te[i].h \in F /\ te[i].distance = d

(* advance appends the fresh neighbours to what is left of to_explore.        *)
LEMMA AdvanceDoes ==
    ASSUME NEW from \in V, NEW dist \in Nat, NEW rest \in Seq(Entry), NEW seen \in SUBSET V,
           edges \subseteq V \X V, advance(from, dist, rest, seen)
    PROVE  /\ to_explore' \in Seq(Entry)
           /\ examined' = seen \cup Fresh(from, dist, seen)
           /\ Fresh(from, dist, seen) \subseteq Successors(edges, from) \cap V
           /\ Pending' = {rest[i].h : i \in 1..Len(rest)} \cup Fresh(from, dist, seen)
           /\ Len(to_explore') = Len(rest) + Cardinality(Fresh(from, dist, seen))
           /\ Cardinality(examined') = Cardinality(seen) + Cardinality(Fresh(from, dist, seen))
           /\ Appended(to_explore', rest, Fresh(from, dist, seen), dist + 1)
<1> DEFINE F == Fresh(from, dist, seen)
           n == Cardinality(F)
<1>1. F \subseteq Successors(edges, from) /\ F \subseteq V
  BY DEF Fresh, Successors
<1>2. n \in Nat
  <2>1. IsFiniteSet(F)
    BY <1>1, FS_Subset, TraversalAssumption
  <2> QED BY <2>1, FS_CardinalityType
<1>3. PICK s \in Listings(F) :
         /\ to_explore' = rest \o [i \in 1..n |-> [h |-> s[i], distance |-> dist + 1]]
         /\ examined' = seen \cup F
  BY DEF advance
<1> DEFINE new == [i \in 1..n |-> [h |-> s[i], distance |-> dist + 1]]
<1>4. s \in [1..n -> F] /\ \A x \in F : \E i \in 1..n : s[i] = x
  BY <1>3 DEF Listings, Surjection
<1>5. \A i \in 1..n : [h |-> s[i], distance |-> dist + 1] \in Entry
  BY <1>1, <1>4 DEF Entry
<1>6. new \in Seq(Entry) /\ Len(new) = n /\ \A i \in 1..n : new[i].h = s[i]
  BY <1>2, <1>5
<1>7. /\ to_explore' \in Seq(Entry)
      /\ Len(to_explore') = Len(rest) + n
      /\ \A i \in 1..(Len(rest) + n) : to_explore'[i] = IF i <= Len(rest) THEN rest[i]
                                                        ELSE new[i - Len(rest)]
  <2> HIDE DEF new, n
  <2>1. to_explore' = rest \o new
    BY <1>3 DEF new
  <2> QED BY <1>2, <1>6, <2>1, ConcatProperties
<1>8. Pending' = {rest[i].h : i \in 1..Len(rest)} \cup F
  <2> HIDE DEF new, n
  <2>1. ASSUME NEW x \in Pending' PROVE x \in {rest[i].h : i \in 1..Len(rest)} \cup F
    <3>1. PICK i \in 1..(Len(rest) + n) : x = to_explore'[i].h
      BY <1>7, <2>1 DEF Pending
    <3>2. CASE i <= Len(rest)
      BY <1>7, <3>1, <3>2
    <3>3. CASE i > Len(rest)
      <4>1. i - Len(rest) \in 1..n
        BY <1>2, <3>1, <3>3
      <4>2. to_explore'[i] = new[i - Len(rest)]
        BY <1>2, <1>7, <3>1, <3>3
      <4>3. x = s[i - Len(rest)]
        BY <1>6, <3>1, <4>1, <4>2
      <4> QED BY <1>4, <4>1, <4>3
    <3> QED BY <1>2, <3>1, <3>2, <3>3
  <2>2. ASSUME NEW i \in 1..Len(rest) PROVE rest[i].h \in Pending'
    BY <1>2, <1>7 DEF Pending
  <2>3. ASSUME NEW x \in F PROVE x \in Pending'
    <3>1. PICK i \in 1..n : s[i] = x
      BY <1>4
    <3>2. Len(rest) + i \in 1..Len(to_explore') /\ to_explore'[Len(rest) + i] = new[i]
      <4> DEFINE j == Len(rest) + i
      <4>1. Len(rest) \in Nat
        BY LenProperties
      <4>2. j \in 1..(Len(rest) + n) /\ ~(j <= Len(rest)) /\ j - Len(rest) = i
        BY <1>2, <4>1
      <4> HIDE DEF j
      <4>3. to_explore'[j] = new[j - Len(rest)]
        BY <1>7, <4>2
      <4>4. j \in 1..Len(to_explore') /\ to_explore'[j] = new[i]
        BY <1>7, <4>2, <4>3
      <4> QED BY <4>4 DEF j
    <3> QED BY <1>6, <3>1, <3>2 DEF Pending
  <2> QED BY <2>1, <2>2, <2>3
<1>9. Cardinality(seen \cup F) = Cardinality(seen) + n
  <2>1. IsFiniteSet(F) /\ IsFiniteSet(seen)
    BY <1>1, FS_Subset, TraversalAssumption
  <2>2. F \cap seen = {}
    BY DEF Fresh
  <2>3. Cardinality(seen \cup F) = Cardinality(seen) + Cardinality(F) - Cardinality(seen \cap F)
    BY <2>1, FS_Union
  <2>4. seen \cap F = {} /\ Cardinality({}) = 0 /\ Cardinality(seen) \in Nat
    BY <2>1, <2>2, FS_EmptySet, FS_CardinalityType
  <2>5. Cardinality(seen \cap F) = 0
    BY <2>4
  <2> HIDE DEF F
  <2> QED BY <1>2, <2>3, <2>4, <2>5
<1>10. ASSUME NEW i \in 1..Len(rest) PROVE to_explore'[i] = rest[i]
  <2> HIDE DEF new, n, F
  <2>1. Len(rest) \in Nat
    BY LenProperties
  <2> QED BY <1>2, <1>7, <2>1
<1>11. ASSUME NEW i \in (Len(rest) + 1)..Len(to_explore')
       PROVE  to_explore'[i].h \in F /\ to_explore'[i].distance = dist + 1
  <2>1. \A j \in 1..n : new[j].h \in F /\ new[j].distance = dist + 1
    BY <1>4
  <2> HIDE DEF new, n, F
  <2>2. Len(rest) \in Nat
    BY LenProperties
  <2>3. i \in 1..(Len(rest) + n) /\ ~(i <= Len(rest)) /\ i - Len(rest) \in 1..n
    BY <1>2, <1>7, <2>2
  <2>4. to_explore'[i] = new[i - Len(rest)]
    BY <1>7, <2>3
  <2> QED BY <2>1, <2>3, <2>4
<1>12. Appended(to_explore', rest, F, dist + 1)
  <2> HIDE DEF new, n, F
  <2> QED BY <1>10, <1>11 DEF Appended
<1> QED BY <1>1, <1>3, <1>7, <1>8, <1>9, <1>12

LEMMA AdvanceAdds ==
    ASSUME NEW from \in V, NEW dist \in Nat, NEW rest \in Seq(Entry), NEW seen \in SUBSET V,
           edges \subseteq V \X V, advance(from, dist, rest, seen)
    PROVE  /\ to_explore' \in Seq(Entry)
           /\ examined' = seen \cup Fresh(from, dist, seen)
           /\ Fresh(from, dist, seen) \subseteq Successors(edges, from) \cap V
           /\ Pending' = {rest[i].h : i \in 1..Len(rest)} \cup Fresh(from, dist, seen)
           /\ Len(to_explore') = Len(rest) + Cardinality(Fresh(from, dist, seen))
           /\ Cardinality(examined') = Cardinality(seen) + Cardinality(Fresh(from, dist, seen))
BY AdvanceDoes

LEMMA AdvanceAppends ==
    ASSUME NEW from \in V, NEW dist \in Nat, NEW rest \in Seq(Entry), NEW seen \in SUBSET V,
           edges \subseteq V \X V, advance(from, dist, rest, seen)
    PROVE  /\ examined' = seen \cup Fresh(from, dist, seen)
           /\ Appended(to_explore', rest, Fresh(from, dist, seen), dist + 1)
           /\ Len(to_explore') >= Len(rest)
<1>1. /\ examined' = seen \cup Fresh(from, dist, seen)
      /\ Appended(to_explore', rest, Fresh(from, dist, seen), dist + 1)
      /\ Len(to_explore') = Len(rest) + Cardinality(Fresh(from, dist, seen))
      /\ Fresh(from, dist, seen) \subseteq V
  BY AdvanceDoes
<1>2. Cardinality(Fresh(from, dist, seen)) \in Nat
  BY <1>1, FS_Subset, FS_CardinalityType, TraversalAssumption
<1>3. Len(rest) \in Nat
  BY LenProperties
<1> QED BY <1>1, <1>2, <1>3

(* Stack.pop and Queue.remove split to_explore into an entry and the others.  *)
LEMMA TakeSplits ==
    ASSUME to_explore \in Seq(Entry), to_explore # <<>>
    PROVE  /\ Take[1] \in Entry
           /\ Take[2] \in Seq(Entry)
           /\ Len(to_explore) = Len(Take[2]) + 1
           /\ Pending = {Take[1].h} \cup {Take[2][i].h : i \in 1..Len(Take[2])}
           /\ Stack => /\ Take[1] = to_explore[Len(to_explore)]
                       /\ \A i \in 1..Len(Take[2]) : Take[2][i] = to_explore[i]
           /\ ~ Stack => /\ Take[1] = to_explore[1]
                         /\ \A i \in 1..Len(Take[2]) : Take[2][i] = to_explore[i + 1]
<1>1. CASE Stack
  <2> DEFINE k == Len(to_explore)
             rest == SubSeq(to_explore, 1, k - 1)
  <2>1. k \in Nat \ {0}
    OBVIOUS
  <2>2. rest \in Seq(Entry) /\ Len(rest) = k - 1 /\ \A i \in 1..(k - 1) : rest[i] = to_explore[i]
    <3>1. \A i \in 1..(k - 1) : to_explore[i] \in Entry
      BY <2>1, ElementOfSeq
    <3>2. k - 1 \in Nat /\ 1 \in Int
      BY <2>1
    <3>3. /\ SubSeq(to_explore, 1, k - 1) \in Seq(Entry)
          /\ Len(SubSeq(to_explore, 1, k - 1)) = IF 1 <= k - 1 THEN (k - 1) - 1 + 1 ELSE 0
          /\ \A i \in 1..((k - 1) - 1 + 1) : SubSeq(to_explore, 1, k - 1)[i] = to_explore[1 + i - 1]
      <4> HIDE DEF k
      <4>1. k - 1 \in Int /\ 1 \in Int
        BY <3>2
      <4> QED BY <3>1, <4>1, SubSeqProperties
    <3> HIDE DEF k, rest
    <3>4. /\ rest \in Seq(Entry)
          /\ Len(rest) = IF 1 <= k - 1 THEN (k - 1) - 1 + 1 ELSE 0
          /\ \A i \in 1..((k - 1) - 1 + 1) : rest[i] = to_explore[1 + i - 1]
      BY <3>3 DEF rest
    <3>5. Len(rest) = k - 1
      BY <2>1, <3>4
    <3>6. ASSUME NEW i \in 1..(k - 1) PROVE rest[i] = to_explore[i]
      <4>1. i \in 1..((k - 1) - 1 + 1) /\ 1 + i - 1 = i
        BY <2>1
      <4> QED BY <3>4, <4>1
    <3> QED BY <3>4, <3>5, <3>6
  <2>3. Take[1] = to_explore[k] /\ Take[2] = rest
    BY <1>1 DEF Take
  <2> HIDE DEF rest
  <2>4. Pending = {to_explore[k].h} \cup {rest[i].h : i \in 1..(k - 1)}
    BY <2>1, <2>2 DEF Pending
  <2> QED BY <1>1, <2>1, <2>2, <2>3, <2>4
<1>2. CASE ~ Stack
  <2> DEFINE k == Len(to_explore)
             rest == Tail(to_explore)
  <2>1. k \in Nat \ {0}
    OBVIOUS
  <2>2. rest \in Seq(Entry) /\ Len(rest) = k - 1 /\ \A i \in 1..(k - 1) : rest[i] = to_explore[i + 1]
    BY <2>1, HeadTailProperties
  <2>3. Take[1] = to_explore[1] /\ Take[2] = rest
    BY <1>2 DEF Take
  <2> HIDE DEF rest
  <2>4. Pending = {to_explore[1].h} \cup {rest[i].h : i \in 1..(k - 1)}
    <3>1. ASSUME NEW i \in 2..k PROVE to_explore[i].h \in {rest[j].h : j \in 1..(k - 1)}
      <4>1. i - 1 \in 1..(k - 1) /\ rest[i - 1] = to_explore[i]
        BY <2>1, <2>2
      <4> QED BY <4>1
    <3>2. ASSUME NEW j \in 1..(k - 1) PROVE rest[j].h \in Pending
      BY <2>1, <2>2 DEF Pending
    <3>3. to_explore[1].h \in Pending
      BY <2>1 DEF Pending
    <3>4. ASSUME NEW x \in Pending
          PROVE  x \in {to_explore[1].h} \cup {rest[j].h : j \in 1..(k - 1)}
      <4>1. PICK i \in 1..k : x = to_explore[i].h
        BY <3>4 DEF Pending
      <4>2. CASE i = 1
        BY <4>1, <4>2
      <4>3. CASE i # 1
        BY <2>1, <3>1, <4>1, <4>3
      <4> QED BY <4>2, <4>3
    <3> QED BY <3>2, <3>3, <3>4
  <2> QED BY <1>2, <2>1, <2>2, <2>3, <2>4
<1> QED BY <1>1, <1>2

LEMMA TInvInit == TInit => TInv
<1> SUFFICES ASSUME TInit PROVE TInv
  OBVIOUS
<1>1. edges \subseteq V \X V
  BY TraversalAssumption DEF TInit
<1>2. to_explore \in Seq(Entry) /\ returned \in Seq(Entry)
  BY EmptySeq DEF TInit
<1> QED BY <1>1, <1>2 DEF TInit, TInv, Reached, Covered, Counted

LEMMA TInvStep == TInv /\ [TNext]_tvars => TInv'
<1> SUFFICES ASSUME TInv, [TNext]_tvars PROVE TInv'
  OBVIOUS
<1> USE TraversalAssumption
<1>0. edges \subseteq V \X V
  BY DEF TInv, Reached
<1>1. CASE init
  <2> DEFINE F == Fresh(Start, 0, {Start})
  <2>1. /\ edges' = edges /\ returned' = returned /\ initialized' = TRUE /\ ~ initialized
        /\ advance(Start, 0, <<>>, {Start})
    BY <1>1 DEF init
  <2>2. /\ to_explore' \in Seq(Entry)
        /\ examined' = {Start} \cup F
        /\ F \subseteq Successors(edges, Start) \cap V
        /\ Pending' = {<<>>[i].h : i \in 1..Len(<<>>)} \cup F
        /\ Len(to_explore') = Len(<<>>) + Cardinality(F)
        /\ Cardinality(examined') = Cardinality({Start}) + Cardinality(F)
    <3>1. <<>> \in Seq(Entry) /\ 0 \in Nat /\ {Start} \in SUBSET V
      BY EmptySeq
    <3> QED BY <1>0, <2>1, <3>1, AdvanceAdds
  <2>3. Pending' = F
    BY <2>2
  <2>4. returned = <<>> /\ Visited' = {}
    BY <2>1 DEF TInv, Covered, Visited
  <2>5. Reached'
    BY <2>1, <2>2 DEF TInv, Reached
  <2>6. examined' \subseteq Reachable(V, edges, Start)
    BY <1>0, <2>2, ReachableClosed
  <2>7. MaxDistance = NoLimit => Successors(edges, Start) \subseteq examined'
    BY <2>2 DEF Fresh
  <2>8. Covered'
    BY <2>1, <2>2, <2>3, <2>4, <2>6, <2>7 DEF Covered
  <2>9. Counted'
    <3>1. Len(<<>>) = 0 /\ Cardinality({Start}) = 1 /\ returned' = <<>>
      BY <2>1, <2>4, FS_Singleton
    <3>2. Cardinality(F) \in Nat
      BY <2>2, FS_Subset, FS_CardinalityType
    <3>3. Len(to_explore') = Cardinality(F) /\ Cardinality(examined') = 1 + Cardinality(F)
      <4> HIDE DEF F
      <4> QED BY <2>2, <3>1, <3>2
    <3>4. Len(returned') = 0
      BY <3>1
    <3> HIDE DEF F
    <3> QED BY <3>2, <3>3, <3>4 DEF Counted
  <2> QED BY <2>5, <2>8, <2>9 DEF TInv
<1>2. CASE next
  <2> DEFINE p == Take[1]
             rest == Take[2]
             F == Fresh(p.h, p.distance, examined)
  <2>1. /\ edges' = edges /\ initialized' = initialized /\ initialized = TRUE
        /\ to_explore # <<>>
        /\ returned' = Append(returned, p)
        /\ advance(p.h, p.distance, rest, examined)
    BY <1>2 DEF next, TInv, Reached
  <2>2. /\ p \in Entry /\ rest \in Seq(Entry)
        /\ Len(to_explore) = Len(rest) + 1
        /\ Pending = {p.h} \cup {rest[i].h : i \in 1..Len(rest)}
    BY <2>1, TakeSplits DEF TInv, Reached
  <2>3. p.h \in V /\ p.distance \in Nat
    BY <2>2 DEF Entry
  <2> HIDE DEF p, rest
  <2>4. /\ to_explore' \in Seq(Entry)
        /\ examined' = examined \cup F
        /\ F \subseteq Successors(edges, p.h) \cap V
        /\ Pending' = {rest[i].h : i \in 1..Len(rest)} \cup F
        /\ Len(to_explore') = Len(rest) + Cardinality(F)
        /\ Cardinality(examined') = Cardinality(examined) + Cardinality(F)
    <3>1. examined \in SUBSET V
      BY DEF TInv, Reached
    <3> QED BY <1>0, <2>1, <2>2, <2>3, <3>1, AdvanceAdds
  <2>5. Visited' = Visited \cup {p.h}
    <3>1. returned \in Seq(Entry)
      BY DEF TInv, Reached
    <3>2. /\ Len(returned') = Len(returned) + 1 /\ Len(returned) \in Nat
          /\ \A i \in 1..Len(returned) : returned'[i] = returned[i]
          /\ returned'[Len(returned) + 1] = p
      BY <2>1, <2>2, <3>1
    <3> QED BY <3>2 DEF Visited
  <2>6. Reached'
    BY <2>1, <2>2, <2>4 DEF TInv, Reached
  <2>7. /\ examined = {Start} \cup Visited \cup Pending
        /\ examined \subseteq Reachable(V, edges, Start)
        /\ MaxDistance = NoLimit =>
              \A v \in {Start} \cup Visited : Successors(edges, v) \subseteq examined
    BY <2>1 DEF TInv, Covered
  <2>8. examined' = {Start} \cup Visited' \cup Pending'
    BY <2>2, <2>4, <2>5, <2>7
  <2>9. examined' \subseteq Reachable(V, edges, Start)
    <3>1. p.h \in Reachable(V, edges, Start)
      BY <2>2, <2>7
    <3> QED BY <1>0, <2>4, <2>7, <3>1, ReachableClosed
  <2>10. MaxDistance = NoLimit =>
           \A v \in {Start} \cup Visited' : Successors(edges, v) \subseteq examined'
    BY <2>4, <2>5, <2>7 DEF Fresh
  <2>11. Covered'
    BY <2>1, <2>8, <2>9, <2>10 DEF Covered
  <2>12. Counted'
    <3>1. Cardinality(F) \in Nat
      BY <2>4, FS_Subset, FS_CardinalityType
    <3>2. Len(returned') = Len(returned) + 1 /\ Len(returned) \in Nat /\ Len(rest) \in Nat
      BY <2>1, <2>2 DEF TInv, Reached
    <3>3. Cardinality(examined) = 1 + Len(returned) + Len(to_explore)
      BY <2>1 DEF TInv, Counted
    <3> QED BY <2>2, <2>4, <3>1, <3>2, <3>3 DEF Counted
  <2> QED BY <2>6, <2>11, <2>12 DEF TInv
<1>3. CASE UNCHANGED tvars
  BY <1>3 DEF tvars, TInv, Reached, Covered, Counted, Visited, Pending
<1> QED BY <1>1, <1>2, <1>3 DEF TNext

LEMMA TInvInvariant == TSpec => []TInv
BY TInvInit, TInvStep, PTL DEF TSpec

(* The indices of a list that starts at zero.                                 *)
LEMMA IntervalFromZero ==
    ASSUME NEW N \in Nat
    PROVE  IsFiniteSet(0..N) /\ Cardinality(0..N) = N + 1
<1>1. 0 \in Int /\ N \in Int
  OBVIOUS
<1>2. /\ IsFiniteSet(0..N)
      /\ Cardinality(0..N) = IF 0 > N THEN 0 ELSE N - 0 + 1
  BY ONLY <1>1, FS_Interval, Zenon
<1> QED BY <1>2

(* As many marks as entries and the start: the entries name different atoms.  *)
LEMMA EntriesDiffer ==
    ASSUME TInv, initialized
    PROVE  /\ \A i, j \in 1..Len(returned) :
               returned[i].h # Start /\ (returned[i].h = returned[j].h => i = j)
           /\ \A i \in 1..Len(to_explore) :
               to_explore[i].h # Start /\ to_explore[i].h \notin Visited
<1> DEFINE m == Len(returned)
           k == Len(to_explore)
           f == [i \in 0..(m + k) |->
                    IF i = 0 THEN Start
                    ELSE IF i <= m THEN returned[i].h ELSE to_explore[i - m].h]
<1>1. m \in Nat /\ k \in Nat
  BY LenProperties DEF TInv, Reached
<1>2. /\ examined = {Start} \cup Visited \cup Pending
      /\ Cardinality(examined) = 1 + m + k
  BY DEF TInv, Covered, Counted
<1>3. f \in Surjection(0..(m + k), examined)
  <2>1. ASSUME NEW i \in 0..(m + k) PROVE f[i] \in examined
    <3>1. CASE i = 0
      BY <1>2, <3>1
    <3>2. CASE i \in 1..m
      BY <1>1, <1>2, <3>2 DEF Visited
    <3>3. CASE i > m /\ i # 0
      <4>1. i - m \in 1..k
        BY <1>1, <3>3
      <4>2. f[i] = to_explore[i - m].h
        BY <1>1, <3>3
      <4> QED BY <1>2, <4>1, <4>2 DEF Pending
    <3> QED BY <1>1, <3>1, <3>2, <3>3
  <2>2. ASSUME NEW x \in examined PROVE \E i \in 0..(m + k) : f[i] = x
    <3>1. CASE x = Start
      <4>1. 0 \in 0..(m + k) /\ f[0] = Start
        BY <1>1
      <4> QED BY <3>1, <4>1
    <3>2. CASE x \in Visited
      <4>1. PICK i \in 1..m : x = returned[i].h
        BY <3>2 DEF Visited
      <4>2. i \in 0..(m + k) /\ f[i] = x
        BY <1>1, <4>1
      <4> QED BY <4>2
    <3>3. CASE x \in Pending
      <4>1. PICK i \in 1..k : x = to_explore[i].h
        BY <3>3 DEF Pending
      <4>2. m + i \in 0..(m + k) /\ m + i # 0 /\ ~(m + i <= m) /\ (m + i) - m = i
        BY <1>1
      <4>3. f[m + i] = x
        BY <4>1, <4>2
      <4> QED BY <4>2, <4>3
    <3> QED BY <1>2, <3>1, <3>2, <3>3
  <2> HIDE DEF f
  <2>3. f \in [0..(m + k) -> examined]
    BY <2>1 DEF f
  <2> QED BY <2>2, <2>3 DEF Surjection
<1>4. IsFiniteSet(0..(m + k)) /\ Cardinality(0..(m + k)) = 1 + m + k
  <2>1. m + k \in Nat /\ (m + k) + 1 = 1 + m + k
    BY <1>1
  <2> HIDE DEF m, k
  <2> QED BY <2>1, IntervalFromZero
<1>5. f \in Injection(0..(m + k), examined)
  <2> HIDE DEF f
  <2> QED BY <1>2, <1>3, <1>4, FS_Surjection
<1>6. ASSUME NEW i \in 0..(m + k), NEW j \in 0..(m + k), f[i] = f[j] PROVE i = j
  <2> HIDE DEF f
  <2>1. DOMAIN f = 0..(m + k)
    BY <1>5 DEF Injection
  <2> QED BY <1>5, <1>6, <2>1 DEF Injection, IsInjective
<1>7. ASSUME NEW i \in 1..m PROVE i \in 0..(m + k) /\ f[i] = returned[i].h /\ i # 0
  BY <1>1
<1>8. 0 \in 0..(m + k) /\ f[0] = Start
  BY <1>1
<1>9. ASSUME NEW i \in 1..k
      PROVE  m + i \in 0..(m + k) /\ f[m + i] = to_explore[i].h /\ m + i # 0 /\ m + i \notin 1..m
  <2>1. m + i \in 0..(m + k) /\ m + i # 0 /\ ~(m + i <= m) /\ (m + i) - m = i
    BY <1>1
  <2> QED BY <2>1
<1> HIDE DEF f
<1>10. ASSUME NEW i \in 1..k PROVE to_explore[i].h # Start /\ to_explore[i].h \notin Visited
  <2>1. to_explore[i].h # Start
    BY <1>6, <1>8, <1>9
  <2>2. ASSUME NEW j \in 1..m PROVE to_explore[i].h # returned[j].h
    BY <1>6, <1>7, <1>9
  <2> QED BY <2>1, <2>2 DEF Visited
<1> QED BY <1>6, <1>7, <1>8, <1>10

(* Types of the iterator, and a bound on it: it never holds more entries than *)
(* there are atoms besides the start.                                         *)
THEOREM TTypeCorrect == TSpec => []TTypeOK
<1>1. TInv => TTypeOK
  <2> SUFFICES ASSUME TInv PROVE Len(to_explore) + Len(returned) < Cardinality(V)
    BY DEF TTypeOK, TInv, Reached
  <2>1. Cardinality(V) \in Nat /\ Cardinality(examined) <= Cardinality(V)
    BY TraversalAssumption, FS_CardinalityType, FS_Subset DEF TInv, Reached
  <2>2. Len(to_explore) \in Nat /\ Len(returned) \in Nat
    BY LenProperties DEF TInv, Reached
  <2>3. CASE initialized
    BY <2>1, <2>2, <2>3 DEF TInv, Counted
  <2>4. CASE ~ initialized
    <3>1. Cardinality(V) # 0
      BY TraversalAssumption, FS_EmptySet
    <3>2. Len(to_explore) = 0 /\ Len(returned) = 0
      BY <2>4 DEF TInv, Covered
    <3> QED BY <2>1, <3>1, <3>2
  <2> QED BY <2>3, <2>4
<1> QED BY <1>1, TInvInvariant, PTL

(* No atom is returned twice and the start never, for every graph.            *)
THEOREM ReturnedOnceHolds == TSpec => []ReturnedOnce
<1>1. TInv => ReturnedOnce
  <2> SUFFICES ASSUME TInv PROVE ReturnedOnce
    OBVIOUS
  <2>1. CASE initialized
    BY <2>1, EntriesDiffer DEF ReturnedOnce
  <2>2. CASE ~ initialized
    BY <2>2 DEF TInv, Covered, ReturnedOnce
  <2> QED BY <2>1, <2>2
<1> QED BY <1>1, TInvInvariant, PTL

(* An unlimited traversal, depth-first or breadth-first, returns exactly the  *)
(* atoms reachable from its start, for every graph and every order in which   *)
(* the generator lists neighbours.                                            *)
THEOREM ReturnsReachableHolds == TSpec => []ReturnsReachable
<1>1. TInv => ReturnsReachable
  <2> SUFFICES ASSUME TInv, Exhausted, MaxDistance = NoLimit
               PROVE  Visited = Reachable(V, edges, Start) \ {Start}
    BY DEF ReturnsReachable
  <2>1. Pending = {}
    BY DEF Exhausted, Pending
  <2>2. examined = {Start} \cup Visited /\ examined \subseteq V /\ edges \subseteq V \X V
    BY <2>1 DEF TInv, Covered, Reached, Exhausted
  <2>3. Reachable(V, edges, Start) \subseteq examined
    BY <2>2, ReachableLeast DEF TInv, Covered, Exhausted
  <2>4. Start \notin Visited
    BY EntriesDiffer DEF Exhausted, Visited
  <2> QED BY <2>2, <2>3, <2>4 DEF TInv, Covered, Exhausted
<1> QED BY <1>1, TInvInvariant, PTL

-----------------------------------------------------------------------------
(* Balls.  A recursive function on an interval is what its definition says:   *)
(* by the least interval on which it would not be.                            *)

(* The vertices met in one more step.                                         *)
Wider(E, B) == B \cup {w \in V : \E u \in B : <<u, w>> \in E}
Grows(E, v, d, B) == B = [k \in 0..d |-> IF k = 0 THEN {v} ELSE Wider(E, B[k-1])]

LEMMA GrowsExists ==
    ASSUME NEW E, NEW v, NEW d \in Nat PROVE \E B : Grows(E, v, d, B)
<1> DEFINE T == {c \in Nat : ~ \E B : Grows(E, v, c, B)}
<1> SUFFICES ASSUME T # {} PROVE FALSE
  OBVIOUS
<1>1. PICK c \in T : \A y \in T : c <= y
  BY LeastElement
<1>2. c \in Nat /\ ~ \E B : Grows(E, v, c, B)
  OBVIOUS
<1>3. CASE c = 0
  <2>1. PICK B : B = [k \in 0..0 |-> {v}]
    OBVIOUS
  <2>2. B = [k \in 0..0 |-> IF k = 0 THEN {v} ELSE Wider(E, B[k-1])]
    BY <2>1
  <2> QED BY <1>2, <1>3, <2>2 DEF Grows
<1>4. CASE c # 0
  <2>1. c - 1 \in Nat /\ ~(c <= c - 1)
    BY <1>2, <1>4
  <2>2. PICK B : Grows(E, v, c - 1, B)
    BY <1>1, <2>1
  <2>3. PICK G : G = [k \in 0..c |-> IF k = c THEN Wider(E, B[c-1]) ELSE B[k]]
    OBVIOUS
  <2>4. ASSUME NEW k \in 0..c
        PROVE  G[k] = IF k = 0 THEN {v} ELSE Wider(E, G[k-1])
    <3>1. CASE k = c
      <4>1. G[k] = Wider(E, B[c-1]) /\ c - 1 \in 0..c /\ c - 1 # c /\ k - 1 = c - 1
        BY <1>2, <1>4, <2>3, <3>1
      <4>2. G[k-1] = B[c-1]
        BY <2>3, <4>1
      <4> QED BY <1>4, <3>1, <4>1, <4>2
    <3>2. CASE k # c
      <4>1. k \in 0..(c - 1) /\ G[k] = B[k]
        BY <1>2, <2>3, <3>2
      <4>2. B[k] = IF k = 0 THEN {v} ELSE Wider(E, B[k-1])
        BY <2>2, <4>1 DEF Grows
      <4>3. k # 0 => k - 1 \in 0..c /\ k - 1 # c
        BY <1>2, <3>2
      <4>4. k # 0 => G[k-1] = B[k-1]
        BY <2>3, <4>3
      <4> QED BY <4>1, <4>2, <4>4
    <3> QED BY <3>1, <3>2
  <2>5. Grows(E, v, c, G)
    BY <2>3, <2>4 DEF Grows
  <2> QED BY <1>2, <2>5
<1> QED BY <1>3, <1>4

(* Two such functions agree where both are defined.                           *)
LEMMA GrowsAgrees ==
    ASSUME NEW E, NEW v, NEW c \in Nat, NEW d \in Nat, NEW B, NEW D,
           Grows(E, v, c, B), Grows(E, v, d, D), NEW n \in Nat, n <= c, n <= d
    PROVE  B[n] = D[n]
<1> DEFINE T == {k \in Nat : k <= c /\ k <= d /\ B[k] # D[k]}
<1> SUFFICES ASSUME T # {} PROVE FALSE
  OBVIOUS
<1>1. PICK k \in T : \A y \in T : k <= y
  BY LeastElement
<1>2. k \in Nat /\ k <= c /\ k <= d /\ B[k] # D[k] /\ k \in 0..c /\ k \in 0..d
  OBVIOUS
<1>3. /\ B[k] = IF k = 0 THEN {v} ELSE Wider(E, B[k-1])
      /\ D[k] = IF k = 0 THEN {v} ELSE Wider(E, D[k-1])
  BY <1>2 DEF Grows
<1>4. k # 0
  BY <1>2, <1>3
<1>5. k - 1 \in Nat /\ k - 1 <= c /\ k - 1 <= d /\ ~(k <= k - 1)
  BY <1>2, <1>4
<1>6. B[k-1] = D[k-1]
  BY <1>1, <1>5
<1> QED BY <1>2, <1>3, <1>4, <1>6

(* Ball is defined by such a function.                                        *)
LEMMA BallIs ==
    ASSUME NEW E, NEW v, NEW d \in Nat
    PROVE  \E B : Grows(E, v, d, B) /\ Ball(V, E, v, d) = B[d]
<1>1. PICK F : F = CHOOSE f : f = [k \in 0..d |-> IF k = 0 THEN {v} ELSE f[k-1] \cup {w \in V : \E u \in f[k-1] : <<u, w>> \in E}]
  OBVIOUS
<1>2. Ball(V, E, v, d) = F[d]
  BY <1>1 DEF Ball
<1>3. F = CHOOSE f : Grows(E, v, d, f)
  BY <1>1 DEF Grows, Wider
<1>4. Grows(E, v, d, F)
  BY <1>3, GrowsExists
<1> QED BY <1>2, <1>4

(* Each step widens the ball, and the ball of radius zero is the start.       *)
LEMMA BallWidens ==
    ASSUME NEW E, NEW v, NEW d \in Nat
    PROVE  Ball(V, E, v, d + 1) = Wider(E, Ball(V, E, v, d))
<1>1. d + 1 \in Nat
  OBVIOUS
<1>2. PICK B : Grows(E, v, d, B) /\ Ball(V, E, v, d) = B[d]
  BY BallIs
<1>3. PICK D : Grows(E, v, d + 1, D) /\ Ball(V, E, v, d + 1) = D[d + 1]
  BY <1>1, BallIs
<1>4. D[d + 1] = Wider(E, D[d])
  <2>1. d + 1 \in 0..(d + 1) /\ d + 1 # 0 /\ (d + 1) - 1 = d
    OBVIOUS
  <2> QED BY <1>3, <2>1 DEF Grows
<1>5. D[d] = B[d]
  BY <1>1, <1>2, <1>3, GrowsAgrees
<1> QED BY <1>2, <1>3, <1>4, <1>5

LEMMA BallSteps ==
    ASSUME NEW E, NEW v
    PROVE  /\ Ball(V, E, v, 0) = {v}
           /\ \A d \in Nat : Ball(V, E, v, d + 1) = Wider(E, Ball(V, E, v, d))
<1>1. Ball(V, E, v, 0) = {v}
  <2>1. PICK B : Grows(E, v, 0, B) /\ Ball(V, E, v, 0) = B[0]
    BY BallIs
  <2> QED BY <2>1 DEF Grows
<1>2. ASSUME NEW d \in Nat PROVE Ball(V, E, v, d + 1) = Wider(E, Ball(V, E, v, d))
  BY BallWidens, Zenon
<1> QED BY <1>1, <1>2

(* Balls grow with the radius.                                                *)
LEMMA BallsNest ==
    ASSUME NEW E, NEW v, NEW c \in Nat, NEW d \in Nat, c <= d
    PROVE  Ball(V, E, v, c) \subseteq Ball(V, E, v, d)
<1> DEFINE T == {k \in Nat : c <= k /\ ~(Ball(V, E, v, c) \subseteq Ball(V, E, v, k))}
<1> SUFFICES ASSUME T # {} PROVE FALSE
  OBVIOUS
<1>1. PICK k \in T : \A y \in T : k <= y
  BY LeastElement
<1>2. k \in Nat /\ c <= k /\ ~(Ball(V, E, v, c) \subseteq Ball(V, E, v, k))
  OBVIOUS
<1>3. k # c
  BY <1>2
<1>4. k - 1 \in Nat /\ c <= k - 1 /\ ~(k <= k - 1) /\ (k - 1) + 1 = k
  BY <1>2, <1>3
<1>5. Ball(V, E, v, c) \subseteq Ball(V, E, v, k - 1)
  BY <1>1, <1>4
<1>6. Ball(V, E, v, k) = Wider(E, Ball(V, E, v, k - 1))
  BY <1>4, BallSteps
<1> QED BY <1>2, <1>5, <1>6 DEF Wider

-----------------------------------------------------------------------------
(* Breadth-first: what keeps the queue in the order of the distances.         *)
(* The atoms of a list of entries.                                            *)
Heads(s) == {s[i].h : i \in 1..Len(s)}

Near(d) == MaxDistance = NoLimit \/ d < MaxDistance

(* An entry holds the length of a shortest path to its atom, within the limit.*)
Measured(E, s) ==
    \A i \in 1..Len(s) :
        /\ s[i].distance \in Nat \ {0}
        /\ Near(s[i].distance - 1)
        /\ s[i].h \in Ball(V, E, Start, s[i].distance)
        /\ s[i].h \notin Ball(V, E, Start, s[i].distance - 1)

(* What is returned is no farther than what waits, and what waits is ordered  *)
(* by distance and spans two distances at most.                               *)
Queued(ret, te) ==
    /\ \A i, j \in 1..Len(ret) : i <= j => ret[i].distance <= ret[j].distance
    /\ \A i \in 1..Len(ret), j \in 1..Len(te) : ret[i].distance <= te[j].distance
    /\ \A i, j \in 1..Len(te) : i <= j => te[i].distance <= te[j].distance
    /\ \A i, j \in 1..Len(te) : te[j].distance <= te[i].distance + 1

(* The neighbours of an atom within the limit are marked when it is returned. *)
Spread(E, ret, seen) ==
    /\ Near(0) => Successors(E, Start) \subseteq seen
    /\ \A i \in 1..Len(ret) :
           Near(ret[i].distance) => Successors(E, ret[i].h) \subseteq seen

(* And all that is no farther than the head of the queue is marked.           *)
InLevels(E, ret, te, seen) ==
    /\ Measured(E, ret)
    /\ Measured(E, te)
    /\ Queued(ret, te)
    /\ Spread(E, ret, seen)
    /\ te # <<>> => Ball(V, E, Start, te[1].distance) \subseteq seen

BreadthInv ==
    ~ Stack /\ initialized => InLevels(edges, returned, to_explore, examined)

(* The fresh neighbours of the entry p.                                       *)
FreshOf(E, p, seen) ==
    IF Near(p.distance) THEN Successors(E, p.h) \ seen ELSE {}

LEMMA NearDown ==
    ASSUME NEW d \in Nat, NEW e \in Nat, e <= d, Near(d)
    PROVE  Near(e)
BY TraversalAssumption DEF Near

LEMMA SuccessorsAre ==
    ASSUME NEW E, E \subseteq V \X V, NEW u
    PROVE  \A w : w \in Successors(E, u) <=> <<u, w>> \in E
<1>1. ASSUME NEW w, w \in Successors(E, u) PROVE <<u, w>> \in E
  BY <1>1 DEF Successors
<1>2. ASSUME NEW w, <<u, w>> \in E PROVE w \in Successors(E, u)
  BY <1>2 DEF Successors
<1> QED BY <1>1, <1>2

(* When all that waits is farther than d, the atoms within d have been        *)
(* returned, and their neighbours are marked.                                 *)
LEMMA NextLevel ==
    ASSUME NEW E, E \subseteq V \X V, NEW ret \in Seq(Entry), NEW te \in Seq(Entry),
           NEW seen, seen = {Start} \cup Heads(ret) \cup Heads(te),
           Measured(E, ret), Measured(E, te), Spread(E, ret, seen),
           NEW d \in Nat, Near(d), Ball(V, E, Start, d) \subseteq seen,
           \A i \in 1..Len(te) : d < te[i].distance
    PROVE  Ball(V, E, Start, d + 1) \subseteq seen
<1> SUFFICES ASSUME NEW w \in Ball(V, E, Start, d + 1) PROVE w \in seen
  OBVIOUS
<1>1. w \in Wider(E, Ball(V, E, Start, d))
  <2>1. Ball(V, E, Start, d + 1) = Wider(E, Ball(V, E, Start, d))
    BY BallWidens, Zenon
  <2> QED BY <2>1
<1>2. CASE w \in Ball(V, E, Start, d)
  BY <1>2
<1>3. ASSUME NEW u \in Ball(V, E, Start, d), <<u, w>> \in E PROVE w \in seen
  <2>1. w \in Successors(E, u)
    BY <1>3, SuccessorsAre
  <2>2. CASE u = Start
    <3>1. Near(0)
      BY NearDown
    <3> QED BY <2>1, <2>2, <3>1 DEF Spread
  <2>3. ASSUME NEW i \in 1..Len(te), u = te[i].h PROVE FALSE
    <3>1. /\ te[i].distance \in Nat \ {0} /\ d < te[i].distance
          /\ u \notin Ball(V, E, Start, te[i].distance - 1)
      BY <2>3 DEF Measured
    <3>2. te[i].distance - 1 \in Nat /\ d <= te[i].distance - 1
      BY <3>1
    <3> QED BY <3>1, <3>2, BallsNest
  <2>4. ASSUME NEW i \in 1..Len(ret), u = ret[i].h PROVE w \in seen
    <3>1. /\ ret[i].distance \in Nat \ {0}
          /\ u \notin Ball(V, E, Start, ret[i].distance - 1)
      BY <2>4 DEF Measured
    <3>2. ret[i].distance - 1 \in Nat
      BY <3>1
    <3>3. ~(d <= ret[i].distance - 1)
      BY <3>1, <3>2, BallsNest
    <3>4. ret[i].distance <= d
      BY <3>1, <3>3
    <3>5. Near(ret[i].distance)
      BY <3>1, <3>4, NearDown
    <3> QED BY <2>1, <2>4, <3>5 DEF Spread
  <2> QED BY <2>2, <2>3, <2>4 DEF Heads
<1> QED BY <1>1, <1>2, <1>3 DEF Wider

LEMMA LengthOf ==
    ASSUME NEW s \in Seq(Entry)
    PROVE  /\ \E k \in Nat : k = Len(s)
           /\ s # <<>> => \E k \in Nat : k = Len(s) /\ k >= 1
OBVIOUS

LEMMA TwoLevels ==
    ASSUME NEW d \in Nat, NEW a \in d..(d + 1)
    PROVE  /\ a = d \/ a = d + 1
           /\ \A b \in Nat : b <= d => b <= a
           /\ \A b \in d..(d + 1) : b <= a + 1
OBVIOUS

(* Removing the head of the queue and appending its fresh neighbours, F.      *)
Dequeued(E, ret, te, seen, ret2, te2, seen2, F) ==
    /\ te # <<>>
    /\ ret2 = Append(ret, te[1])
    /\ F = FreshOf(E, te[1], seen)
    /\ seen2 = seen \cup F
    /\ seen2 = {Start} \cup Heads(ret2) \cup Heads(te2)
    /\ Len(te2) >= Len(te) - 1
    /\ Appended(te2, Tail(te), F, te[1].distance + 1)

LEMMA BreadthStep ==
    ASSUME NEW E, E \subseteq V \X V, NEW seen, NEW seen2, NEW F,
           NEW ret \in Seq(Entry), NEW te \in Seq(Entry),
           NEW ret2 \in Seq(Entry), NEW te2 \in Seq(Entry),
           InLevels(E, ret, te, seen), Dequeued(E, ret, te, seen, ret2, te2, seen2, F)
    PROVE  InLevels(E, ret2, te2, seen2)
<1>b. /\ te # <<>> /\ ret2 = Append(ret, te[1])
      /\ F = FreshOf(E, te[1], seen) /\ seen2 = seen \cup F
      /\ seen2 = {Start} \cup Heads(ret2) \cup Heads(te2)
      /\ Len(te2) >= Len(te) - 1
      /\ Appended(te2, Tail(te), F, te[1].distance + 1)
  BY DEF Dequeued
<1>a. /\ Measured(E, ret) /\ Measured(E, te) /\ Queued(ret, te) /\ Spread(E, ret, seen)
      /\ Ball(V, E, Start, te[1].distance) \subseteq seen
  BY <1>b DEF InLevels
<1>1. PICK k \in Nat : k = Len(te) /\ k >= 1
  BY <1>b, LengthOf, Zenon
<1>2. PICK m \in Nat : m = Len(ret)
  BY LengthOf, Zenon
<1>3. PICK n \in Nat : n = Len(te2)
  BY LengthOf, Zenon
<1>4. PICK p : p = te[1]
  OBVIOUS
<1>5. PICK d \in Nat : d = p.distance /\ d >= 1
  BY <1>b, <1>a, <1>1, <1>4 DEF Measured
<1>6. /\ Len(ret2) = m + 1 /\ ret2[m + 1] = p
      /\ \A i \in 1..m : ret2[i] = ret[i]
  BY <1>b, <1>1, <1>2, <1>4
<1>7. ASSUME NEW i \in 1..(m + 1)
      PROVE  (i \in 1..m /\ ret2[i] = ret[i]) \/ (i = m + 1 /\ ret2[i] = p)
  BY <1>b, <1>2, <1>6
<1>8. ASSUME NEW i \in 1..n
      PROVE  \/ i < k /\ i + 1 \in 1..k /\ te2[i] = te[i + 1]
             \/ i >= k /\ te2[i].h \in F /\ te2[i].distance = d + 1
  <2>0. /\ Len(Tail(te)) = k - 1
        /\ \A l \in 1..(k - 1) : Tail(te)[l] = te[l + 1]
    BY <1>b, <1>1, HeadTailProperties
  <2>1. CASE i < k
    BY <1>b, <1>1, <1>3, <2>0, <2>1 DEF Appended
  <2>2. CASE ~(i < k)
    BY <1>b, <1>1, <1>3, <1>4, <1>5, <2>0, <2>2 DEF Appended
  <2> QED BY <2>1, <2>2
<1>9. /\ \A i \in 1..m : ret[i].distance \in Nat \ {0}
      /\ \A i \in 1..k : te[i].distance \in Nat \ {0}
  BY <1>b, <1>a, <1>1, <1>2 DEF Measured
<1>10. /\ \A i, j \in 1..m : i <= j => ret[i].distance <= ret[j].distance
       /\ \A i \in 1..m, j \in 1..k : ret[i].distance <= te[j].distance
       /\ \A i, j \in 1..k : i <= j => te[i].distance <= te[j].distance
       /\ \A i, j \in 1..k : te[j].distance <= te[i].distance + 1
  BY <1>b, <1>a, <1>1, <1>2 DEF Queued
<1>11. /\ 1 \in 1..k /\ \A i \in 1..m : ret[i].distance <= d
       /\ \A i \in 1..k : d <= te[i].distance /\ te[i].distance <= d + 1
  <2>1. 1 \in 1..k
    BY <1>b, <1>1
  <2> QED BY <1>b, <1>4, <1>5, <1>9, <1>10, <2>1
<1>12. Measured(E, ret2)
  <2> SUFFICES ASSUME NEW i \in 1..(m + 1)
               PROVE  /\ ret2[i].distance \in Nat \ {0}
                      /\ Near(ret2[i].distance - 1)
                      /\ ret2[i].h \in Ball(V, E, Start, ret2[i].distance)
                      /\ ret2[i].h \notin Ball(V, E, Start, ret2[i].distance - 1)
    BY <1>b, <1>6 DEF Measured
  <2>1. CASE i \in 1..m /\ ret2[i] = ret[i]
    BY <1>b, <1>a, <1>2, <2>1 DEF Measured
  <2>2. CASE ret2[i] = p
    BY <1>b, <1>a, <1>1, <1>4, <1>11, <2>2 DEF Measured
  <2> QED BY <1>b, <1>7, <2>1, <2>2
<1>13. F # {} => Near(d)
  BY <1>b, <1>4, <1>5 DEF FreshOf
<1>14. Measured(E, te2)
  <2> SUFFICES ASSUME NEW i \in 1..n
               PROVE  /\ te2[i].distance \in Nat \ {0}
                      /\ Near(te2[i].distance - 1)
                      /\ te2[i].h \in Ball(V, E, Start, te2[i].distance)
                      /\ te2[i].h \notin Ball(V, E, Start, te2[i].distance - 1)
    BY <1>b, <1>3 DEF Measured
  <2>1. CASE i + 1 \in 1..k /\ te2[i] = te[i + 1]
    BY <1>b, <1>a, <1>1, <2>1 DEF Measured
  <2>2. CASE te2[i].h \in F /\ te2[i].distance = d + 1
    <3>1. d + 1 \in Nat \ {0} /\ (d + 1) - 1 = d /\ Near(d)
      <4>1. Near(d)
        BY <1>b, <1>13, <2>2
      <4> QED BY <4>1
    <3>2. p.h \in Ball(V, E, Start, d)
      BY <1>b, <1>a, <1>1, <1>4, <1>5, <1>11 DEF Measured
    <3>3. te2[i].h \in Successors(E, p.h) /\ te2[i].h \notin seen
      BY <1>b, <1>4, <2>2 DEF FreshOf
    <3>4. <<p.h, te2[i].h>> \in E
      BY <3>3, SuccessorsAre
    <3>5. te2[i].h \in Wider(E, Ball(V, E, Start, d))
      BY <3>2, <3>4 DEF Wider
    <3>6. te2[i].h \in Ball(V, E, Start, d + 1)
      <4>1. Ball(V, E, Start, d + 1) = Wider(E, Ball(V, E, Start, d))
        BY BallWidens, Zenon
      <4> QED BY <3>5, <4>1
    <3>7. te2[i].h \notin Ball(V, E, Start, d)
      BY <1>b, <1>a, <1>4, <1>5, <3>3
    <3> QED BY <2>2, <3>1, <3>6, <3>7
  <2> QED BY <1>b, <1>8, <2>1, <2>2
<1>15. ASSUME NEW i \in 1..n PROVE te2[i].distance \in d..(d + 1)
  <2>1. CASE i + 1 \in 1..k /\ te2[i] = te[i + 1]
    BY <1>b, <1>5, <1>9, <1>11, <2>1
  <2>2. CASE te2[i].distance = d + 1
    BY <1>b, <1>5, <2>2
  <2> QED BY <1>b, <1>8, <2>1, <2>2
<1>16. ASSUME NEW i \in 1..n, NEW j \in 1..n, i <= j
       PROVE  te2[i].distance <= te2[j].distance
  <2>1. CASE te2[j].distance = d + 1
    BY <1>b, <1>5, <1>15, <2>1
  <2>2. CASE j < k /\ j + 1 \in 1..k /\ te2[j] = te[j + 1]
    <3>1. ~(i >= k) /\ i + 1 <= j + 1
      BY <1>b, <1>1, <1>16, <2>2
    <3>2. i + 1 \in 1..k /\ te2[i] = te[i + 1]
      BY <1>b, <1>8, <3>1
    <3> QED BY <1>b, <1>10, <2>2, <3>1, <3>2
  <2> QED BY <1>b, <1>8, <2>1, <2>2
<1>17. ASSUME NEW i \in 1..(m + 1) PROVE ret2[i].distance \in Nat /\ ret2[i].distance <= d
  <2>1. CASE i \in 1..m /\ ret2[i] = ret[i]
    BY <1>b, <1>9, <1>11, <2>1
  <2>2. CASE ret2[i] = p
    BY <1>b, <1>5, <2>2
  <2> QED BY <1>b, <1>7, <2>1, <2>2
<1>18. Queued(ret2, te2)
  <2>1. ASSUME NEW i \in 1..(m + 1), NEW j \in 1..(m + 1), i <= j
        PROVE  ret2[i].distance <= ret2[j].distance
    <3>1. CASE j \in 1..m /\ ret2[j] = ret[j]
      <4>1. i \in 1..m /\ ret2[i] = ret[i]
        BY <1>b, <1>2, <1>6, <2>1, <3>1
      <4> QED BY <1>b, <1>10, <2>1, <3>1, <4>1
    <3>2. CASE ret2[j] = p
      BY <1>b, <1>5, <1>17, <3>2
    <3> QED BY <1>b, <1>7, <3>1, <3>2
  <2>2. ASSUME NEW i \in 1..(m + 1), NEW j \in 1..n
        PROVE  ret2[i].distance <= te2[j].distance
    <3>1. ret2[i].distance \in Nat /\ ret2[i].distance <= d
      BY <1>b, <1>17
    <3>2. te2[j].distance \in d..(d + 1)
      BY <1>b, <1>15
    <3> QED BY <3>1, <3>2, TwoLevels, Zenon
  <2>3. ASSUME NEW i \in 1..n, NEW j \in 1..n
        PROVE  te2[j].distance <= te2[i].distance + 1
    <3>1. te2[i].distance \in d..(d + 1)
      BY <1>b, <1>15
    <3>2. te2[j].distance \in d..(d + 1)
      BY <1>b, <1>15
    <3> QED BY <3>1, <3>2, TwoLevels, Zenon
  <2> QED BY <1>b, <1>3, <1>6, <1>16, <2>1, <2>2, <2>3 DEF Queued
<1>19. Spread(E, ret2, seen2)
  <2>1. Near(0) => Successors(E, Start) \subseteq seen
    BY <1>b, <1>a DEF Spread
  <2>2. ASSUME NEW i \in 1..(m + 1), Near(ret2[i].distance)
        PROVE  Successors(E, ret2[i].h) \subseteq seen2
    <3>1. CASE i \in 1..m /\ ret2[i] = ret[i]
      BY <1>b, <1>a, <1>2, <2>2, <3>1 DEF Spread
    <3>2. CASE ret2[i] = p
      BY <1>b, <1>4, <2>2, <3>2 DEF FreshOf
    <3> QED BY <1>b, <1>7, <3>1, <3>2
  <2> QED BY <1>b, <1>6, <2>1, <2>2 DEF Spread
<1>20. ASSUME te2 # <<>> PROVE Ball(V, E, Start, te2[1].distance) \subseteq seen2
  <2>1. 1 \in 1..n
    BY <1>b, <1>3, <1>20
  <2>2. CASE te2[1].distance = d
    BY <1>b, <1>a, <1>4, <1>5, <2>2
  <2>3. CASE te2[1].distance = d + 1
    <3>1. \A i \in 1..n : d < te2[i].distance
      BY <1>b, <1>5, <1>15, <1>16, <2>1, <2>3
    <3>2. Near(d)
      <4>1. Near(te2[1].distance - 1)
        BY <1>b, <1>3, <1>14, <2>1 DEF Measured
      <4>2. (d + 1) - 1 = d
        BY <1>b, <1>5
      <4> QED BY <2>3, <4>1, <4>2
    <3>3. Ball(V, E, Start, d) \subseteq seen2
      BY <1>b, <1>a, <1>4, <1>5
    <3>4. Ball(V, E, Start, d + 1) \subseteq seen2
      BY <1>b, <1>3, <1>5, <1>12, <1>14, <1>19, <3>1, <3>2, <3>3, NextLevel
    <3> QED BY <2>3, <3>4
  <2>4. te2[1].distance \in d..(d + 1)
    BY <1>b, <1>15, <2>1
  <2>5. te2[1].distance = d \/ te2[1].distance = d + 1
    BY <2>4, TwoLevels, Zenon
  <2> QED BY <2>2, <2>3, <2>5
<1> QED BY <1>b, <1>12, <1>14, <1>18, <1>19, <1>20 DEF InLevels

LEMMA BreadthInvInit == TInit => BreadthInv
BY DEF TInit, BreadthInv

LEMMA BreadthInvStep == TInv /\ TInv' /\ BreadthInv /\ [TNext]_tvars => BreadthInv'
<1> SUFFICES ASSUME TInv, TInv', BreadthInv, [TNext]_tvars, ~ Stack, initialized'
             PROVE  InLevels(edges', returned', to_explore', examined')
  BY DEF BreadthInv
<1> USE TraversalAssumption
<1>0. edges \subseteq V \X V
  BY DEF TInv, Reached
<1>1. CASE init
  <2> DEFINE F == Fresh(Start, 0, {Start})
  <2>1. /\ edges' = edges /\ returned' = <<>> /\ advance(Start, 0, <<>>, {Start})
    BY <1>1 DEF init, TInv, Covered
  <2>2. PICK none : none = <<>> /\ none \in Seq(Entry)
    BY EmptySeq
  <2>3. PICK zero \in Nat : zero = 0
    OBVIOUS
  <2>4. advance(Start, zero, none, {Start}) /\ {Start} \in SUBSET V
    BY <2>1, <2>2, <2>3
  <2>5. /\ examined' = {Start} \cup Fresh(Start, zero, {Start})
        /\ Appended(to_explore', none, Fresh(Start, zero, {Start}), zero + 1)
    BY <1>0, <2>2, <2>4, AdvanceAppends
  <2>6. PICK te : te = to_explore' /\ te \in Seq(Entry)
    BY DEF TInv, Reached
  <2>7. PICK n \in Nat : n = Len(te)
    BY <2>6, LengthOf, Zenon
  <2>8. /\ examined' = {Start} \cup F
        /\ \A i \in 1..n : te[i].h \in F /\ te[i].distance = 1
    <3>1. Appended(te, <<>>, F, 0 + 1)
      BY <2>2, <2>3, <2>5, <2>6
    <3>2. Len(<<>>) = 0
      OBVIOUS
    <3> HIDE DEF F
    <3>3. \A i \in 1..n : te[i].h \in F /\ te[i].distance = 1
      BY <2>7, <3>1, <3>2 DEF Appended
    <3> QED BY <2>3, <2>5, <3>3 DEF F
  <2>9. F = IF Near(0) THEN Successors(edges, Start) \ {Start} ELSE {}
    BY DEF Fresh, Near
  <2> HIDE DEF F
  <2>10. Ball(V, edges, Start, 0) = {Start} /\ Ball(V, edges, Start, 1) = Wider(edges, {Start})
    <3>1. \A d \in Nat : Ball(V, edges, Start, d + 1) = Wider(edges, Ball(V, edges, Start, d))
      BY BallSteps
    <3>2. Ball(V, edges, Start, 0) = {Start}
      BY BallSteps
    <3>3. 0 \in Nat /\ 0 + 1 = 1
      OBVIOUS
    <3> QED BY <3>1, <3>2, <3>3
  <2>11. Measured(edges, te)
    <3> SUFFICES ASSUME NEW i \in 1..n
                 PROVE  /\ te[i].distance \in Nat \ {0}
                        /\ Near(te[i].distance - 1)
                        /\ te[i].h \in Ball(V, edges, Start, te[i].distance)
                        /\ te[i].h \notin Ball(V, edges, Start, te[i].distance - 1)
      BY <2>7 DEF Measured
    <3>1. te[i].distance = 1 /\ te[i].distance - 1 = 0 /\ te[i].h \in F
      BY <2>8
    <3>2. Near(0) /\ te[i].h \in Successors(edges, Start) /\ te[i].h # Start
      BY <2>9, <3>1
    <3>3. <<Start, te[i].h>> \in edges
      BY <1>0, <3>2, SuccessorsAre
    <3> QED BY <1>0, <2>10, <3>1, <3>2, <3>3 DEF Wider
  <2>12. Measured(edges, <<>>) /\ Queued(<<>>, te)
    BY <2>7, <2>8 DEF Measured, Queued
  <2>13. Spread(edges, <<>>, examined')
    BY <2>8, <2>9 DEF Spread
  <2>14. ASSUME te # <<>> PROVE Ball(V, edges, Start, te[1].distance) \subseteq examined'
    <3>1. 1 \in 1..n
      BY <2>6, <2>7, <2>14
    <3>2. te[1].distance = 1 /\ Near(0)
      BY <2>8, <2>9, <3>1
    <3>3. Wider(edges, {Start}) \subseteq {Start} \cup Successors(edges, Start)
      BY <1>0, SuccessorsAre DEF Wider
    <3> QED BY <2>8, <2>9, <2>10, <3>2, <3>3
  <2> QED BY <2>1, <2>6, <2>11, <2>12, <2>13, <2>14 DEF InLevels
<1>2. CASE next
  <2>1. /\ edges' = edges /\ initialized = TRUE /\ to_explore # <<>>
        /\ returned' = Append(returned, Take[1])
        /\ advance(Take[1].h, Take[1].distance, Take[2], examined)
    BY <1>2 DEF next, TInv, Reached
  <2>2. PICK p, rest : p = Take[1] /\ rest = Take[2]
    OBVIOUS
  <2>3. /\ p \in Entry /\ rest \in Seq(Entry)
        /\ Len(to_explore) = Len(rest) + 1
        /\ p = to_explore[1]
        /\ rest = Tail(to_explore)
    BY <2>1, <2>2, TakeSplits DEF TInv, Reached, Take
  <2>4. p.h \in V /\ p.distance \in Nat /\ examined \in SUBSET V
    BY <2>3 DEF Entry, TInv, Reached
  <2>5. PICK F : F = Fresh(p.h, p.distance, examined)
    OBVIOUS
  <2>6. /\ examined' = examined \cup F
        /\ Len(to_explore') >= Len(rest)
        /\ Appended(to_explore', rest, F, p.distance + 1)
    <3>1. PICK x \in V, d \in Nat : x = p.h /\ d = p.distance
      BY <2>4
    <3>2. advance(x, d, rest, examined) /\ F = Fresh(x, d, examined)
      BY <2>1, <2>2, <2>5, <3>1
    <3>3. /\ examined' = examined \cup F
          /\ Len(to_explore') >= Len(rest)
          /\ Appended(to_explore', rest, F, d + 1)
      BY <1>0, <2>3, <2>4, <3>2, AdvanceAppends
    <3> QED BY <3>1, <3>3
  <2>7. F = FreshOf(edges, p, examined)
    BY <2>4, <2>5 DEF Fresh, FreshOf, Near
  <2>8. PICK te, te2, ret2, seen2 :
            te = to_explore /\ te2 = to_explore' /\ ret2 = returned' /\ seen2 = examined'
    OBVIOUS
  <2>9. Len(te2) >= Len(te) - 1
    <3>1. PICK r \in Nat : r = Len(rest)
      BY <2>3, LengthOf, Zenon
    <3> QED BY <2>3, <2>6, <2>8, <3>1
  <2>10. Appended(te2, Tail(te), F, te[1].distance + 1)
    BY <2>3, <2>6, <2>8
  <2>11. InLevels(edges, returned, te, examined)
    BY <2>1, <2>8 DEF BreadthInv
  <2>12. /\ returned \in Seq(Entry) /\ te \in Seq(Entry) /\ ret2 \in Seq(Entry)
         /\ te2 \in Seq(Entry) /\ te # <<>> /\ ret2 = Append(returned, te[1])
    BY <2>1, <2>2, <2>3, <2>8 DEF TInv, Reached
  <2>13. seen2 = {Start} \cup Heads(ret2) \cup Heads(te2) /\ seen2 = examined \cup F
    <3>1. examined' = {Start} \cup Visited' \cup Pending'
      BY DEF TInv, Covered
    <3>2. Visited' = Heads(ret2) /\ Pending' = Heads(te2)
      BY <2>8 DEF Visited, Pending, Heads
    <3> QED BY <2>6, <2>8, <3>1, <3>2
  <2>14. F = FreshOf(edges, te[1], examined)
    BY <2>3, <2>7, <2>8
  <2>15. InLevels(edges, ret2, te2, seen2)
    <3>1. Dequeued(edges, returned, te, examined, ret2, te2, seen2, F)
      BY <2>9, <2>10, <2>12, <2>13, <2>14 DEF Dequeued
    <3>2. /\ returned \in Seq(Entry) /\ te \in Seq(Entry)
          /\ ret2 \in Seq(Entry) /\ te2 \in Seq(Entry)
      BY <2>12
    <3> QED BY ONLY <1>0, <2>11, <3>1, <3>2, BreadthStep, Zenon
  <2> QED BY <2>1, <2>8, <2>15
<1>3. CASE UNCHANGED tvars
  BY <1>3 DEF tvars, BreadthInv
<1> QED BY <1>1, <1>2, <1>3 DEF TNext

LEMMA BreadthInvariant == TSpec => [](TInv /\ BreadthInv)
BY TInvInit, TInvStep, BreadthInvInit, BreadthInvStep, PTL DEF TSpec

(* A breadth-first traversal returns near atoms before far ones, each with    *)
(* the length of a shortest path to it, for every graph and every limit.      *)
THEOREM NearestFirstHolds == TSpec => []NearestFirst
<1>1. TInv /\ BreadthInv => NearestFirst
  <2> SUFFICES ASSUME TInv, BreadthInv, ~ Stack, NEW i \in 1..Len(returned)
               PROVE  /\ returned[i].h \in Ball(V, edges, Start, returned[i].distance)
                      /\ returned[i].h \notin Ball(V, edges, Start, returned[i].distance - 1)
                      /\ \A j \in 1..i : returned[j].distance <= returned[i].distance
    BY DEF NearestFirst
  <2>1. PICK m \in Nat : m = Len(returned)
    BY LengthOf DEF TInv, Reached
  <2>2. initialized
    <3> SUFFICES ASSUME ~ initialized PROVE FALSE
      BY DEF TInv, Reached
    <3>1. Len(returned) = 0
      BY DEF TInv, Covered
    <3> QED BY <3>1
  <2>3. InLevels(edges, returned, to_explore, examined)
    BY <2>2 DEF BreadthInv
  <2>4. Measured(edges, returned) /\ Queued(returned, to_explore)
    BY <2>3 DEF InLevels
  <2>5. /\ returned[i].h \in Ball(V, edges, Start, returned[i].distance)
        /\ returned[i].h \notin Ball(V, edges, Start, returned[i].distance - 1)
    BY <2>4 DEF Measured
  <2>6. ASSUME NEW j \in 1..i PROVE returned[j].distance <= returned[i].distance
    <3>1. j \in 1..Len(returned) /\ j <= i
      BY <2>1
    <3> QED BY <2>4, <3>1 DEF Queued
  <2> QED BY <2>5, <2>6
<1> QED BY <1>1, BreadthInvariant, PTL

(* The atoms within the limit are marked when nothing waits any more.         *)
LEMMA LevelsFill ==
    ASSUME NEW E, E \subseteq V \X V, NEW ret \in Seq(Entry), NEW seen,
           seen = {Start} \cup Heads(ret), InLevels(E, ret, <<>>, seen),
           NEW c \in Nat, MaxDistance \in Nat, c <= MaxDistance
    PROVE  Ball(V, E, Start, c) \subseteq seen
<1> DEFINE T == {k \in Nat : k <= MaxDistance /\ ~(Ball(V, E, Start, k) \subseteq seen)}
<1> SUFFICES ASSUME T # {} PROVE FALSE
  OBVIOUS
<1>1. PICK k \in T : \A y \in T : k <= y
  BY LeastElement
<1>2. k \in Nat /\ k <= MaxDistance /\ ~(Ball(V, E, Start, k) \subseteq seen)
  OBVIOUS
<1>3. k # 0
  BY <1>2, BallSteps
<1>4. PICK d \in Nat : d + 1 = k /\ d < MaxDistance /\ d <= MaxDistance /\ ~(k <= d)
  <2>1. k - 1 \in Nat /\ (k - 1) + 1 = k
    BY <1>2, <1>3
  <2> QED BY <1>2, <2>1
<1>5. Ball(V, E, Start, d) \subseteq seen
  BY <1>1, <1>4
<1>6. Near(d)
  BY <1>4 DEF Near
<1>7. PICK none : none = <<>> /\ none \in Seq(Entry)
  BY EmptySeq
<1>8. Heads(none) = {} /\ \A i \in 1..Len(none) : d < none[i].distance
  BY <1>7 DEF Heads
<1>9. Measured(E, ret) /\ Measured(E, none) /\ Spread(E, ret, seen)
  BY <1>7 DEF InLevels
<1>10. seen = {Start} \cup Heads(ret) \cup Heads(none)
  BY <1>8
<1>11. Ball(V, E, Start, d + 1) \subseteq seen
  BY <1>5, <1>6, <1>7, <1>8, <1>9, <1>10, NextLevel
<1> QED BY <1>2, <1>4, <1>11

(* A breadth-first traversal with a limit returns the atoms within the limit  *)
(* and no others, although an atom's neighbours are cut off by the distance   *)
(* at which the atom was first met.                                           *)
THEOREM ReturnsBallHolds == TSpec => []ReturnsBall
<1>1. TInv /\ BreadthInv => ReturnsBall
  <2> SUFFICES ASSUME TInv, BreadthInv, Exhausted, MaxDistance # NoLimit
               PROVE  Visited = Ball(V, edges, Start, MaxDistance) \ {Start}
    BY DEF ReturnsBall
  <2>1. ~ Stack /\ MaxDistance \in Nat /\ initialized /\ to_explore = <<>>
    BY TraversalAssumption DEF Exhausted
  <2>2. edges \subseteq V \X V /\ returned \in Seq(Entry)
    BY DEF TInv, Reached
  <2>3. examined = {Start} \cup Heads(returned)
    BY <2>1 DEF TInv, Covered, Visited, Pending, Heads
  <2>4. InLevels(edges, returned, <<>>, examined)
    BY <2>1 DEF BreadthInv
  <2>5. Ball(V, edges, Start, MaxDistance) \subseteq examined
    BY <2>1, <2>2, <2>3, <2>4, LevelsFill
  <2>6. ASSUME NEW i \in 1..Len(returned)
        PROVE  returned[i].h \in Ball(V, edges, Start, MaxDistance)
    <3>1. /\ returned[i].distance \in Nat \ {0}
          /\ Near(returned[i].distance - 1)
          /\ returned[i].h \in Ball(V, edges, Start, returned[i].distance)
      BY <2>4 DEF InLevels, Measured
    <3>2. PICK d \in Nat : d = returned[i].distance
      BY <3>1
    <3>3. d <= MaxDistance
      BY <2>1, <3>1, <3>2 DEF Near
    <3>4. Ball(V, edges, Start, d) \subseteq Ball(V, edges, Start, MaxDistance)
      BY <2>1, <3>3, BallsNest
    <3> QED BY <3>1, <3>2, <3>4
  <2>7. Start \notin Visited
    BY <2>1, EntriesDiffer DEF Visited
  <2>8. Visited = Heads(returned)
    BY DEF Visited, Heads
  <2>9. Visited \subseteq Ball(V, edges, Start, MaxDistance)
    BY <2>6 DEF Visited
  <2> QED BY <2>3, <2>5, <2>7, <2>8, <2>9
<1> QED BY <1>1, BreadthInvariant, PTL

-----------------------------------------------------------------------------
(* Depth-first: what keeps the stack in groups.                               *)
(* The parts of DepthFirstOrders, for the atoms returned so far.              *)
At(s, i) == IF i = 0 THEN Start ELSE s[i].h
Met(E, s, i) == {Start} \cup UNION {Successors(E, At(s, j)) : j \in 0..i}
Pushed(E, s, i) == Successors(E, At(s, i)) \ Met(E, s, i - 1)
Popped(s, i) == {s[j].h : j \in 1..i}

(* The entry that follows the first i belongs to the newest group that is not *)
(* used up.                                                                   *)
Newest(E, s, i, x) ==
    \E j \in 0..i :
        /\ x \in Pushed(E, s, j) \ Popped(s, i)
        /\ \A m \in (j+1)..i : Pushed(E, s, m) \subseteq Popped(s, i)

(* What waits lies on the stack by groups, the newest on top; what is marked  *)
(* are the members of the groups; and what was returned was the newest.       *)
InGroups(E, ret, te, seen) ==
    /\ seen = Met(E, ret, Len(ret))
    /\ \A i \in 1..Len(te) : \E j \in 0..Len(ret) : te[i].h \in Pushed(E, ret, j)
    /\ \A i, k \in 1..Len(te), j, l \in 0..Len(ret) :
           i <= k /\ te[i].h \in Pushed(E, ret, j) /\ te[k].h \in Pushed(E, ret, l) => j <= l
    /\ \A i \in 0..(Len(ret) - 1) : Newest(E, ret, i, ret[i+1].h)

DepthInv ==
    Stack /\ initialized => InGroups(edges, returned, to_explore, examined)

(* Each group adds to the marks, and no atom is in two groups.                *)
LEMMA MetSteps ==
    ASSUME NEW E, NEW s, NEW i \in Nat
    PROVE  Met(E, s, i + 1) = Met(E, s, i) \cup Successors(E, At(s, i + 1))
<1>1. 0..(i + 1) = (0..i) \cup {i + 1}
  OBVIOUS
<1> QED BY <1>1 DEF Met

LEMMA GroupsApart ==
    ASSUME NEW E, NEW s, NEW i \in Nat, NEW j \in 0..i
    PROVE  /\ Pushed(E, s, j) \subseteq Met(E, s, i)
           /\ Start \notin Pushed(E, s, j)
           /\ Pushed(E, s, j) \cap Pushed(E, s, i + 1) = {}
<1>1. Successors(E, At(s, j)) \subseteq Met(E, s, i)
  BY DEF Met
<1>2. Pushed(E, s, j) \subseteq Met(E, s, i)
  BY <1>1 DEF Pushed
<1>3. (i + 1) - 1 = i
  OBVIOUS
<1>4. Pushed(E, s, i + 1) \cap Met(E, s, i) = {}
  BY <1>3 DEF Pushed
<1>5. Start \notin Pushed(E, s, j)
  BY DEF Pushed, Met
<1> QED BY <1>2, <1>4, <1>5

(* Another entry does not change the groups of those before it.               *)
LEMMA GroupsKept ==
    ASSUME NEW E, NEW ret, NEW ret2, NEW m \in Nat, \A j \in 1..m : ret2[j] = ret[j],
           NEW i \in 0..m
    PROVE  /\ Met(E, ret2, i) = Met(E, ret, i)
           /\ Pushed(E, ret2, i) = Pushed(E, ret, i)
           /\ Popped(ret2, i) = Popped(ret, i)
<1>1. \A j \in 1..m : ret2[j] = ret[j]
  OBVIOUS
<1>2. \A j \in 0..m : At(ret2, j) = At(ret, j)
  BY <1>1 DEF At
<1>3. \A j \in 0..i : j \in 0..m
  OBVIOUS
<1>4. \A j \in 0..(i - 1) : j \in 0..m
  OBVIOUS
<1>5. Met(E, ret2, i) = Met(E, ret, i)
  BY <1>2, <1>3 DEF Met
<1>6. Met(E, ret2, i - 1) = Met(E, ret, i - 1)
  BY <1>2, <1>4 DEF Met
<1>7. Pushed(E, ret2, i) = Pushed(E, ret, i)
  BY <1>2, <1>6 DEF Pushed
<1>8. Popped(ret2, i) = Popped(ret, i)
  <2>1. \A j \in 1..i : j \in 1..m
    OBVIOUS
  <2> QED BY <1>1, <2>1 DEF Popped
<1> QED BY <1>5, <1>7, <1>8

(* Popping the stack and pushing the fresh neighbours F of the entry popped.  *)
UnStacked(E, ret, te, seen, ret2, te2, F) ==
    /\ te # <<>>
    /\ ret2 = Append(ret, te[Len(te)])
    /\ F = Successors(E, te[Len(te)].h) \ seen
    /\ seen = {Start} \cup Heads(ret) \cup Heads(te)
    /\ te[Len(te)].h \notin Heads(ret)
    /\ \A i \in 1..(Len(te) - 1) : te2[i] = te[i]
    /\ \A i \in Len(te)..Len(te2) : te2[i].h \in F

LEMMA DepthStep ==
    ASSUME NEW E, E \subseteq V \X V, NEW seen, NEW F,
           NEW ret \in Seq(Entry), NEW te \in Seq(Entry),
           NEW ret2 \in Seq(Entry), NEW te2 \in Seq(Entry),
           InGroups(E, ret, te, seen), UnStacked(E, ret, te, seen, ret2, te2, F)
    PROVE  InGroups(E, ret2, te2, seen \cup F)
<1>1. PICK k \in Nat : k = Len(te) /\ k >= 1
  BY LengthOf DEF UnStacked
<1>2. PICK m \in Nat : m = Len(ret)
  BY LengthOf, Zenon
<1>3. PICK n \in Nat : n = Len(te2)
  BY LengthOf, Zenon
<1>4. PICK p : p = te[k] /\ p \in Entry
  <2>1. k \in 1..Len(te)
    BY <1>1
  <2> QED BY <2>1, ElementOfSeq
<1>5. /\ ret2 = Append(ret, p) /\ F = Successors(E, p.h) \ seen
      /\ seen = {Start} \cup Heads(ret) \cup Heads(te) /\ p.h \notin Heads(ret)
  BY <1>1, <1>4 DEF UnStacked
<1>6. /\ seen = Met(E, ret, m)
      /\ \A i \in 1..k : \E j \in 0..m : te[i].h \in Pushed(E, ret, j)
      /\ \A i, l \in 1..k, j, g \in 0..m :
             i <= l /\ te[i].h \in Pushed(E, ret, j) /\ te[l].h \in Pushed(E, ret, g) => j <= g
      /\ \A i \in 0..(m - 1) : Newest(E, ret, i, ret[i+1].h)
  BY <1>1, <1>2 DEF InGroups
<1>7. /\ Len(ret2) = m + 1 /\ ret2[m + 1] = p
      /\ \A i \in 1..m : ret2[i] = ret[i]
  BY <1>2, <1>4, <1>5
<1>8. ASSUME NEW i \in 0..m
      PROVE  /\ Met(E, ret2, i) = Met(E, ret, i)
             /\ Pushed(E, ret2, i) = Pushed(E, ret, i)
             /\ Popped(ret2, i) = Popped(ret, i)
  <2>1. \A j \in 1..m : ret2[j] = ret[j]
    BY <1>7
  <2> QED BY ONLY i \in 0..m, m \in Nat, <2>1, GroupsKept, Zenon
<1>9. At(ret2, m + 1) = p.h /\ m \in 0..m /\ (m + 1) - 1 = m
  BY <1>7 DEF At
<1>10. F = Pushed(E, ret2, m + 1)
  BY <1>5, <1>6, <1>8, <1>9 DEF Pushed
<1>11. seen \cup F = Met(E, ret2, m + 1)
  <2>1. Met(E, ret2, m + 1) = Met(E, ret2, m) \cup Successors(E, At(ret2, m + 1))
    BY MetSteps
  <2>2. Met(E, ret2, m) = seen
    BY <1>6, <1>8, <1>9
  <2> QED BY <1>5, <1>9, <2>1, <2>2
<1>12. ASSUME NEW i \in 1..n
       PROVE  (i < k /\ i \in 1..k /\ te2[i] = te[i]) \/ (i >= k /\ te2[i].h \in F)
  <2>1. CASE i < k
    BY <1>1, <1>3, <2>1 DEF UnStacked
  <2>2. CASE ~(i < k)
    BY <1>1, <1>3, <2>2 DEF UnStacked
  <2> QED BY <2>1, <2>2
<1>13. ASSUME NEW i \in 1..k, NEW j \in 0..(m + 1), te[i].h \in Pushed(E, ret2, j)
       PROVE  j \in 0..m /\ te[i].h \in Pushed(E, ret, j)
  <2>1. PICK g \in 0..m : te[i].h \in Pushed(E, ret, g)
    BY <1>6
  <2>2. te[i].h \in seen
    BY <1>6, <2>1, GroupsApart
  <2>3. j # m + 1
    BY <1>5, <1>10, <1>13, <2>2
  <2>4. j \in 0..m
    BY <2>3
  <2> QED BY <1>8, <1>13, <2>4
<1>14. ASSUME NEW x \in F, NEW j \in 0..(m + 1), x \in Pushed(E, ret2, j)
       PROVE  j = m + 1
  <2> SUFFICES ASSUME j # m + 1 PROVE FALSE
    OBVIOUS
  <2>1. j \in 0..m
    OBVIOUS
  <2> QED BY <1>10, <1>14, <2>1, GroupsApart
<1>15. ASSUME NEW i \in 1..n
       PROVE  \E j \in 0..(m + 1) : te2[i].h \in Pushed(E, ret2, j)
  <2>1. CASE i \in 1..k /\ te2[i] = te[i]
    <3>1. PICK j \in 0..m : te[i].h \in Pushed(E, ret, j)
      BY <1>6, <2>1
    <3>2. j \in 0..(m + 1) /\ te2[i].h \in Pushed(E, ret2, j)
      BY <1>8, <2>1, <3>1
    <3> QED BY <3>2
  <2>2. CASE te2[i].h \in F
    <3>1. m + 1 \in 0..(m + 1)
      OBVIOUS
    <3> QED BY <1>10, <2>2, <3>1
  <2> QED BY <1>12, <2>1, <2>2
<1>16. ASSUME NEW i \in 1..n, NEW l \in 1..n, NEW j \in 0..(m + 1), NEW g \in 0..(m + 1),
              i <= l, te2[i].h \in Pushed(E, ret2, j), te2[l].h \in Pushed(E, ret2, g)
       PROVE  j <= g
  <2>1. CASE te2[l].h \in F
    <3>1. g = m + 1
      BY <1>14, <1>16, <2>1
    <3> QED BY <3>1
  <2>2. CASE l < k /\ l \in 1..k /\ te2[l] = te[l]
    <3>1. i \in 1..k /\ te2[i] = te[i]
      <4>1. ~(i >= k)
        BY <1>16, <2>2
      <4> QED BY <1>12, <4>1
    <3>2. j \in 0..m /\ te[i].h \in Pushed(E, ret, j)
      BY <1>13, <1>16, <3>1
    <3>3. g \in 0..m /\ te[l].h \in Pushed(E, ret, g)
      BY <1>13, <1>16, <2>2
    <3> QED BY <1>6, <1>16, <2>2, <3>1, <3>2, <3>3
  <2> QED BY <1>12, <2>1, <2>2
<1>17. ASSUME NEW i \in 0..m PROVE Newest(E, ret2, i, ret2[i+1].h)
  <2>1. CASE i < m
    <3>1. i \in 0..(m - 1) /\ i + 1 \in 1..m
      BY <2>1
    <3>2. Newest(E, ret, i, ret2[i+1].h)
      BY <1>6, <1>7, <3>1
    <3>3. \A j \in 0..i : j \in 0..m
      OBVIOUS
    <3>4. \A j \in 0..i : \A l \in (j+1)..i : l \in 0..m
      OBVIOUS
    <3>5. PICK j \in 0..i : /\ ret2[i+1].h \in Pushed(E, ret, j) \ Popped(ret, i)
                            /\ \A l \in (j+1)..i : Pushed(E, ret, l) \subseteq Popped(ret, i)
      BY <3>2 DEF Newest
    <3>6. /\ ret2[i+1].h \in Pushed(E, ret2, j) \ Popped(ret2, i)
          /\ \A l \in (j+1)..i : Pushed(E, ret2, l) \subseteq Popped(ret2, i)
      BY <1>8, <3>3, <3>4, <3>5
    <3> QED BY <3>6 DEF Newest
  <2>2. CASE i = m
    <3>1. k \in 1..k
      BY <1>1
    <3>2. PICK j \in 0..m : p.h \in Pushed(E, ret, j)
      BY <1>4, <1>6, <3>1
    <3>3. Popped(ret2, m) = Heads(ret)
      BY <1>2, <1>8, <1>9 DEF Popped, Heads
    <3>4. p.h \in Pushed(E, ret2, j) \ Popped(ret2, m)
      BY <1>5, <1>8, <3>2, <3>3
    <3>5. ASSUME NEW l \in (j+1)..m, NEW x \in Pushed(E, ret2, l) PROVE x \in Popped(ret2, m)
      <4>1. l \in 0..m /\ ~(l <= j)
        OBVIOUS
      <4>2. x \in Pushed(E, ret, l)
        BY <1>8, <4>1
      <4>3. x \in seen /\ x # Start
        BY <1>6, <4>1, <4>2, GroupsApart
      <4>4. ASSUME NEW o \in 1..k, x = te[o].h PROVE FALSE
        <5>1. o <= k
          OBVIOUS
        <5> QED BY <1>4, <1>6, <3>1, <3>2, <4>1, <4>2, <4>4, <5>1
      <4>5. x \notin Heads(te)
        BY <1>1, <4>4 DEF Heads
      <4> QED BY <1>5, <3>3, <4>3, <4>5
    <3>6. ret2[m + 1].h = p.h
      BY <1>7
    <3> QED BY <2>2, <3>2, <3>4, <3>5, <3>6 DEF Newest
  <2> QED BY <2>1, <2>2
<1>18. (m + 1) - 1 = m
  OBVIOUS
<1> QED BY <1>3, <1>7, <1>11, <1>15, <1>16, <1>17, <1>18 DEF InGroups

LEMMA DepthInvInit == TInit => DepthInv
BY DEF TInit, DepthInv

LEMMA DepthInvStep == TInv /\ TInv' /\ DepthInv /\ [TNext]_tvars => DepthInv'
<1> SUFFICES ASSUME TInv, TInv', DepthInv, [TNext]_tvars, Stack, initialized'
             PROVE  InGroups(edges', returned', to_explore', examined')
  BY DEF DepthInv
<1> USE TraversalAssumption
<1>0. edges \subseteq V \X V
  BY DEF TInv, Reached
<1>1. CASE init
  <2>1. /\ edges' = edges /\ returned' = <<>> /\ advance(Start, 0, <<>>, {Start})
    BY <1>1 DEF init, TInv, Covered
  <2>2. PICK none : none = <<>> /\ none \in Seq(Entry)
    BY EmptySeq
  <2>3. PICK zero \in Nat : zero = 0
    OBVIOUS
  <2>4. advance(Start, zero, none, {Start}) /\ {Start} \in SUBSET V
    BY <2>1, <2>2, <2>3
  <2>5. PICK F : F = Fresh(Start, zero, {Start})
    OBVIOUS
  <2>6. examined' = {Start} \cup F /\ Appended(to_explore', none, F, zero + 1)
    BY <1>0, <2>2, <2>4, <2>5, AdvanceAppends
  <2>7. F = Successors(edges, Start) \ {Start}
    BY <2>5 DEF Fresh
  <2>8. PICK te : te = to_explore' /\ te \in Seq(Entry)
    BY DEF TInv, Reached
  <2>9. \A i \in 1..Len(te) : te[i].h \in F
    <3>1. Len(none) = 0
      BY <2>2
    <3> QED BY <2>6, <2>8, <3>1 DEF Appended
  <2>10. Met(edges, none, 0) = {Start} \cup F /\ Pushed(edges, none, 0) = F
    <3>1. At(none, 0) = Start /\ 0..0 = {0} /\ 0..(0 - 1) = {}
      BY DEF At
    <3> QED BY <2>7, <3>1 DEF Met, Pushed
  <2>11. Len(none) = 0 /\ 0..0 = {0} /\ 0..(0 - 1) = {}
    BY <2>2
  <2>12. InGroups(edges, none, te, {Start} \cup F)
    BY <2>9, <2>10, <2>11 DEF InGroups
  <2> QED BY <2>1, <2>2, <2>6, <2>8, <2>12
<1>2. CASE next
  <2>1. /\ edges' = edges /\ initialized = TRUE /\ to_explore # <<>>
        /\ returned' = Append(returned, Take[1])
        /\ advance(Take[1].h, Take[1].distance, Take[2], examined)
    BY <1>2 DEF next, TInv, Reached
  <2>2. PICK p, rest : p = Take[1] /\ rest = Take[2]
    OBVIOUS
  <2>3. /\ p \in Entry /\ rest \in Seq(Entry)
        /\ Len(to_explore) = Len(rest) + 1
        /\ p = to_explore[Len(to_explore)]
        /\ \A i \in 1..Len(rest) : rest[i] = to_explore[i]
    BY <2>1, <2>2, TakeSplits DEF TInv, Reached
  <2>4. p.h \in V /\ p.distance \in Nat /\ examined \in SUBSET V
    BY <2>3 DEF Entry, TInv, Reached
  <2>5. PICK F : F = Fresh(p.h, p.distance, examined)
    OBVIOUS
  <2>6. examined' = examined \cup F /\ Appended(to_explore', rest, F, p.distance + 1)
    <3>1. PICK x \in V, d \in Nat : x = p.h /\ d = p.distance
      BY <2>4
    <3>2. advance(x, d, rest, examined) /\ F = Fresh(x, d, examined)
      BY <2>1, <2>2, <2>5, <3>1
    <3>3. examined' = examined \cup F /\ Appended(to_explore', rest, F, d + 1)
      BY <1>0, <2>3, <2>4, <3>2, AdvanceAppends
    <3> QED BY <3>1, <3>3
  <2>7. F = Successors(edges, p.h) \ examined
    BY <2>5 DEF Fresh
  <2>8. PICK te, te2, ret2 : te = to_explore /\ te2 = to_explore' /\ ret2 = returned'
    OBVIOUS
  <2>9. PICK r \in Nat : r = Len(rest)
    BY <2>3, LengthOf, Zenon
  <2>10. /\ \A i \in 1..(Len(te) - 1) : te2[i] = te[i]
         /\ \A i \in Len(te)..Len(te2) : te2[i].h \in F
    <3>1. Len(te) = r + 1 /\ (r + 1) - 1 = r
      BY <2>3, <2>8, <2>9
    <3> QED BY <2>3, <2>6, <2>8, <2>9, <3>1 DEF Appended
  <2>11. /\ returned \in Seq(Entry) /\ te \in Seq(Entry)
         /\ ret2 \in Seq(Entry) /\ te2 \in Seq(Entry)
    BY <2>8 DEF TInv, Reached
  <2>12. /\ te # <<>> /\ ret2 = Append(returned, te[Len(te)])
         /\ F = Successors(edges, te[Len(te)].h) \ examined
    BY <2>1, <2>2, <2>3, <2>7, <2>8
  <2>13. examined = {Start} \cup Heads(returned) \cup Heads(te)
    BY <2>1, <2>8 DEF TInv, Covered, Visited, Pending, Heads
  <2>14. te[Len(te)].h \notin Heads(returned)
    <3>1. Len(te) \in 1..Len(te)
      BY <2>11, <2>12
    <3>2. te[Len(te)].h \notin Visited
      BY <2>1, <2>8, <3>1, EntriesDiffer
    <3> QED BY <3>2 DEF Visited, Heads
  <2>15. UnStacked(edges, returned, te, examined, ret2, te2, F)
    BY <2>10, <2>12, <2>13, <2>14 DEF UnStacked
  <2>16. InGroups(edges, returned, te, examined)
    BY <2>1, <2>8 DEF DepthInv
  <2>17. InGroups(edges, ret2, te2, examined \cup F)
    BY ONLY <1>0, <2>11, <2>15, <2>16, DepthStep, Zenon
  <2> QED BY <2>1, <2>6, <2>8, <2>17
<1>3. CASE UNCHANGED tvars
  BY <1>3 DEF tvars, DepthInv
<1> QED BY <1>1, <1>2, <1>3 DEF TNext

LEMMA DepthInvariant == TSpec => [](TInv /\ DepthInv)
BY TInvInit, TInvStep, DepthInvInit, DepthInvStep, PTL DEF TSpec

(* The condition of DepthFirstOrders on the atom that follows the first i.    *)
NextInOrder(E, s, i) ==
    \E j \in 0..i :
        /\ s[i+1] \in (Successors(E, IF j = 0 THEN Start ELSE s[j]) \
              ({Start} \cup UNION {Successors(E, IF l = 0 THEN Start ELSE s[l]) : l \in 0..(j-1)}))
              \ {s[l] : l \in 1..i}
        /\ \A g \in (j+1)..i :
              Successors(E, IF g = 0 THEN Start ELSE s[g]) \
              ({Start} \cup UNION {Successors(E, IF l = 0 THEN Start ELSE s[l]) : l \in 0..(g-1)})
              \subseteq {s[l] : l \in 1..i}

(* Lists whose every entry is the newest are depth-first orders.              *)
LEMMA NewestAreOrders ==
    ASSUME NEW E, NEW ret \in Seq(Entry), NEW m \in Nat, m = Len(ret),
           NEW R, m = Cardinality(R), \A i \in 1..m : ret[i].h \in R,
           \A i \in 0..(m - 1) : Newest(E, ret, i, ret[i+1].h)
    PROVE  [i \in 1..m |-> ret[i].h] \in DepthFirstOrders(E, Start, R)
<1>1. PICK s : s = [i \in 1..m |-> ret[i].h]
  OBVIOUS
<1>2. s \in [1..m -> R] /\ \A i \in 1..m : s[i] = ret[i].h
  BY <1>1
<1>3. \A i \in 0..m : (IF i = 0 THEN Start ELSE s[i]) = At(ret, i)
  BY <1>2 DEF At
<1>4. ASSUME NEW i \in 0..m
      PROVE  /\ Successors(E, IF i = 0 THEN Start ELSE s[i]) \
                  ({Start} \cup UNION {Successors(E, IF j = 0 THEN Start ELSE s[j]) : j \in 0..(i-1)})
                = Pushed(E, ret, i)
             /\ {s[j] : j \in 1..i} = Popped(ret, i)
  <2>1. \A j \in 0..(i-1) : j \in 0..m
    OBVIOUS
  <2>2. {Successors(E, IF j = 0 THEN Start ELSE s[j]) : j \in 0..(i-1)}
        = {Successors(E, At(ret, j)) : j \in 0..(i-1)}
    BY <1>3, <2>1
  <2>3. \A j \in 1..i : s[j] = ret[j].h
    BY <1>2
  <2> QED BY <1>3, <2>2, <2>3 DEF Pushed, Met, Popped
<1>5. ASSUME NEW i \in 0..(m - 1) PROVE NextInOrder(E, s, i)
  <2>1. PICK j \in 0..i : /\ ret[i+1].h \in Pushed(E, ret, j) \ Popped(ret, i)
                          /\ \A g \in (j+1)..i : Pushed(E, ret, g) \subseteq Popped(ret, i)
    BY DEF Newest
  <2>2. i \in 0..m /\ j \in 0..m /\ s[i+1] = ret[i+1].h /\ \A g \in (j+1)..i : g \in 0..m
    BY <1>2
  <2> QED BY <1>4, <2>1, <2>2 DEF NextInOrder
<1>6. s \in [1..Cardinality(R) -> R] /\ \A i \in 0..(Cardinality(R) - 1) : NextInOrder(E, s, i)
  BY <1>2, <1>5
<1>7. s \in DepthFirstOrders(E, Start, R)
  BY ONLY <1>6, Zenon DEF DepthFirstOrders, NextInOrder
<1> QED BY <1>1, <1>7

(* A depth-first traversal returns the reachable atoms in one of the orders   *)
(* the trigger functions' model lets it choose from, for every graph.         *)
THEOREM InDepthFirstOrderHolds == TSpec => []InDepthFirstOrder
<1>1. TInv /\ DepthInv /\ ReturnsReachable => InDepthFirstOrder
  <2> SUFFICES ASSUME TInv, DepthInv, ReturnsReachable, Stack, Exhausted
               PROVE  [i \in 1..Len(returned) |-> returned[i].h]
                        \in DepthFirstOrders(edges, Start, Reachable(V, edges, Start) \ {Start})
    BY DEF InDepthFirstOrder
  <2>1. MaxDistance = NoLimit /\ initialized /\ to_explore = <<>> /\ returned \in Seq(Entry)
    BY TraversalAssumption DEF Exhausted, TInv, Reached
  <2>2. PICK R : R = Reachable(V, edges, Start) \ {Start} /\ R = Visited
    BY <2>1 DEF ReturnsReachable
  <2>3. PICK m \in Nat : m = Len(returned)
    BY <2>1, LengthOf, Zenon
  <2>4. m = Cardinality(R)
    <3>1. examined = {Start} \cup R /\ Start \notin R /\ examined \subseteq V
      BY <2>1, <2>2 DEF TInv, Covered, Reached, Pending
    <3>2. IsFiniteSet(examined)
      BY <3>1, FS_Subset, TraversalAssumption
    <3>3. Cardinality(examined) = 1 + m
      BY <2>1, <2>3 DEF TInv, Counted
    <3>4. examined \ {Start} = R /\ Start \in examined
      BY <3>1
    <3>5. Cardinality(examined \ {Start}) = Cardinality(examined) - 1
      BY <3>2, <3>4, FS_RemoveElement
    <3> QED BY <3>3, <3>4, <3>5
  <2>5. \A i \in 1..m : returned[i].h \in R
    BY <2>2, <2>3 DEF Visited
  <2>6. \A i \in 0..(m - 1) : Newest(edges, returned, i, returned[i+1].h)
    BY <2>1, <2>3 DEF DepthInv, InGroups
  <2>7. [i \in 1..m |-> returned[i].h] \in DepthFirstOrders(edges, Start, R)
    BY <2>1, <2>3, <2>4, <2>5, <2>6, NewestAreOrders
  <2> QED BY <2>2, <2>3, <2>7
<1> QED BY <1>1, DepthInvariant, ReturnsReachableHolds, PTL

============================================================================
