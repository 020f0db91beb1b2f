------------------------------- MODULE HGGraph -------------------------------
(* What HyperGraphDB's traversals return, over a set E of pairs <<from, to>>  *)
(* of vertices taken from a set V.  The iterators themselves are specified in *)
(* module Traversal.                                                          *)
EXTENDS Integers, FiniteSets

(* Mutant: the preceding atoms are returned too.                              *)
MutAllNeighbours(E, v) == {w \in UNION {{e[1], e[2]} : e \in E} : <<v, w>> \in E \/ <<w, v>> \in E}

Successors(E, v) == {e[2] : e \in {d \in E : d[1] = v}}

(* Mutant: the generator returns the succeeding atoms only.                   *)
MutForwardOnly(E) == E

(* Links read in both directions (returnPreceeding and returnSucceeding).     *)
BothWays(E) == E \cup {<<e[2], e[1]>> : e \in E}

ClosedUnder(E, C) == \A e \in E : e[1] \in C => e[2] \in C

(* The vertices reachable from v, v included.                                 *)
Reachable(V, E, v) ==
    {w \in V : \A C \in SUBSET V : v \in C /\ ClosedUnder(E, C) => w \in C}

(* The vertices within distance d of v.                                       *)
Ball(V, E, v, d) ==
    LET B[k \in 0..d] ==
            IF k = 0 THEN {v}
            ELSE B[k-1] \cup {w \in V : \E u \in B[k-1] : <<u, w>> \in E}
    IN  B[d]

(* The orders in which HGDepthFirstTraversal can return the atoms of R, all   *)
(* those reachable from v but v itself.  A vertex is put on the stack by the  *)
(* first visited vertex it succeeds, and the stack is popped from the newest  *)
(* group; within a group the order is that of HyperGraphDB's incidence sets.  *)
DepthFirstOrders(E, v, R) ==
    LET k == Cardinality(R)
        At(s, i) == IF i = 0 THEN v ELSE s[i]
        Pushed(s, i) ==
            Successors(E, At(s, i)) \
                ({v} \cup UNION {Successors(E, At(s, j)) : j \in 0..(i-1)})
        Popped(s, i) == {s[j] : j \in 1..i}
    IN  {s \in [1..k -> R] :
            \A i \in 0..(k-1) :
                \E j \in 0..i :
                    /\ s[i+1] \in Pushed(s, j) \ Popped(s, i)
                    /\ \A m \in (j+1)..i : Pushed(s, m) \subseteq Popped(s, i)}

=============================================================================
