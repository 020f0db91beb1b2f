----------------------------- MODULE Traversal -----------------------------
(* HyperGraphDB's traversal iterators, as the trigger functions drive them:   *)
(* HGDepthFirstTraversal (Stack) and HGBreadthFirstTraversal (not Stack, with *)
(* or without a maximal distance) over a graph that does not change.  The     *)
(* order in which the generator lists the neighbours of an atom is open.      *)
EXTENDS HGGraph, Sequences, Functions

CONSTANTS
    V,             \* the atoms
    Links,         \* the links a graph may have, pairs of atoms
    Start,         \* startAtom
    Stack,         \* is to_explore a stack, or a queue?
    MaxDistance,   \* maxDistance, or NoLimit
    NoLimit        \* Integer.MAX_VALUE, and the depth-first traversal

ASSUME TraversalAssumption ==
    /\ IsFiniteSet(V)
    /\ Links \subseteq V \X V
    /\ Start \in V
    /\ Stack \in BOOLEAN
    /\ NoLimit \notin Nat
    /\ MaxDistance \in Nat \cup {NoLimit}
    /\ Stack => MaxDistance = NoLimit

VARIABLES
    edges,         \* the links of the graph
    examined,      \* the atoms reached
    to_explore,    \* pairs of an atom and its distance
    returned,      \* what next has returned
    initialized

tvars == <<edges, examined, to_explore, returned, initialized>>

(* The orders in which the generator may list the set S.                      *)
Listings(S) == Surjection(1..Cardinality(S), S)

(* Mutant: atoms are examined when they are returned, not when they are met.  *)
MutFreshAll(from, d, seen) ==
    IF MaxDistance # NoLimit /\ d >= MaxDistance THEN {}
    ELSE Successors(edges, from) \ ({Start} \cup {returned[i].h : i \in DOMAIN returned})

(* Mutant: the distance is compared with > .                                  *)
MutFreshBeyond(from, d, seen) ==
    IF MaxDistance # NoLimit /\ d > MaxDistance THEN {}
    ELSE Successors(edges, from) \ seen

(* What advance adds: the neighbours not seen before, within the distance.    *)
Fresh(from, d, seen) ==
    IF MaxDistance # NoLimit /\ d >= MaxDistance THEN {}
    ELSE Successors(edges, from) \ seen

advance(from, d, rest, seen) ==
    \E s \in Listings(Fresh(from, d, seen)) :
        /\ to_explore' = rest \o [i \in 1..Cardinality(Fresh(from, d, seen)) |->
                                     [h |-> s[i], distance |-> d + 1]]
        /\ examined' = seen \cup Fresh(from, d, seen)

TInit ==
    /\ edges \in SUBSET Links
    /\ examined = {}
    /\ to_explore = <<>>
    /\ returned = <<>>
    /\ initialized = FALSE

init ==
    /\ ~ initialized
    /\ initialized' = TRUE
    /\ advance(Start, 0, <<>>, {Start})
    /\ UNCHANGED <<edges, returned>>

(* Mutant: the oldest entry is taken.                                         *)
MutTakeHead == <<Head(to_explore), Tail(to_explore)>>

(* Mutant: the newest entry is taken.                                         *)
MutTakeLast ==
    <<to_explore[Len(to_explore)], SubSeq(to_explore, 1, Len(to_explore) - 1)>>

(* Stack.pop or Queue.remove: the entry taken, and the others.                *)
Take ==
    IF Stack
    THEN <<to_explore[Len(to_explore)], SubSeq(to_explore, 1, Len(to_explore) - 1)>>
    ELSE <<Head(to_explore), Tail(to_explore)>>

(* Mutant: the entry is looked at and not taken.                              *)
MutPeek ==
    /\ initialized
    /\ to_explore # <<>>
    /\ UNCHANGED tvars

(* One turn of the caller's loop: hasNext, then next.                         *)
next ==
    /\ initialized
    /\ to_explore # <<>>
    /\ returned' = Append(returned, Take[1])
    /\ advance(Take[1].h, Take[1].distance, Take[2], examined)
    /\ UNCHANGED <<edges, initialized>>

TNext == init \/ next

(* The loops of the trigger functions call next until hasNext is false.       *)
TSpec == TInit /\ [][TNext]_tvars /\ WF_tvars(TNext)

-----------------------------------------------------------------------------
Entry == [h : V, distance : Nat]
Visited == {returned[i].h : i \in 1..Len(returned)}
Pending == {to_explore[i].h : i \in 1..Len(to_explore)}
Exhausted == initialized /\ to_explore = <<>>

(* Types of the iterator's state; hasNext is false before anything is known.  *)
TTypeOK ==
    /\ edges \subseteq V \X V
    /\ examined \subseteq V
    /\ to_explore \in Seq(Entry)
    /\ returned \in Seq(Entry)
    /\ initialized \in BOOLEAN
    /\ Len(to_explore) + Len(returned) < Cardinality(V)

(* A traversal without a limit returns the atoms reachable from the start and *)
(* no others, although atoms are marked when they are met and not when they   *)
(* are returned: what trigger functions and connected clauses rely on.        *)
ReturnsReachable ==
    Exhausted /\ MaxDistance = NoLimit => Visited = Reachable(V, edges, Start) \ {Start}

(* No atom is returned twice, nor the start, whatever cycles the links form:  *)
(* a connected clause counts every row once.                                  *)
ReturnedOnce ==
    \A i, j \in 1..Len(returned) :
        returned[i].h # Start /\ (returned[i].h = returned[j].h => i = j)

(* The order of a depth-first traversal is one of those the model of the      *)
(* trigger functions lets it choose from.                                     *)
InDepthFirstOrder ==
    Stack /\ Exhausted =>
        [i \in 1..Len(returned) |-> returned[i].h]
            \in DepthFirstOrders(edges, Start, Reachable(V, edges, Start) \ {Start})

(* A breadth-first traversal with a limit returns the atoms within it.        *)
ReturnsBall ==
    Exhausted /\ MaxDistance # NoLimit =>
        Visited = Ball(V, edges, Start, MaxDistance) \ {Start}

(* It returns near atoms before far ones, and the distance it keeps with an   *)
(* atom is the length of a shortest path: the limit cuts no atom off that has *)
(* a shorter path by an atom met later.                                       *)
NearestFirst ==
    ~ Stack =>
        \A i \in 1..Len(returned) :
            LET d == returned[i].distance
            IN  /\ returned[i].h \in Ball(V, edges, Start, d)
                /\ returned[i].h \notin Ball(V, edges, Start, d - 1)
                /\ \A j \in 1..i : returned[j].distance <= d

(* The loops of the trigger functions end, on graphs with cycles too.         *)
Terminates == <>Exhausted

=============================================================================
