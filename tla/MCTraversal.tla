---------------------------- MODULE MCTraversal ----------------------------
(* Traversal over every graph on four atoms; one of them may link to itself.  *)
EXTENDS Traversal, TLC

CONSTANTS v1, v2, v3, v4

MCLinks == {l \in V \X V : l[1] # l[2]} \cup {<<v2, v2>>}

=============================================================================
