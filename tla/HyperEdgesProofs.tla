-------------------------- MODULE HyperEdgesProofs --------------------------
(* The hyperedge layer implements GraphStore, and its safety properties.      *)
EXTENDS HyperEdges, GraphStoreProofs, WellOrder

LEMMA NestedCodes ==
    ASSUME NEW f, NEW nested, NEW out \in nested_trigger_function(f, nested)
    PROVE  out.code \in {0, -1}
<1>1. \A op, found : LoopResult(op, found).code \in {0, -1}
  BY DEF LoopResult
<1>2. CASE f.bases = Null
  BY <1>2 DEF nested_trigger_function
<1>3. CASE f.bases # Null
  <2>1. PICK found : out = LoopResult(f.op, found)
    BY <1>3 DEF nested_trigger_function
  <2> QED BY <1>1, <2>1
<1> QED BY <1>2, <1>3

(* A step of the hyperedge layer is a step of the store or leaves it alone.   *)
LEMMA StoreStep ==
    ASSUME TypeOK, [HNext]_allvars
    PROVE  [Next]_vars
<1>1. ASSUME NEW id \in HEIds, NEW f \in Forms, NEW n \in 1..3, createHyperEdge(id, f, n)
      PROVE  Next
  <2>1. CASE n = 3
    <3>1. alter_table
      BY <1>1, <2>1 DEF createHyperEdge, Finish, alter_table, TypeOK
    <3> QED BY <3>1 DEF Next, Command
  <2>2. CASE n # 3
    <3>1. kill
      BY <1>1, <2>2 DEF createHyperEdge, Finish, kill, TypeOK
    <3> QED BY <3>1 DEF Next
  <2> QED BY <2>1, <2>2
<1>2. ASSUME NEW id \in HEIds, NEW f \in NestedForms, NEW n \in 1..3,
             createNestedHyperEdge(id, f, n)
      PROVE  Next
  <2> DEFINE last == IF hes = {} THEN 1 ELSE 3
  <2>1. CASE n = last
    <3> DEFINE e == [h |-> hnext, id |-> id, form |-> f]
    <3>1. PICK out \in IF last = 3 THEN nested_trigger_function(f, nhes \cup {e})
                                   ELSE {[res |-> Null, code |-> -1]} :
             Finish(n, last, out.code)
      BY <1>2 DEF createNestedHyperEdge
    <3>2. out.code \in {0, -1}
      BY <3>1, NestedCodes
    <3>3. alter_table \/ malformed
      BY <1>2, <2>1, <3>1, <3>2 DEF createNestedHyperEdge, Finish, alter_table, malformed, TypeOK
    <3> QED BY <3>3 DEF Next, Command
  <2>2. CASE n # last
    <3>1. kill
      BY <1>2, <2>2 DEF createNestedHyperEdge, Finish, kill, TypeOK
    <3> QED BY <3>1 DEF Next
  <2> QED BY <2>1, <2>2
<1>3. ASSUME NEW id \in HEIds, he_refused(id) PROVE Next
  <2>1. malformed
    BY <1>3 DEF he_refused, malformed
  <2> QED BY <2>1 DEF Next, Command
<1>4. CASE HCommand \/ HReset \/ HStop \/ HRestart
  BY <1>4 DEF HCommand, HReset, HStop, HRestart, Next
<1>5. CASE evict
  BY <1>5 DEF evict
<1>6. CASE UNCHANGED allvars
  BY <1>6 DEF allvars
<1> QED BY <1>1, <1>2, <1>3, <1>4, <1>5, <1>6 DEF HNext

(* Every behaviour of the hyperedge layer is, for the graph, a behaviour of   *)
(* GraphStore: hyperedges never change the graph they are computed from, and  *)
(* every theorem about the store holds with hyperedges too.                   *)
THEOREM HyperEdgesImplementStore == HSpec => ImplementsStore
<1>1. HInit => Init /\ TypeOK
  BY TypeInit DEF HInit
<1>2. TypeOK /\ [HNext]_allvars => TypeOK' /\ [Next]_vars
  BY StoreStep, TypeStep
<1> QED BY <1>1, <1>2, PTL DEF HSpec, Spec, ImplementsStore

LEMMA StoreInvariant == HSpec => []IndInv
BY HyperEdgesImplementStore, IndInvInvariant, PTL DEF ImplementsStore

-----------------------------------------------------------------------------
(* The steps that do not create a hyperedge keep or empty its state.          *)
HQuiet ==
    /\ \/ UNCHANGED <<hes, nhes, heLinks, hnext>>
       \/ hes' = {} /\ nhes' = {} /\ heLinks' = {} /\ hnext' = 1 /\ loaded' = {}
    /\ loaded' \subseteq loaded

LEMMA HStepCases ==
    ASSUME [HNext]_allvars
    PROVE  \/ \E id \in HEIds, f \in Forms, n \in 1..3 : createHyperEdge(id, f, n)
           \/ \E id \in HEIds, f \in NestedForms, n \in 1..3 : createNestedHyperEdge(id, f, n)
           \/ HQuiet
BY DEF HNext, allvars, hvars, HQuiet, HCommand, HReset, HStop, HRestart, he_refused, evict

(* A creation takes one handle, and only for it a result may be added.        *)
LEMMA CreateLoads ==
    ASSUME \/ \E id \in HEIds, f \in Forms, n \in 1..3 : createHyperEdge(id, f, n)
           \/ \E id \in HEIds, f \in NestedForms, n \in 1..3 : createNestedHyperEdge(id, f, n)
    PROVE  /\ hnext <= MaxHE /\ hnext' = hnext + 1
           /\ \E res : loaded' \subseteq loaded \cup {[h |-> hnext, res |-> res]}
<1>1. ASSUME NEW id \in HEIds, NEW f \in Forms, NEW n \in 1..3, createHyperEdge(id, f, n)
      PROVE  \E res : loaded' \subseteq loaded \cup {[h |-> hnext, res |-> res]}
  <2>1. PICK res \in trigger_function(f) :
            loaded' = IF n = 3 THEN loaded \cup Remember(hnext, res) ELSE {}
    BY <1>1 DEF createHyperEdge
  <2> WITNESS res
  <2> QED BY <2>1 DEF Remember
<1>2. ASSUME NEW id \in HEIds, NEW f \in NestedForms, NEW n \in 1..3,
             createNestedHyperEdge(id, f, n)
      PROVE  \E res : loaded' \subseteq loaded \cup {[h |-> hnext, res |-> res]}
  <2> DEFINE last == IF hes = {} THEN 1 ELSE 3
  <2>1. \E res : loaded' = IF n = last THEN loaded \cup Remember(hnext, res) ELSE {}
    BY <1>2 DEF createNestedHyperEdge
  <2>2. PICK res : loaded' = IF n = last THEN loaded \cup Remember(hnext, res) ELSE {}
    BY <2>1
  <2> WITNESS res
  <2> QED BY <2>2 DEF Remember
<1>3. hnext <= MaxHE /\ hnext' = hnext + 1
  <2>1. CASE \E id \in HEIds, f \in Forms, n \in 1..3 : createHyperEdge(id, f, n)
    BY <2>1 DEF createHyperEdge
  <2>2. CASE \E id \in HEIds, f \in NestedForms, n \in 1..3 : createNestedHyperEdge(id, f, n)
    BY <2>2 DEF createNestedHyperEdge
  <2> QED BY <2>1, <2>2
<1> QED BY <1>1, <1>2, <1>3

LEMMA HTypeStep ==
    ASSUME HTypeOK, [HNext]_allvars
    PROVE  HTypeOK'
<1> USE HEAssumption
<1>1. ASSUME NEW id \in HEIds, NEW f \in Forms, NEW n \in 1..3, createHyperEdge(id, f, n)
      PROVE  HTypeOK'
  BY <1>1 DEF createHyperEdge, HTypeOK, HEHandles, Upto, Remember
<1>2. ASSUME NEW id \in HEIds, NEW f \in NestedForms, NEW n \in 1..3,
             createNestedHyperEdge(id, f, n)
      PROVE  HTypeOK'
  <2>1. /\ hnext <= MaxHE /\ hnext' = hnext + 1
        /\ \E res : loaded' \subseteq loaded \cup {[h |-> hnext, res |-> res]}
    BY <1>2, CreateLoads
  <2>2. /\ \A c \in loaded' : c.h \in 1..(hnext' - 1)
        /\ \A c, d \in loaded' : c.h = d.h => c = d
    BY <2>1 DEF HTypeOK
  <2>3. hes' \subseteq [h : HEHandles, id : HEIds, form : Forms] /\ \A e \in hes' : e.h < hnext'
    BY <1>2, <2>1 DEF createNestedHyperEdge, HTypeOK, HEHandles
  <2>4. nhes' \subseteq [h : HEHandles, id : HEIds, form : NestedForms]
    BY <1>2 DEF createNestedHyperEdge, HTypeOK, HEHandles
  <2>5. heLinks' \subseteq HEHandles \X HEHandles
    <3>1. CASE hes = {}
      BY <1>2, <3>1 DEF createNestedHyperEdge, HTypeOK, Upto
    <3>2. CASE hes # {}
      BY <1>2, <3>2 DEF createNestedHyperEdge, HTypeOK, HEHandles, Upto
    <3> QED BY <3>1, <3>2
  <2> QED BY <2>1, <2>2, <2>3, <2>4, <2>5 DEF HTypeOK
<1>3. CASE HQuiet
  BY <1>3 DEF HQuiet, HTypeOK
<1> QED BY <1>1, <1>2, <1>3, HStepCases

(* The hyperedge state keeps its types; a handle has at most one result.      *)
THEOREM HTypeCorrect == HSpec => []HTypeOK
<1>1. HInit => HTypeOK
  BY HEAssumption DEF HInit, HTypeOK
<1>2. HTypeOK /\ [HNext]_allvars => HTypeOK'
  BY HTypeStep
<1> QED BY <1>1, <1>2, PTL DEF HSpec

(* isHEPresent guards the one action that adds a hyperedge.                   *)
THEOREM TrimmedIdsUniqueHolds == HSpec => []TrimmedIdsUnique
<1>1. HInit => TrimmedIdsUnique
  BY DEF HInit, TrimmedIdsUnique
<1>2. TrimmedIdsUnique /\ [HNext]_allvars => TrimmedIdsUnique'
  <2> SUFFICES ASSUME TrimmedIdsUnique, [HNext]_allvars PROVE TrimmedIdsUnique'
    OBVIOUS
  <2>1. ASSUME NEW id \in HEIds, NEW f \in Forms, NEW n \in 1..3, createHyperEdge(id, f, n)
        PROVE  TrimmedIdsUnique'
    BY <2>1 DEF createHyperEdge, isHEPresent, TrimmedIdsUnique
  <2>2. ASSUME NEW id \in HEIds, NEW f \in NestedForms, NEW n \in 1..3,
               createNestedHyperEdge(id, f, n)
        PROVE  TrimmedIdsUnique'
    BY <2>2 DEF createNestedHyperEdge, TrimmedIdsUnique
  <2>3. CASE HQuiet
    BY <2>3 DEF HQuiet, TrimmedIdsUnique
  <2> QED BY <2>1, <2>2, <2>3, HStepCases
<1> QED BY <1>1, <1>2, PTL DEF HSpec

(* A result is written once, when its hyperedge is created.                   *)
THEOREM ResultsAreFinalHolds == HSpec => ResultsAreFinal
<1>1. ASSUME HTypeOK, [HNext]_allvars
      PROVE  [hnext' # 1 =>
                \A h \in 1..(hnext - 1) : ResOf(h)' \in {ResOf(h), Null}]_allvars
  <2> SUFFICES ASSUME hnext' # 1, NEW h \in 1..(hnext - 1)
               PROVE  ResOf(h)' \in {ResOf(h), Null}
    OBVIOUS
  <2>1. \A c \in loaded' : c.h = h => c \in loaded
    <3>1. CASE HQuiet
      BY <3>1 DEF HQuiet
    <3>2. CASE ~ HQuiet
      <4>1. \E res : loaded' \subseteq loaded \cup {[h |-> hnext, res |-> res]}
        BY <1>1, <3>2, HStepCases, CreateLoads
      <4> QED BY <1>1, <4>1 DEF HTypeOK
    <3> QED BY <3>1, <3>2
  <2>2. CASE \E c \in loaded' : c.h = h
    <3>1. PICK c \in loaded' : c.h = h
      BY <2>2
    <3>2. c \in loaded /\ \A d \in loaded : d.h = h => d = c
      BY <1>1, <2>1, <3>1 DEF HTypeOK
    <3>3. ResOf(h) = c.res
      BY <3>1, <3>2 DEF ResOf
    <3>4. ResOf(h)' = c.res
      BY <2>1, <3>1, <3>2 DEF ResOf
    <3> QED BY <3>3, <3>4
  <2>3. CASE ~ \E c \in loaded' : c.h = h
    BY <2>3 DEF ResOf
  <2> QED BY <2>2, <2>3
<1> QED BY <1>1, HTypeCorrect, PTL DEF HSpec, ResultsAreFinal

-----------------------------------------------------------------------------
(* Rows that are attached to rooted tables are connected through the Root.    *)
LEMMA RowsConnected ==
    ASSUME IndInv, faults = {}, NEW m \in nodes, NEW n \in nodes
    PROVE  m.h \in Reachable(Handles, BothWays(Pairs), n.h)
<1> SUFFICES ASSUME NEW C \in SUBSET Handles, n.h \in C, ClosedUnder(BothWays(Pairs), C)
             PROVE  m.h \in C
  BY DEF Reachable, IndInv, TypeOK, NodeType
<1>1. ASSUME NEW l \in links PROVE l.from \in C <=> l.to \in C
  <2>1. <<l.from, l.to>> \in BothWays(Pairs) /\ <<l.to, l.from>> \in BothWays(Pairs)
    <3>1. <<l.from, l.to>> \in Pairs
      BY DEF Pairs
    <3>2. \A e \in Pairs : <<e[2], e[1]>> \in BothWays(Pairs)
      BY DEF BothWays
    <3> QED BY <3>1, <3>2 DEF BothWays
  <2> QED BY <2>1 DEF ClosedUnder
<1>2. PICK k \in links, t \in tables : k.from = t.h /\ k.to = n.h
  BY DEF IndInv, OrphansHaveACause, Attached
<1>3. PICK k1 \in links : k1.from \in roots /\ k1.to = t.h
  BY DEF IndInv, OrphansHaveACause, Rooted
<1>4. PICK l \in links, u \in tables : l.from = u.h /\ l.to = m.h
  BY DEF IndInv, OrphansHaveACause, Attached
<1>5. PICK l1 \in links : l1.from \in roots /\ l1.to = u.h
  BY DEF IndInv, OrphansHaveACause, Rooted
<1>6. k1.from = l1.from
  BY <1>3, <1>5 DEF IndInv, OneRoot
<1> QED BY <1>1, <1>2, <1>3, <1>4, <1>5, <1>6

(* Without kills and drops a connected clause without a distance looks at all *)
(* the other rows of the graph.                                               *)
THEOREM ConnectedIsVacuousHolds == HSpec => []ConnectedIsVacuous
<1>1. IndInv => ConnectedIsVacuous
  <2> SUFFICES ASSUME IndInv, faults = {}, NEW n \in nodes, NEW f \in Forms,
                      f.connected # Null, f.distance = Null
               PROVE  ConnectedRows(n, f) = nodes \ {n}
    BY DEF ConnectedIsVacuous
  <2>1. \A m \in nodes : m.h # n.h <=> m # n
    BY DEF IndInv, HandlesUnique
  <2> QED BY <2>1, RowsConnected DEF ConnectedRows
<1> QED BY <1>1, StoreInvariant, PTL

-----------------------------------------------------------------------------
(* What every step but reset keeps: the rows and the links that leave a row.  *)
RowHandles == {n.h : n \in nodes}

RowsKept ==
    /\ nodes \subseteq nodes'
    /\ \A l \in links : l.from \in RowHandles => l \in links'

LEMMA CommandKeepsRows ==
    ASSUME IndInv, Command
    PROVE  RowsKept
<1>1. ASSUME NEW nm \in TypeNames, NEW def \in Defs, NEW n \in 1..3, create_type(nm, def, n)
      PROVE  RowsKept
  BY <1>1 DEF create_type, RowsKept
<1>2. ASSUME NEW nm \in TypeNames, NEW id \in Ids \cup {Null}, NEW row \in Rows \cup {Null},
             NEW n \in 1..5, create_node(nm, id, row, n)
      PROVE  RowsKept
  BY <1>2 DEF create_node, RowsKept
<1>3. ASSUME NEW nm \in TypeNames, NEW row \in Rows, NEW n \in 1..3, insert(nm, row, n)
      PROVE  RowsKept
  BY <1>3 DEF insert, RowsKept
<1>4. ASSUME NEW nm \in TypeNames, truncate_table(nm)
      PROVE  RowsKept
  BY <1>4, NothingTruncated DEF truncate_table, RowsKept, IncidentTo
<1>5. ASSUME NEW nm \in TypeNames, drop_table(nm)
      PROVE  RowsKept
  <2>1. PICK d \in tables : nodes' = nodes /\ links' = links \ IncidentTo({d.h})
    BY <1>5, NothingTruncated DEF drop_table, TablesNamed, IndInv
  <2>2. ASSUME NEW l \in links, l.from \in RowHandles
        PROVE  l.from # d.h /\ l.to # d.h
    BY <2>2 DEF IndInv, Layered, HandlesUnique, RowHandles
  <2> QED BY <2>1, <2>2 DEF RowsKept, IncidentTo
<1> QED
  BY <1>1, <1>2, <1>3, <1>4, <1>5 DEF Command, RowsKept, create_edge, create_edge_fails,
     insert_no_table, no_such_table, alter_table, update_or_delete, malformed

(* A traversal from a row stays among the rows, so it is not shortened by the *)
(* links a drop_table takes away.                                             *)
LEMMA ReachKept ==
    ASSUME IndInv, RowsKept, NEW s \in RowHandles
    PROVE  Reachable(Handles, Pairs, s) \subseteq Reachable(Handles, Pairs', s)
<1> SUFFICES ASSUME NEW w \in Reachable(Handles, Pairs, s), NEW C \in SUBSET Handles,
                    s \in C, ClosedUnder(Pairs', C)
             PROVE  w \in C
  BY DEF Reachable
<1> DEFINE D == C \cap RowHandles
<1>1. ClosedUnder(Pairs, D)
  <2> SUFFICES ASSUME NEW l \in links, l.from \in D
               PROVE  l.to \in D
    BY DEF ClosedUnder, Pairs
  <2>1. <<l.from, l.to>> \in Pairs'
    BY DEF RowsKept, Pairs
  <2>2. l.to \in C
    BY <2>1 DEF ClosedUnder
  <2>3. l.to \in RowHandles
    BY DEF IndInv, Layered, HandlesUnique, RowHandles
  <2> QED BY <2>2, <2>3
<1>2. D \in SUBSET Handles /\ s \in D
  OBVIOUS
<1> QED BY <1>1, <1>2 DEF Reachable

LEMMA SelectionKept ==
    ASSUME IndInv, RowsKept, NEW f, f.source # Null
    PROVE  SelectedNow(f) \subseteq SelectedNow(f)'
<1> SUFFICES ASSUME NEW n \in SelectedNow(f)
             PROVE  n \in SelectedNow(f)'
  OBVIOUS
<1>1. n \in nodes' /\ n.type = f.dest /\ Having(n, f.having) = "yes"
  BY DEF SelectedNow, RowsKept
<1>2. PICK x \in nodes : x.id = f.source /\ n.h \in Reachable(Handles, Pairs, x.h)
  BY DEF SelectedNow, Sources, NodesWithId
<1>3. x.h \in Sources(f)'
  BY <1>2 DEF Sources, NodesWithId, RowsKept
<1>4. n.h \in Reachable(Handles, Pairs', x.h)
  BY <1>2, ReachKept DEF RowHandles
<1> QED BY <1>1, <1>3, <1>4 DEF SelectedNow

LEMMA TriggerSelects ==
    ASSUME NEW f, f.source # Null, NEW res \in trigger_function(f), res # Null
    PROVE  res \subseteq {Get(n.data, "name") : n \in SelectedNow(f)}
<1>1. PICK src \in Sources(f) : res \in ResultsFrom(src, f)
  BY DEF trigger_function
<1> DEFINE R == Reachable(Handles, Pairs, src) \ {src}
<1> DEFINE Raises(h) == \E n \in RowsAt(h, f) : Outcome(n, f) = "raise"
           Hits(h) == {n \in RowsAt(h, f) : Outcome(n, f) = "yes"}
           Seen(s) == {i \in DOMAIN s : \A j \in 1..i : ~ Raises(s[j])}
<1>2. PICK s \in DepthFirstOrders(Pairs, src, R) :
         res = {Get(n.data, "name") : n \in UNION {Hits(s[i]) : i \in Seen(s)}}
  BY <1>1 DEF ResultsFrom
<1>3. ASSUME NEW x \in res
      PROVE  \E i \in DOMAIN s : \E n \in RowsAt(s[i], f) :
                 Outcome(n, f) = "yes" /\ x = Get(n.data, "name")
  <2>1. PICK n \in UNION {Hits(s[i]) : i \in Seen(s)} : x = Get(n.data, "name")
    BY <1>2
  <2>2. PICK i \in Seen(s) : n \in Hits(s[i])
    BY <2>1
  <2> QED BY <2>1, <2>2
<1>4. \A i \in DOMAIN s : s[i] \in R
  BY DEF DepthFirstOrders
<1>5. ASSUME NEW i \in DOMAIN s, NEW n \in RowsAt(s[i], f), Outcome(n, f) = "yes"
      PROVE  n \in SelectedNow(f)
  BY <1>4, <1>5 DEF RowsAt, Outcome, SelectedNow
<1> QED BY <1>3, <1>5

(* Results that were computed from a source row stay sound.                   *)
THEOREM ResultsStaySoundHolds == HSpec => []ResultsStaySound
<1>1. HInit => ResultsStaySound
  BY DEF HInit, ResultsStaySound
<1>2. IndInv /\ HTypeOK /\ ResultsStaySound /\ [HNext]_allvars => ResultsStaySound'
  <2> SUFFICES ASSUME IndInv, HTypeOK, ResultsStaySound, [HNext]_allvars,
                      NEW e \in hes', NEW c \in loaded', c.h = e.h, e.form.source # Null
               PROVE  c.res \subseteq {Get(n.data, "name") : n \in SelectedNow(e.form)'}
    BY DEF ResultsStaySound
  <2>1. RowsKept
    BY CommandKeepsRows DEF HNext, HCommand, HReset, HStop, HRestart, exit, kill, restart,
       createHyperEdge, createNestedHyperEdge, he_refused, evict, RowsKept, allvars, hvars, vars
  <2>2. CASE e \in hes /\ c \in loaded
    BY <2>1, <2>2, SelectionKept DEF ResultsStaySound
  <2>3. CASE ~ (e \in hes /\ c \in loaded)
    <3>1. PICK id \in HEIds, f \in Forms, n \in 1..3 : createHyperEdge(id, f, n)
      <4>1. ASSUME NEW id \in HEIds, NEW f \in NestedForms, NEW n \in 1..3,
                   createNestedHyperEdge(id, f, n)
            PROVE  e \in hes /\ c \in loaded
        <5>1. e \in hes
          BY <4>1 DEF createNestedHyperEdge
        <5>2. e.h < hnext
          BY <5>1 DEF HTypeOK
        <5> QED BY <4>1, <5>1, <5>2, CreateLoads DEF HTypeOK
      <4> QED BY <2>3, <4>1, HStepCases DEF HQuiet
    <3>2. e.h = hnext /\ e.form = f /\ e \notin hes /\ c \notin loaded
      <4>1. hes' = hes \cup {[h |-> hnext, id |-> id, form |-> f]}
        BY <3>1 DEF createHyperEdge
      <4>2. PICK res : loaded' \subseteq loaded \cup {[h |-> hnext, res |-> res]}
        BY <3>1, CreateLoads
      <4>3. (\A x \in hes : x.h < hnext) /\ (\A x \in loaded : x.h < hnext) /\ hnext \in Nat
        BY HEAssumption DEF HTypeOK
      <4>4. e \in hes => c \in loaded
        BY <4>2, <4>3
      <4>5. c \in loaded => e \in hes
        BY <4>1, <4>3
      <4> QED BY <2>3, <4>1, <4>4, <4>5
    <3>3. c.res \in trigger_function(f) /\ c.res # Null
      BY <3>1, <3>2 DEF createHyperEdge, Remember
    <3>4. c.res \subseteq {Get(x.data, "name") : x \in SelectedNow(f)}
      BY <3>2, <3>3, TriggerSelects
    <3> QED BY <2>1, <3>2, <3>4, SelectionKept
  <2> QED BY <2>2, <2>3
<1> QED BY <1>1, <1>2, StoreInvariant, HTypeCorrect, PTL DEF HSpec

-----------------------------------------------------------------------------
(* Nested hyperedges.  The loop over the bases is a recursive function on the *)
(* positions of the list; it is what its definition says, by the least length *)
(* for which it would not be.                                                 *)
Loop(op, found, n, acc) ==
    acc = [i \in 0..n |-> IF i = 0 THEN {} ELSE Combine(op, acc[i-1], found[i])]

LEMMA LoopExists ==
    ASSUME NEW op, NEW found, NEW n \in Nat PROVE \E acc : Loop(op, found, n, acc)
<1> DEFINE T == {c \in Nat : ~ \E acc : Loop(op, found, c, acc)}
<1> SUFFICES ASSUME T # {} PROVE FALSE
  OBVIOUS
<1>1. PICK c \in T : \A y \in T : c <= y
  BY LeastElement
<1>2. c \in Nat /\ ~ \E acc : Loop(op, found, c, acc)
  OBVIOUS
<1>3. CASE c = 0
  <2>1. PICK A : A = [k \in 0..0 |-> {}]
    OBVIOUS
  <2>2. A = [k \in 0..0 |-> IF k = 0 THEN {} ELSE Combine(op, A[k-1], found[k])]
    BY <2>1
  <2> QED BY <1>2, <1>3, <2>2 DEF Loop
<1>4. CASE c # 0
  <2>1. c - 1 \in Nat /\ ~(c <= c - 1)
    BY <1>2, <1>4
  <2>2. PICK A : Loop(op, found, c - 1, A)
    BY <1>1, <2>1
  <2>3. PICK G : G = [k \in 0..c |-> IF k = c THEN Combine(op, A[c-1], found[c]) ELSE A[k]]
    OBVIOUS
  <2>4. ASSUME NEW k \in 0..c
        PROVE  G[k] = IF k = 0 THEN {} ELSE Combine(op, G[k-1], found[k])
    <3>1. CASE k = c
      <4>1. G[k] = Combine(op, A[c-1], found[c]) /\ c - 1 \in 0..c /\ c - 1 # c /\ k - 1 = c - 1
        BY <1>2, <1>4, <2>3, <3>1
      <4>2. G[k-1] = A[c-1]
        BY <2>3, <4>1
      <4> QED BY <1>4, <3>1, <4>1, <4>2
    <3>2. CASE k # c
      <4>1. k \in 0..(c - 1) /\ G[k] = A[k]
        BY <1>2, <2>3, <3>2
      <4>2. A[k] = IF k = 0 THEN {} ELSE Combine(op, A[k-1], found[k])
        BY <2>2, <4>1 DEF Loop
      <4>3. k # 0 => k - 1 \in 0..c /\ k - 1 # c
        BY <1>2, <3>2
      <4>4. k # 0 => G[k-1] = A[k-1]
        BY <2>3, <4>3
      <4> QED BY <4>1, <4>2, <4>4
    <3> QED BY <3>1, <3>2
  <2>5. Loop(op, found, c, G)
    BY <2>3, <2>4 DEF Loop
  <2> QED BY <1>2, <2>5
<1> QED BY <1>3, <1>4

LEMMA CombineAllIs ==
    ASSUME NEW op, NEW found, NEW n \in Nat, n = Len(found)
    PROVE  \E acc : Loop(op, found, n, acc) /\ CombineAll(op, found) = acc[n]
<1>1. PICK F : F = CHOOSE f : f = [i \in 0..n |-> IF i = 0 THEN {} ELSE Combine(op, f[i-1], found[i])]
  OBVIOUS
<1>2. CombineAll(op, found) = F[n]
  BY <1>1 DEF CombineAll
<1>3. F = CHOOSE f : Loop(op, found, n, f)
  BY <1>1 DEF Loop
<1>4. Loop(op, found, n, F)
  BY <1>3, LoopExists
<1> QED BY <1>2, <1>4

(* The loop adds nothing of its own: each part comes from one of the bases.   *)
LEMMA CombineAllFrom ==
    ASSUME NEW op, NEW found, NEW n \in Nat, n = Len(found), NEW p \in CombineAll(op, found)
    PROVE  \E i \in 1..n : p \in found[i].parts
<1>1. PICK A : Loop(op, found, n, A) /\ CombineAll(op, found) = A[n]
  BY CombineAllIs
<1> DEFINE T == {c \in Nat : c <= n /\ p \in A[c]}
<1>2. n \in T
  BY <1>1
<1>3. PICK c \in T : \A y \in T : c <= y
  BY <1>2, LeastElement
<1>4. c \in Nat /\ c <= n /\ p \in A[c] /\ c \in 0..n
  OBVIOUS
<1>5. A[c] = IF c = 0 THEN {} ELSE Combine(op, A[c-1], found[c])
  BY <1>1, <1>4 DEF Loop
<1>6. c # 0
  BY <1>4, <1>5
<1>7. c - 1 \in Nat /\ c - 1 <= n /\ ~(c <= c - 1) /\ c \in 1..n
  BY <1>4, <1>6
<1>8. p \notin A[c-1]
  BY <1>3, <1>7
<1>9. p \in Combine(op, A[c-1], found[c])
  BY <1>4, <1>5, <1>6
<1>10. p \in found[c].parts
  BY <1>8, <1>9 DEF Combine
<1> QED BY <1>7, <1>10

(* The names that the base ids of a statement stand for.                      *)
BaseNames(ids) ==
    {""} \cup {n.id : n \in {x \in nodes : x.id \in ids}}
         \cup UNION ({ResOf(d.h) : d \in {x \in hes : x.id \in ids}} \ {Null})

LEMMA PartsName ==
    ASSUME NEW r, r # Null, r # {}, NEW p \in Parts(r)
    PROVE  \E x \in r : p[2] = x
<1>1. p \in {<<\A y \in r : HashOrder[x] <= HashOrder[y], x,
               \A y \in r : HashOrder[y] <= HashOrder[x]>> : x \in r}
  BY Zenon DEF Parts
<1>2. PICK x \in r : p = <<\A y \in r : HashOrder[x] <= HashOrder[y], x,
                          \A y \in r : HashOrder[y] <= HashOrder[x]>>
  BY <1>1, Zenon
<1>3. \A a, b, c : <<a, b, c>>[2] = b
  OBVIOUS
<1>4. p[2] = x
  BY <1>2, <1>3, Zenon
<1> QED BY <1>4

LEMMA BasesName ==
    ASSUME NEW ids, NEW b \in ids, NEW nested, NEW base \in Bases(b, nested), NEW p \in base.parts
    PROVE  p[2] \in BaseNames(ids)
<1>1. CASE base \in {[kind |-> "node", parts |-> {<<FALSE, b, FALSE>>}] : n \in NodesWithId(b)}
  <2>0. PICK X : X = {<<FALSE, b, FALSE>>}
    OBVIOUS
  <2>1. PICK n \in NodesWithId(b) : base = [kind |-> "node", parts |-> X]
    BY <1>1, <2>0, Zenon
  <2>a. p = <<FALSE, b, FALSE>>
    BY <2>0, <2>1
  <2>2. p[2] = b /\ n \in nodes /\ n.id = b
    BY <2>a DEF NodesWithId
  <2> QED BY <2>2 DEF BaseNames
<1>2. CASE base \in {[kind |-> "he", parts |-> Parts(ResOf(e.h))] : e \in {x \in hes : x.id = b}}
  <2>1. PICK e \in hes : e.id = b /\ base.parts = Parts(ResOf(e.h))
    BY <1>2
  <2>2. PICK r : r = ResOf(e.h)
    OBVIOUS
  <2>3. CASE r = Null
    <3>1. p = <<FALSE, "", FALSE>>
      BY <2>1, <2>2, <2>3 DEF Parts
    <3> QED BY <3>1 DEF BaseNames
  <2>4. CASE r # Null /\ r = {}
    <3>1. p = <<TRUE, "", TRUE>>
      BY <2>1, <2>2, <2>4 DEF Parts
    <3> QED BY <3>1 DEF BaseNames
  <2>5. CASE r # Null /\ r # {}
    <3>1. p \in Parts(r)
      BY <2>1, <2>2
    <3>2. PICK x \in r : p[2] = x
      BY <2>5, <3>1, PartsName
    <3>3. r \in {ResOf(d.h) : d \in {y \in hes : y.id \in ids}} \ {Null}
      BY <2>1, <2>2, <2>5
    <3> QED BY <3>2, <3>3 DEF BaseNames
  <2> QED BY <2>3, <2>4, <2>5
<1>3. CASE base \in {[kind |-> "nested", parts |-> {}] : e \in {x \in nested : x.id = b}}
  BY <1>3
<1> QED BY <1>1, <1>2, <1>3 DEF Bases

LEMMA NestedNames ==
    ASSUME NEW f \in NestedForms, NEW nested, NEW out \in nested_trigger_function(f, nested),
           out.res # Null, NEW p \in out.res
    PROVE  p[2] \in BaseNames(BaseIds(f))
<1>1. f.bases # Null
  BY DEF nested_trigger_function
<1>2. PICK n \in Nat : n = Len(f.bases)
  <2>1. f.bases \in Seq(HEIds \cup Ids)
    BY <1>1, HEAssumption
  <2> QED BY <2>1
<1>3. PICK found : found \in Lookups(f, nested) /\ out = LoopResult(f.op, found)
  BY <1>1 DEF nested_trigger_function
<1>4. out.res = CombineAll(f.op, found)
  BY <1>3 DEF LoopResult
<1>5. PICK C : C = [i \in 1..n |-> IF Bases(f.bases[i], nested) = {} THEN {NotFound}
                                  ELSE Bases(f.bases[i], nested)]
  OBVIOUS
<1>6. /\ found \in [1..n -> UNION {C[i] : i \in 1..n}]
      /\ \A i \in 1..n : found[i] \in C[i]
  BY <1>2, <1>3, <1>5 DEF Lookups
<1>7. Len(found) = n
  BY <1>6
<1>8. PICK i \in 1..n : p \in found[i].parts
  BY <1>4, <1>7, CombineAllFrom
<1>9. found[i] # NotFound
  BY <1>8 DEF NotFound
<1>10. found[i] \in Bases(f.bases[i], nested)
  BY <1>5, <1>6, <1>9
<1>11. f.bases[i] \in BaseIds(f)
  BY <1>1, <1>2 DEF BaseIds
<1> QED BY <1>8, <1>10, <1>11, BasesName

(* Whatever list of bases a nested hyperedge names, and whatever became of    *)
(* them, its result holds no name that they did not supply.                   *)
THEOREM NestedNamesFromBasesHolds == HSpec => NestedNamesFromBases
<1>1. ASSUME [HNext]_allvars
      PROVE  [\A e \in nhes' \ nhes, c \in loaded' \ loaded :
                LET baseIds == BaseIds(e.form)
                    baseRes == {ResOf(d.h) : d \in {x \in hes : x.id \in baseIds}}
                IN  {p[2] : p \in c.res} \subseteq
                       {""} \cup {n.id : n \in {x \in nodes : x.id \in baseIds}}
                           \cup UNION (baseRes \ {Null})]_allvars
  <2> SUFFICES ASSUME NEW e \in nhes' \ nhes, NEW c \in loaded' \ loaded
               PROVE  {p[2] : p \in c.res} \subseteq BaseNames(BaseIds(e.form))
    BY Zenon DEF BaseNames
  <2> SUFFICES ASSUME NEW p \in c.res
               PROVE  p[2] \in BaseNames(BaseIds(e.form))
    OBVIOUS
  <2>1. PICK id \in HEIds, f \in NestedForms, n \in 1..3 : createNestedHyperEdge(id, f, n)
    <3>1. CASE HQuiet
      BY <3>1 DEF HQuiet
    <3>2. CASE \E id \in HEIds, f \in Forms, n \in 1..3 : createHyperEdge(id, f, n)
      BY <3>2 DEF createHyperEdge
    <3> QED BY <1>1, <3>1, <3>2, HStepCases
  <2>2. e = [h |-> hnext, id |-> id, form |-> f] /\ e.form = f
    BY <2>1 DEF createNestedHyperEdge
  <2>3. PICK last, out :
            /\ out \in IF last = 3 THEN nested_trigger_function(f, nhes \cup {e})
                                   ELSE {[res |-> Null, code |-> -1]}
            /\ loaded' = IF n = last THEN loaded \cup Remember(hnext, out.res) ELSE {}
    BY <2>1, <2>2 DEF createNestedHyperEdge
  <2>4. c \in Remember(hnext, out.res)
    BY <2>3
  <2>5. out.res # Null /\ c.res = out.res
    BY <2>4 DEF Remember
  <2>6. out \in nested_trigger_function(f, nhes \cup {e})
    BY <2>3, <2>5
  <2> QED BY <2>2, <2>5, <2>6, NestedNames
<1> QED BY <1>1, PTL DEF HSpec, NestedNamesFromBases

============================================================================
