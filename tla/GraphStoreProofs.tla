-------------------------- MODULE GraphStoreProofs --------------------------
(* Type correctness and the safety properties of GraphStore, for every set of *)
(* table names, ids, rows and definitions and every number of atoms.          *)
EXTENDS GraphStore, TLAPS

(* The commands that leave the graph as it is: the ones that fail, the ones   *)
(* that are not implemented, and the start and the end of the process.        *)
Quiet ==
    /\ UNCHANGED <<roots, tables, nodes, links, next>>
    /\ faults' \in {faults, faults \cup {"crash"}}
    /\ up' \in BOOLEAN
    /\ reply' \in {0, -1, 1, Null}

(* Every step is quiet or one of the seven steps that change the graph.       *)
LEMMA StepCases ==
    ASSUME TypeOK, [Next]_vars
    PROVE  \/ \E nm \in TypeNames, def \in Defs, n \in 1..3 : create_type(nm, def, n)
           \/ \E nm \in TypeNames, id \in Ids \cup {Null}, row \in Rows \cup {Null}, n \in 1..5 :
                 create_node(nm, id, row, n)
           \/ \E label \in Labels, fromId, toId \in Ids \cup {Null} :
                 create_edge(label, fromId, toId)
           \/ \E nm \in TypeNames, row \in Rows, n \in 1..3 : insert(nm, row, n)
           \/ \E nm \in TypeNames : truncate_table(nm)
           \/ \E nm \in TypeNames : drop_table(nm)
           \/ reset
           \/ Quiet
BY DEF Next, Command, vars, Quiet, create_edge_fails, insert_no_table, no_such_table,
       alter_table, update_or_delete, malformed, exit, kill, restart, TypeOK

(* No link is of the type the traversals of truncate_table and insert follow: *)
(* the type of a link is the type of the value it carries.                    *)
LEMMA NothingFollowed == ASSUME NEW h PROVE WithinTwo(h) = {}
BY DEF WithinTwo, Follow, LinkPredicate, LinkAtomType

(* The loop of truncate_table removes nothing.                                *)
LEMMA NothingTruncated == ASSUME NEW t, NEW nm PROVE Truncated(t, nm) = {}
BY NothingFollowed DEF Truncated

(* insert never finds the referred row.                                       *)
LEMMA NothingReferred == ASSUME NEW t, NEW row PROVE Referred(t, row) = {Null}
BY NothingFollowed DEF Referred

LEMMA TypeInit == ASSUME Init PROVE TypeOK
BY StoreAssumption DEF Init, TypeOK

LEMMA TypeStep ==
    ASSUME TypeOK, [Next]_vars
    PROVE  TypeOK'
<1> USE StoreAssumption
<1>1. ASSUME NEW nm \in TypeNames, NEW def \in Defs, NEW n \in 1..3, create_type(nm, def, n)
      PROVE  TypeOK'
  <2>1. roots' \subseteq Handles /\ next' \in 1..(MaxHandle + 1) /\ nodes' \subseteq NodeType
    BY <1>1 DEF create_type, TypeOK, Allocate, Upto, RootOr, Handles
  <2>2. tables' \subseteq TableType
    BY <1>1 DEF create_type, TypeOK, Allocate, RootOr, Handles, TableType
  <2>3. links' \subseteq LinkType
    <3>1. next \in Handles
      BY <1>1 DEF create_type, TypeOK, Allocate, Handles
    <3>2. PICK root \in RootOr(next + 1) :
             links' \subseteq links \cup {Link("root_type", root, next)}
      BY <1>1 DEF create_type, Upto, RootLink
    <3>3. roots = {} => next + 1 \in Handles
      BY <1>1 DEF create_type, TypeOK, Allocate, Handles
    <3>4. root \in Handles
      BY <3>2, <3>3 DEF RootOr, TypeOK
    <3> QED BY <3>1, <3>2, <3>4 DEF TypeOK, Link, LinkType, LinkLabels
  <2>4. up' \in BOOLEAN /\ reply' \in {0, -1, 1, Null} /\ faults' \subseteq {"crash", "drop"}
    BY <1>1 DEF create_type, TypeOK, Finish
  <2> QED BY <2>1, <2>2, <2>3, <2>4 DEF TypeOK
<1>2. ASSUME NEW nm \in TypeNames, NEW id \in Ids \cup {Null}, NEW row \in Rows \cup {Null},
             NEW n \in 1..5, create_node(nm, id, row, n)
      PROVE  TypeOK'
  <2>1. roots' \subseteq Handles /\ next' \in 1..(MaxHandle + 1)
    BY <1>2 DEF create_node, TypeOK, Allocate, Upto, RootOr, Handles
  <2>2. nodes' \subseteq NodeType
    BY <1>2 DEF create_node, TypeOK, Allocate, RootOr, Handles, NodeType
  <2>3. tables' \subseteq TableType
    BY <1>2 DEF create_node, TypeOK, Allocate, Upto, RootOr, Handles, TableType, TablesNamed
  <2>4. links' \subseteq LinkType
    <3>1. next \in Handles
      BY <1>2 DEF create_node, TypeOK, Allocate, RootOr, Handles
    <3>2. PICK root, h \in Handles :
             links' \subseteq links \cup {Link("root_type", root, h), Link("table_row", h, next)}
      BY <1>2, <3>1 DEF create_node, TypeOK, Allocate, Upto, RootOr, RootLink, RowLink, Handles,
         TableType, TablesNamed
    <3> QED BY <3>1, <3>2 DEF TypeOK, Link, LinkType, LinkLabels
  <2>5. up' \in BOOLEAN /\ reply' \in {0, -1, 1, Null} /\ faults' \subseteq {"crash", "drop"}
    BY <1>2 DEF create_node, TypeOK, Finish
  <2> QED BY <2>1, <2>2, <2>3, <2>4, <2>5 DEF TypeOK
<1>3. ASSUME NEW label \in Labels, NEW fromId \in Ids \cup {Null}, NEW toId \in Ids \cup {Null},
             create_edge(label, fromId, toId)
      PROVE  TypeOK'
  BY <1>3 DEF create_edge, TypeOK, Link, NodesWithId, NodeType, LinkType, LinkLabels
<1>4. ASSUME NEW nm \in TypeNames, NEW row \in Rows, NEW n \in 1..3, insert(nm, row, n)
      PROVE  TypeOK'
  BY <1>4 DEF insert, ForeignWrites, TypeOK, Allocate, Finish, Upto, Link, RootOr, RootLink, RowLink, Handles, Get, Referred,
       TableType, NodeType, LinkType, LinkLabels, TablesNamed, DefType, NoDef
<1>5. ASSUME NEW nm \in TypeNames, truncate_table(nm) PROVE TypeOK'
  BY <1>5 DEF truncate_table, TypeOK
<1>6. ASSUME NEW nm \in TypeNames, drop_table(nm) PROVE TypeOK'
  BY <1>6 DEF drop_table, TypeOK
<1>7. CASE reset
  BY <1>7 DEF reset, TypeOK
<1>8. CASE Quiet
  BY <1>8 DEF Quiet, TypeOK
<1> QED
  BY <1>1, <1>2, <1>3, <1>4, <1>5, <1>6, <1>7, <1>8, StepCases

(* Every reachable state has the declared types: in particular reply and      *)
(* faults take no other value and handles stay within their bound.            *)
THEOREM TypeCorrect == Spec => []TypeOK
BY TypeInit, TypeStep, PTL DEF Spec

(* Handles come from a counter that only reset sets back.                     *)
LEMMA UniqueStep ==
    ASSUME TypeOK, HandlesUnique, [Next]_vars
    PROVE  HandlesUnique'
<1> USE StoreAssumption
<1>1. ASSUME NEW nm \in TypeNames, NEW def \in Defs, NEW n \in 1..3, create_type(nm, def, n)
      PROVE  HandlesUnique'
  BY <1>1 DEF create_type, Allocate, Finish, Upto, Link, RootOr, RootLink, RowLink, TypeOK, HandlesUnique, Handles, TableType, NodeType
<1>2. ASSUME NEW nm \in TypeNames, NEW id \in Ids \cup {Null}, NEW row \in Rows \cup {Null},
             NEW n \in 1..5, create_node(nm, id, row, n)
      PROVE  HandlesUnique'
  BY <1>2 DEF create_node, Allocate, Finish, Upto, Link, RootOr, RootLink, RowLink, TablesNamed, TypeOK, HandlesUnique, Handles, TableType, NodeType
<1>3. ASSUME NEW label \in Labels, NEW fromId \in Ids \cup {Null}, NEW toId \in Ids \cup {Null},
             create_edge(label, fromId, toId)
      PROVE  HandlesUnique'
  BY <1>3 DEF create_edge, Link, NodesWithId, TypeOK, HandlesUnique, Handles, TableType, NodeType
<1>4. ASSUME NEW nm \in TypeNames, NEW row \in Rows, NEW n \in 1..3, insert(nm, row, n)
      PROVE  HandlesUnique'
  BY <1>4 DEF insert, ForeignWrites, Allocate, Finish, Upto, Link, RootOr, RootLink, RowLink, TablesNamed, Referred, TypeOK, HandlesUnique, Handles, TableType, NodeType
<1>5. ASSUME NEW nm \in TypeNames, truncate_table(nm)
      PROVE  HandlesUnique'
  BY <1>5, NothingTruncated DEF truncate_table, IncidentTo, TypeOK, HandlesUnique, Handles, TableType, NodeType
<1>6. ASSUME NEW nm \in TypeNames, drop_table(nm)
      PROVE  HandlesUnique'
  BY <1>6, NothingTruncated DEF drop_table, TablesNamed, IncidentTo, TypeOK, HandlesUnique, Handles, TableType, NodeType
<1>7. CASE reset
  BY <1>7 DEF reset, TypeOK, HandlesUnique, Handles, TableType, NodeType
<1>8. CASE Quiet
  BY <1>8 DEF Quiet, TypeOK, HandlesUnique, Handles, TableType, NodeType
<1> QED
  BY <1>1, <1>2, <1>3, <1>4, <1>5, <1>6, <1>7, <1>8, StepCases

(* What Layered says of one link.                                             *)
Legal(l) ==
    \/ l.from \in roots /\ \E t \in tables : l.to = t.h
    \/ \E t \in tables, n \in nodes : l.from = t.h /\ l.to = n.h /\ n.type = t.name
    \/ \E m, n \in nodes : l.from = m.h /\ l.to = n.h

LEMMA LayeredIsLegal ==
    /\ Layered <=> \A l \in links : Legal(l)
    /\ Layered' <=> \A l \in links' : Legal(l)'
BY DEF Layered, Legal

(* A write of a link follows the writes of its two ends.                      *)
LEMMA LayeredStep ==
    ASSUME TypeOK, HandlesUnique, Layered, [Next]_vars
    PROVE  Layered'
<1> USE StoreAssumption
<1>1. ASSUME NEW nm \in TypeNames, NEW def \in Defs, NEW n \in 1..3, create_type(nm, def, n)
      PROVE  Layered'
  <2>1. PICK root \in RootOr(next + 1) :
           /\ tables' = tables \cup {[h |-> next, name |-> nm, def |-> def]}
           /\ roots' = roots \cup Upto(n, 2, {root})
           /\ links' = links \cup Upto(n, IF roots = {} THEN 3 ELSE 2,
                                        RootLink(root, next))
           /\ nodes' = nodes
    BY <1>1 DEF create_type
  <2> SUFFICES ASSUME NEW l \in links'
               PROVE  Legal(l)'
    BY LayeredIsLegal
  <2>2. CASE l \in links
    BY <2>1, <2>2, LayeredIsLegal DEF Legal
  <2>3. CASE l \notin links
    <3>1. l = Link("root_type", root, next) /\ root \in roots'
      BY <2>1, <2>3 DEF Upto, RootLink, RowLink
    <3>2. [h |-> next, name |-> nm, def |-> def] \in tables'
      BY <2>1
    <3> QED BY <3>1, <3>2 DEF Link, Legal
  <2> QED BY <2>2, <2>3
<1>2. ASSUME NEW nm \in TypeNames, NEW id \in Ids \cup {Null}, NEW row \in Rows \cup {Null},
             NEW n \in 1..5, create_node(nm, id, row, n)
      PROVE  Layered'
  <2> DEFINE newTable == TablesNamed(nm) = {}
             rootLink == IF newTable /\ roots = {} THEN 4 ELSE 3
             row0 == [h |-> next, type |-> nm, id |-> id, data |-> row]
  <2>1. PICK t \in IF newTable THEN {[h |-> next + 1, name |-> nm, def |-> NoDef]}
                               ELSE TablesNamed(nm),
             root \in RootOr(next + 2) :
           /\ nodes' = nodes \cup {row0}
           /\ tables' = tables \cup Upto(n, 2, {t})
           /\ roots' = IF newTable THEN roots \cup Upto(n, 3, {root}) ELSE roots
           /\ links' = links
                 \cup (IF newTable THEN Upto(n, rootLink, RootLink(root, t.h))
                                   ELSE {})
                 \cup Upto(n, IF newTable THEN rootLink + 1 ELSE 2,
                            RowLink(t, next))
    BY <1>2 DEF create_node
  <2> SUFFICES ASSUME NEW l \in links'
               PROVE  Legal(l)'
    BY LayeredIsLegal
  <2>2. CASE l \in links
    <3>1. roots \subseteq roots' /\ tables \subseteq tables' /\ nodes \subseteq nodes'
      BY <2>1
    <3> QED BY <2>2, <3>1, LayeredIsLegal DEF Legal
  <2>3. CASE newTable /\ rootLink <= n /\ l = Link("root_type", root, t.h)
    <3>1. root \in roots' /\ t \in tables'
      BY <2>1, <2>3 DEF Upto, RootLink, RowLink
    <3> QED BY <2>3, <3>1 DEF Link, Legal
  <2>4. CASE 2 <= n /\ l = Link("table_row", t.h, next)
    <3>1. t \in tables' /\ t.name = nm /\ row0 \in nodes'
      BY <2>1, <2>4 DEF Upto, TablesNamed
    <3>2. row0.h = next /\ row0.type = nm
      OBVIOUS
    <3> QED BY <2>4, <3>1, <3>2 DEF Link, Legal
  <2> QED BY <2>1, <2>2, <2>3, <2>4 DEF Upto, RootLink, RowLink
<1>3. ASSUME NEW label \in Labels, NEW fromId \in Ids \cup {Null}, NEW toId \in Ids \cup {Null},
             create_edge(label, fromId, toId)
      PROVE  Layered'
  BY <1>3 DEF create_edge, Link, NodesWithId, TypeOK, Layered
<1>4. ASSUME NEW nm \in TypeNames, NEW row \in Rows, NEW n \in 1..3, insert(nm, row, n)
      PROVE  Layered'
  <2> DEFINE row0(t) == [h |-> next, type |-> nm, id |-> Get(row, t.def.key), data |-> row]
  <2>1. PICK t \in TablesNamed(nm) :
           /\ nodes' = nodes \cup {row0(t)}
           /\ links' \subseteq links \cup {Link("table_row", t.h, next)}
           /\ tables' = tables /\ roots' = roots
    BY <1>4, NothingReferred DEF insert, ForeignWrites, Upto, RowLink
  <2> SUFFICES ASSUME NEW l \in links'
               PROVE  Legal(l)'
    BY LayeredIsLegal
  <2>2. CASE l \in links
    BY <2>1, <2>2, LayeredIsLegal DEF Legal
  <2>3. CASE l = Link("table_row", t.h, next)
    <3>1. t \in tables' /\ t.name = nm /\ row0(t) \in nodes'
      BY <2>1 DEF TablesNamed
    <3> QED BY <2>3, <3>1 DEF Link, Legal
  <2> QED BY <2>1, <2>2, <2>3
<1>5. ASSUME NEW nm \in TypeNames, truncate_table(nm)
      PROVE  Layered'
  BY <1>5, NothingTruncated DEF truncate_table, IncidentTo, TypeOK, Layered
<1>6. ASSUME NEW nm \in TypeNames, drop_table(nm)
      PROVE  Layered'
  BY <1>6, NothingTruncated DEF drop_table, TablesNamed, IncidentTo, TypeOK, Layered
<1>7. CASE reset
  BY <1>7 DEF reset, TypeOK, Layered
<1>8. CASE Quiet
  BY <1>8 DEF Quiet, TypeOK, Layered
<1> QED
  BY <1>1, <1>2, <1>3, <1>4, <1>5, <1>6, <1>7, <1>8, StepCases

(* The Root is looked up before it is added.                                  *)
LEMMA OneRootStep ==
    ASSUME TypeOK, OneRoot, [Next]_vars
    PROVE  OneRoot'
<1> USE StoreAssumption
<1>1. ASSUME NEW nm \in TypeNames, NEW def \in Defs, NEW n \in 1..3, create_type(nm, def, n)
      PROVE  OneRoot'
  BY <1>1 DEF create_type, Allocate, Finish, Upto, Link, RootOr, RootLink, RowLink, TypeOK, OneRoot
<1>2. ASSUME NEW nm \in TypeNames, NEW id \in Ids \cup {Null}, NEW row \in Rows \cup {Null},
             NEW n \in 1..5, create_node(nm, id, row, n)
      PROVE  OneRoot'
  BY <1>2 DEF create_node, Allocate, Finish, Upto, Link, RootOr, RootLink, RowLink, TablesNamed, TypeOK, OneRoot
<1>3. ASSUME NEW label \in Labels, NEW fromId \in Ids \cup {Null}, NEW toId \in Ids \cup {Null},
             create_edge(label, fromId, toId)
      PROVE  OneRoot'
  BY <1>3 DEF create_edge, Link, NodesWithId, TypeOK, OneRoot
<1>4. ASSUME NEW nm \in TypeNames, NEW row \in Rows, NEW n \in 1..3, insert(nm, row, n)
      PROVE  OneRoot'
  BY <1>4 DEF insert, ForeignWrites, Allocate, Finish, Upto, Link, RootOr, RootLink, RowLink, TablesNamed, Referred, TypeOK, OneRoot
<1>5. ASSUME NEW nm \in TypeNames, truncate_table(nm)
      PROVE  OneRoot'
  BY <1>5, NothingTruncated DEF truncate_table, IncidentTo, TypeOK, OneRoot
<1>6. ASSUME NEW nm \in TypeNames, drop_table(nm)
      PROVE  OneRoot'
  BY <1>6, NothingTruncated DEF drop_table, TablesNamed, IncidentTo, TypeOK, OneRoot
<1>7. CASE reset
  BY <1>7 DEF reset, TypeOK, OneRoot
<1>8. CASE Quiet
  BY <1>8 DEF Quiet, TypeOK, OneRoot
<1> QED
  BY <1>1, <1>2, <1>3, <1>4, <1>5, <1>6, <1>7, <1>8, StepCases

(* The only link from a table to a row is made with the row.                  *)
LEMMA OneTableStep ==
    ASSUME TypeOK, HandlesUnique, Layered, OneTablePerRow, [Next]_vars
    PROVE  OneTablePerRow'
<1> USE StoreAssumption
<1>1. ASSUME NEW nm \in TypeNames, NEW def \in Defs, NEW n \in 1..3, create_type(nm, def, n)
      PROVE  OneTablePerRow'
  BY <1>1 DEF create_type, Allocate, Finish, Upto, Link, RootOr, RootLink, RowLink, TypeOK, HandlesUnique, Layered, OneTablePerRow
<1>2. ASSUME NEW nm \in TypeNames, NEW id \in Ids \cup {Null}, NEW row \in Rows \cup {Null},
             NEW n \in 1..5, create_node(nm, id, row, n)
      PROVE  OneTablePerRow'
  BY <1>2 DEF create_node, Allocate, Finish, Upto, Link, RootOr, RootLink, RowLink, TablesNamed, TypeOK, HandlesUnique, Layered, OneTablePerRow
<1>3. ASSUME NEW label \in Labels, NEW fromId \in Ids \cup {Null}, NEW toId \in Ids \cup {Null},
             create_edge(label, fromId, toId)
      PROVE  OneTablePerRow'
  BY <1>3 DEF create_edge, Link, NodesWithId, TypeOK, HandlesUnique, Layered, OneTablePerRow
<1>4. ASSUME NEW nm \in TypeNames, NEW row \in Rows, NEW n \in 1..3, insert(nm, row, n)
      PROVE  OneTablePerRow'
  BY <1>4 DEF insert, ForeignWrites, Allocate, Finish, Upto, Link, RootOr, RootLink, RowLink, TablesNamed, Referred, TypeOK, HandlesUnique, Layered, OneTablePerRow
<1>5. ASSUME NEW nm \in TypeNames, truncate_table(nm)
      PROVE  OneTablePerRow'
  BY <1>5, NothingTruncated DEF truncate_table, IncidentTo, TypeOK, HandlesUnique, Layered, OneTablePerRow
<1>6. ASSUME NEW nm \in TypeNames, drop_table(nm)
      PROVE  OneTablePerRow'
  BY <1>6, NothingTruncated DEF drop_table, TablesNamed, IncidentTo, TypeOK, HandlesUnique, Layered, OneTablePerRow
<1>7. CASE reset
  BY <1>7 DEF reset, TypeOK, HandlesUnique, Layered, OneTablePerRow
<1>8. CASE Quiet
  BY <1>8 DEF Quiet, TypeOK, HandlesUnique, Layered, OneTablePerRow
<1> QED
  BY <1>1, <1>2, <1>3, <1>4, <1>5, <1>6, <1>7, <1>8, StepCases

(* A handler that replied made every link of the atoms it added.              *)
LEMMA OrphansStep ==
    ASSUME TypeOK, HandlesUnique, Layered, OrphansHaveACause, [Next]_vars
    PROVE  OrphansHaveACause'
<1> USE StoreAssumption
<1>1. ASSUME NEW nm \in TypeNames, NEW def \in Defs, NEW n \in 1..3, create_type(nm, def, n)
      PROVE  OrphansHaveACause'
  <2> SUFFICES ASSUME "crash" \notin faults'
               PROVE  /\ \A t \in tables' : Rooted(t)'
                      /\ faults' = {} => \A x \in nodes' : Attached(x)'
    BY DEF OrphansHaveACause
  <2> DEFINE writes == IF roots = {} THEN 3 ELSE 2
  <2>0. PICK root \in RootOr(next + 1) :
           /\ tables' = tables \cup {[h |-> next, name |-> nm, def |-> def]}
           /\ roots' = roots \cup Upto(n, 2, {root})
           /\ links' = links \cup Upto(n, writes, RootLink(root, next))
           /\ nodes' = nodes
           /\ Finish(n, writes, 0)
    BY <1>1 DEF create_type
  <2>1. /\ roots' = roots \cup {root}
        /\ links' = links \cup {Link("root_type", root, next)}
        /\ faults' = faults
    <3>1. n = writes
      BY <2>0 DEF Finish
    <3> QED BY <2>0, <3>1 DEF Finish, Upto, RootLink
  <2>2. ASSUME NEW t \in tables' PROVE Rooted(t)'
    <3>1. CASE t \in tables
      BY <2>0, <2>1, <3>1 DEF OrphansHaveACause, Rooted
    <3>2. CASE t = [h |-> next, name |-> nm, def |-> def]
      <4>1. Link("root_type", root, next) \in links' /\ root \in roots'
        BY <2>1
      <4> QED BY <3>2, <4>1 DEF Rooted, Link
    <3> QED BY <2>0, <3>1, <3>2
  <2>3. faults' = {} => \A x \in nodes' : Attached(x)'
    BY <2>0, <2>1 DEF OrphansHaveACause, Attached
  <2> QED BY <2>2, <2>3
<1>2. ASSUME NEW nm \in TypeNames, NEW id \in Ids \cup {Null}, NEW row \in Rows \cup {Null},
             NEW n \in 1..5, create_node(nm, id, row, n)
      PROVE  OrphansHaveACause'
  <2> DEFINE newTable == TablesNamed(nm) = {}
             rootLink == IF newTable /\ roots = {} THEN 4 ELSE 3
             writes == IF newTable THEN rootLink + 1 ELSE 2
             row0 == [h |-> next, type |-> nm, id |-> id, data |-> row]
  <2> SUFFICES ASSUME "crash" \notin faults'
               PROVE  /\ \A t \in tables' : Rooted(t)'
                      /\ faults' = {} => \A x \in nodes' : Attached(x)'
    BY DEF OrphansHaveACause
  <2>1. PICK t \in IF newTable THEN {[h |-> next + 1, name |-> nm, def |-> NoDef]}
                               ELSE TablesNamed(nm),
             root \in RootOr(next + 2) :
           /\ nodes' = nodes \cup {row0}
           /\ tables' = tables \cup Upto(n, 2, {t})
           /\ roots' = IF newTable THEN roots \cup Upto(n, 3, {root}) ELSE roots
           /\ links' = links
                 \cup (IF newTable THEN Upto(n, rootLink, RootLink(root, t.h))
                                   ELSE {})
                 \cup Upto(n, writes, RowLink(t, next))
           /\ Finish(n, writes, 0)
    BY <1>2 DEF create_node
  <2>2. n = writes /\ faults' = faults
    BY <2>1 DEF Finish
  <2>3. /\ tables' = tables \cup {t}
        /\ roots' = IF newTable THEN roots \cup {root} ELSE roots
        /\ links' = links \cup (IF newTable THEN {Link("root_type", root, t.h)} ELSE {})
                         \cup {Link("table_row", t.h, next)}
    <3>1. /\ Upto(n, 2, {t}) = {t}
          /\ newTable => Upto(n, 3, {root}) = {root}
          /\ newTable => Upto(n, rootLink, RootLink(root, t.h)) = RootLink(root, t.h)
          /\ Upto(n, writes, RowLink(t, next)) = RowLink(t, next)
      BY <2>2 DEF Upto
    <3> QED BY <2>1, <3>1 DEF RootLink, RowLink
  <2>4. ASSUME NEW u \in tables' PROVE Rooted(u)'
    <3>1. CASE u \in tables
      BY <2>2, <2>3, <3>1 DEF OrphansHaveACause, Rooted
    <3>2. CASE newTable /\ u = t
      <4>1. Link("root_type", root, t.h) \in links' /\ root \in roots'
        BY <2>3, <3>2
      <4> QED BY <3>2, <4>1 DEF Rooted, Link
    <3> QED BY <2>3, <3>1, <3>2 DEF TablesNamed
  <2>5. ASSUME faults' = {}, NEW x \in nodes' PROVE Attached(x)'
    <3>1. CASE x \in nodes
      BY <2>2, <2>1, <2>3, <2>5, <3>1 DEF OrphansHaveACause, Attached
    <3>2. CASE x = row0
      <4>1. Link("table_row", t.h, next) \in links' /\ t \in tables'
        BY <2>3
      <4> QED BY <3>2, <4>1 DEF Attached, Link
    <3> QED BY <2>1, <3>1, <3>2
  <2> QED BY <2>4, <2>5
<1>3. ASSUME NEW label \in Labels, NEW fromId \in Ids \cup {Null}, NEW toId \in Ids \cup {Null},
             create_edge(label, fromId, toId)
      PROVE  OrphansHaveACause'
  BY <1>3 DEF create_edge, Link, NodesWithId, TypeOK, HandlesUnique, OrphansHaveACause, Rooted, Attached
<1>4. ASSUME NEW nm \in TypeNames, NEW row \in Rows, NEW n \in 1..3, insert(nm, row, n)
      PROVE  OrphansHaveACause'
  <2> DEFINE row0(t) == [h |-> next, type |-> nm, id |-> Get(row, t.def.key), data |-> row]
  <2> SUFFICES ASSUME "crash" \notin faults'
               PROVE  /\ \A t \in tables' : Rooted(t)'
                      /\ faults' = {} => \A x \in nodes' : Attached(x)'
    BY DEF OrphansHaveACause
  <2>1. PICK t \in TablesNamed(nm) :
           /\ nodes' = nodes \cup {row0(t)}
           /\ links' = links \cup {Link("table_row", t.h, next)}
           /\ tables' = tables /\ roots' = roots /\ faults' = faults
    BY <1>4, NothingReferred DEF insert, ForeignWrites, Upto, Finish, RowLink
  <2>2. ASSUME NEW u \in tables' PROVE Rooted(u)'
    BY <2>1 DEF OrphansHaveACause, Rooted
  <2>3. ASSUME faults' = {}, NEW x \in nodes' PROVE Attached(x)'
    <3>1. CASE x \in nodes
      BY <2>1, <2>3, <3>1 DEF OrphansHaveACause, Attached
    <3>2. CASE x = row0(t)
      <4>1. Link("table_row", t.h, next) \in links' /\ t \in tables'
        BY <2>1 DEF TablesNamed
      <4> QED BY <3>2, <4>1 DEF Attached, Link
    <3> QED BY <2>1, <3>1, <3>2
  <2> QED BY <2>2, <2>3
<1>5. ASSUME NEW nm \in TypeNames, truncate_table(nm)
      PROVE  OrphansHaveACause'
  BY <1>5, NothingTruncated DEF truncate_table, IncidentTo, TypeOK, HandlesUnique, OrphansHaveACause, Rooted, Attached
<1>6. ASSUME NEW nm \in TypeNames, drop_table(nm)
      PROVE  OrphansHaveACause'
  BY <1>6, NothingTruncated DEF drop_table, TablesNamed, IncidentTo, TypeOK, HandlesUnique, OrphansHaveACause, Rooted, Attached
<1>7. CASE reset
  BY <1>7 DEF reset, TypeOK, HandlesUnique, OrphansHaveACause, Rooted, Attached
<1>8. CASE Quiet
  BY <1>8 DEF Quiet, TypeOK, HandlesUnique, OrphansHaveACause, Rooted, Attached
<1> QED
  BY <1>1, <1>2, <1>3, <1>4, <1>5, <1>6, <1>7, <1>8, StepCases

(* The inductive invariant.  Layered and OneTablePerRow need fresh handles to *)
(* be the end of no link, which HandlesUnique gives them.                     *)
IndInv ==
    /\ TypeOK
    /\ HandlesUnique
    /\ Layered
    /\ OneRoot
    /\ OneTablePerRow
    /\ OrphansHaveACause

LEMMA IndInvInvariant == Spec => []IndInv
<1>1. Init => IndInv
  BY TypeInit DEF Init, IndInv, HandlesUnique, Layered, OneRoot, OneTablePerRow,
     OrphansHaveACause
<1>2. IndInv /\ [Next]_vars => IndInv'
  BY TypeStep, UniqueStep, LayeredStep, OneRootStep, OneTableStep, OrphansStep DEF IndInv
<1> QED BY <1>1, <1>2, PTL DEF Spec

(* Links lead from the Root to tables, from tables to their own rows, and     *)
(* between rows, after any sequence of commands, kills and restarts.          *)
THEOREM LayeredHolds == Spec => []Layered
<1>1. IndInv => Layered
  BY DEF IndInv
<1> QED BY <1>1, IndInvInvariant, PTL

(* Both ends of every link are atoms of the graph.                            *)
THEOREM NoDanglingLinksHolds == Spec => []NoDanglingLinks
<1>1. IndInv => NoDanglingLinks
  BY DEF IndInv, Layered, NoDanglingLinks, Atoms
<1> QED BY <1>1, IndInvInvariant, PTL

(* There is never a second Root.                                              *)
THEOREM OneRootHolds == Spec => []OneRoot
<1>1. IndInv => OneRoot
  BY DEF IndInv
<1> QED BY <1>1, IndInvInvariant, PTL

(* A row is never linked from two tables.                                     *)
THEOREM OneTablePerRowHolds == Spec => []OneTablePerRow
<1>1. IndInv => OneTablePerRow
  BY DEF IndInv
<1> QED BY <1>1, IndInvInvariant, PTL

(* Only kills leave unrooted tables; only kills and drop_table orphan rows.   *)
THEOREM OrphansHaveACauseHolds == Spec => []OrphansHaveACause
<1>1. IndInv => OrphansHaveACause
  BY DEF IndInv
<1> QED BY <1>1, IndInvInvariant, PTL

(* Removing a table takes the links of its node away and no other link: every *)
(* link that ends, ends with an atom it led to or from.                       *)
THEOREM LinksEndWithTheirEndsHolds == Spec => LinksEndWithTheirEnds
<1>1. ASSUME IndInv, [Next]_vars
      PROVE  [next' # 1 =>
                \A l \in links \ links' : l.from \notin Atoms' \/ l.to \notin Atoms']_vars
  <2>1. ASSUME NEW nm \in TypeNames, drop_table(nm), NEW l \in links \ links'
        PROVE  l.from \notin Atoms' \/ l.to \notin Atoms'
    <3>1. PICK d \in tables : /\ nodes' = nodes /\ roots' = roots
                              /\ tables' = tables \ {d}
                              /\ links' = links \ IncidentTo({d.h})
      BY <2>1, NothingTruncated DEF drop_table, TablesNamed
    <3>2. d.h \notin Atoms'
      BY <1>1, <3>1 DEF IndInv, HandlesUnique, Atoms
    <3> QED BY <2>1, <3>1, <3>2 DEF IncidentTo
  <2>2. ASSUME NEW nm \in TypeNames, truncate_table(nm) PROVE links' = links
    BY <2>2, NothingTruncated DEF truncate_table, IncidentTo
  <2>3. ASSUME NEW nm \in TypeNames, NEW def \in Defs, NEW n \in 1..3, create_type(nm, def, n)
        PROVE  links \subseteq links'
    BY <2>3 DEF create_type
  <2>4. ASSUME NEW nm \in TypeNames, NEW id \in Ids \cup {Null}, NEW row \in Rows \cup {Null},
               NEW n \in 1..5, create_node(nm, id, row, n)
        PROVE  links \subseteq links'
    BY <2>4 DEF create_node
  <2>5. ASSUME NEW nm \in TypeNames, NEW row \in Rows, NEW n \in 1..3, insert(nm, row, n)
        PROVE  links \subseteq links'
    BY <2>5 DEF insert
  <2>6. ASSUME NEW label \in Labels, NEW fromId \in Ids \cup {Null},
               NEW toId \in Ids \cup {Null}, create_edge(label, fromId, toId)
        PROVE  links \subseteq links'
    BY <2>6 DEF create_edge
  <2>7. TypeOK
    BY <1>1 DEF IndInv
  <2> QED
    BY <1>1, <2>1, <2>2, <2>3, <2>4, <2>5, <2>6, <2>7, StepCases DEF reset, Quiet
<1> QED BY <1>1, IndInvInvariant, PTL DEF Spec, LinksEndWithTheirEnds

(* No later command attaches an orphaned row or roots an unrooted table.      *)
THEOREM OrphansAreNotAdoptedHolds == Spec => OrphansAreNotAdopted
<1> DEFINE Kept == /\ \A n \in nodes : Attached(n)' => Attached(n)
                   /\ \A t \in tables : Rooted(t)' => Rooted(t)
<1>1. ASSUME IndInv, [Next]_vars
      PROVE  [Kept]_vars
  <2> USE <1>1, StoreAssumption DEF IndInv
  <2>1. ASSUME NEW nm \in TypeNames, NEW def \in Defs, NEW n \in 1..3, create_type(nm, def, n)
        PROVE  Kept
    BY <2>1 DEF create_type, Upto, Link, RootOr, RootLink, RowLink, Attached, Rooted, Allocate, TypeOK, HandlesUnique, Layered
  <2>2. ASSUME NEW nm \in TypeNames, NEW id \in Ids \cup {Null}, NEW row \in Rows \cup {Null},
               NEW n \in 1..5, create_node(nm, id, row, n)
        PROVE  Kept
    BY <2>2 DEF create_node, Upto, Link, RootOr, RootLink, RowLink, Attached, Rooted, Allocate, TypeOK, HandlesUnique, Layered, TablesNamed
  <2>3. ASSUME NEW label \in Labels, NEW fromId \in Ids \cup {Null}, NEW toId \in Ids \cup {Null},
               create_edge(label, fromId, toId)
        PROVE  Kept
    BY <2>3 DEF create_edge, Link, NodesWithId, Attached, Rooted, HandlesUnique
  <2>4. ASSUME NEW nm \in TypeNames, NEW row \in Rows, NEW n \in 1..3, insert(nm, row, n)
        PROVE  Kept
    BY <2>4, NothingReferred DEF insert, ForeignWrites, Upto, Link, RootOr, RootLink, RowLink, Attached, Rooted, HandlesUnique, TypeOK
  <2>5. ASSUME NEW nm \in TypeNames, truncate_table(nm) \/ drop_table(nm)
        PROVE  Kept
    BY <2>5, NothingTruncated DEF truncate_table, drop_table, Attached, Rooted
  <2> QED
    BY <2>1, <2>2, <2>3, <2>4, <2>5, StepCases DEF reset, Quiet, Attached, Rooted
<1> QED BY <1>1, IndInvInvariant, PTL DEF Spec, OrphansAreNotAdopted

=============================================================================
