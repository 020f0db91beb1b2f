----------------------------- MODULE GraphStore -----------------------------
(* The property graph that the hgdb command line keeps in HyperGraphDB, and   *)
(* one action per command of CLI.processCommand that works on it.             *)
(*                                                                            *)
(* Every graph.add and graph.remove of a handler is a HyperGraphDB            *)
(* transaction of its own, so a process that is killed inside a handler keeps *)
(* the handler's first n writes.  Each handler is one action with that n as a *)
(* parameter: n is the number of its writes when the handler ran to its end.  *)
EXTENDS Integers, FiniteSets

CONSTANTS
    TypeNames,   \* names of tables, the "type" of a node; Null is one of them
                 \*   when users leave the name or the type out of a statement
    Ids,         \* node ids, and every other value of a column
    Attrs,       \* column names
    Null,        \* Java's null
    Rows,        \* the "values" objects of the commands: partial maps Attrs -> Ids
    Defs,        \* the table definitions users give: key and foreign key columns
    Labels,      \* labels users give to edges, Null for an edge without one
    MaxHandle,   \* bound on the number of atoms ever added between two resets
    MaxLinks     \* bound on the links of a graph that create_edge extends

Handles == 1..MaxHandle

(* Table() followed by setName only, and the tables of create_graph.          *)
NoDef == [key |-> Null, foreignKey |-> Null,
          referredTable |-> Null, referredAttr |-> Null]

DefType == [key : Attrs \cup {Null}, foreignKey : Attrs \cup {Null},
            referredTable : TypeNames \cup {Null},
            referredAttr : Attrs \cup {Null}]

ASSUME StoreAssumption ==
    /\ MaxHandle \in Nat
    /\ Null \notin Ids \cup Attrs /\ Null \notin Rows
    /\ Defs \subseteq DefType
    /\ \A row \in Rows : DOMAIN row \subseteq Attrs /\ \A a \in DOMAIN row : row[a] \in Ids

VARIABLES
    roots,    \* handles of the Root atoms
    tables,   \* Table atoms
    nodes,    \* Node atoms
    links,    \* HGValueLink atoms between two atoms
    next,     \* the next fresh handle
    up,       \* is the process running?
    reply,    \* what the last command returned: 0, -1 or 1, Null when none did
    faults    \* history: "crash" and "drop" events since the last reset

graph == <<roots, tables, nodes, links>>
vars == <<roots, tables, nodes, links, next, up, reply, faults>>

TableType == [h : Handles, name : TypeNames, def : Defs \cup {NoDef}]
NodeType == [h : Handles, type : TypeNames, id : Ids \cup {Null},
             data : Rows \cup {Null}]
LinkLabels == {"root_type", "table_row", "foreign"} \cup Labels
LinkType == [label : LinkLabels, from : Handles, to : Handles]

Atoms == roots \cup {t.h : t \in tables} \cup {n.h : n \in nodes}

-----------------------------------------------------------------------------
(* What the handlers read.                                                    *)

Get(row, a) == IF row # Null /\ a \in DOMAIN row THEN row[a] ELSE Null

(* Mutant: the lookup forgets hg.eq("name", ...).                             *)
MutAnyTable(nm) == tables

(* The candidates of graph.findOne: it returns an arbitrary one of them.      *)
TablesNamed(nm) == {t \in tables : t.name = nm}
NodesWithId(id) == {n \in nodes : n.id = id}

(* Java's == on two strings parsed from different statements.                 *)
SameReference(a, b) == a = Null /\ b = Null

(* An HGValueLink is stored with the type of the value it carries, a String.  *)
LinkAtomType(l) == "String"

(* The link predicate hg.type(HGValueLink.class) of truncate_table and insert *)
LinkPredicate(l) == LinkAtomType(l) = "HGValueLink"

(* The atoms a forward traversal of depth 2 from h returns.                   *)
Follow(hs) == {l.to : l \in {k \in links : k.from \in hs /\ LinkPredicate(k)}}
WithinTwo(h) == (Follow({h}) \cup Follow(Follow({h}))) \ {h}

(* Mutant: graph.remove(h, true) keeps the incident links.                    *)
MutKeepIncident(hs) == {}

(* Mutant: the removal goes on to the atoms the incident links lead to.       *)
MutCascade(hs) ==
    LET near == hs \cup {l.to : l \in {k \in links : k.from \in hs}}
    IN  {l \in links : l.from \in near \/ l.to \in near}

IncidentTo(hs) == {l \in links : l.from \in hs \/ l.to \in hs}

Link(label, from, to) == [label |-> label, from |-> from, to |-> to]

(* Mutant: the Root is added without looking for one.                         *)
MutNewRoot(h) == {h}

(* The Root a table is linked from: one that exists, else a new one.          *)
RootOr(h) == IF roots = {} THEN {h} ELSE roots

(* Mutant: the link is forgotten when the Root existed before.                *)
MutRootLinkNew(root, h) == IF roots = {} THEN {Link("root_type", root, h)} ELSE {}

(* Mutant: every table there is gets linked again.                            *)
MutRootLinkAll(root, h) == {Link("root_type", root, k) : k \in {h} \cup {t.h : t \in tables}}

RootLink(root, h) == {Link("root_type", root, h)}

(* Mutant: the row is linked from all the tables of its name.                 *)
MutRowLinkAll(t, h) == {Link("table_row", u.h, h) : u \in {t} \cup TablesNamed(t.name)}

RowLink(t, h) == {Link("table_row", t.h, h)}

(* The k-th write of a handler is kept when n of its writes are.              *)
Upto(n, k, S) == IF k <= n THEN S ELSE {}

(* A handler that made all of its writes replies; one that was killed before  *)
(* that leaves the process down.                                              *)
Finish(n, writes, code) ==
    /\ up' = (n = writes)
    /\ reply' = IF n = writes THEN code ELSE Null
    /\ faults' = IF n = writes THEN faults ELSE faults \cup {"crash"}

Allocate(k) ==
    /\ next + k <= MaxHandle + 1
    /\ next' = next + k

-----------------------------------------------------------------------------
Init ==
    /\ roots = {} /\ tables = {} /\ nodes = {} /\ links = {}
    /\ next = 1
    /\ up = TRUE
    /\ reply = Null
    /\ faults = {}

create_type(nm, def, n) ==
    LET writes == IF roots = {} THEN 3 ELSE 2
    IN  \E root \in RootOr(next + 1) :
        /\ up
        /\ n \in 1..writes
        /\ Allocate(IF roots = {} THEN 2 ELSE 1)
        /\ tables' = tables \cup {[h |-> next, name |-> nm, def |-> def]}
        /\ roots' = roots \cup Upto(n, 2, {root})
        /\ links' = links \cup Upto(n, writes, RootLink(root, next))
        /\ Finish(n, writes, 0)
        /\ UNCHANGED nodes

(* A node of an unknown type creates its table, and the root if need be.      *)
create_node(nm, id, row, n) ==
    LET newTable == TablesNamed(nm) = {}
        newRoot == newTable /\ roots = {}
        rootLink == IF newRoot THEN 4 ELSE 3
        writes == IF newTable THEN rootLink + 1 ELSE 2
    IN  \E t \in IF newTable THEN {[h |-> next + 1, name |-> nm, def |-> NoDef]}
                             ELSE TablesNamed(nm) :
        \E root \in RootOr(next + 2) :
        /\ up
        /\ n \in 1..writes
        /\ Allocate(IF newRoot THEN 3 ELSE IF newTable THEN 2 ELSE 1)
        /\ nodes' = nodes \cup {[h |-> next, type |-> nm, id |-> id, data |-> row]}
        /\ tables' = tables \cup Upto(n, 2, {t})
        /\ roots' = IF newTable THEN roots \cup Upto(n, 3, {root}) ELSE roots
        /\ links' = links
              \cup (IF newTable THEN Upto(n, rootLink, RootLink(root, t.h)) ELSE {})
              \cup Upto(n, writes, RowLink(t, next))
        /\ Finish(n, writes, 0)

create_edge(label, fromId, toId) ==
    /\ up
    /\ Cardinality(links) < MaxLinks
    /\ \E from \in NodesWithId(fromId), to \in NodesWithId(toId) :
          links' = links \cup {Link(label, from.h, to.h)}
    /\ reply' = 0
    /\ UNCHANGED <<roots, tables, nodes, next, up, faults>>

create_edge_fails(fromId, toId) ==
    /\ up
    /\ NodesWithId(fromId) = {} \/ NodesWithId(toId) = {}
    /\ reply' = -1
    /\ UNCHANGED <<roots, tables, nodes, links, next, up, faults>>

(* The rows of the referred table that insert finds for a foreign key; Null   *)
(* when the search ends without one.                                          *)
Referred(t, row) ==
    LET found == {x \in nodes :
                    /\ \E r \in TablesNamed(t.def.referredTable) : x.h \in WithinTwo(r.h)
                    /\ SameReference(x.type, t.def.referredTable)
                    /\ Get(x.data, t.def.referredAttr) = Get(row, t.def.foreignKey)}
    IN  IF found = {} THEN {Null} ELSE {x.h : x \in found}

(* Mutant: a link with a null target is stored.                               *)
MutForeignWrites(t, ref) == IF t.def.foreignKey = Null THEN 2 ELSE 3

(* With a foreign key the third write links the referred node; graph.add      *)
(* raises on a link with a null target.                                       *)
ForeignWrites(t, ref) == IF ref = Null THEN 2 ELSE 3

(* The node's id is the value of the table's key column.  When the third      *)
(* write raises, the handler fails after its first two.                       *)
insert(nm, row, n) ==
    \E t \in TablesNamed(nm) :
    \E ref \in IF t.def.foreignKey = Null THEN {Null} ELSE Referred(t, row) :
        LET writes == ForeignWrites(t, ref)
        IN  /\ up
            /\ n \in 1..writes
            /\ Allocate(1)
            /\ nodes' = nodes \cup {[h |-> next, type |-> nm,
                                     id |-> Get(row, t.def.key), data |-> row]}
            /\ links' = links \cup Upto(n, 2, RowLink(t, next))
                              \cup Upto(n, 3, {Link("foreign", ref, next)})
            /\ Finish(n, writes, IF t.def.foreignKey = Null \/ ref # Null THEN 0 ELSE -1)
            /\ UNCHANGED <<roots, tables>>

(* insert into a table that does not exist: graph.get of the null handle      *)
(* raises before the node is made.                                            *)
insert_no_table(nm) ==
    /\ up
    /\ TablesNamed(nm) = {}
    /\ reply' = -1
    /\ UNCHANGED <<roots, tables, nodes, links, next, up, faults>>

(* truncate_table and drop_table of a table that does not exist: the null     *)
(* handle raises in truncate_table, and drop_table returns what it did.       *)
no_such_table(nm) ==
    /\ up
    /\ TablesNamed(nm) = {}
    /\ reply' = -1
    /\ UNCHANGED <<roots, tables, nodes, links, next, up, faults>>

(* The nodes the loop of truncate_table removes.                              *)
Truncated(t, nm) == {x \in nodes : x.h \in WithinTwo(t.h) /\ SameReference(x.type, nm)}

truncate_table(nm) ==
    /\ up
    /\ \E t \in TablesNamed(nm) :
          LET gone == Truncated(t, nm)
          IN  /\ nodes' = nodes \ gone
              /\ links' = links \ IncidentTo({x.h : x \in gone})
    /\ reply' = 0
    /\ UNCHANGED <<roots, tables, next, up, faults>>

(* truncate_table, a second lookup of the name, and graph.remove(h, false),   *)
(* which removes the links incident to the table with it.                     *)
drop_table(nm) ==
    /\ up
    /\ \E t, d \in TablesNamed(nm) :
          LET gone == Truncated(t, nm)
          IN  /\ nodes' = nodes \ gone
              /\ tables' = tables \ {d}
              /\ links' = links \ IncidentTo({x.h : x \in gone} \cup {d.h})
    /\ reply' = 0
    /\ faults' = faults \cup {"drop"}
    /\ UNCHANGED <<roots, next, up>>

(* alter_table computes a column map and drops it; update and delete have     *)
(* empty branches in processCommand.                                          *)
alter_table ==
    /\ up
    /\ reply' = 0
    /\ UNCHANGED <<roots, tables, nodes, links, next, up, faults>>

update_or_delete ==
    /\ up
    /\ reply' = 1
    /\ UNCHANGED <<roots, tables, nodes, links, next, up, faults>>

(* A statement that lacks a member its handler dereferences before its first  *)
(* write ("attributes" of a table, "values" of an insert, "from" and "to" of  *)
(* an edge, the id of a hyperedge): the catch block returns -1.  A name, a    *)
(* type, an id or a node's "values" that is missing is Null and goes on.      *)
malformed ==
    /\ up
    /\ reply' = -1
    /\ UNCHANGED <<roots, tables, nodes, links, next, up, faults>>

(* The reset statement: drop the HyperGraphDB instance and open an empty one. *)
reset ==
    /\ up
    /\ roots' = {} /\ tables' = {} /\ nodes' = {} /\ links' = {}
    /\ next' = 1
    /\ reply' = Null
    /\ faults' = {}
    /\ UNCHANGED up

(* The exit statement closes the graph.                                       *)
exit ==
    /\ up
    /\ up' = FALSE
    /\ reply' = Null
    /\ UNCHANGED <<roots, tables, nodes, links, next, faults>>

(* The process is killed outside the handlers above.                          *)
kill ==
    /\ up
    /\ up' = FALSE
    /\ reply' = Null
    /\ faults' = faults \cup {"crash"}
    /\ UNCHANGED <<roots, tables, nodes, links, next>>

(* CreateInRun.main opens the database that is on disk.                       *)
restart ==
    /\ ~up
    /\ up' = TRUE
    /\ UNCHANGED <<roots, tables, nodes, links, next, reply, faults>>

(* The commands of processCommand that work on tables, nodes and edges.       *)
Command ==
    \/ \E nm \in TypeNames, def \in Defs, n \in 1..3 : create_type(nm, def, n)
    \/ \E nm \in TypeNames, id \in Ids \cup {Null}, row \in Rows \cup {Null}, n \in 1..5 :
          create_node(nm, id, row, n)
    \/ \E label \in Labels, fromId, toId \in Ids \cup {Null} : create_edge(label, fromId, toId)
    \/ \E fromId, toId \in Ids \cup {Null} : create_edge_fails(fromId, toId)
    \/ \E nm \in TypeNames, row \in Rows, n \in 1..3 : insert(nm, row, n)
    \/ \E nm \in TypeNames : insert_no_table(nm)
    \/ \E nm \in TypeNames : no_such_table(nm)
    \/ \E nm \in TypeNames : truncate_table(nm)
    \/ \E nm \in TypeNames : drop_table(nm)
    \/ alter_table
    \/ update_or_delete
    \/ malformed

Next == Command \/ reset \/ exit \/ kill \/ restart

Spec == Init /\ [][Next]_vars

-----------------------------------------------------------------------------
(* Types of the state; what the atoms of the graph look like.                 *)
TypeOK ==
    /\ roots \subseteq Handles
    /\ tables \subseteq TableType
    /\ nodes \subseteq NodeType
    /\ links \subseteq LinkType
    /\ next \in 1..(MaxHandle + 1)
    /\ up \in BOOLEAN
    /\ reply \in {0, -1, 1, Null}
    /\ faults \subseteq {"crash", "drop"}

(* Handles identify atoms and are given out once: what makes a fresh handle   *)
(* the target of no link.  The inductive invariant of the proofs rests on it. *)
HandlesUnique ==
    /\ \A r \in roots : r < next
    /\ \A t \in tables : t.h < next /\ t.h \notin roots
    /\ \A n \in nodes : n.h < next /\ n.h \notin roots
    /\ \A t \in tables, n \in nodes : t.h # n.h
    /\ \A t, u \in tables : t.h = u.h => t = u
    /\ \A m, n \in nodes : m.h = n.h => m = n

(* No link survives one of its end points: whatever handlers were cut short   *)
(* and whatever tables were dropped, both ends of every link are atoms of the *)
(* graph, so that no traversal of a trigger function meets a missing atom.    *)
NoDanglingLinks == \A l \in links : l.from \in Atoms /\ l.to \in Atoms

(* create_type and create_node look for the Root before they add one, each in *)
(* a transaction of its own: killed between the two and run again, they still *)
(* never leave a second Root.                                                 *)
OneRoot == \A r, s \in roots : r = s

(* Links lead from the Root to tables, from tables to rows of that table's    *)
(* name, and between rows.  A forward traversal from a row therefore never    *)
(* leaves the rows, and one from a table starts with its own rows, although   *)
(* every link is found by name in a transaction of its own.                   *)
Layered ==
    \A l \in links :
        \/ l.from \in roots /\ \E t \in tables : l.to = t.h
        \/ \E t \in tables, n \in nodes :
              l.from = t.h /\ l.to = n.h /\ n.type = t.name
        \/ \E m, n \in nodes : l.from = m.h /\ l.to = n.h

Rooted(t) == \E l \in links : l.from \in roots /\ l.to = t.h
Attached(n) == \E l \in links, t \in tables : l.from = t.h /\ l.to = n.h

(* A row belongs to one table: no sequence of commands over equally named     *)
(* tables, dropped tables and restarts links a row from two of them.          *)
OneTablePerRow ==
    \A k, l \in links, n \in nodes :
        (k.to = n.h /\ l.to = n.h /\ k.from \notin {m.h : m \in nodes}
                                 /\ l.from \notin {m.h : m \in nodes}) => k.from = l.from

(* Only a kill inside a handler leaves a table without its link from the Root,*)
(* and only that or a drop_table leaves a row without its table: the rows of  *)
(* a failed insert are attached too.                                          *)
OrphansHaveACause ==
    /\ "crash" \notin faults => \A t \in tables : Rooted(t)
    /\ faults = {} => \A n \in nodes : Attached(n)

(* No command repairs an orphan: a row that lost its table, or never got one, *)
(* is not attached by any later command or restart (in particular not by      *)
(* creating the dropped table again), nor is an unrooted table rooted.        *)
OrphansAreNotAdopted ==
    [][/\ \A n \in nodes : Attached(n)' => Attached(n)
       /\ \A t \in tables : Rooted(t)' => Rooted(t)]_vars

(* A link ends only with one of its ends: drop_table removes the links of the *)
(* table node and nothing behind them, so an edge between two rows, and the   *)
(* link from a second table of the dropped name to its rows, outlive it and   *)
(* every other command but reset.                                             *)
LinksEndWithTheirEnds ==
    [][next' # 1 =>
          \A l \in links \ links' : l.from \notin Atoms' \/ l.to \notin Atoms']_vars

(* What the comment in drop_table announces, "first delete all the rows for   *)
(* the given table": once drop_table succeeds, the rows the dropped table had *)
(* are gone.                                                                  *)
DropDeletesRows ==
    [][\A nm \in TypeNames : drop_table(nm) =>
          \A t \in tables \ tables', n \in nodes' :
              ~ \E l \in links : l.from = t.h /\ l.to = n.h]_vars

=============================================================================
