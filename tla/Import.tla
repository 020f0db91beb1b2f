------------------------------- MODULE Import -------------------------------
(* The create_graph statement of the hgdb command line: CLI.createGraph and   *)
(* the methods that import the university data set, one step for each write.  *)
(*                                                                            *)
(* The maps from names to handles are static: they are filled by one run of   *)
(* the statement and still there in the next, after a reset of the database   *)
(* too.  A file that cannot be read counts as an empty one, and an exception  *)
(* ends the session.  Handles are UUIDs, never given out twice.               *)
EXTENDS Naturals, Sequences

CONSTANTS
    Students, Profs, Projs,     \* the names in the files, in order
    StudentProj, ProfProj,      \* the relations: pairs of names, in order
    MaxRuns                     \* bound: create_graph statements

(* Files are lists of lines; the shipped ones only relate names they define.  *)
Listed(s) == {s[i] : i \in DOMAIN s}
ASSUME ImportAssumption ==
    /\ MaxRuns \in Nat
    /\ \A s \in {Students, Profs, Projs, StudentProj, ProfProj} : s \in Seq(Listed(s))
    /\ \A r \in Listed(StudentProj) : r[1] \in Listed(Students) /\ r[2] \in Listed(Projs)
    /\ \A r \in Listed(ProfProj) : r[1] \in Listed(Profs) /\ r[2] \in Listed(Projs)

Kinds == <<"student", "professor", "project">>
KindSet == {Kinds[i] : i \in 1..3}
Names == [student |-> Students, professor |-> Profs, project |-> Projs]
AllNames == UNION {Listed(Names[k]) : k \in KindSet}
Relations == [student_proj |-> StudentProj, prof_proj |-> ProfProj]

VARIABLES
    roots, tables, rows, links,  \* the graph
    next,       \* the next fresh handle
    handles,    \* studentHandles, profHandles, projHandles; 0 for no entry
    up,         \* is the process running?
    pc,         \* where createGraph is
    kind,       \* which of addStudents, addProfs, addProjs is running
    lines,      \* the lines it has still to import
    typeHandle, nodeHandle,
    runs,       \* create_graph statements so far
    started,    \* history: handles from here on are of the last run
    unread,     \* history: the last run could not read one of its files
    tainted     \* history: nor could some run since the last reset

graph == <<roots, tables, rows, links>>
local == <<kind, lines, typeHandle, nodeHandle>>
vars == <<roots, tables, rows, links, next, handles, up, pc, kind, lines,
          typeHandle, nodeHandle, runs, started, unread, tainted>>
history == <<runs, started, unread, tainted>>

Handles == 1..(next - 1)
Link(label, from, to) == [label |-> label, from |-> from, to |-> to]
Atoms == roots \cup {t.h : t \in tables} \cup {r.h : r \in rows}

NoHandles == [k \in KindSet |-> [n \in AllNames |-> 0]]

Init ==
    /\ roots = {} /\ tables = {} /\ rows = {} /\ links = {}
    /\ next = 1
    /\ handles = NoHandles
    /\ up = TRUE
    /\ pc = "idle"
    /\ kind = 1 /\ lines = <<>> /\ typeHandle = 0 /\ nodeHandle = 0
    /\ runs = 0 /\ started = 1
    /\ unread = FALSE /\ tainted = FALSE

-----------------------------------------------------------------------------
(* Utils.getAllLines: the lines of a file, none when reading it fails.        *)
getAllLines(file) == {file, <<>>}

noteUnread(failed) ==
    unread' = (unread \/ failed) /\ tainted' = (tainted \/ failed)

At(p) == up /\ pc = p

(* create_graph looks for the Root and adds one if there is none.             *)
createGraph ==
    /\ At("idle")
    /\ runs < MaxRuns
    /\ runs' = runs + 1
    /\ started' = next
    /\ unread' = FALSE
    /\ IF roots = {} THEN roots' = {next} /\ next' = next + 1
                     ELSE UNCHANGED <<roots, next>>
    /\ kind' = 1
    /\ pc' = "table"
    /\ UNCHANGED <<tables, rows, links, handles, up, lines, typeHandle, nodeHandle, tainted>>

addTable ==
    /\ At("table")
    /\ tables' = tables \cup {[h |-> next, name |-> Kinds[kind]]}
    /\ typeHandle' = next
    /\ next' = next + 1
    /\ pc' = "rootLink"
    /\ UNCHANGED <<roots, rows, links, handles, up, kind, lines, nodeHandle, history>>

(* The Root is looked up again, the table linked and the file read.           *)
linkTable ==
    /\ At("rootLink")
    /\ \E r \in roots : links' = links \cup {Link("root_type", r, typeHandle)}
    /\ \E ls \in getAllLines(Names[Kinds[kind]]) :
           /\ lines' = ls
           /\ noteUnread(ls # Names[Kinds[kind]])
    /\ pc' = "row"
    /\ UNCHANGED <<roots, tables, rows, next, handles, up, kind, typeHandle,
                   nodeHandle, runs, started>>

addRow ==
    /\ At("row") /\ lines # <<>>
    /\ rows' = rows \cup {[h |-> next, kind |-> Kinds[kind], name |-> Head(lines)]}
    /\ nodeHandle' = next
    /\ next' = next + 1
    /\ pc' = "rowLink"
    /\ UNCHANGED <<roots, tables, links, handles, up, kind, lines, typeHandle,
                   history>>

(* Mutant: an entry that is there is kept.                                    *)
MutPutIfAbsent(k, n, h) ==
    IF handles[k][n] = 0 THEN [handles EXCEPT ![k][n] = h] ELSE handles

(* Mutant: the handle of the table is kept instead of the one of the row.     *)
MutPutTable(k, n, h) == [handles EXCEPT ![k][n] = typeHandle]

(* Map.put of the static maps.                                                *)
put(k, n, h) == [handles EXCEPT ![k][n] = h]

(* Mutant: the loop does not advance.                                         *)
MutLinkRowAgain ==
    /\ At("rowLink")
    /\ links' = links \cup {Link("type_node", typeHandle, nodeHandle)}
    /\ handles' = put(Kinds[kind], Head(lines), nodeHandle)
    /\ UNCHANGED <<roots, tables, rows, next, up, pc, kind, lines, typeHandle,
                   nodeHandle, history>>

linkRow ==
    /\ At("rowLink")
    /\ links' = links \cup {Link("type_node", typeHandle, nodeHandle)}
    /\ handles' = put(Kinds[kind], Head(lines), nodeHandle)
    /\ lines' = Tail(lines)
    /\ pc' = "row"
    /\ UNCHANGED <<roots, tables, rows, next, up, kind, typeHandle, nodeHandle,
                   history>>

nextKind ==
    /\ At("row") /\ lines = <<>> /\ kind < 3
    /\ kind' = kind + 1
    /\ pc' = "table"
    /\ UNCHANGED <<graph, next, handles, up, lines, typeHandle, nodeHandle, history>>

(* addRelations reads both files before it imports the first line of them.    *)
Labelled(label, file) == [i \in DOMAIN file |-> <<label, file[i][1], file[i][2]>>]
addRelations ==
    /\ At("row") /\ lines = <<>> /\ kind = 3
    /\ \E ls \in getAllLines(StudentProj), lf \in getAllLines(ProfProj) :
           /\ lines' = Labelled("student_proj", ls) \o Labelled("prof_proj", lf)
           /\ noteUnread(ls # StudentProj \/ lf # ProfProj)
    /\ pc' = "relation"
    /\ UNCHANGED <<graph, next, handles, up, kind, typeHandle, nodeHandle, runs, started>>

(* Mutant: students are looked up among the professors.                       *)
MutEndsOf(l) == <<handles["professor"][l[2]], handles["project"][l[3]]>>

(* The ends of a relation, by name: the person and the project.               *)
EndsOf(l) ==
    <<handles[IF l[1] = "student_proj" THEN "student" ELSE "professor"][l[2]],
      handles["project"][l[3]]>>

Relation(l) == IF l[1] = "student_proj" THEN Link(l[1], EndsOf(l)[2], EndsOf(l)[1])
                                        ELSE Link(l[1], EndsOf(l)[1], EndsOf(l)[2])

(* Mutant: the last line is left out.                                         *)
MutAddRelation ==
    /\ At("relation") /\ lines # <<>> /\ 0 \notin Listed(EndsOf(Head(lines)))
    /\ links' = IF Len(lines) > 1 THEN links \cup {Relation(Head(lines))} ELSE links
    /\ lines' = Tail(lines)
    /\ UNCHANGED <<roots, tables, rows, next, handles, up, pc, kind, typeHandle,
                   nodeHandle, history>>

(* Mutant: a relation whose end is in no map is stored with a missing end.    *)
MutAddRelationUnchecked ==
    /\ At("relation") /\ lines # <<>>
    /\ links' = links \cup {Relation(Head(lines))}
    /\ lines' = Tail(lines)
    /\ UNCHANGED <<roots, tables, rows, next, handles, up, pc, kind, typeHandle,
                   nodeHandle, history>>

addRelation ==
    /\ At("relation") /\ lines # <<>> /\ 0 \notin Listed(EndsOf(Head(lines)))
    /\ links' = links \cup {Relation(Head(lines))}
    /\ lines' = Tail(lines)
    /\ UNCHANGED <<roots, tables, rows, next, handles, up, pc, kind, typeHandle,
                   nodeHandle, history>>

(* A name that no map has makes graph.add raise; startCLI closes the graph    *)
(* and ends.                                                                  *)
addRelationRaises ==
    /\ At("relation") /\ lines # <<>> /\ 0 \in Listed(EndsOf(Head(lines)))
    /\ up' = FALSE
    /\ pc' = "idle"
    /\ UNCHANGED <<graph, next, handles, local, history>>

graphCreated ==
    /\ At("relation") /\ lines = <<>>
    /\ pc' = "idle"
    /\ UNCHANGED <<graph, next, handles, up, local, history>>

Import ==
    \/ addTable \/ linkTable \/ addRow \/ linkRow \/ nextKind
    \/ addRelations \/ addRelation \/ addRelationRaises \/ graphCreated

-----------------------------------------------------------------------------
(* The statement that empties the database, and the end of the process.       *)

reset ==
    /\ At("idle")
    /\ roots' = {} /\ tables' = {} /\ rows' = {} /\ links' = {}
    /\ tainted' = FALSE
    /\ UNCHANGED <<next, handles, up, pc, local, runs, started, unread>>

(* exit between two statements, a kill, or a line of a file without its tabs. *)
stop ==
    /\ up
    /\ up' = FALSE
    /\ pc' = "idle"
    /\ UNCHANGED <<graph, next, handles, local, history>>

restart ==
    /\ ~up
    /\ up' = TRUE
    /\ handles' = NoHandles
    /\ kind' = 1 /\ lines' = <<>> /\ typeHandle' = 0 /\ nodeHandle' = 0
    /\ UNCHANGED <<graph, next, pc, history>>

Next == createGraph \/ Import \/ reset \/ stop \/ restart

(* A statement that runs goes on; users need not type another.                *)
Spec == Init /\ [][Next]_vars /\ WF_vars(Import)

-----------------------------------------------------------------------------
(* Types of the state.                                                        *)
TypeOK ==
    /\ roots \subseteq Handles
    /\ tables \subseteq [h : Handles, name : KindSet]
    /\ rows \subseteq [h : Handles, kind : KindSet, name : AllNames]
    /\ links \subseteq [label : {"root_type", "type_node"} \cup DOMAIN Relations,
                        from : Handles, to : Handles]
    /\ next \in Nat \ {0}
    /\ handles \in [KindSet -> [AllNames -> {0} \cup Handles]]
    /\ up \in BOOLEAN /\ unread \in BOOLEAN /\ tainted \in BOOLEAN
    /\ pc \in {"idle", "table", "rootLink", "row", "rowLink", "relation"}
    /\ kind \in 1..3
    /\ typeHandle \in {0} \cup Handles /\ nodeHandle \in {0} \cup Handles
    /\ started \in 1..next /\ runs \in 0..MaxRuns

(* The static maps outlive a reset, and still no link of an import joins a    *)
(* removed row, unless a file could not be read: every name a relation uses   *)
(* was put again, by the same run, before the relations are read.             *)
LinksAreLive == ~tainted => \A l \in links : l.from \in Atoms /\ l.to \in Atoms

(* A relation joins two rows of the run that imports it, of the right kinds   *)
(* and names, and never a row an earlier run or a run cut short left behind,  *)
(* unless a file could not be read.                                           *)
RowOf(k, n, h) == [h |-> h, kind |-> k, name |-> n] \in rows /\ h >= started
Joins(l, r) ==
    IF r[1] = "student_proj"
    THEN RowOf("student", r[2], l.to) /\ RowOf("project", r[3], l.from)
    ELSE RowOf("professor", r[2], l.from) /\ RowOf("project", r[3], l.to)
RelationsWithinRun ==
    [][\A l \in links' \ links :
           ~unread /\ l.label \in DOMAIN Relations =>
               l.label = Head(lines)[1] /\ Joins(l, Head(lines))]_vars

(* What is left of that when a file could not be read, and the maps still     *)
(* hold entries of an earlier run or of a database that was reset: an end of  *)
(* a relation may be gone, or be a row of an earlier run, but one that is in  *)
(* the graph is a row of the kind and the name the line gives.                *)
EndIs(k, n, h) == h \in Atoms => [h |-> h, kind |-> k, name |-> n] \in rows
EndsAre(l, r) ==
    IF r[1] = "student_proj"
    THEN EndIs("student", r[2], l.to) /\ EndIs("project", r[3], l.from)
    ELSE EndIs("professor", r[2], l.from) /\ EndIs("project", r[3], l.to)
StaleEndsKeepTheirNames ==
    [][\A l \in links' \ links :
           l.label \in DOMAIN Relations => EndsAre(l, Head(lines))]_vars

(* An import that reports "Graph created" has imported every relation of the  *)
(* files, whatever earlier runs, kills and resets left in the graph.           *)
ImportIsComplete ==
    [][graphCreated /\ ~unread =>
           \A f \in DOMAIN Relations : \A i \in DOMAIN Relations[f] :
               \E l \in links : l.label = f /\ Joins(l, Labelled(f, Relations[f])[i])]_vars

(* The import of consistent files only ends the session when one of them      *)
(* could not be read.                                                         *)
RaisesOnlyUnread == [][addRelationRaises => unread]_vars

(* An import ends, by itself or with the session.                             *)
ImportEnds == pc # "idle" ~> pc = "idle"

=============================================================================
