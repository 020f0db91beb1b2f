---------------------------- MODULE ImportProofs ----------------------------
(* What create_graph imports, whatever earlier runs, resets and kills left:   *)
(* for files of any length and any number of runs.                            *)
EXTENDS Import, TLAPS

-----------------------------------------------------------------------------
(* The inductive invariant.                                                   *)

(* The lines of the two relation files, as addRelations goes through them.    *)
RelationLines ==
    Listed(Labelled("student_proj", StudentProj))
        \cup Listed(Labelled("prof_proj", ProfProj))

InTable == pc \in {"rootLink", "row", "rowLink"}

(* The table of the kind in progress, and the row that is being linked.       *)
InProgress ==
    /\ InTable => typeHandle \in {t.h : t \in tables}
    /\ pc \in {"row", "rowLink"} =>
          lines \in Seq(Listed(Names[Kinds[kind]]))
    /\ pc = "rowLink" =>
          lines # <<>> /\ RowOf(Kinds[kind], Head(lines), nodeHandle)
    /\ pc = "relation" => lines \in Seq(RelationLines)

(* Name n of kind k has the handle of a row of this run.                      *)
Put(k, n) == RowOf(k, n, handles[k][n])

(* What was read of the names so far has been put into the maps.              *)
PutSoFar ==
    ~unread =>
        /\ pc \in {"table", "rootLink", "row", "rowLink"} =>
              \A i \in 1..(kind - 1) : \A n \in Listed(Names[Kinds[i]]) : Put(Kinds[i], n)
        /\ pc \in {"row", "rowLink"} =>
              \A n \in Listed(Names[Kinds[kind]]) \ Listed(lines) : Put(Kinds[kind], n)
        /\ pc = "relation" =>
              \A k \in KindSet : \A n \in Listed(Names[k]) : Put(k, n)

(* The relations that were read and are not waiting have been imported.       *)
Imported(r) == \E l \in links : l.label = r[1] /\ Joins(l, r)
ImportedSoFar ==
    ~unread /\ pc = "relation" =>
        \A r \in RelationLines \ Listed(lines) : Imported(r)

ImportInv ==
    /\ TypeOK
    /\ InProgress
    /\ PutSoFar
    /\ ImportedSoFar
    /\ pc # "idle" /\ unread => tainted
    /\ ~up => pc = "idle"
    /\ LinksAreLive

-----------------------------------------------------------------------------
(* Lists of lines.                                                            *)

LEMMA ListedHeadTail ==
    ASSUME NEW S, NEW s \in Seq(S), s # <<>>
    PROVE  /\ Head(s) \in S
           /\ Tail(s) \in Seq(S)
           /\ Listed(s) = {Head(s)} \cup Listed(Tail(s))
<1>1. /\ Head(s) \in S /\ Tail(s) \in Seq(S) /\ Len(s) \in Nat \ {0}
      /\ Len(Tail(s)) = Len(s) - 1
      /\ DOMAIN s = 1..Len(s) /\ DOMAIN Tail(s) = 1..(Len(s) - 1)
  OBVIOUS
<1>2. \A i \in 1..(Len(s) - 1) : Tail(s)[i] = s[i + 1]
  BY <1>1
<1>3. Head(s) = s[1]
  OBVIOUS
<1>4. ASSUME NEW x \in Listed(s) PROVE x \in {Head(s)} \cup Listed(Tail(s))
  <2>1. PICK i \in 1..Len(s) : x = s[i]
    BY <1>1 DEF Listed
  <2>2. CASE i = 1
    BY <2>1, <2>2, <1>3
  <2>3. CASE i # 1
    <3>1. i - 1 \in 1..(Len(s) - 1) /\ Tail(s)[i - 1] = s[i]
      BY <2>3, <1>1, <1>2
    <3> QED
      BY <3>1, <2>1, <1>1 DEF Listed
  <2> QED
    BY <2>2, <2>3
<1>5. ASSUME NEW x \in {Head(s)} \cup Listed(Tail(s)) PROVE x \in Listed(s)
  <2>1. CASE x = Head(s)
    <3>1. 1 \in DOMAIN s
      BY <1>1
    <3> QED
      BY <3>1, <2>1, <1>3 DEF Listed
  <2>2. CASE x \in Listed(Tail(s))
    <3>1. PICK i \in 1..(Len(s) - 1) : x = Tail(s)[i]
      BY <2>2, <1>1 DEF Listed
    <3>2. x = s[i + 1] /\ i + 1 \in DOMAIN s
      BY <3>1, <1>1, <1>2
    <3> QED
      BY <3>2 DEF Listed
  <2> QED
    BY <2>1, <2>2
<1> QED
  BY <1>1, <1>4, <1>5

LEMMA ListedEmpty == Listed(<<>>) = {}
BY DEF Listed

(* Reading one file after the other gives the lines of both.                  *)
LEMMA ListedConcat ==
    ASSUME NEW S, NEW s \in Seq(S), NEW t \in Seq(S)
    PROVE  s \o t \in Seq(S) /\ Listed(s \o t) = Listed(s) \cup Listed(t)
<1>1. /\ s \o t \in Seq(S) /\ Len(s) \in Nat /\ Len(t) \in Nat
      /\ DOMAIN s = 1..Len(s) /\ DOMAIN t = 1..Len(t)
      /\ DOMAIN (s \o t) = 1..(Len(s) + Len(t))
  OBVIOUS
<1>2. \A i \in 1..(Len(s) + Len(t)) :
          (s \o t)[i] = IF i <= Len(s) THEN s[i] ELSE t[i - Len(s)]
  BY <1>1
<1>3. ASSUME NEW x \in Listed(s \o t) PROVE x \in Listed(s) \cup Listed(t)
  <2>1. PICK i \in 1..(Len(s) + Len(t)) : x = (s \o t)[i]
    BY <1>1 DEF Listed
  <2>2. CASE i <= Len(s)
    BY <2>1, <2>2, <1>1, <1>2 DEF Listed
  <2>3. CASE ~(i <= Len(s))
    <3>1. i - Len(s) \in DOMAIN t /\ x = t[i - Len(s)]
      BY <2>1, <2>3, <1>1, <1>2
    <3> QED
      BY <3>1 DEF Listed
  <2> QED
    BY <2>2, <2>3
<1>4. ASSUME NEW x \in Listed(s) PROVE x \in Listed(s \o t)
  <2>1. PICK i \in 1..Len(s) : x = s[i]
    BY <1>1 DEF Listed
  <2>2. i \in DOMAIN (s \o t) /\ (s \o t)[i] = x
    BY <2>1, <1>1, <1>2
  <2> QED
    BY <2>2 DEF Listed
<1>5. ASSUME NEW x \in Listed(t) PROVE x \in Listed(s \o t)
  <2>1. PICK i \in 1..Len(t) : x = t[i]
    BY <1>1 DEF Listed
  <2>2. i + Len(s) \in DOMAIN (s \o t) /\ (s \o t)[i + Len(s)] = x
    BY <2>1, <1>1, <1>2
  <2> QED
    BY <2>2 DEF Listed
<1> QED
  BY <1>1, <1>3, <1>4, <1>5

(* A file that is read, or found empty, is a list of its own lines.           *)
LEMMA LabelledType ==
    ASSUME NEW label, NEW file, file \in Seq(Listed(file)), NEW s \in getAllLines(file)
    PROVE  Labelled(label, s) \in Seq(Listed(Labelled(label, file)))
<1>1. CASE s = file
  <2>1. Len(file) \in Nat /\ DOMAIN file = 1..Len(file)
    OBVIOUS
  <2>2. Labelled(label, file) \in [1..Len(file) -> Listed(Labelled(label, file))]
    BY <2>1 DEF Labelled, Listed
  <2> QED
    BY <2>1, <2>2, <1>1
<1>2. CASE s = <<>>
  <2>1. Labelled(label, <<>>) = <<>>
    BY DEF Labelled
  <2>2. <<>> \in Seq(Listed(Labelled(label, file)))
    OBVIOUS
  <2> QED
    BY <1>2, <2>1, <2>2
<1> QED
  BY <1>1, <1>2 DEF getAllLines

-----------------------------------------------------------------------------
(* The three kinds of names.                                                  *)

LEMMA KindFacts ==
    /\ KindSet = {"student", "professor", "project"}
    /\ Kinds[1] = "student" /\ Kinds[2] = "professor" /\ Kinds[3] = "project"
    /\ \A i \in 1..3 : Kinds[i] \in KindSet
BY DEF Kinds, KindSet

LEMMA NameFacts ==
    /\ Names["student"] = Students /\ Names["professor"] = Profs
    /\ Names["project"] = Projs
    /\ \A k \in KindSet : /\ Names[k] \in Seq(Listed(Names[k]))
                          /\ Listed(Names[k]) \subseteq AllNames
<1>1. /\ Names["student"] = Students /\ Names["professor"] = Profs
      /\ Names["project"] = Projs
  BY DEF Names
<1>2. \A k \in KindSet : Names[k] \in Seq(Listed(Names[k]))
  BY <1>1, KindFacts, ImportAssumption
<1> QED
  BY <1>1, <1>2 DEF AllNames

(* A line of a relation file names a person and a project of the files.       *)
LEMMA RelationFacts ==
    ASSUME NEW r \in RelationLines
    PROVE  \/ r[1] = "student_proj" /\ r[2] \in Listed(Students) /\ r[3] \in Listed(Projs)
           \/ r[1] = "prof_proj" /\ r[2] \in Listed(Profs) /\ r[3] \in Listed(Projs)
<1>1. CASE r \in Listed(Labelled("student_proj", StudentProj))
  <2>1. PICK i \in DOMAIN StudentProj :
            r = <<"student_proj", StudentProj[i][1], StudentProj[i][2]>>
    BY <1>1 DEF Listed, Labelled
  <2>2. StudentProj[i] \in Listed(StudentProj)
    BY DEF Listed
  <2> QED
    BY <2>1, <2>2, ImportAssumption
<1>2. CASE r \in Listed(Labelled("prof_proj", ProfProj))
  <2>1. PICK i \in DOMAIN ProfProj :
            r = <<"prof_proj", ProfProj[i][1], ProfProj[i][2]>>
    BY <1>2 DEF Listed, Labelled
  <2>2. ProfProj[i] \in Listed(ProfProj)
    BY DEF Listed
  <2> QED
    BY <2>1, <2>2, ImportAssumption
<1> QED
  BY <1>1, <1>2 DEF RelationLines

-----------------------------------------------------------------------------
(* Every step of the program keeps the invariant.                             *)

LEMMA ImportInit == ASSUME Init PROVE ImportInv
<1>1. handles \in [KindSet -> [AllNames -> {0} \cup Handles]]
  BY DEF Init, NoHandles
<1>2. next \in Nat \ {0} /\ started \in 1..next /\ runs \in 0..MaxRuns /\ kind \in 1..3
  BY ImportAssumption DEF Init
<1>3. TypeOK
  BY <1>1, <1>2 DEF Init, TypeOK
<1> QED
  BY <1>3 DEF Init, ImportInv, InProgress, InTable, PutSoFar, ImportedSoFar, LinksAreLive

(* A run starts with nothing put into the maps by itself.                     *)
LEMMA CreateGraphKeeps == ASSUME ImportInv, createGraph PROVE ImportInv'
<1>0. /\ Handles \subseteq Handles' /\ next' \in Nat \ {0} /\ next <= next'
      /\ roots' \subseteq Handles'
  <2>1. next \in Nat \ {0} /\ roots \subseteq Handles
    BY DEF ImportInv, TypeOK
  <2>2. CASE roots = {}
    <3>1. roots' = {next} /\ next' = next + 1
      BY <2>2 DEF createGraph
    <3> QED
      BY <2>1, <3>1 DEF Handles
  <2>3. CASE roots # {}
    <3>1. roots' = roots /\ next' = next
      BY <2>3 DEF createGraph
    <3> QED
      BY <2>1, <3>1 DEF Handles
  <2> QED
    BY <2>2, <2>3
<1>1. TypeOK'
  <2>1. started' \in 1..next' /\ runs' \in 0..MaxRuns /\ kind' \in 1..3
    BY <1>0, ImportAssumption DEF createGraph, ImportInv, TypeOK
  <2>2. /\ tables' \subseteq [h : Handles', name : KindSet]
        /\ rows' \subseteq [h : Handles', kind : KindSet, name : AllNames]
        /\ links' \subseteq [label : {"root_type", "type_node"} \cup DOMAIN Relations,
                             from : Handles', to : Handles']
    BY <1>0 DEF createGraph, ImportInv, TypeOK
  <2>3. /\ handles' \in [KindSet -> [AllNames -> {0} \cup Handles']]
        /\ typeHandle' \in {0} \cup Handles' /\ nodeHandle' \in {0} \cup Handles'
    BY <1>0 DEF createGraph, ImportInv, TypeOK
  <2>4. up' \in BOOLEAN /\ unread' \in BOOLEAN /\ tainted' \in BOOLEAN /\ pc' = "table"
    BY DEF createGraph, ImportInv, TypeOK
  <2> QED
    BY <1>0, <2>1, <2>2, <2>3, <2>4 DEF TypeOK
<1>2. LinksAreLive'
  BY DEF createGraph, ImportInv, LinksAreLive, Atoms
<1> QED
  BY <1>1, <1>2 DEF createGraph, At, ImportInv, InProgress, InTable, PutSoFar,
     ImportedSoFar, Put, RowOf

LEMMA AddTableKeeps == ASSUME ImportInv, addTable PROVE ImportInv'
<1>1. TypeOK'
  BY KindFacts DEF addTable, At, ImportInv, TypeOK, Handles, history
<1>2. LinksAreLive'
  BY DEF addTable, ImportInv, LinksAreLive, Atoms, history
<1>3. InProgress'
  BY DEF addTable, At, ImportInv, InProgress, InTable
<1>4. PutSoFar' /\ ImportedSoFar'
  BY DEF addTable, At, ImportInv, PutSoFar, ImportedSoFar, Put, RowOf, history
<1> QED
  BY <1>1, <1>2, <1>3, <1>4 DEF addTable, At, ImportInv, history

LEMMA LinkTableKeeps == ASSUME ImportInv, linkTable PROVE ImportInv'
<1>1. PICK ls \in getAllLines(Names[Kinds[kind]]) :
          lines' = ls /\ noteUnread(ls # Names[Kinds[kind]])
  BY DEF linkTable
<1>2. PICK r \in roots : links' = links \cup {Link("root_type", r, typeHandle)}
  BY DEF linkTable
<1>3. Kinds[kind] \in KindSet
  BY KindFacts DEF ImportInv, TypeOK
<1>4. ls \in Seq(Listed(Names[Kinds[kind]]))
  <2>1. <<>> \in Seq(Listed(Names[Kinds[kind]]))
    OBVIOUS
  <2> QED
    BY <1>3, <2>1, NameFacts DEF getAllLines
<1>5. typeHandle \in Handles /\ typeHandle \in {t.h : t \in tables}
  BY DEF linkTable, At, ImportInv, InProgress, InTable, TypeOK
<1>6. TypeOK'
  BY <1>1, <1>2, <1>5 DEF linkTable, At, ImportInv, TypeOK, Handles, Link, noteUnread
<1>7. LinksAreLive'
  <2>1. ~tainted' => ~tainted
    BY <1>1 DEF noteUnread
  <2>2. Atoms' = Atoms /\ r \in Atoms /\ typeHandle \in Atoms
    BY <1>5 DEF linkTable, Atoms
  <2>3. ASSUME ~tainted', NEW l \in links' PROVE l.from \in Atoms' /\ l.to \in Atoms'
    BY <1>2, <2>1, <2>2, <2>3 DEF Link, LinksAreLive, ImportInv
  <2> QED
    BY <2>3 DEF LinksAreLive
<1>8. InProgress'
  BY <1>1, <1>4, <1>5 DEF linkTable, At, ImportInv, InProgress, InTable
<1>9. PutSoFar'
  <2>1. ~unread' => ~unread /\ ls = Names[Kinds[kind]]
    BY <1>1 DEF noteUnread
  <2> QED
    BY <2>1, <1>1 DEF linkTable, At, ImportInv, PutSoFar, Put, RowOf
<1>10. ImportedSoFar' /\ (unread' => tainted')
  BY <1>1 DEF linkTable, At, ImportInv, ImportedSoFar, noteUnread
<1> QED
  BY <1>6, <1>7, <1>8, <1>9, <1>10 DEF linkTable, At, ImportInv

LEMMA AddRowKeeps == ASSUME ImportInv, addRow PROVE ImportInv'
<1>1. Kinds[kind] \in KindSet /\ Head(lines) \in Listed(Names[Kinds[kind]])
  BY KindFacts, ListedHeadTail DEF addRow, At, ImportInv, InProgress, TypeOK
<1>2. Head(lines) \in AllNames
  BY <1>1, NameFacts
<1>3. TypeOK'
  BY <1>1, <1>2 DEF addRow, At, ImportInv, TypeOK, Handles, history
<1>4. LinksAreLive'
  BY DEF addRow, ImportInv, LinksAreLive, Atoms, history
<1>5. RowOf(Kinds[kind], Head(lines), nodeHandle)'
  BY DEF addRow, RowOf, ImportInv, TypeOK, history
<1>6. InProgress'
  BY <1>5 DEF addRow, At, ImportInv, InProgress, InTable
<1>7. PutSoFar' /\ ImportedSoFar'
  BY DEF addRow, At, ImportInv, PutSoFar, ImportedSoFar, Put, RowOf, history
<1> QED
  BY <1>3, <1>4, <1>6, <1>7 DEF addRow, At, ImportInv, history

(* The row of the line in progress becomes the row of its name.               *)
LEMMA LinkRowKeeps == ASSUME ImportInv, linkRow PROVE ImportInv'
<1>0. PICK k, n : k = Kinds[kind] /\ n = Head(lines)
  OBVIOUS
<1>1. /\ k \in KindSet /\ n \in Listed(Names[k]) /\ n \in AllNames
      /\ lines' \in Seq(Listed(Names[k])) /\ Listed(lines) = {n} \cup Listed(lines')
  <2>1. k \in KindSet
    BY <1>0, KindFacts DEF ImportInv, TypeOK
  <2>2. lines \in Seq(Listed(Names[k])) /\ lines # <<>>
    BY <1>0 DEF linkRow, At, ImportInv, InProgress
  <2> QED
    BY <1>0, <2>1, <2>2, ListedHeadTail, NameFacts DEF linkRow
<1>2. RowOf(k, n, nodeHandle) /\ nodeHandle \in Handles
  BY <1>0 DEF linkRow, At, ImportInv, InProgress, RowOf, TypeOK
<1>3. typeHandle \in {t.h : t \in tables} /\ typeHandle \in Handles
  BY DEF linkRow, At, ImportInv, InProgress, InTable, TypeOK
<1>4. /\ handles' \in [KindSet -> [AllNames -> {0} \cup Handles]]
      /\ handles'[k][n] = nodeHandle
      /\ \A j \in KindSet, m \in AllNames :
            j # k \/ m # n => handles'[j][m] = handles[j][m]
  BY <1>0, <1>1, <1>2 DEF linkRow, put, ImportInv, TypeOK
<1>5. TypeOK'
  BY <1>2, <1>3, <1>4 DEF linkRow, ImportInv, TypeOK, Handles, Link, history
<1>6. LinksAreLive'
  <2>1. Atoms' = Atoms /\ typeHandle \in Atoms /\ nodeHandle \in Atoms
    BY <1>2, <1>3 DEF linkRow, Atoms, RowOf
  <2>2. links' = links \cup {Link("type_node", typeHandle, nodeHandle)} /\ tainted' = tainted
    BY DEF linkRow, history
  <2> QED
    BY <2>1, <2>2 DEF Link, LinksAreLive, ImportInv
<1>7. InProgress'
  BY <1>0, <1>1, <1>3 DEF linkRow, InProgress, InTable
<1>8. ASSUME NEW j \in KindSet, NEW m \in Listed(Names[j]), (j = k /\ m = n) \/ Put(j, m)
      PROVE  Put(j, m)'
  <2>1. m \in AllNames
    BY NameFacts
  <2>2. RowOf(j, m, handles'[j][m])
    BY <1>2, <1>4, <1>8, <2>1 DEF Put
  <2> QED
    BY <2>2 DEF linkRow, Put, RowOf, history
<1>9. PutSoFar'
  <2> SUFFICES ASSUME ~unread
               PROVE  /\ \A i \in 1..(kind - 1) :
                             \A m \in Listed(Names[Kinds[i]]) : Put(Kinds[i], m)'
                      /\ \A m \in Listed(Names[k]) \ Listed(lines') : Put(k, m)'
    BY <1>0 DEF PutSoFar, linkRow, history
  <2>1. \A i \in 1..(kind - 1) : Kinds[i] \in KindSet
    BY KindFacts DEF ImportInv, TypeOK
  <2>2. \A i \in 1..(kind - 1) : \A m \in Listed(Names[Kinds[i]]) : Put(Kinds[i], m)
    BY DEF ImportInv, PutSoFar, linkRow, At
  <2>3. \A m \in Listed(Names[k]) \ Listed(lines) : Put(k, m)
    BY <1>0 DEF ImportInv, PutSoFar, linkRow, At
  <2>4. ASSUME NEW m \in Listed(Names[k]) \ Listed(lines') PROVE Put(k, m)'
    <3>1. CASE m = n
      BY <1>1, <1>8, <3>1
    <3>2. CASE m # n
      <4>1. m \in Listed(Names[k]) \ Listed(lines)
        BY <1>1, <2>4, <3>2
      <4>2. Put(k, m)
        BY <2>3, <4>1
      <4> QED
        BY <1>1, <1>8, <2>4, <4>2
    <3> QED
      BY <3>1, <3>2
  <2> QED
    BY <1>8, <2>1, <2>2, <2>4
<1> QED
  BY <1>5, <1>6, <1>7, <1>9 DEF linkRow, At, ImportInv, ImportedSoFar, history

LEMMA NextKindKeeps == ASSUME ImportInv, nextKind PROVE ImportInv'
<1>1. kind \in 1..2 /\ kind' = kind + 1
  BY DEF nextKind, ImportInv, TypeOK
<1>2. TypeOK' /\ LinksAreLive'
  BY <1>1 DEF nextKind, ImportInv, TypeOK, LinksAreLive, Handles, Atoms, graph, history
<1>3. PutSoFar'
  <2> SUFFICES ASSUME ~unread, NEW i \in 1..kind, NEW n \in Listed(Names[Kinds[i]])
               PROVE  Put(Kinds[i], n)
    BY <1>1 DEF PutSoFar, nextKind, Put, RowOf, graph, history
  <2>1. CASE i = kind
    BY <2>1, ListedEmpty DEF ImportInv, PutSoFar, nextKind, At
  <2>2. CASE i # kind
    <3>1. i \in 1..(kind - 1)
      BY <1>1, <2>2
    <3> QED
      BY <3>1 DEF ImportInv, PutSoFar, nextKind, At
  <2> QED
    BY <2>1, <2>2
<1> QED
  BY <1>2, <1>3 DEF nextKind, At, ImportInv, InProgress, InTable, ImportedSoFar, history

(* When addRelations starts, every name of the files has a row of this run.   *)
LEMMA AddRelationsKeeps == ASSUME ImportInv, addRelations PROVE ImportInv'
<1>1. PICK ls \in getAllLines(StudentProj), lf \in getAllLines(ProfProj) :
          /\ lines' = Labelled("student_proj", ls) \o Labelled("prof_proj", lf)
          /\ noteUnread(ls # StudentProj \/ lf # ProfProj)
  BY DEF addRelations
<1>2. /\ Labelled("student_proj", ls) \in Seq(RelationLines)
      /\ Labelled("prof_proj", lf) \in Seq(RelationLines)
  <2>1. /\ Labelled("student_proj", ls) \in Seq(Listed(Labelled("student_proj", StudentProj)))
        /\ Labelled("prof_proj", lf) \in Seq(Listed(Labelled("prof_proj", ProfProj)))
    BY LabelledType, ImportAssumption
  <2> QED
    BY <2>1 DEF RelationLines
<1>3. /\ lines' \in Seq(RelationLines)
      /\ Listed(lines') = Listed(Labelled("student_proj", ls))
                              \cup Listed(Labelled("prof_proj", lf))
  BY <1>1, <1>2, ListedConcat
<1>4. ~unread' => ~unread /\ ls = StudentProj /\ lf = ProfProj
  BY <1>1 DEF noteUnread
<1>5. (~tainted' => ~tainted) /\ (unread' => tainted')
  BY <1>1 DEF noteUnread, addRelations, At, ImportInv
<1>6. TypeOK'
  BY <1>1 DEF addRelations, ImportInv, TypeOK, Handles, graph, noteUnread
<1>7. LinksAreLive'
  BY <1>5 DEF addRelations, ImportInv, LinksAreLive, Atoms, graph
<1>8. PutSoFar'
  <2> SUFFICES ASSUME ~unread', NEW k \in KindSet, NEW n \in Listed(Names[k])
               PROVE  Put(k, n)
    BY DEF PutSoFar, addRelations, Put, RowOf, graph
  <2>1. CASE k = Kinds[3]
    BY <1>4, <2>1, ListedEmpty DEF ImportInv, PutSoFar, addRelations, At
  <2>2. CASE k # Kinds[3]
    <3>1. PICK i \in 1..2 : k = Kinds[i]
      BY <2>2, KindFacts
    <3> QED
      BY <1>4, <3>1 DEF ImportInv, PutSoFar, addRelations, At
  <2> QED
    BY <2>1, <2>2
<1>9. ImportedSoFar'
  BY <1>3, <1>4 DEF ImportedSoFar, RelationLines
<1> QED
  BY <1>3, <1>5, <1>6, <1>7, <1>8, <1>9
     DEF addRelations, At, ImportInv, InProgress, InTable

(* Each line links the rows that the maps hold for the names on it.           *)
LEMMA EndsFacts ==
    ASSUME ImportInv, NEW r \in RelationLines
    PROVE  /\ Relation(r).label = r[1] /\ r[1] \in DOMAIN Relations
           /\ 0 \notin Listed(EndsOf(r)) =>
                 Relation(r) \in [label : {"student_proj", "prof_proj"},
                                  from : Handles, to : Handles]
           /\ ~unread /\ pc = "relation" =>
                 Joins(Relation(r), r) /\ 0 \notin Listed(EndsOf(r))
<1> DEFINE k == IF r[1] = "student_proj" THEN "student" ELSE "professor"
<1>1. /\ r[1] \in {"student_proj", "prof_proj"}
      /\ k \in KindSet /\ r[2] \in Listed(Names[k])
      /\ "project" \in KindSet /\ r[3] \in Listed(Names["project"])
  BY RelationFacts, KindFacts, NameFacts
<1>2. r[2] \in AllNames /\ r[3] \in AllNames
  BY <1>1, NameFacts
<1> DEFINE a == handles[k][r[2]]
           b == handles["project"][r[3]]
<1>3. EndsOf(r) = <<a, b>> /\ Listed(EndsOf(r)) = {a, b}
  <2>1. EndsOf(r) = <<a, b>>
    BY DEF EndsOf
  <2>2. Listed(<<a, b>>) = {a, b}
    BY DEF Listed
  <2> QED
    BY <2>1, <2>2
<1>4. a \in {0} \cup Handles /\ b \in {0} \cup Handles
  BY <1>1, <1>2 DEF ImportInv, TypeOK
<1>5. Relation(r) = IF r[1] = "student_proj" THEN Link(r[1], b, a) ELSE Link(r[1], a, b)
  BY <1>3 DEF Relation
<1>6. Relation(r).label = r[1] /\ r[1] \in DOMAIN Relations
  BY <1>1, <1>5 DEF Link, Relations
<1>7. ASSUME 0 \notin Listed(EndsOf(r))
      PROVE  Relation(r) \in [label : {"student_proj", "prof_proj"},
                              from : Handles, to : Handles]
  <2>1. a \in Handles /\ b \in Handles
    BY <1>3, <1>4, <1>7
  <2> QED
    BY <1>1, <1>5, <2>1 DEF Link
<1>8. ASSUME ~unread, pc = "relation"
      PROVE  Joins(Relation(r), r) /\ 0 \notin Listed(EndsOf(r))
  <2>1. Put(k, r[2]) /\ Put("project", r[3])
    BY <1>1, <1>8 DEF ImportInv, PutSoFar
  <2>2. RowOf(k, r[2], a) /\ RowOf("project", r[3], b)
    BY <2>1 DEF Put
  <2>3. a # 0 /\ b # 0
    BY <2>2 DEF RowOf, ImportInv, TypeOK
  <2>4. Joins(Relation(r), r)
    BY <1>5, <2>2 DEF Joins, Link
  <2> QED
    BY <1>3, <2>3, <2>4
<1> QED
  BY <1>6, <1>7, <1>8

(* The line in progress, and what is left when it has been imported.          *)
LEMMA RelationLine ==
    ASSUME ImportInv, pc = "relation", lines # <<>>
    PROVE  /\ Head(lines) \in RelationLines
           /\ Tail(lines) \in Seq(RelationLines)
           /\ Listed(lines) = {Head(lines)} \cup Listed(Tail(lines))
BY ListedHeadTail DEF ImportInv, InProgress

LEMMA AddRelationKeeps == ASSUME ImportInv, addRelation PROVE ImportInv'
<1>0. PICK r : r = Head(lines)
  OBVIOUS
<1>1. /\ r \in RelationLines /\ lines' \in Seq(RelationLines)
      /\ Listed(lines) = {r} \cup Listed(lines')
  BY <1>0, RelationLine DEF addRelation, At
<1>2. /\ links' = links \cup {Relation(r)}
      /\ Relation(r) \in [label : {"student_proj", "prof_proj"},
                           from : Handles, to : Handles]
      /\ Relation(r).label = r[1]
      /\ ~unread => Joins(Relation(r), r)
  BY <1>0, <1>1, EndsFacts DEF addRelation, At
<1>3. TypeOK'
  <2>1. links' \subseteq [label : {"root_type", "type_node"} \cup DOMAIN Relations,
                          from : Handles', to : Handles']
    BY <1>2 DEF addRelation, ImportInv, TypeOK, Handles, Relations
  <2> QED
    BY <2>1 DEF addRelation, ImportInv, TypeOK, Handles, history
<1>4. LinksAreLive'
  <2>1. Atoms' = Atoms /\ tainted' = tainted
    BY DEF addRelation, Atoms, history
  <2>2. ASSUME ~tainted PROVE Relation(r).from \in Atoms /\ Relation(r).to \in Atoms
    <3>1. Joins(Relation(r), r)
      BY <1>2, <2>2 DEF addRelation, At, ImportInv
    <3>2. \A k, n, h : RowOf(k, n, h) => h \in Atoms
      BY DEF RowOf, Atoms
    <3> QED
      BY <3>1, <3>2 DEF Joins
  <2> QED
    BY <1>2, <2>1, <2>2 DEF ImportInv, LinksAreLive
<1>5. InProgress'
  BY <1>1 DEF addRelation, At, InProgress, InTable
<1>6. PutSoFar'
  BY DEF addRelation, At, ImportInv, PutSoFar, Put, RowOf, history
<1>7. ImportedSoFar'
  <2> SUFFICES ASSUME ~unread, NEW q \in RelationLines \ Listed(lines')
               PROVE  Imported(q)'
    BY DEF ImportedSoFar, addRelation, history
  <2>1. \A l : Joins(l, q)' <=> Joins(l, q)
    BY DEF addRelation, Joins, RowOf, history
  <2>2. \E l \in links' : l.label = q[1] /\ Joins(l, q)
    <3>1. CASE q = r
      BY <1>2, <3>1
    <3>2. CASE q # r
      <4>1. Imported(q)
        BY <1>1, <3>2 DEF addRelation, At, ImportInv, ImportedSoFar
      <4> QED
        BY <1>2, <4>1 DEF Imported
    <3> QED
      BY <3>1, <3>2
  <2> QED
    BY <2>1, <2>2 DEF Imported
<1> QED
  BY <1>3, <1>4, <1>5, <1>6, <1>7 DEF addRelation, At, ImportInv, history

(* The end of a run, of a session and of the data leave no import behind.     *)
LEMMA QuietKeeps ==
    ASSUME ImportInv, addRelationRaises \/ graphCreated \/ reset \/ stop \/ restart
    PROVE  ImportInv'
<1>1. CASE addRelationRaises \/ graphCreated \/ stop
  <2>1. pc' = "idle" /\ up' \in BOOLEAN /\ UNCHANGED <<graph, next, handles, local, history>>
    BY <1>1 DEF addRelationRaises, graphCreated, stop, ImportInv, TypeOK
  <2>2. TypeOK' /\ LinksAreLive'
    BY <2>1 DEF graph, local, history, ImportInv, TypeOK, LinksAreLive, Handles, Atoms
  <2> QED
    BY <2>1, <2>2 DEF ImportInv, InProgress, InTable, PutSoFar, ImportedSoFar
<1>2. CASE reset
  <2>1. TypeOK' /\ LinksAreLive' /\ pc' = "idle"
    BY <1>2 DEF reset, At, local, ImportInv, TypeOK, LinksAreLive, Handles
  <2> QED
    BY <2>1 DEF ImportInv, InProgress, InTable, PutSoFar, ImportedSoFar
<1>3. CASE restart
  <2>1. NoHandles \in [KindSet -> [AllNames -> {0} \cup Handles]]
    BY DEF NoHandles
  <2>2. TypeOK' /\ LinksAreLive' /\ pc' = pc
    BY <1>3, <2>1 DEF restart, graph, history, ImportInv, TypeOK, LinksAreLive, Handles, Atoms
  <2>3. pc = "idle"
    BY <1>3 DEF restart, ImportInv
  <2> QED
    BY <2>2, <2>3 DEF ImportInv, InProgress, InTable, PutSoFar, ImportedSoFar
<1> QED
  BY <1>1, <1>2, <1>3

LEMMA ImportStep == ASSUME ImportInv, [Next]_vars PROVE ImportInv'
<1>1. CASE UNCHANGED vars
  <2> USE <1>1 DEF vars
  <2>1. TypeOK'
    BY DEF ImportInv, TypeOK, Handles
  <2>2. InProgress'
    BY Zenon DEF ImportInv, InProgress, InTable, RowOf
  <2>3. PutSoFar'
    BY DEF ImportInv, PutSoFar, Put, RowOf, InTable
  <2>4. ImportedSoFar'
    BY Zenon DEF ImportInv, ImportedSoFar, Imported, Joins, RowOf
  <2>5. LinksAreLive'
    BY DEF ImportInv, LinksAreLive, Atoms
  <2> QED BY <2>1, <2>2, <2>3, <2>4, <2>5 DEF ImportInv
<1>2. CASE createGraph
  BY <1>2, CreateGraphKeeps
<1>3. CASE addTable \/ linkTable \/ addRow
  BY <1>3, AddTableKeeps, LinkTableKeeps, AddRowKeeps
<1>4. CASE linkRow \/ nextKind
  BY <1>4, LinkRowKeeps, NextKindKeeps
<1>5. CASE addRelations \/ addRelation
  BY <1>5, AddRelationsKeeps, AddRelationKeeps
<1>6. CASE addRelationRaises \/ graphCreated \/ reset \/ stop \/ restart
  BY <1>6, QuietKeeps
<1> QED
  BY <1>1, <1>2, <1>3, <1>4, <1>5, <1>6 DEF Next, Import

LEMMA ImportInvariant == Spec => []ImportInv
<1>1. Init => ImportInv
  BY ImportInit
<1>2. ImportInv /\ [Next]_vars => ImportInv'
  BY ImportStep
<1> QED
  BY <1>1, <1>2, PTL DEF Spec

-----------------------------------------------------------------------------
(* The theorems.                                                              *)

(* The state of the import keeps its types: the maps, the graph and the       *)
(* handles in progress only hold handles that were given out.                 *)
THEOREM ImportTypeCorrect == Spec => []TypeOK
<1>1. ImportInv => TypeOK
  BY DEF ImportInv
<1> QED
  BY <1>1, ImportInvariant, PTL

(* CLI.createGraph with static maps that outlive a reset: as long as the      *)
(* files could be read, no link leads to an atom that the reset removed.      *)
THEOREM ImportLinksAreLive == Spec => []LinksAreLive
<1>1. ImportInv => LinksAreLive
  BY DEF ImportInv
<1> QED
  BY <1>1, ImportInvariant, PTL

LEMMA OnlyRelationsAdd ==
    ASSUME [Next]_vars, NEW l \in links' \ links, l.label \in DOMAIN Relations
    PROVE  addRelation
<1>1. ~linkTable /\ ~linkRow
  BY DEF linkTable, linkRow, Link, Relations
<1>2. ~(UNCHANGED links)
  OBVIOUS
<1>3. ~reset
  BY DEF reset
<1> QED
  BY <1>1, <1>2, <1>3 DEF Next, Import, createGraph, addTable, addRow, nextKind,
     addRelations, addRelationRaises, graphCreated, stop, restart, graph, vars

(* CLI.addRelations: a relation that is added joins rows of the same run, of  *)
(* the kinds and the names on its line.                                       *)
THEOREM ImportRelationsWithinRun == Spec => RelationsWithinRun
<1>1. ASSUME ImportInv, [Next]_vars
      PROVE  [\A l \in links' \ links :
                  ~unread /\ l.label \in DOMAIN Relations =>
                      l.label = Head(lines)[1] /\ Joins(l, Head(lines))]_vars
  <2> SUFFICES ASSUME NEW l \in links' \ links, ~unread, l.label \in DOMAIN Relations
               PROVE  l.label = Head(lines)[1] /\ Joins(l, Head(lines))
    OBVIOUS
  <2>1. addRelation
    BY <1>1, OnlyRelationsAdd
  <2>2. Head(lines) \in RelationLines /\ pc = "relation"
    BY <1>1, <2>1, RelationLine DEF addRelation, At
  <2>3. l = Relation(Head(lines))
    BY <2>1 DEF addRelation
  <2> QED
    BY <1>1, <2>2, <2>3, EndsFacts
<1> QED
  BY <1>1, ImportInvariant, PTL DEF Spec, RelationsWithinRun

(* The maps, entries of earlier runs and of removed databases included, name  *)
(* no atom that is another than the row that was put.                         *)
MapsKeepNames == \A k \in KindSet, n \in AllNames : EndIs(k, n, handles[k][n])

(* The atoms a step adds have the next handle, which no map holds.            *)
LEMMA NamesStep == ASSUME ImportInv, MapsKeepNames, [Next]_vars PROVE MapsKeepNames'
<1> SUFFICES ASSUME NEW k \in KindSet, NEW n \in AllNames, handles'[k][n] \in Atoms'
             PROVE  [h |-> handles'[k][n], kind |-> k, name |-> n] \in rows'
  BY DEF MapsKeepNames, EndIs
<1>1. /\ handles \in [KindSet -> [AllNames -> {0} \cup Handles]]
      /\ next \in Nat \ {0} /\ next \notin Handles /\ next # 0
      /\ kind \in 1..3
  BY DEF ImportInv, TypeOK, Handles
<1>2. handles[k][n] \in {0} \cup Handles /\ handles[k][n] # next
  BY <1>1
<1>3. CASE linkRow
  <2>1. /\ handles' = put(Kinds[kind], Head(lines), nodeHandle)
        /\ rows' = rows /\ Atoms' = Atoms
    BY <1>3 DEF linkRow, Atoms
  <2>2. CASE k = Kinds[kind] /\ n = Head(lines)
    <3>1. handles'[k][n] = nodeHandle
      BY <1>1, <2>1, <2>2 DEF put
    <3>2. RowOf(Kinds[kind], Head(lines), nodeHandle)
      BY <1>3 DEF linkRow, At, ImportInv, InProgress
    <3> QED BY <2>1, <2>2, <3>1, <3>2 DEF RowOf
  <2>3. CASE ~ (k = Kinds[kind] /\ n = Head(lines))
    <3>1. handles'[k][n] = handles[k][n]
      BY <1>1, <2>1, <2>3 DEF put
    <3> QED BY <2>1, <3>1 DEF MapsKeepNames, EndIs
  <2> QED BY <2>2, <2>3
<1>4. CASE restart
  <2>1. handles'[k][n] = 0 /\ Atoms' = Atoms
    BY <1>4 DEF restart, NoHandles, graph, Atoms
  <2>2. 0 \notin Atoms
    BY <1>1 DEF ImportInv, TypeOK, Atoms, Handles
  <2> QED BY <2>1, <2>2
<1>5. CASE reset
  BY <1>5 DEF reset, Atoms
<1>6. CASE ~ linkRow /\ ~ restart /\ ~ reset
  <2>1. handles' = handles /\ rows \subseteq rows' /\ Atoms' \subseteq Atoms \cup {next}
    <3>1. CASE createGraph
      BY <3>1 DEF createGraph, Atoms
    <3>2. CASE addTable
      BY <3>2 DEF addTable, Atoms
    <3>3. CASE addRow
      BY <3>3 DEF addRow, Atoms
    <3>4. CASE ~ createGraph /\ ~ addTable /\ ~ addRow
      <4>1. handles' = handles /\ UNCHANGED <<roots, tables, rows>>
        BY <1>6, <3>4 DEF Next, Import, linkTable, nextKind, addRelations, addRelation,
           addRelationRaises, graphCreated, stop, graph, vars
      <4> QED BY <4>1 DEF Atoms
    <3> QED BY <3>1, <3>2, <3>3, <3>4
  <2> QED BY <1>2, <2>1 DEF MapsKeepNames, EndIs
<1> QED BY <1>3, <1>4, <1>5, <1>6

(* CLI.addRelations with maps that are out of date: an end of a relation that *)
(* is in the graph is a row of the kind and the name on the line.             *)
THEOREM ImportEndsKeepNames == Spec => StaleEndsKeepTheirNames
<1>1. Init => MapsKeepNames
  <2>1. Init => Atoms = {}
    BY DEF Init, Atoms
  <2> QED BY <2>1 DEF MapsKeepNames, EndIs
<1>2. ImportInv /\ MapsKeepNames /\ [Next]_vars => MapsKeepNames'
  BY NamesStep
<1>3. ASSUME ImportInv, MapsKeepNames, [Next]_vars
      PROVE  [\A l \in links' \ links :
                  l.label \in DOMAIN Relations => EndsAre(l, Head(lines))]_vars
  <2> SUFFICES ASSUME NEW l \in links' \ links, l.label \in DOMAIN Relations
               PROVE  EndsAre(l, Head(lines))
    OBVIOUS
  <2>1. addRelation
    BY <1>3, OnlyRelationsAdd
  <2>2. PICK r \in RelationLines : r = Head(lines)
    BY <1>3, <2>1, RelationLine DEF addRelation, At
  <2>3. l = Relation(r)
    BY <2>1, <2>2 DEF addRelation
  <2>4. /\ "student" \in KindSet /\ "professor" \in KindSet /\ "project" \in KindSet
        /\ Listed(Students) \subseteq AllNames /\ Listed(Profs) \subseteq AllNames
        /\ Listed(Projs) \subseteq AllNames
    BY KindFacts, NameFacts
  <2>5. CASE r[1] = "student_proj"
    <3>1. r[2] \in AllNames /\ r[3] \in AllNames
      BY <2>4, RelationFacts
    <3>2. l.to = handles["student"][r[2]] /\ l.from = handles["project"][r[3]]
      BY <2>3, <2>5 DEF Relation, EndsOf, Link
    <3> QED BY <1>3, <2>2, <2>4, <2>5, <3>1, <3>2 DEF MapsKeepNames, EndsAre
  <2>6. CASE r[1] # "student_proj"
    <3>1. r[2] \in AllNames /\ r[3] \in AllNames
      BY <2>4, RelationFacts
    <3>2. l.from = handles["professor"][r[2]] /\ l.to = handles["project"][r[3]]
      BY <2>3, <2>6 DEF Relation, EndsOf, Link
    <3> QED BY <1>3, <2>2, <2>4, <2>6, <3>1, <3>2 DEF MapsKeepNames, EndsAre
  <2> QED BY <2>5, <2>6
<1> QED
  BY <1>1, <1>2, <1>3, ImportInvariant, PTL DEF Spec, StaleEndsKeepTheirNames

(* CLI.createGraph: when it reports that the graph is created, and it could   *)
(* read its files, every line of both relation files has its link.            *)
THEOREM ImportCompletes == Spec => ImportIsComplete
<1>1. ASSUME ImportInv, graphCreated, ~unread,
             NEW f \in DOMAIN Relations, NEW i \in DOMAIN Relations[f]
      PROVE  \E l \in links : l.label = f /\ Joins(l, Labelled(f, Relations[f])[i])
  <2>1. PICK r : r = Labelled(f, Relations[f])[i]
    OBVIOUS
  <2>2. r = <<f, Relations[f][i][1], Relations[f][i][2]>>
    BY <2>1 DEF Labelled
  <2>3. r \in Listed(Labelled(f, Relations[f]))
    BY <2>1 DEF Listed, Labelled
  <2>4. r \in RelationLines
    BY <2>3 DEF RelationLines, Relations
  <2>5. Imported(r)
    BY <1>1, <2>4, ListedEmpty DEF graphCreated, At, ImportInv, ImportedSoFar
  <2> QED
    BY <2>1, <2>2, <2>5 DEF Imported
<1>2. ImportInv => [graphCreated /\ ~unread =>
          \A f \in DOMAIN Relations : \A i \in DOMAIN Relations[f] :
              \E l \in links : l.label = f /\ Joins(l, Labelled(f, Relations[f])[i])]_vars
  BY <1>1
<1> QED
  BY <1>2, ImportInvariant, PTL DEF ImportIsComplete

(* CLI.addRelations: no name of files that are consistent is missing from     *)
(* the static maps, so that graph.add does not raise.                         *)
THEOREM ImportRaisesOnlyUnread == Spec => RaisesOnlyUnread
<1>1. ASSUME ImportInv, addRelationRaises PROVE unread
  <2>1. Head(lines) \in RelationLines /\ pc = "relation"
    BY <1>1, RelationLine DEF addRelationRaises, At
  <2>2. 0 \in Listed(EndsOf(Head(lines)))
    BY <1>1 DEF addRelationRaises
  <2> QED
    BY <1>1, <2>1, <2>2, EndsFacts
<1>2. ImportInv => [addRelationRaises => unread]_vars
  BY <1>1
<1> QED
  BY <1>2, ImportInvariant, PTL DEF RaisesOnlyUnread

=============================================================================
