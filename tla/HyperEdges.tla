----------------------------- MODULE HyperEdges -----------------------------
(* Hyperedges and nested hyperedges on top of the graph of GraphStore: their  *)
(* creation (CreateHyperEdge), the evaluation of their trigger functions      *)
(* (HyperEdge, NestedHyperEdge), and what becomes of the results.             *)
(*                                                                            *)
(* A trigger writes res and count into the Java object only.  HyperGraphDB    *)
(* stored the object before the trigger ran, with res = "", and nobody calls  *)
(* graph.update: the result lives as long as the object stays in HyperGraphDB's*)
(* weakly referenced atom cache.                                              *)
EXTENDS GraphStore, HGGraph, Sequences

CONSTANTS
    HEIds,         \* the ids users give to hyperedges, blanks around them included
    Trim,          \* String.trim on those ids
    Forms,         \* hyperedge statements, without the id
    NestedForms,   \* nested hyperedge statements, without the id: op and bases,
                   \*   each Null when the statement lacks it
    Num,           \* the numbers that the numeric ones of the values denote
    HashOrder,     \* the iteration order of a HashSet of names
    MaxHE          \* bound on the hyperedges created between two resets

NumericOps == {">", ">=", "<", "<="}
Ops == NumericOps \cup {"=", "!=", "<>", "=="}

FormType ==
    [source : Ids \cup {Null},            \* Null: no "source_id" in the statement
     dest : TypeNames,                    \* Null: no "destination_type"
     having : {Null} \cup [attr : Attrs, op : Ops, value : Ids],
     connected : {Null} \cup [by : {"id", "type"}, name : Ids \cup TypeNames],
     distance : {Null} \cup [op : Ops, value : Nat],
     count : {Null} \cup [op : Ops, value : Nat]]

ASSUME HEAssumption ==
    /\ MaxHE \in Nat
    /\ Trim \in [HEIds -> HEIds]
    /\ \A id \in HEIds : Trim[Trim[id]] = Trim[id]
    /\ Forms \subseteq FormType
    /\ \A f \in NestedForms : f.bases # Null => f.bases \in Seq(HEIds \cup Ids)
    /\ DOMAIN Num \subseteq Ids /\ \A v \in DOMAIN Num : Num[v] \in Int
    /\ HashOrder \in [Ids \cup {Null} -> Nat]
    /\ \A a, b \in Ids \cup {Null} : HashOrder[a] = HashOrder[b] => a = b

VARIABLES
    hes,       \* HyperEdge atoms
    nhes,      \* NestedHyperEdge atoms
    heLinks,   \* "hyperedge_node" links, pairs of handles
    hnext,     \* the next handle for one of them
    loaded     \* the results that objects in the atom cache hold

hvars == <<hes, nhes, heLinks, hnext, loaded>>
allvars == <<vars, hvars>>

HEHandles == 1..MaxHE
Names == Ids \cup {Null}

-----------------------------------------------------------------------------
(* The trigger function of a hyperedge.                                       *)

Pairs == {<<l.from, l.to>> : l \in links}

NumericHolds(op, a, b) ==
    \/ op = ">" /\ a > b
    \/ op = ">=" /\ a >= b
    \/ op = "<" /\ a < b
    \/ op = "<=" /\ a <= b

(* performComparison(Node, ...): "raise" is the exception of a row without    *)
(* data, or of Double.valueOf on a missing or non-numeric value; = and !=     *)
(* compare references.                                                        *)
Having(n, hv) ==
    LET v == Get(n.data, hv.attr)
    IN  IF hv = Null THEN "yes"
        ELSE IF n.data = Null THEN "raise"
        ELSE IF hv.op \in NumericOps
             THEN IF v \notin DOMAIN Num \/ hv.value \notin DOMAIN Num THEN "raise"
                  ELSE IF NumericHolds(hv.op, Num[v], Num[hv.value]) THEN "yes" ELSE "no"
        ELSE IF hv.op = "=" /\ SameReference(v, hv.value) THEN "yes"
        ELSE IF hv.op \in {"!=", "<>"} /\ ~ SameReference(v, hv.value) THEN "yes"
        ELSE "no"

(* The rows the breadth-first traversal from row n returns; the operator of   *)
(* the distance clause is read and not used.                                  *)
ConnectedRows(n, f) ==
    LET both == BothWays(Pairs)
        hs == IF f.distance = Null THEN Reachable(Handles, both, n.h)
                                   ELSE Ball(Handles, both, n.h, f.distance.value)
    IN  {m \in nodes : m.h \in hs /\ m.h # n.h}

OfType(m, c) == c.by = "type" /\ m.type = c.name

Counted(n, f) == {m \in ConnectedRows(n, f) : OfType(m, f.connected) \/ m.id = f.connected.name}

(* A row without data, or without the type or the id that is compared, raises.*)
CountRaises(n, f) ==
    \E m \in ConnectedRows(n, f) :
        \/ m.data = Null
        \/ f.connected.by = "type" /\ m.type = Null
        \/ ~ OfType(m, f.connected) /\ m.id = Null

(* performComparison(Double, ...): == and != compare boxed Doubles by         *)
(* reference, and the two operands are never the same object.                 *)
CountHolds(f, k) ==
    IF f.count = Null THEN NumericHolds(">=", k, 1)
    ELSE NumericHolds(f.count.op, k, f.count.value) \/ f.count.op \in {"!=", "<>"}

(* Mutant: a row goes on to the connected clause whatever its having clause   *)
(* says.                                                                      *)
MutSkipHaving(n, f) ==
    IF n.type = Null \/ n.data = Null THEN "raise"
    ELSE IF f.connected # Null /\ CountRaises(n, f) THEN "raise"
    ELSE IF f.connected # Null /\ ~ CountHolds(f, Cardinality(Counted(n, f))) THEN "no"
    ELSE "yes"

(* What the loop body of the trigger does with a row that is not of another   *)
(* type: getType().equalsIgnoreCase raises on a row without a type, and       *)
(* getData().get("name") on a hit without data.                               *)
Outcome(n, f) ==
    IF n.type = Null THEN "raise"
    ELSE IF Having(n, f.having) # "yes" THEN Having(n, f.having)
    ELSE IF f.connected # Null /\ CountRaises(n, f) THEN "raise"
    ELSE IF f.connected # Null /\ ~ CountHolds(f, Cardinality(Counted(n, f))) THEN "no"
    ELSE IF n.data = Null THEN "raise"
    ELSE "yes"

(* The atoms a trigger may start from: findOne takes one of them.             *)
Sources(f) ==
    IF f.source # Null THEN {n.h : n \in NodesWithId(f.source)}
                       ELSE {t.h : t \in TablesNamed(f.dest)}

(* The row at h, unless it is of another type than the destination.           *)
RowsAt(h, f) == {n \in nodes : n.h = h /\ n.type \in {f.dest, Null}}

(* The results of a trigger from src: the names of the rows that satisfy the  *)
(* clauses, up to the first row, in the order of the traversal, that raises.  *)
ResultsFrom(src, f) ==
    LET R == Reachable(Handles, Pairs, src) \ {src}
        Raises(h) == \E n \in RowsAt(h, f) : Outcome(n, f) = "raise"
        Hits(h) == {n \in RowsAt(h, f) : Outcome(n, f) = "yes"}
        Seen(s) == {i \in DOMAIN s : \A j \in 1..i : ~ Raises(s[j])}
    IN  {{Get(n.data, "name") : n \in UNION {Hits(s[i]) : i \in Seen(s)}} :
            s \in DepthFirstOrders(Pairs, src, R)}

(* trigger_function: Null stands for res = "", of a trigger without a source. *)
trigger_function(f) ==
    IF Sources(f) = {} THEN {Null} ELSE UNION {ResultsFrom(src, f) : src \in Sources(f)}

-----------------------------------------------------------------------------
(* The trigger function of a nested hyperedge.                                *)

(* getRes of the object that graph.get returns for an atom.                   *)
ResOf(h) == IF \E c \in loaded : c.h = h THEN (CHOOSE c \in loaded : c.h = h).res ELSE Null

(* res is the text "[a, b, c]" of the set of names, or "".  Split at commas   *)
(* and trimmed, its parts keep the brackets: a part is a triple of a name and *)
(* whether it opens and closes the text.                                      *)
Parts(res) ==
    IF res = Null THEN {<<FALSE, "", FALSE>>}
    ELSE IF res = {} THEN {<<TRUE, "", TRUE>>}
    ELSE {<<\A y \in res : HashOrder[x] <= HashOrder[y], x,
            \A y \in res : HashOrder[y] <= HashOrder[x]>> : x \in res}

(* Mutant: the lookup takes any hyperedge, whatever its id.                   *)
MutBasesAnyHE(b, nested) ==
    {[kind |-> "node", parts |-> {<<FALSE, b, FALSE>>}] : n \in NodesWithId(b)}
    \cup {[kind |-> "he", parts |-> Parts(ResOf(e.h))] : e \in hes}

(* What findOne may return for a base id, and what the loop reads of it.      *)
Bases(b, nested) ==
    {[kind |-> "node", parts |-> {<<FALSE, b, FALSE>>}] : n \in NodesWithId(b)}
    \cup {[kind |-> "he", parts |-> Parts(ResOf(e.h))] : e \in {x \in hes : x.id = b}}
    \cup {[kind |-> "nested", parts |-> {}] : e \in {x \in nested : x.id = b}}

NotFound == [kind |-> "none", parts |-> {}]

Combine(op, acc, base) ==
    IF base.kind = "nested" THEN acc
    ELSE IF op = "union" THEN acc \cup base.parts
    ELSE IF op = "intersection" THEN acc \cap base.parts
    ELSE acc

(* The loop over the base ids, from the empty result set.                     *)
CombineAll(op, found) ==
    LET acc[i \in 0..Len(found)] ==
            IF i = 0 THEN {} ELSE Combine(op, acc[i-1], found[i])
    IN  acc[Len(found)]

(* What findOne returns for the bases of a statement.                         *)
Lookups(f, nested) ==
    LET found(i) == IF Bases(f.bases[i], nested) = {} THEN {NotFound}
                                                     ELSE Bases(f.bases[i], nested)
        idx == 1..Len(f.bases)
    IN  {s \in [idx -> UNION {found(i) : i \in idx}] : \A i \in idx : s[i] \in found(i)}

(* The loop ends at a base that does not exist, and raises at the first row   *)
(* or hyperedge of a statement without an operation.                          *)
Stops(op, base) == base = NotFound \/ (op = Null /\ base.kind # "nested")

(* The outcome of the loop: res, and what createNestedHyperEdge returns.      *)
LoopResult(op, found) ==
    IF ~ \E i \in DOMAIN found : Stops(op, found[i])
    THEN [res |-> CombineAll(op, found), code |-> 0]
    ELSE LET first == found[CHOOSE i \in DOMAIN found :
                              Stops(op, found[i]) /\ \A j \in 1..(i-1) : ~ Stops(op, found[j])]
         IN  [res |-> Null, code |-> IF first = NotFound THEN 0 ELSE -1]

(* trigger_function of a nested hyperedge.  A statement without bases raises  *)
(* before the loop.                                                           *)
nested_trigger_function(f, nested) ==
    IF f.bases = Null THEN {[res |-> Null, code |-> -1]}
                      ELSE {LoopResult(f.op, found) : found \in Lookups(f, nested)}

-----------------------------------------------------------------------------
HInit ==
    /\ Init
    /\ hes = {} /\ nhes = {} /\ heLinks = {} /\ loaded = {}
    /\ hnext = 1

(* Mutant: only the hyperedges in the atom cache are looked at.               *)
MutOnlyLoaded(id) == \E e \in hes : e.id = Trim[id] /\ \E c \in loaded : c.h = e.h

isHEPresent(id) == \E e \in hes : e.id = Trim[id]

Remember(h, res) == IF res = Null THEN {} ELSE {[h |-> h, res |-> res]}

(* Two writes and the trigger, whose return value is not looked at.  The      *)
(* parent of the link is an arbitrary HyperEdge, maybe the new one itself.    *)
createHyperEdge(id, f, n) ==
    LET e == [h |-> hnext, id |-> id, form |-> f]
    IN  /\ up
        /\ ~ isHEPresent(id)
        /\ n \in 1..3
        /\ hnext <= MaxHE /\ hnext' = hnext + 1
        /\ hes' = hes \cup {e}
        /\ \E parent \in hes \cup {e} :
              heLinks' = heLinks \cup Upto(n, 2, {<<parent.h, e.h>>})
        /\ \E res \in trigger_function(f) :
              loaded' = IF n = 3 THEN loaded \cup Remember(e.h, res) ELSE {}
        /\ Finish(n, 3, 0)
        /\ UNCHANGED <<roots, tables, nodes, links, next, nhes>>

(* Both creations refuse the id of a hyperedge.                               *)
he_refused(id) ==
    /\ up
    /\ isHEPresent(id)
    /\ reply' = -1
    /\ UNCHANGED <<roots, tables, nodes, links, next, up, faults>>
    /\ UNCHANGED hvars

(* Without any hyperedge the link has no parent: the handler fails after the  *)
(* nested hyperedge was added and before its trigger.  It fails after both    *)
(* writes when the trigger raises.                                            *)
createNestedHyperEdge(id, f, n) ==
    LET e == [h |-> hnext, id |-> id, form |-> f]
        last == IF hes = {} THEN 1 ELSE 3
    IN  /\ up
        /\ ~ isHEPresent(id)
        /\ n \in 1..last
        /\ hnext <= MaxHE /\ hnext' = hnext + 1
        /\ nhes' = nhes \cup {e}
        /\ \E parent \in IF hes = {} THEN {Null} ELSE {x.h : x \in hes} :
              heLinks' = heLinks \cup Upto(n, 2, {<<parent, e.h>>})
        /\ \E out \in IF last = 3 THEN nested_trigger_function(f, nhes \cup {e})
                                  ELSE {[res |-> Null, code |-> -1]} :
              /\ loaded' = IF n = last THEN loaded \cup Remember(e.h, out.res) ELSE {}
              /\ Finish(n, last, out.code)
        /\ UNCHANGED <<roots, tables, nodes, links, next, hes>>

(* Mutant: an object that comes back runs its trigger again.                  *)
MutRetrigger ==
    /\ up
    /\ \E c \in loaded : \E e \in {x \in hes : x.h = c.h} :
       \E res \in trigger_function(e.form) :
          loaded' = (loaded \ {c}) \cup Remember(e.h, res)
    /\ UNCHANGED <<hes, nhes, heLinks, hnext>>
    /\ UNCHANGED vars

(* The garbage collector takes an object out of HyperGraphDB's atom cache; it *)
(* comes back as it was stored.                                               *)
evict ==
    /\ up
    /\ \E c \in loaded : loaded' = loaded \ {c}
    /\ UNCHANGED <<hes, nhes, heLinks, hnext>>
    /\ UNCHANGED vars

(* The commands of GraphStore, which know nothing of hyperedges.              *)
HCommand ==
    /\ Command
    /\ loaded' = IF up' THEN loaded ELSE {}
    /\ UNCHANGED <<hes, nhes, heLinks, hnext>>

(* Mutant: the cache of the old database outlives the reset.                  *)
MutHResetKeepsCache ==
    /\ reset
    /\ hes' = {} /\ nhes' = {} /\ heLinks' = {}
    /\ hnext' = 1
    /\ UNCHANGED loaded

HReset ==
    /\ reset
    /\ hes' = {} /\ nhes' = {} /\ heLinks' = {} /\ loaded' = {}
    /\ hnext' = 1

HStop ==
    /\ exit \/ kill
    /\ loaded' = {}
    /\ UNCHANGED <<hes, nhes, heLinks, hnext>>

HRestart == restart /\ UNCHANGED hvars

HNext ==
    \/ HCommand
    \/ HReset
    \/ HStop
    \/ HRestart
    \/ \E id \in HEIds, f \in Forms, n \in 1..3 : createHyperEdge(id, f, n)
    \/ \E id \in HEIds, f \in NestedForms, n \in 1..3 : createNestedHyperEdge(id, f, n)
    \/ \E id \in HEIds : he_refused(id)
    \/ evict

HSpec == HInit /\ [][HNext]_allvars

-----------------------------------------------------------------------------
(* Types of the hyperedge state.                                              *)
HTypeOK ==
    /\ hes \subseteq [h : HEHandles, id : HEIds, form : Forms]
    /\ nhes \subseteq [h : HEHandles, id : HEIds, form : NestedForms]
    /\ heLinks \subseteq HEHandles \X HEHandles
    /\ hnext \in 1..(MaxHE + 1)
    /\ \A e \in hes : e.h < hnext
    /\ \A c \in loaded : c.h \in 1..(hnext - 1)
    /\ \A c, d \in loaded : c.h = d.h => c = d

(* The hyperedge layer implements the graph store: whatever it does is, for   *)
(* the graph, a command that changes nothing, or a kill.                      *)
ImplementsStore == Spec

(* An id without blanks around it names at most one hyperedge, across kills   *)
(* between the writes of a creation and restarts.                             *)
TrimmedIdsUnique ==
    \A d, e \in hes : Trim[d.id] = d.id /\ d.id = e.id => d = e

(* The rows a source_id statement without its connected clause selects now.   *)
SelectedNow(f) ==
    {n \in nodes : /\ n.type = f.dest
                   /\ Having(n, f.having) = "yes"
                   /\ \E s \in Sources(f) : n.h \in Reachable(Handles, Pairs, s)}

(* A result computed from a source row stays sound while commands, failed and *)
(* killed handlers and dropped tables change the graph behind it: every name  *)
(* in it is the name of a row that the statement still selects, also when the *)
(* trigger was cut short by an exception.                                     *)
ResultsStaySound ==
    \A e \in hes, c \in loaded :
        c.h = e.h /\ e.form.source # Null =>
            c.res \subseteq {Get(n.data, "name") : n \in SelectedNow(e.form)}

(* The result of a hyperedge is computed once.  It may be lost (eviction,     *)
(* exit, kill), and a hyperedge without one, because its trigger found no     *)
(* source or because the result was lost, never gets one while it exists.     *)
ResultsAreFinal ==
    [][hnext' # 1 =>
          \A h \in 1..(hnext - 1) : ResOf(h)' \in {ResOf(h), Null}]_allvars

(* In a graph built without kills and without drop_table, every row is linked *)
(* to every other one through its table and the Root: a connected clause      *)
(* without a distance looks at all the other rows, whatever edges they have.  *)
ConnectedIsVacuous ==
    faults = {} =>
        \A n \in nodes, f \in Forms :
            f.connected # Null /\ f.distance = Null =>
                ConnectedRows(n, f) = nodes \ {n}

BaseIds(f) == IF f.bases = Null THEN {} ELSE {f.bases[i] : i \in 1..Len(f.bases)}

(* The names in the result of a nested hyperedge are ids of base rows or come *)
(* from the results its base hyperedges had in memory when it was created.    *)
NestedNamesFromBases ==
    [][\A e \in nhes' \ nhes, c \in loaded' \ loaded :
          LET baseIds == BaseIds(e.form)
              baseRes == {ResOf(d.h) : d \in {x \in hes : x.id \in baseIds}}
          IN  {p[2] : p \in c.res} \subseteq
                 {""} \cup {n.id : n \in {x \in nodes : x.id \in baseIds}}
                     \cup UNION (baseRes \ {Null})]_allvars

=============================================================================
