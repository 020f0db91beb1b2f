# Verification of the hypergraph database and its PostgreSQL bridge

This directory holds TLA+ models of the hypergraph database under `src/hgdb`
(the command line that keeps tables, nodes and edges in HyperGraphDB, the
hyperedges computed on top of them, the import of the university data set), of
the bridge between it and PostgreSQL, and of the part of PostgreSQL the bridge
is built into: the query loop of a backend and the transaction blocks it drives.

## Inventory

The repository is a modified PostgreSQL 12.2, a Java program, `hgdb`, and copies
of the libraries they use. The program's own code is small: about 1700 lines of
Java and 120 lines added to `postgres.c`.

| Part | State | Operations | Depends on |
|---|---|---|---|
| Command line (`cli/CLI.java`, `CreateInRun.java`) | the open graph; the statement read so far | `create_type`, `create_node`, `create_edge`, `insert`, `truncate_table`, `drop_table`, `alter_table`, `update`, `delete`, `reset`, `exit`, `create_graph`, `show` | HyperGraphDB, hyperedge creation |
| Entities (`Node`, `Table`, `Root`) | records | getters and setters | |
| Hyperedge creation (`CreateHyperEdge.java`) | none | `isHEPresent`, `createHyperEdge`, `createNestedHyperEdge` | HyperGraphDB, triggers |
| Triggers (`HyperEdge.java`, `NestedHyperEdge.java`) | `res`, `count` in the Java object | `trigger_function` | traversals over the graph |
| Bulk import (`CLI.createGraph` and below) | static handle maps | `addStudents`, `addProfs`, `addProjs`, `addRelations` | HyperGraphDB |
| HyperGraphDB (vendored) | atoms, links, a weak atom cache | `add`, `remove`, `findOne`, traversals | |
| PostgreSQL bridge (`postgres.c`, `Server.java`) | sockets, a 500 byte buffer | `connectToHGDB`, `query_rewrite`, `connectToClient` | each other |
| Query loop (`PostgresMain` in `postgres.c`) | flags of the protocol, the query in progress | a message of each kind, error recovery, `ReadyForQuery` | transaction blocks, the bridge |
| Transaction blocks (`xact.c`, `twophase.c`) | the stack of transaction states, transaction ids, `pg_xact`, prepared transactions | `StartTransactionCommand`, `CommitTransactionCommand`, `AbortCurrentTransaction`, the statements of a block, `AbortOutOfAnyTransaction` | |
| Viewer (`ShowGraph.java`), `FunctionalNode` | none | display only; unused | |

How they interact: the command line reads a statement, parses it and calls one
handler. A handler makes between one and five calls of `graph.add` or
`graph.remove`; each is a HyperGraphDB transaction of its own, and there is
none around the handler. Hyperedge commands add an atom and a link, then run a
trigger function that reads the graph. The bridge was meant to let the
PostgreSQL backend reach the same graph by a socket. `PostgresMain` calls
`connectToHGDB` before its query loop, and in the loop hands every simple query
to `query_rewrite`, which passes the ones that do not say "hyper" on to
`exec_simple_query`. At the other end `Server.connectToClient` answers lines;
its call in `Server.main` is commented out.

What is hard to test here:

- a kill between two transactions of a handler, followed by a restart and by
  commands that look for what the handler left;
- handlers that fail after some of their writes (`insert` with a foreign key,
  `createNestedHyperEdge` without any hyperedge);
- long sequences over equally named, dropped and re-created tables, where
  `findOne` takes any match;
- results that live in a weak cache and are computed once, while the graph
  behind them changes;
- exceptions swallowed in the middle of a traversal, and a file that cannot be
  read taken for an empty one;
- handle maps that outlive the graph they point into;
- two processes that each wait for the other, and a crash of either between a
  request and its answer;
- statements that only mark a stack of transactions, errors while the marks are
  being worked off, and a client that goes away in between.

`PROJECT.json` lists them, with their lines, under `hazards`.

What makes each part correct:

- the graph: both ends of a link exist, there is one Root, links lead from the
  Root to tables to their rows, a row has one table, and orphans only come from
  kills and drops;
- hyperedges: an id without blanks names one hyperedge, a result is sound for the
  graph it is read in, and hyperedge commands leave the graph alone;
- nested hyperedges: results come from the bases;
- traversals: a depth-first or breadth-first iterator returns every reachable
  atom once;
- import: relations join the rows of their own run, and all of them are there
  when it reports success, also when it ran before, was killed or reset; and a
  stale handle is still one of the row its line names;
- bridge: answers stay in step with requests, and a line is answered;
- query loop: what `ReadyForQuery` says is so, and every query gets one;
- transaction blocks: rows become permanent together or not at all, savepoints
  can be returned to, every transaction id is settled, and no function meets a
  state it does not expect.

## Modules

| Module | What it is |
|---|---|
| `GraphStore` | the graph, and an action per command, plus kill, exit and restart |
| `GraphStoreProofs` | theorems about it |
| `HGGraph` | what HyperGraphDB's traversals return: reachable sets, balls, depth-first orders |
| `HyperEdges` | hyperedges and nested hyperedges; extends `GraphStore` |
| `HyperEdgesProofs` | theorems about it, the refinement of `GraphStore` among them |
| `Traversal` | the depth-first and breadth-first iterators that the triggers drive |
| `TraversalProofs` | theorems about them |
| `Import` | the `create_graph` statement, a step for each write |
| `ImportProofs` | theorems about it |
| `Bridge` | `connectToHGDB` of several backends against `Server.connectToClient` |
| `BridgeProofs` | theorems about it |
| `Xact` | the transaction stack of `xact.c` as operators and steps |
| `XactProofs` | what each function keeps true of the stack and the ids |
| `Backend` | the query loop over it; extends `Xact` |
| `BackendProofs` | theorems about it, from those of `XactProofs` |
| `Session` | what a session promises its client: the abstract specification `Backend` implements |
| `WellOrder` | least and greatest elements of sets of naturals, for the proofs |
| `MCGraphStore`, `MCHyperEdges`, `MCTraversal`, `MCImport` | the values of the constants for TLC |

### GraphStore

`roots`, `tables`, `nodes` and `links` are the atoms of the database, `next` the
next handle, `up` whether the process runs, `reply` what the last handler
returned. `faults` is a history variable: it records that since the last reset
a kill or a `drop_table` happened, and no action reads it.

A handler is one action with a parameter `n`, the number of its writes that were
committed. If `n` is all of them the handler returned; otherwise the process was
killed after the `n`-th. So an action stands for the whole handler, and for all
the places it can be cut. `kill` is a kill anywhere else. The handlers run on one
thread, so no two interleave.

Points where the model follows the code rather than the intention:

- `truncate_table` and `insert` filter links with `hg.type(HGValueLink.class)`.
  HyperGraphDB stores a `HGValueLink` under the type of its value, a String
  (`HyperGraph.add`, and the comment of `HGValueLink`). `LinkAtomType` and
  `LinkPredicate` say so; the traversals find nothing.
- Both compare type names with `==`. `SameReference` is Java's `==` on strings
  that come from different statements: true only for two nulls.
- `drop_table` looks the name up twice, and each lookup may return any table of
  that name.
- `create_type` never looks for an existing table.
- What a statement may lack and the handler passes on is `Null`: the name of a
  table, the type, the id or the values of a node, the ids of an edge. Such atoms
  are stored, found again by other statements without the member, and raise later,
  in the triggers that read them. Under a foreign key `insert` finds no row to refer
  to, the link with a null target raises (`ForeignWrites`), and the row stays.
- `reset` closes and deletes the database and opens it again; `HGEnvironment`
  returns the same object, so that `this.graph` of the handlers stays valid.

### HyperEdges

`hes` and `nhes` are the stored hyperedges, `heLinks` the `hyperedge_node` links,
`loaded` the results held by objects in HyperGraphDB's weak atom cache. A trigger
sets `res` after `graph.add` stored the object with `res = ""`, and nothing
writes it back: `evict`, exit and kill lose it. `ResOf` is what `getRes` then
returns, `Null` standing for the empty text.

`trigger_function` gives the set of possible results: `findOne` picks a source,
the depth-first traversal fixes an order up to the order of incidence sets, and
the first row that raises ends the loop with the names found so far.
`nested_trigger_function` splits the text of each base's result as the code does:
a part is a name and whether it carries the opening and the closing bracket.

### Traversal and HGGraph

`HyperEdges` computes a trigger's result from what a traversal returns:
`Reachable`, `Ball` and `DepthFirstOrders` of `HGGraph`. `Traversal` is the code
behind these operators: `examined` and `to_explore` as in the two classes, one
`next` per turn of the caller's loop, and any order in which
`DefaultALGenerator` may list the neighbours of an atom. With `Stack` it is
`HGDepthFirstTraversal`, otherwise `HGBreadthFirstTraversal` with `MaxDistance`
or without (`NoLimit`). The distance that goes with an entry of the stack is not
in the code and is not read there.

### Import

`roots`, `tables`, `rows` and `links` are the graph as `create_graph` fills it,
`handles` the three static maps, `pc`, `kind` and `lines` where the import is.
Unlike in `GraphStore` a handle is never given out twice, not even after a reset:
the point is a handle of before the reset that is still in a map. Every `graph.add`
is a step, and `stop` (a kill, an exit, a line without its tabs) may come between
any two. Each of the five files may turn out unreadable, in which case
`getAllLines` returns no lines and the import goes on. The history variables
`started`, `unread` and `tainted` say which handles are of the last run and
whether a file was not read; no action reads them.

`HyperGraph.addLink` does not look whether the targets of a link exist. So a run
after a reset whose file of projects cannot be read links the new students to
handles of removed projects. `LinksAreLive` and `RelationsWithinRun` are about
everything else, and `tainted` is what excludes that case. For it there is
`StaleEndsKeepTheirNames`: an end of such a relation is a removed atom or a row of the
kind and name on its line, never another atom of the graph.

### Bridge

A backend is at `start`, at its `prompt`, in `recv`, or `gone`. `inbox` and `outbox`
are the two directions of its connection, as lines or pieces of lines: `fgets`
reads at most 499 bytes, so a longer line is sent without its end, and `recvfrom`
takes all the answers there are. The results of `connect`, `send` and `recvfrom` are
ignored, so without a server (`failed`, `broken`) a backend goes round its loop
without waiting. The kernel accepts connections the server never does; a socket
closed with unread data is reset, which the server sees as an exception, while
otherwise it reads `null` for ever and answers it. The only ways out of the
function are SIGQUIT and crashes: SIGTERM sets a flag that nothing in it looks at.

### Xact, Backend and Session

`xs` is the stack of `TransactionStateData`, with `state`, `block`, the savepoint's
name, `xid` and `childXids`; `chain` is the flag of the top level, `heap` the
transaction id each row was written under, `pg_xact` and `prepared` what becomes of
the ids. The functions that only mark the stack (`EndTransactionBlock`,
`ReleaseSavepoint` and so on) are operators on stacks. `CommitTransactionCommand` and
`AbortCurrentTransaction` are a sequence of steps, one for each level they finish
(`phase`), because an error may strike between two of them, and then recovery
starts from what is left.

`Backend` adds `PostgresMain`: `ctl` is where the loop is, `left` the statements of
the query still to run, `implicit`, `doing_extended`, `ignore_till_sync` and
`send_ready_for_query` are the variables of the code, `told` the status in the last
`ReadyForQuery`. A statement inserts a row that is followed, writes something else
(which only assigns ids), reads, or is one of the transaction statements; any
statement may fail. The loop is taken as it is after the call of `connectToHGDB`:
`Bridge` shows that the call does not return, so this part describes a backend
without the call. A `hyper` query goes through `query_rewrite`, where `setsockopt`
returns 0 and the function returns at once (`HyperQuery`, `HyperReturns`); nothing
in the code turns this off, so these queries are in every run of `Backend`.

`PREPARE TRANSACTION` begins with `GetCurrentTransactionId`: a transaction that has
written nothing gets its id then, also when the identifier turns out to be in use
(`PrepareTransaction`, `MarkAsPreparingFails`). `Expected` collects what the switches
and loops of `BeginTransactionBlock`, `EndTransactionBlock`, `UserAbortTransactionBlock`,
`DefineSavepoint`, `ReleaseSavepoint` and `RollbackToSavepoint` expect of the stack;
anything else is their "unexpected state".

`Session` is the abstract specification: a list of levels with the rows each has
written, a set of permanent rows, and prepared transactions in doubt. It knows
neither ids nor marks nor states. `ImplementsSession` is `Session!Spec` under the
refinement mapping at the end of `Backend`: the levels are the live part of the
stack, a level's rows those written under its ids, the permanent rows those whose
id `pg_xact` calls committed.

Assumptions and abstractions:

- A function call message ('F') does what a query of one statement does and is not
  an action of its own. Portals and prepared statements do not matter to the
  transaction state beyond the statement they run.
- Parallel workers, asynchronous commit, WAL and the visibility of rows to other
  sessions are left out; a session is alone with its rows.
- A PREPARE is only tried while there is an id left for it within `MaxXid`.
- A kill of the process keeps the committed transactions (a crash of the machine
  may not: HyperGraphDB commits without a sync by default).
- Names are compared exactly; `equalsIgnoreCase` on type names and ids is taken as
  equality, which holds when names that differ differ in more than case.
- A statement that lacks a member its handler dereferences before its first write
  (`attributes` of a table, `values` of an insert, `from` and `to` of an edge, the id
  of a hyperedge) is `malformed` and writes nothing. Other members may be missing,
  as said under GraphStore, and in a nested hyperedge the bases and the operation:
  that one is stored before its trigger raises. A `having`, `connected`, `distance`
  or `count` clause that is there has all its members.
- `hg.eq` with a null value finds the atoms whose value is null; HyperGraphDB's
  query engine is taken to be null-safe.
- The deletion of the files by `reset` is one step.
- `hyperedge_node` links only connect hyperedges, so they are kept apart from
  `links`; no traversal from a node or a table reaches them.
- The order of a `HashSet`'s text is a fixed order on names (`HashOrder`).
- The reply of a hyperedge command is what `CreateHyperEdge` returned; on the
  console it decides which message is printed.

## Runs

Passing runs:

| Run | Module, cfg | Bounds | Checks |
|---|---|---|---|
| `graph_store` | `MCGraphStore` | a table name or none, 2 ids, 1 row, 2 definitions (one with a foreign key to the table itself), 4 handles, 5 links | shape of the graph, causes of orphans, no adoption, no link that goes without one of its ends |
| `hyperedges` | `MCHyperEdges` | 1 table name, 2 ids, 2 rows (one without the compared column) and rows without values, 4 statements, 4 handles, 1 hyperedge | soundness and finality of results, vacuity of `connected` |
| `nested` | `MCHyperEdges`, `MCNested.cfg` | a table name or none, 1 row, 3 handles, 3 hyperedges, 2 ids for them (one the other with a blank), 5 nested statements (one without bases, one without an operation) | ids, contents of nested results |
| `depth_first` | `MCTraversal`, `Depth.cfg` | every graph of 4 atoms, with one possible loop | termination, what is returned and in which order |
| `breadth_first` | `MCTraversal`, `Breadth.cfg` | the same, distance 2 | what is returned within a distance, near atoms first |
| `import` | `MCImport`, `Import.cfg` | a student, a professor, a project, a relation of each kind; 3 `create_graph` statements | links to live rows, relations within a run, the names stale handles stand for, completeness, why a session ends, that an import ends |
| `backend` | `Backend` | 2 savepoint names, 1 row, 1 prepared transaction, 3 levels, 3 ids, queries of 2 statements | refinement of `Session`, expected states, transaction ids and the finality of their outcomes, the status of `ReadyForQuery`, and that every query is answered |
| `bridge` | `Bridge` | 3 backends; whole lines, pieces of lines, end of input | requests and answers in step, causes of waits, answers to lines |

Why the bounds suffice: four handles hold a Root, a table and two rows, or two
equal tables, a Root and a row, or a table created again beside the row of the
dropped one; that covers each clash of names the handlers can meet, and every
cut of every handler. Reset starts again from handle 1, so sequences of commands
are unbounded. Three hyperedges hold two bases and a nested one, and one hyperedge
is enough for properties of single results. The theorems below remove the
bounds for most of the properties. Four atoms make every cycle, every pair of
paths of different length to an atom, and stacks with more than one group.

The import needs three runs: one that fills the maps, one cut short or after a
reset, one that completes. Each relation file needs one line, since the lines of a
file do not interact. Three levels are a transaction with a savepoint inside
another, of the same or of another name, which is where the marks of two walks can
meet. One row is followed through the levels that write it, keep it or lose it; what
becomes of a row depends on no other row, only on the ids, and any statement may have
an id assigned without writing this row. Three ids give each level one, and a
transaction that runs out of ids fails like any statement. Two statements make a
query with a middle and an end. Three backends are one that is served, one that
crashed before it was accepted, and one that waits. The bridge has no bound: `InStep`
is the reason its queues stay short.

`MaxHandle`, `MaxLinks`, `MaxHE`, `MaxRuns`, `MaxDepth`, `MaxXid` and
`MaxStatements` are the only bounds. A state at the bounds
still has the commands that add nothing, so deadlock is checked and never occurs.

In the two traversal runs an exhausted iterator stops, so deadlock is not checked
there.

Liveness is stated where something runs by itself:

- `Terminates`, under weak fairness of the iterator's steps, which is what the
  `while (trav.hasNext())` loops of the triggers provide;
- `ImportEnds`, under weak fairness of the import's own steps: they are a loop on
  one thread. Nothing is assumed of users, kills or restarts;
- `QueriesAreAnswered`, under weak fairness of the steps a backend takes while it
  works on a message. Nothing is assumed of the client, not even that it sends
  another message or the Sync that ends a skipped sequence;
- `ServedLinesAreAnswered`, under weak fairness of each process that can go on:
  the operating system schedules them, and nobody is required to start a server.

Violation runs state what a comment or an example of the repository says, and TLC
shows that the code does something else:

| Run | What the repository says | What the code does |
|---|---|---|
| `drop_deletes_rows` | "first delete all the rows for the given table" | the rows stay, without a table |
| `chain` | "If AND CHAIN is specified, a new transaction is immediately started" | not with a savepoint open: that commit goes through another case of `CommitTransactionCommand`, which ignores the flag |
| `ready` | of the status I: "idle --- not in transaction" | a `hyper` query after messages of the extended protocol and before their Sync is answered I while the transaction those messages opened goes on |
| `backends_get_ready` | "Non-error queries loop here" | `connectToHGDB` loops for ever before that point |

Other differences between the code and what is said of it, which the modules follow
without a run of their own:

- `insert`: "linking the node with the refrenced node( if any)" (`CLI.java:647`); the
  search finds nothing, `graph.add` gets a null handle and the insert returns -1
  after the row was written.
- `NestedHyperEdge`: "first get its res string, then convert it into a set and the
  perform operation" (line 76); `retainAll` is applied to an empty set for the first
  base, so an intersection is always empty.
- `isHEPresent`: "returns true if hyperedge with given id is found" (`CreateHyperEdge.java:21`);
  it trims the id, which is stored untrimmed, so an id with a blank is never found.
- `createHyperEdge.txt:16` gives a distance as an operator and a value; the operator
  is read and never used (`HyperEdge.java:156`).
- `Parts` keeps the brackets of the result text on the first and the last name, so
  that a union counts a name of two bases twice; the parent of a `hyperedge_node`
  link is any hyperedge, the new one included, where the comments speak of a root
  node.
- `query_rewrite` takes `setsockopt(...) == 0` for an error. A query that says
  "hyper", in a comment or a string too, is neither run nor sent, and its socket is
  never closed.

`StatusTellsTheBlock`, which the `backend` run checks, is what remains true of the
status: it is that of the block the client is in, and the transaction of the run
`ready` is the only one that I may leave open.

## Proofs

All proofs hold for every value of the constants that satisfies
`StoreAssumption`, `HEAssumption`, `TraversalAssumption`, `ImportAssumption`,
`XactAssumption`, `BackendAssumption` and `BridgeAssumption`, the assumptions of
the modules that declare them.

`WellOrder`. The provers cannot instantiate an induction theorem, so wherever a
proof goes along a stack, a queue, a list or a recursive function it takes the least
(or greatest) place where the claim fails and looks at the place before it.
`LeastElement` and `GreatestElement` provide that, from the well-foundedness of the
naturals.

`GraphStoreProofs`. The inductive invariant `IndInv` is `TypeOK` together with
`HandlesUnique`, `Layered`, `OneRoot`, `OneTablePerRow` and `OrphansHaveACause`.
`HandlesUnique` is what the rest rests on: a fresh handle is no end of a link, so
a new row has no table and a new table no row. `NoDanglingLinks` follows from
`Layered`. `NothingTruncated` and `NothingReferred` are the lemmas that the link
predicate makes both searches empty; with them every command is one of a few ways
of growing the graph, plus the removal of one table with its links. The action
properties `OrphansAreNotAdopted` and `LinksEndWithTheirEnds` follow from the same
facts.

`HyperEdgesProofs`. `HyperEdgesImplementStore` shows `HSpec => Spec`: a creation
that completes or fails changes only `reply`, which is a `malformed` or an
`alter_table` step of the store, and one that is killed is a `kill`. So `IndInv` holds under `HSpec`
too. `ResultsStaySound` needs that rows and, from a source row, paths between
rows survive every command: `drop_table` removes only links at tables, and by
`Layered` no path from a row passes a table. `Reachable` is defined as the
intersection of all closed sets, so that these proofs need no induction.
`ConnectedIsVacuous` uses `OrphansHaveACause` and `OneRoot`: row, table, Root,
table, row is a path. `NestedNamesFromBases` needs what the loop over the bases
computes: `CombineAllIs` shows that its recursive function exists for every length,
`CombineAllFrom` that a part of its result stands in one of the bases, at the first
position after which it is there.

`TraversalProofs`. `TInv` says that the marked atoms are the start, the atoms
returned and those to be returned, that all are reachable, that the successors of
those returned are marked, and (`Counted`) that there are as many marks as entries
and the start. The last part makes the list of entries injective, which gives
`ReturnedOnce`; when nothing is left to return the marked set is closed under
links, so it contains the least closed set, `Reachable`.

`NearestFirst` and `ReturnsBall` need in addition that the queue is ordered
(`InLevels`): what waits is sorted by distance and spans two distances at most, what
was returned is no farther, each distance is that of a shortest path, and all atoms
no farther than the head of the queue are marked. The last part makes a fresh
neighbour's distance exact. It is kept because when the last entry of a distance
leaves the queue, all atoms within that distance have been returned, so their
neighbours are marked (`NextLevel`); the same lemma, on the empty queue, gives the
ball. `InDepthFirstOrder` needs the shape of the stack (`InGroups`): each entry lies
in the group of one returned atom, the groups are disjoint and lie on the stack in
the order in which their atoms were returned, and the marks are the start and
the members of the groups. The top is then in the newest group that has members
left.

`ImportProofs`. `RelationsWithinRun` and the completeness of an import speak of its end;
the inductive invariant `ImportInv` says what is done at each line: the names before
the current one have a row of this run in the maps (`PutSoFar`), the relations
before the current one have their link (`ImportedSoFar`), the table and the row at
hand exist (`InProgress`), and a run that could not read one of its files
leaves the mark `tainted`. A restart finds no import under way, so nothing is
promised of one that was killed. `StaleEndsKeepTheirNames` needs another invariant
(`MapsKeepNames`): a handle in a map that is in the graph is that of a row of the kind
and name it is filed under. Handles are not given out twice, so one of before a reset
never becomes that of another atom.

`XactProofs`. `XactInv` has, beside the types, four parts about the stack of transaction
states:

- `Shape`: which block state may lie below which (`MayCarry`), the bottom one being
  of a transaction and the others of savepoints. A walk such as `ROLLBACK TO` marks
  levels in a row, and later ones can meet only those marks;
- `Marks`: which block states a failed level can have;
- `Numbered`: ids are assigned from the bottom, each parent before its
  children, and all are below `nextXid`;
- `Accounted`: every id given out and still running belongs to exactly one level or
  one prepared transaction, and the ids of a failed level are aborted.

There is a lemma for each function of `xact.c` that changes the stack: what it needs,
what it keeps, and in which phase of the command it leaves the stack. Names, ids and
depth are arbitrary.

`BackendProofs`. `BackendInv` adds to it where the query loop stands (`ControlInv`: which
phases of a command and which blocks are possible at which place of the loop) and
what the client was last told (`ReadyInv`). `NoUnexpectedState` follows from `Shape` with
`ControlInv`: it says that no function of `xact.c` reports a block
state as unexpected. `ParentsFirst` and `NoXidIsLost` are read off `Numbered`
and `Accounted`, and so is `OutcomesAreFinal`: an id is settled only while it is
running and owned, and never again. `StatusTellsTheBlock` follows from `ReadyInv`:
between the message and the next one the client sends only `ReadyForQuery` is left
to do, and it leaves the stack alone.

`BridgeProofs`. `InStep` counts messages and is not inductive: it does not say which
message is under way. `BridgeInv` says instead that each backend is in one of four
situations (nothing under way, sent, being answered, answered), that a message
under way is the one last read from standard input, and which socket states go
with which place in the code (`SockInv`, `ServingInv`). A backend at its prompt is
in the first situation, and one that waits after a whole line is not; so `readLine`
always finds exactly that line, and the queues never need a bound.

Only model-checked: `Terminates`, `ImportEnds`, `QueriesAreAnswered` and
`ServedLinesAreAnswered`, which are liveness properties and out of the prover's
reach, and so far `ImplementsSession`, the refinement of `Session` by `Backend`. The
four violation runs stay with TLC too.

## Plan

The modules are complete as far as they are planned, and every invariant and action
property of the passing runs is proved. Left to prove is `ImplementsSession`: an
initial state of `Backend` maps to one of `Session`, and each step to a step or a
stutter. Most steps of the walks up and down the stack are stutters; the proof needs
from `Shape` that a level marked for release or rollback has only marked levels
above it, and from `ControlInv` that a session with a marked level is not at its
prompt.

## Not modelled

- The viewer and `FunctionalNode`: nothing changes state there.
- How `startCLI` collects lines up to a semicolon: text handling on one thread.
- `Server.createGraph`, `addNodes`, `connectToDB` and `listAllDBs`, which copy a PostgreSQL
  database as empty nodes and which nothing calls.
- PostgreSQL beyond the query loop and the transaction blocks. It is third-party code
  of 1.3 million lines, nearly all of the repository's C, and the program only
  changes one file of it. The models cover a very small share of those lines.
- The parts of HyperGraphDB the command line does not use, and its storage, indices and
  query engine, which are taken as documented.
