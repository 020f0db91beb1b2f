------------------------------ MODULE Backend ------------------------------
(***************************************************************************)
(* The query loop of a backend (tcop/postgres.c) and what it does to the   *)
(* transaction state of module Xact: simple queries of one or more         *)
(* statements, the messages of the extended protocol, error recovery, and  *)
(* the end of the process.                                                 *)
(*                                                                         *)
(* The loop is modelled as it stands after the call of connectToHGDB,      *)
(* which module Bridge is about.                                           *)
(***************************************************************************)
EXTENDS Xact

CONSTANT
    MaxStatements  \* bound: statements of a query

ASSUME BackendAssumption == MaxStatements \in Nat

VARIABLES
    ctl,                     \* where PostgresMain is
    left,                    \* statements of the query still to run
    implicit,                \* use_implicit_block of exec_simple_query
    doing_extended,          \* doing_extended_query_message
    ignore_till_sync,
    send_ready_for_query,
    told                     \* status in the last ReadyForQuery, if the
                             \* client has sent nothing since

vars == <<xactVars, ctl, left, implicit, doing_extended, ignore_till_sync,
          send_ready_for_query, told>>
flags == <<doing_extended, ignore_till_sync, send_ready_for_query>>
store == <<chain, nextXid, heap, pg_xact, prepared>>

(* loop: at the top of the loop; query: between two statements of a query;
   fence: a transaction statement in the middle of a query is being finished;
   end: a query, or the transaction at a Sync, is being finished; execute: an
   Execute message is about to run; message: its transaction statement is
   being finished; hyper: in the part of query_rewrite for queries with that
   word; error: at the error exit. *)
Controls == {"loop", "query", "fence", "end", "execute", "message", "hyper",
             "error"}

TypeOK ==
    /\ XactTypeOK
    /\ ctl \in Controls
    /\ left \in 0..MaxStatements
    /\ implicit \in BOOLEAN
    /\ doing_extended \in BOOLEAN
    /\ ignore_till_sync \in BOOLEAN
    /\ send_ready_for_query \in BOOLEAN
    /\ told \in {"-", "I", "T", "E"}

Init ==
    /\ XactInit
    /\ ctl = "loop"
    /\ left = 0
    /\ implicit = FALSE
    /\ doing_extended = FALSE
    /\ ignore_till_sync = FALSE
    /\ send_ready_for_query = TRUE
    /\ told = "-"

----------------------------------------------------------------------------
(* Statements. *)

Statements ==
    [kind : {"write", "begin", "prepare"}]
    \cup [kind : {"commit", "rollback"}, chain : BOOLEAN]
    \cup [kind : {"savepoint", "release", "rollback_to"}, name : Names]
    \cup [kind : {"finish_prepared"}, gid : Gids, isCommit : BOOLEAN]

IsTransactionStmt(s) == s.kind # "write"
IsTransactionExitStmt(s) ==
    s.kind \in {"commit", "prepare", "rollback", "rollback_to"}

(* The conditions on which a statement is refused with an error. *)
Refused(s, st) ==
    \/ IsAbortedTransactionBlockState(st) /\ ~IsTransactionExitStmt(s)
    \/ /\ s.kind \in {"commit", "rollback"} /\ s.chain
       /\ Cur(st).block \in {"STARTED", "IMPLICIT_INPROGRESS"}
    \/ /\ s.kind = "savepoint"
       /\ Cur(st).block \in {"STARTED", "IMPLICIT_INPROGRESS"}
    \/ /\ s.kind \in {"release", "rollback_to"}
       /\ Targets(st, s.name) = {}
    \/ /\ s.kind = "finish_prepared"
       /\ IsTransactionBlock(st) \/ \A p \in prepared : p.gid # s.gid

(* What the switches of xact.c, and the loops in them over the levels below,
   expect of the stack when a transaction statement that is not refused marks
   it; anything else is elog(FATAL). *)
LiveBlock(i) == IF i = 1 THEN "INPROGRESS" ELSE "SUBINPROGRESS"
FailedBlock(i) == IF i = 1 THEN "ABORT" ELSE "SUBABORT"
BeginExpects(st) ==
    Cur(st).block \in {"STARTED", "IMPLICIT_INPROGRESS", "INPROGRESS",
                       "SUBINPROGRESS", "ABORT", "SUBABORT"}
EndExpects(st) ==
    /\ BeginExpects(st)
    /\ \A i \in 1..(Len(st) - 1) :
           \/ st[i].block = LiveBlock(i)
           \/ Cur(st).block = "SUBABORT" /\ st[i].block = FailedBlock(i)
UserAbortExpects(st) ==
    /\ BeginExpects(st)
    /\ \A i \in 1..(Len(st) - 1) : st[i].block \in {LiveBlock(i), FailedBlock(i)}
SavepointExpects(st) == Cur(st).block \in {"INPROGRESS", "SUBINPROGRESS"}
ReleaseExpects(st) == Cur(st).block = "SUBINPROGRESS"
RollbackToExpects(st, n) ==
    \A i \in Target(st, n)..Len(st) :
        st[i].block \in {"SUBINPROGRESS", "SUBABORT"}

Expected(s, st) ==
    CASE s.kind = "begin"                 -> BeginExpects(st)
      [] s.kind \in {"commit", "prepare"} -> EndExpects(st)
      [] s.kind = "rollback"              -> UserAbortExpects(st)
      [] s.kind = "savepoint"             -> SavepointExpects(st)
      [] s.kind = "release"               -> ReleaseExpects(st)
      [] s.kind = "rollback_to"           -> RollbackToExpects(st, s.name)
      [] OTHER                            -> TRUE

Marked(s, st) ==
    CASE s.kind = "begin"       -> BeginTransactionBlock(st)
      [] s.kind = "commit"      -> EndTransactionBlock(st)
      [] s.kind = "prepare"     -> PrepareTransactionBlock(st)
      [] s.kind = "rollback"    -> UserAbortTransactionBlock(st)
      [] s.kind = "savepoint"   -> PushTransaction(st, s.name)
      [] s.kind = "release"     -> ReleaseSavepoint(st, s.name)
      [] s.kind = "rollback_to" -> RollbackToSavepoint(st, s.name)
      [] OTHER                  -> st

(* standard_ProcessUtility, for a transaction statement that is not refused. *)
ProcessUtility(s, st) ==
    /\ s.kind = "savepoint" => Len(st) < MaxDepth
    /\ s.kind = "prepare" => st[1].xid # 0 \/ nextXid <= MaxXid
    /\ xs' = Marked(s, st)
    /\ chain' = CASE s.kind \in {"commit", "rollback"} -> s.chain
                  [] s.kind = "prepare" -> FALSE
                  [] OTHER -> chain
    /\ IF s.kind = "finish_prepared"
       THEN FinishPreparedTransaction(s.gid, s.isCommit)
       ELSE UNCHANGED <<prepared, pg_xact>>
    /\ UNCHANGED <<nextXid, heap>>

(* One statement runs on the stack st.  It inserts a row, writes something
   else, or only reads. *)
Run(s, st) ==
    IF IsTransactionStmt(s) THEN ProcessUtility(s, st)
    ELSE \/ /\ \E r \in Rows : heap_insert(st, r)
            /\ UNCHANGED <<chain, pg_xact, prepared>>
         \/ GetCurrentTransactionId(st) /\ UNCHANGED <<heap, chain, pg_xact, prepared>>
         \/ xs' = st /\ UNCHANGED store

----------------------------------------------------------------------------
(* The top of the loop. *)

TransactionBlockStatusCode ==
    CASE Cur(xs).block \in {"DEFAULT", "STARTED"} -> "I"
      [] Cur(xs).block \in {"ABORT", "SUBABORT", "ABORT_END", "SUBABORT_END",
                            "ABORT_PENDING", "SUBABORT_PENDING", "SUBRESTART",
                            "SUBABORT_RESTART"} -> "E"
      [] OTHER -> "T"

ReadyForQuery ==
    /\ ctl = "loop" /\ phase \in {"idle", "command"}
    /\ send_ready_for_query
    /\ send_ready_for_query' = FALSE
    /\ told' = TransactionBlockStatusCode
    /\ UNCHANGED <<xactVars, ctl, left, implicit, doing_extended, ignore_till_sync>>

(* ReadCommand returns a message.  SocketBackend notes whether it belongs to
   the extended protocol, and the top of the loop forgets it again. *)
ReadCommand(extended) ==
    /\ ctl = "loop" /\ phase \in {"idle", "command"}
    /\ ~send_ready_for_query
    /\ doing_extended' = (extended /\ ctl' # "loop")
    /\ told' = "-"

(* A message other than Sync and Terminate is skipped after an error in the
   extended protocol. *)
Skip ==
    /\ ignore_till_sync
    /\ UNCHANGED <<xactVars, ctl, left, implicit, ignore_till_sync,
                   send_ready_for_query>>
    /\ ReadCommand(FALSE)

(* start_xact_command *)
Started == IF phase = "idle" THEN StartTransactionCommand(xs) ELSE xs

----------------------------------------------------------------------------
(* Simple queries. *)

(* A query of n statements without the word hyper: query_rewrite calls
   exec_simple_query. *)
SimpleQuery(n) ==
    /\ ~ignore_till_sync
    /\ xs' = Started
    /\ phase' = "command"
    /\ ctl' = "query"
    /\ left' = n
    /\ implicit' = (n > 1)
    /\ UNCHANGED <<store, ignore_till_sync, send_ready_for_query>>
    /\ ReadCommand(FALSE)

(* A query with the word hyper: query_rewrite opens a socket, without a
   transaction command, ... *)
HyperQuery ==
    /\ ~ignore_till_sync
    /\ ctl' = "hyper"
    /\ UNCHANGED <<xactVars, left, implicit, ignore_till_sync,
                   send_ready_for_query>>
    /\ ReadCommand(FALSE)

(* Mutant: the branch for these queries leaves the case without saying that
   the query is done. *)
MutHyperReturns ==
    /\ ctl = "hyper"
    /\ ctl' = "loop"
    /\ UNCHANGED <<xactVars, left, implicit, doing_extended, ignore_till_sync,
                   send_ready_for_query, told>>

(* ... takes the success of setsockopt for a failure and returns. *)
HyperReturns ==
    /\ ctl = "hyper"
    /\ ctl' = "loop"
    /\ send_ready_for_query' = TRUE
    /\ UNCHANGED <<xactVars, left, implicit, doing_extended, ignore_till_sync,
                   told>>

(* One turn of the loop of exec_simple_query over the parse trees. *)
StatementStack == IF implicit THEN BeginImplicitTransactionBlock(xs) ELSE xs
ExecStatement(s) ==
    LET fence == IsTransactionStmt(s) /\ left > 1
    IN  /\ ctl = "query" /\ left > 0 /\ phase = "command"
        /\ ~Refused(s, StatementStack)
        /\ Run(s, StatementStack)
        /\ phase' = CASE ~Expected(s, StatementStack) -> "fatal"
                      [] fence -> "commit"
                      [] OTHER -> "command"
        /\ ctl' = IF fence THEN "fence" ELSE "query"
        /\ left' = left - 1
        /\ UNCHANGED <<implicit, flags, told>>

(* After the last statement the transaction command is finished. *)
FinishQuery ==
    /\ ctl = "query" /\ left = 0
    /\ xs' = IF implicit THEN EndImplicitTransactionBlock(xs) ELSE xs
    /\ phase' = "commit"
    /\ ctl' = "end"
    /\ UNCHANGED <<store, left, implicit, flags, told>>

(* A statement of a query or of an Execute message is refused. *)
RefuseStatement ==
    /\ (ctl = "query" /\ left > 0) \/ ctl = "execute"
    /\ phase = "command"
    /\ \E s \in Statements : Refused(s, StatementStack)
    /\ phase' = "abort"
    /\ ctl' = "error"
    /\ UNCHANGED <<xs, store, left, implicit, flags, told>>

(* CommitTransactionCommand has returned; the next statement of the query,
   if there is one, needs a new command. *)
NextStatement ==
    /\ ctl = "fence" /\ phase = "idle"
    /\ xs' = StartTransactionCommand(xs)
    /\ phase' = "command"
    /\ ctl' = "query"
    /\ UNCHANGED <<store, left, implicit, flags, told>>

CommandFinished ==
    /\ ctl \in {"end", "message"} /\ phase = "idle"
    /\ ctl' = "loop"
    /\ send_ready_for_query' = (ctl = "end")
    /\ doing_extended' = FALSE
    /\ implicit' = FALSE
    /\ UNCHANGED <<xactVars, left, ignore_till_sync, told>>

----------------------------------------------------------------------------
(* The extended protocol. *)

(* Parse, Bind and Describe open a transaction command; in a failed block
   they are refused unless the statement would leave it. *)
PrepareMessage(ok) ==
    /\ ~ignore_till_sync
    /\ xs' = Started
    /\ phase' = IF ok THEN "command" ELSE "abort"
    /\ ctl' = IF ok THEN "loop" ELSE "error"
    /\ UNCHANGED <<store, left, implicit, ignore_till_sync,
                   send_ready_for_query>>
    /\ ReadCommand(TRUE)

ExecuteMessage ==
    /\ ~ignore_till_sync
    /\ xs' = Started
    /\ phase' = "command"
    /\ ctl' = "execute"
    /\ implicit' = FALSE
    /\ UNCHANGED <<store, left, ignore_till_sync, send_ready_for_query>>
    /\ ReadCommand(TRUE)

(* A statement that controls no transaction leaves its command open. *)
PortalRun(s) ==
    /\ ctl = "execute"
    /\ ~Refused(s, xs)
    /\ Run(s, xs)
    /\ phase' = CASE ~Expected(s, xs) -> "fatal"
                  [] IsTransactionStmt(s) -> "commit"
                  [] OTHER -> "command"
    /\ ctl' = IF IsTransactionStmt(s) THEN "message" ELSE "loop"
    /\ doing_extended' = IsTransactionStmt(s)
    /\ UNCHANGED <<left, implicit, ignore_till_sync, send_ready_for_query, told>>

(* Close and Flush touch no transaction; Close may be malformed. *)
CloseMessage(ok) ==
    /\ ~ignore_till_sync
    /\ phase' = IF ok THEN phase ELSE "abort"
    /\ ctl' = IF ok THEN "loop" ELSE "error"
    /\ UNCHANGED <<xs, store, left, implicit, ignore_till_sync,
                   send_ready_for_query>>
    /\ ReadCommand(TRUE)

Sync ==
    /\ ignore_till_sync' = FALSE
    /\ phase' = IF phase = "command" THEN "commit" ELSE phase
    /\ ctl' = "end"
    /\ UNCHANGED <<xs, store, left, implicit, send_ready_for_query>>
    /\ ReadCommand(FALSE)

----------------------------------------------------------------------------
(* Errors, and the end of the process. *)

Thrown(error) ==
    /\ error
    /\ ctl' = "error"
    /\ UNCHANGED <<left, implicit, flags, told>>

RaiseError ==
    /\ ctl \in {"query", "fence", "end", "execute", "message"}
    /\ Thrown(ereport)

(* Mutant: an error leaves send_ready_for_query alone. *)
MutRecoverSilently ==
    /\ ctl = "error" /\ phase = "idle"
    /\ ignore_till_sync' = (ignore_till_sync \/ doing_extended)
    /\ doing_extended' = FALSE
    /\ ctl' = "loop"
    /\ left' = 0
    /\ implicit' = FALSE
    /\ UNCHANGED <<xactVars, send_ready_for_query, told>>

(* The branch of sigsetjmp, once AbortCurrentTransaction is done. *)
Recover ==
    /\ ctl = "error" /\ phase = "idle"
    /\ ignore_till_sync' = (ignore_till_sync \/ doing_extended)
    /\ send_ready_for_query' = (send_ready_for_query \/ ~ignore_till_sync')
    /\ doing_extended' = FALSE
    /\ ctl' = "loop"
    /\ left' = 0
    /\ implicit' = FALSE
    /\ UNCHANGED <<xactVars, told>>

(* Terminate, a lost connection or a FATAL interrupt; another process takes
   its place. *)
Disconnect ==
    /\ phase \notin {"abort", "fatal"}
    /\ AbortOutOfAnyTransaction
    /\ ctl' = "loop"
    /\ left' = 0
    /\ implicit' = FALSE
    /\ doing_extended' = FALSE
    /\ ignore_till_sync' = FALSE
    /\ send_ready_for_query' = TRUE
    /\ told' = "-"

rest == <<ctl, left, implicit, flags, told>>

Message ==
    \/ Skip
    \/ \E n \in 0..MaxStatements : SimpleQuery(n)
    \/ HyperQuery
    \/ \E ok \in BOOLEAN : PrepareMessage(ok) \/ CloseMessage(ok)
    \/ ExecuteMessage
    \/ Sync

Step ==
    \/ ReadyForQuery \/ HyperReturns
    \/ \E s \in Statements : ExecStatement(s) \/ PortalRun(s)
    \/ FinishQuery \/ RefuseStatement \/ NextStatement \/ CommandFinished
    \/ CommitTransactionCommand /\ UNCHANGED rest
    \/ Thrown(MarkAsPreparingFails)
    \/ AbortCurrentTransaction /\ UNCHANGED rest
    \/ Recover

Next == Message \/ Step \/ RaiseError \/ Disconnect

(* A backend that has something to do does it; clients may stop. *)
Spec == Init /\ [][Next]_vars /\ WF_vars(Step)

----------------------------------------------------------------------------
(* What the client sees of the stack: see module Session.  A level that is
   marked counts as already treated; in AbortCurrentTransaction so do the
   levels that are about to be popped.  The levels that stay are the lowest
   ones. *)

Going == IF phase = "abort" THEN AbortPops
         ELSE {"SUBABORT_PENDING", "SUBABORT_END", "SUBRELEASE"}
Top == Cardinality({i \in DOMAIN xs : xs[i].block \notin Going})

StatusOf(b) ==
    CASE b \in {"DEFAULT", "ABORT_PENDING", "ABORT_END"} -> "none"
      [] b \in {"ABORT", "SUBABORT"} -> "failed"
      [] phase = "abort" -> IF b \in {"INPROGRESS", "SUBINPROGRESS"}
                            THEN "failed" ELSE "none"
      [] b \in {"STARTED", "IMPLICIT_INPROGRESS"} -> "auto"
      [] OTHER -> "block"
SessionStatus == StatusOf(xs[Top].block)

(* A failed level and one that is to be started again have lost their rows;
   the rows of levels being released are already those of the level below. *)
RowsOf(X) == {r \in Rows : heap[r] \in X}
Emptied(b) == StatusOf(b) = "failed" \/ b \in {"SUBRESTART", "SUBABORT_RESTART"}
Released == IF phase = "abort" THEN {}
            ELSE {i \in DOMAIN xs : xs[i].block = "SUBRELEASE"}
LevelRows(i, top) ==
    IF i < top THEN RowsOf(XidsOf(xs[i]))
    ELSE IF Emptied(xs[i].block) THEN {}
    ELSE RowsOf(UNION {XidsOf(xs[j]) : j \in {i} \cup Released})

SessionLevels ==
    LET top == Top
    IN  IF StatusOf(xs[top].block) = "none" THEN <<>>
        ELSE [i \in 1..top |-> [name |-> xs[i].name, rows |-> LevelRows(i, top)]]

S == INSTANCE Session WITH
         status    <- SessionStatus,
         levels    <- SessionLevels,
         committed <- {r \in Rows : /\ heap[r] # 0
                                    /\ pg_xact[heap[r]] = "committed"},
         doubt     <- {[gid |-> p.gid, rows |-> RowsOf(p.xids)] :
                           p \in prepared}

----------------------------------------------------------------------------
(* Properties. *)

(* The transaction stack with its deferred marks, its walks down the levels
   and its transaction ids is an implementation of a session: whatever the
   order of statements, errors and disconnections, rows become permanent as
   the client was promised. *)
ImplementsSession == S!Spec

(* No function of xact.c ever meets a block state it reports as unexpected:
   StartTransactionCommand, CommitTransactionCommand, and the functions that
   mark the stack.  Nor does the implicit block of a query, which
   StartTransactionCommand would accept, outlive the query. *)
NoUnexpectedState ==
    /\ phase # "fatal"
    /\ phase = "idle" => Cur(xs).block \in {"DEFAULT", "INPROGRESS",
                              "SUBINPROGRESS", "ABORT", "SUBABORT"}
    /\ phase \in {"command", "commit"} => Cur(xs).block # "DEFAULT"
    /\ phase = "subcommit" => Cur(xs).block \in {"SUBCOMMIT", "END", "PREPARE"}

(* No transaction id is lost: one that pg_xact still calls running belongs to
   exactly one live level of the stack or to one prepared transaction, so
   that somebody is left to settle it. *)
Holders(x) == {i \in DOMAIN xs : xs[i].state # "ABORT" /\ x \in XidsOf(xs[i])}
NoXidIsLost ==
    \A x \in 1..(nextXid - 1) :
        Cardinality(Holders(x)) + Cardinality({p \in prepared : x \in p.xids})
            = IF pg_xact[x] = "running" THEN 1 ELSE 0

(* "so that a child always has an XID later than its parent": ids grow along
   the stack, and from a level to its committed children (AssignTransactionId). *)
ParentsFirst ==
    \A i \in DOMAIN xs :
        /\ i > 1 /\ xs[i].xid # 0 => xs[i - 1].xid \in 1..(xs[i].xid - 1)
        /\ \A x \in xs[i].childXids : xs[i].xid \in 1..(x - 1)

(* The outcome of a transaction id is final: what has been committed or
   aborted is not settled again with another result, although one id is
   handed from level to level, marked, aborted in pieces and prepared before
   it is settled. *)
OutcomesAreFinal ==
    [][\A x \in 1..MaxXid :
           pg_xact[x] # "running" => pg_xact'[x] = pg_xact[x]]_vars

(* The status of ReadyForQuery is that of the block the client is in, whatever
   errors, skipped messages and marks came before: T in a block that goes on,
   E in a failed one, I in none.  The transaction that messages of the
   extended protocol have opened outside a block is the only one that I may
   leave open; ReadyMeansIdle is about it. *)
StatusTellsTheBlock ==
    /\ told = "I" => \/ phase = "idle" /\ Cur(xs).block = "DEFAULT"
                     \/ phase = "command" /\ Cur(xs).block = "STARTED"
    /\ told = "T" => Cur(xs).block \in {"INPROGRESS", "SUBINPROGRESS"}
    /\ told = "E" => Cur(xs).block \in {"ABORT", "SUBABORT"}

(* What TransactionBlockStatusCode says of the status I, "idle --- not in
   transaction": nothing the client sent before is still waiting to be
   committed. *)
ReadyMeansIdle ==
    told = "I" => phase = "idle" /\ Cur(xs).state = "DEFAULT"

(* A query, with the word hyper or not, or a Sync is answered: whatever fails
   on the way, the client is eventually told that the backend is ready
   again. *)
QueriesAreAnswered ==
    ctl \in {"query", "fence", "end", "hyper"} ~> told # "-"


============================================================================
