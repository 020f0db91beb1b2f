------------------------------- MODULE Xact --------------------------------
(***************************************************************************)
(* The transaction block machinery of a PostgreSQL backend                 *)
(* (access/transam/xact.c).                                                *)
(*                                                                         *)
(* A backend keeps a stack of transaction states: the top-level one, and   *)
(* one for each open savepoint.  A transaction control statement only      *)
(* marks the levels of the stack (the functions of the first part); the    *)
(* work is done later, by CommitTransactionCommand when the statement is   *)
(* finished, or by AbortCurrentTransaction after an error.  Both walk down *)
(* the stack, one level per step here, and an error may strike between two *)
(* steps of the former.                                                    *)
(*                                                                         *)
(* What a transaction did is known by its transaction ids: a row carries   *)
(* the id that inserted it, and pg_xact says what became of the id.        *)
(***************************************************************************)
EXTENDS Naturals, Sequences, FiniteSets

CONSTANTS
    Names,     \* savepoint names
    NoName,    \* the name of the top level
    Rows,      \* rows a statement may insert
    Gids,      \* global identifiers of prepared transactions
    MaxDepth,  \* bound: levels of the stack
    MaxXid     \* bound: transaction ids

ASSUME XactAssumption ==
    /\ NoName \notin Names
    /\ MaxDepth \in Nat \ {0}
    /\ MaxXid \in Nat

VARIABLES
    xs,        \* the stack; xs[Len(xs)] is CurrentTransactionState
    chain,     \* the chain flag of the top level
    nextXid,   \* the next transaction id
    heap,      \* row -> the id that inserted it, 0 for none
    pg_xact,   \* id -> what became of it
    prepared,  \* prepared transactions
    phase      \* what xact.c is doing for the current command

xactVars == <<xs, chain, nextXid, heap, pg_xact, prepared, phase>>

TopBlocks == {"DEFAULT", "STARTED", "BEGIN", "INPROGRESS",
              "IMPLICIT_INPROGRESS", "END", "ABORT", "ABORT_END",
              "ABORT_PENDING", "PREPARE"}
SubBlocks == {"SUBBEGIN", "SUBINPROGRESS", "SUBRELEASE", "SUBCOMMIT",
              "SUBABORT", "SUBABORT_END", "SUBABORT_PENDING", "SUBRESTART",
              "SUBABORT_RESTART"}
TransState == {"DEFAULT", "INPROGRESS", "ABORT"}

(* One TransactionStateData.  xid is 0 until one is assigned. *)
Level == [name : Names \cup {NoName}, block : TopBlocks \cup SubBlocks,
          state : TransState, xid : 0..MaxXid, childXids : SUBSET (1..MaxXid)]

(* idle: no command is open; command: between StartTransactionCommand and
   CommitTransactionCommand; commit: in the latter; subcommit: in its case
   TBLOCK_SUBCOMMIT; abort: in AbortCurrentTransaction; fatal: a function
   met a state it does not expect and ended the process. *)
Phases == {"idle", "command", "commit", "subcommit", "abort", "fatal"}

XactTypeOK ==
    /\ xs \in Seq(Level) /\ Len(xs) \in 1..MaxDepth
    /\ chain \in BOOLEAN
    /\ nextXid \in 1..(MaxXid + 1)
    /\ heap \in [Rows -> 0..MaxXid]
    /\ pg_xact \in [1..MaxXid -> {"running", "committed", "aborted"}]
    /\ prepared \subseteq [gid : Gids, xids : SUBSET (1..MaxXid)]
    /\ phase \in Phases

TopTransactionStateData ==
    [name |-> NoName, block |-> "DEFAULT", state |-> "DEFAULT", xid |-> 0,
     childXids |-> {}]

XactInit ==
    /\ xs = <<TopTransactionStateData>>
    /\ chain = FALSE
    /\ nextXid = 1
    /\ heap = [r \in Rows |-> 0]
    /\ pg_xact = [x \in 1..MaxXid |-> "running"]
    /\ prepared = {}
    /\ phase = "idle"

----------------------------------------------------------------------------
(* Functions that only mark the stack. *)

Cur(st) == st[Len(st)]
WithBlock(st, b) == [st EXCEPT ![Len(st)].block = b]
Pop(st) == SubSeq(st, 1, Len(st) - 1)

StartTransaction(b) ==
    <<[TopTransactionStateData EXCEPT !.block = b, !.state = "INPROGRESS"]>>

StartTransactionCommand(st) ==
    IF Cur(st).block = "DEFAULT" THEN StartTransaction("STARTED") ELSE st

IsAbortedTransactionBlockState(st) == Cur(st).block \in {"ABORT", "SUBABORT"}
IsTransactionBlock(st) == Cur(st).block \notin {"DEFAULT", "STARTED"}

BeginTransactionBlock(st) ==
    IF Cur(st).block \in {"STARTED", "IMPLICIT_INPROGRESS"}
    THEN WithBlock(st, "BEGIN") ELSE st

BeginImplicitTransactionBlock(st) ==
    IF Cur(st).block = "STARTED" THEN WithBlock(st, "IMPLICIT_INPROGRESS")
                                 ELSE st

(* Mutant: the implicit block of a query is not closed. *)
MutEndImplicit(st) == st

EndImplicitTransactionBlock(st) ==
    IF Cur(st).block = "IMPLICIT_INPROGRESS" THEN WithBlock(st, "STARTED")
                                             ELSE st

(* What a level becomes when everything above a target is given up. *)
AbortMark(b) ==
    CASE b \in {"INPROGRESS", "STARTED", "IMPLICIT_INPROGRESS"}
                              -> "ABORT_PENDING"
      [] b = "ABORT"          -> "ABORT_END"
      [] b = "SUBINPROGRESS"  -> "SUBABORT_PENDING"
      [] b = "SUBABORT"       -> "SUBABORT_END"
      [] OTHER                -> b
UserAbortTransactionBlock(st) ==
    [i \in DOMAIN st |-> [st[i] EXCEPT !.block = AbortMark(@)]]

(* Mutant: COMMIT of a failed transaction is not turned into a rollback. *)
MutCommitFailed(st) ==
    IF Cur(st).block = "STARTED" THEN st
    ELSE [i \in DOMAIN st |->
             [st[i] EXCEPT !.block = IF i = 1 THEN "END" ELSE "SUBCOMMIT"]]

EndTransactionBlock(st) ==
    CASE Cur(st).block = "STARTED" -> st
      [] IsAbortedTransactionBlockState(st) -> UserAbortTransactionBlock(st)
      [] OTHER -> [i \in DOMAIN st |->
             [st[i] EXCEPT !.block = IF i = 1 THEN "END" ELSE "SUBCOMMIT"]]

PrepareTransactionBlock(st) ==
    LET e == EndTransactionBlock(st)
    IN  IF e[1].block = "END" THEN [e EXCEPT ![1].block = "PREPARE"] ELSE e

PushTransaction(st, n) ==
    Append(st, [TopTransactionStateData EXCEPT !.name = n,
                                               !.block = "SUBBEGIN"])

Targets(st, n) == {i \in 2..Len(st) : st[i].name = n}
Target(st, n) == CHOOSE i \in Targets(st, n) :
                     \A j \in Targets(st, n) : j <= i

ReleaseSavepoint(st, n) ==
    [i \in DOMAIN st |-> IF i >= Target(st, n)
                         THEN [st[i] EXCEPT !.block = "SUBRELEASE"]
                         ELSE st[i]]

RestartMark(b) ==
    IF b = "SUBABORT" THEN "SUBABORT_RESTART" ELSE "SUBRESTART"
RollbackToSavepoint(st, n) ==
    [i \in DOMAIN st |->
        CASE i < Target(st, n) -> st[i]
          [] i = Target(st, n) -> [st[i] EXCEPT !.block = RestartMark(@)]
          [] OTHER             -> [st[i] EXCEPT !.block = AbortMark(@)]]

----------------------------------------------------------------------------
(* Transaction ids. *)

XidsOf(l) == IF l.xid = 0 THEN {} ELSE {l.xid} \cup l.childXids

Settle(X, outcome) ==
    pg_xact' = [x \in 1..MaxXid |-> IF x \in X THEN outcome ELSE pg_xact[x]]

(* Parents get their ids before their children. *)
Unassigned(st) == {i \in DOMAIN st : st[i].xid = 0}

(* Mutant: children get their ids before their parents. *)
MutAssignChildFirst(st) ==
    [i \in DOMAIN st |->
        IF st[i].xid # 0 THEN st[i]
        ELSE [st[i] EXCEPT !.xid = nextXid
                             + Cardinality({j \in Unassigned(st) : j > i})]]

AssignTransactionId(st) ==
    [i \in DOMAIN st |->
        IF st[i].xid # 0 THEN st[i]
        ELSE [st[i] EXCEPT !.xid = nextXid
                             + Cardinality({j \in Unassigned(st) : j < i})]]

(* As many ids are used up as levels of st had none. *)
GetNewTransactionIds(st) ==
    /\ nextXid + Cardinality(Unassigned(st)) <= MaxXid + 1
    /\ nextXid' = nextXid + Cardinality(Unassigned(st))

(* What a statement that writes anything calls: an UPDATE of a row that is
   not followed, a DDL command, ... *)
GetCurrentTransactionId(st) ==
    /\ GetNewTransactionIds(st)
    /\ xs' = AssignTransactionId(st)

(* ... or the insertion of a row: the tuple carries the current id. *)
heap_insert(st, r) ==
    /\ heap[r] = 0
    /\ GetCurrentTransactionId(st)
    /\ heap' = [heap EXCEPT ![r] = Cur(AssignTransactionId(st)).xid]

----------------------------------------------------------------------------
(* CommitTransactionCommand: the command that is open is finished. *)

(* The call returns with the stack st. *)
Finished(st) == xs' = st /\ phase' = "idle"

(* Mutant: the top level is cleaned up, and popped, like a subtransaction. *)
MutEndOfTransaction == Finished(Pop(xs)) /\ UNCHANGED chain

(* After the top level has ended a chained command opens the next block. *)
EndOfTransaction ==
    IF chain THEN Finished(StartTransaction("INPROGRESS")) /\ chain' = FALSE
             ELSE Finished(<<TopTransactionStateData>>) /\ UNCHANGED chain

CommitSimple ==
    /\ phase = "commit"
    /\ Cur(xs).block = "STARTED"
    /\ Settle(XidsOf(xs[1]), "committed")
    /\ Finished(<<TopTransactionStateData>>)
    /\ UNCHANGED <<chain, nextXid, heap, prepared>>

CommitNothing ==
    /\ phase = "commit"
    /\ Cur(xs).block \in {"INPROGRESS", "IMPLICIT_INPROGRESS", "SUBINPROGRESS",
                          "ABORT", "SUBABORT"}
    /\ Finished(xs)
    /\ UNCHANGED <<chain, nextXid, heap, pg_xact, prepared>>

CommitBegin ==
    /\ phase = "commit"
    /\ Cur(xs).block = "BEGIN"
    /\ Finished(WithBlock(xs, "INPROGRESS"))
    /\ UNCHANGED <<chain, nextXid, heap, pg_xact, prepared>>

CommitEnd ==
    /\ phase = "commit"
    /\ Cur(xs).block = "END"
    /\ Settle(XidsOf(xs[1]), "committed")
    /\ EndOfTransaction
    /\ UNCHANGED <<nextXid, heap, prepared>>

(* ROLLBACK, of a transaction that had failed before or not. *)
CommitRollback ==
    /\ phase = "commit"
    /\ Cur(xs).block \in {"ABORT_END", "ABORT_PENDING"}
    /\ Settle(IF Cur(xs).block = "ABORT_END" THEN {} ELSE XidsOf(xs[1]),
              "aborted")
    /\ EndOfTransaction
    /\ UNCHANGED <<nextXid, heap, prepared>>

(* Mutant: a transaction without an id is prepared without one. *)
MutPrepareLateXid ==
    /\ phase \in {"commit", "subcommit"}
    /\ Cur(xs).block = "PREPARE"
    /\ GetNewTransactionIds(xs)
    /\ \E g \in Gids :
           /\ \A p \in prepared : p.gid # g
           /\ prepared' = prepared \cup {[gid |-> g, xids |-> XidsOf(xs[1])]}
    /\ Finished(<<TopTransactionStateData>>)
    /\ UNCHANGED <<chain, heap, pg_xact>>

(* PrepareTransaction gives the transaction an id if it has none, and hands
   its ids over to a prepared transaction, under the identifier of the
   statement, which must not be in use. *)
PrepareTransaction ==
    /\ phase \in {"commit", "subcommit"}
    /\ Cur(xs).block = "PREPARE"
    /\ GetNewTransactionIds(xs)
    /\ \E g \in Gids :
           /\ \A p \in prepared : p.gid # g
           /\ prepared' = prepared \cup
                 {[gid |-> g, xids |-> XidsOf(AssignTransactionId(xs)[1])]}
    /\ Finished(<<TopTransactionStateData>>)
    /\ UNCHANGED <<chain, heap, pg_xact>>

CommitSubBegin ==
    /\ phase = "commit"
    /\ Cur(xs).block = "SUBBEGIN"
    /\ Finished([xs EXCEPT ![Len(xs)].state = "INPROGRESS",
                           ![Len(xs)].block = "SUBINPROGRESS"])
    /\ UNCHANGED <<chain, nextXid, heap, pg_xact, prepared>>

(* Mutant: the ids of the level's own children are not handed on. *)
MutCommitSubForgets ==
    [Pop(xs) EXCEPT ![Len(xs) - 1].childXids =
         @ \cup (IF Cur(xs).xid = 0 THEN {} ELSE {Cur(xs).xid})]

(* CommitSubTransaction: the ids of the level become its parent's children. *)
CommitSubTransaction ==
    [Pop(xs) EXCEPT ![Len(xs) - 1].childXids = @ \cup XidsOf(Cur(xs))]

CommitRelease ==
    /\ phase = "commit"
    /\ Cur(xs).block = "SUBRELEASE"
    /\ xs' = CommitSubTransaction
    /\ phase' = IF Cur(xs').block = "SUBRELEASE" THEN "commit" ELSE "idle"
    /\ UNCHANGED <<chain, nextXid, heap, pg_xact, prepared>>

CommitSub ==
    /\ phase \in {"commit", "subcommit"}
    /\ Cur(xs).block = "SUBCOMMIT"
    /\ xs' = CommitSubTransaction
    /\ phase' = "subcommit"
    /\ UNCHANGED <<chain, nextXid, heap, pg_xact, prepared>>

CommitTopOfSubs ==
    /\ phase = "subcommit"
    /\ Cur(xs).block = "END"
    /\ Settle(XidsOf(xs[1]), "committed")
    /\ Finished(<<TopTransactionStateData>>)
    /\ UNCHANGED <<chain, nextXid, heap, prepared>>

(* A level given up is popped and its parent examined in turn. *)
CommitSubAbort ==
    /\ phase = "commit"
    /\ Cur(xs).block \in {"SUBABORT_END", "SUBABORT_PENDING"}
    /\ Settle(IF Cur(xs).block = "SUBABORT_END" THEN {} ELSE XidsOf(Cur(xs)),
              "aborted")
    /\ xs' = Pop(xs)
    /\ UNCHANGED <<chain, nextXid, heap, prepared, phase>>

(* The target of ROLLBACK TO is popped and defined again; the step for
   SUBBEGIN then starts it. *)
CommitRestart ==
    /\ phase = "commit"
    /\ Cur(xs).block \in {"SUBRESTART", "SUBABORT_RESTART"}
    /\ Settle(IF Cur(xs).block = "SUBABORT_RESTART" THEN {}
              ELSE XidsOf(Cur(xs)), "aborted")
    /\ xs' = PushTransaction(Pop(xs), Cur(xs).name)
    /\ phase' = IF Cur(Pop(xs)).block \in {"INPROGRESS", "SUBINPROGRESS"}
                THEN "commit" ELSE "fatal"
    /\ UNCHANGED <<chain, nextXid, heap, prepared>>

CommitTransactionCommand ==
    \/ CommitSimple \/ CommitNothing \/ CommitBegin \/ CommitEnd
    \/ CommitRollback \/ PrepareTransaction
    \/ CommitSubBegin \/ CommitRelease \/ CommitSub \/ CommitTopOfSubs
    \/ CommitSubAbort \/ CommitRestart

----------------------------------------------------------------------------
(* Errors. *)

(* ereport(ERROR) in the middle of a command. *)
ereport ==
    /\ phase \in {"command", "commit", "subcommit"}
    /\ phase' = "abort"
    /\ UNCHANGED <<xs, chain, nextXid, heap, pg_xact, prepared>>

(* PREPARE TRANSACTION with an identifier that is in use: the transaction has
   its id by then. *)
MarkAsPreparingFails ==
    /\ phase \in {"commit", "subcommit"}
    /\ Cur(xs).block = "PREPARE"
    /\ \E p \in prepared : p.gid \in Gids
    /\ GetCurrentTransactionId(xs)
    /\ phase' = "abort"
    /\ UNCHANGED <<chain, heap, pg_xact, prepared>>

(* AbortCurrentTransaction: a level that cannot be kept is popped and its
   parent examined in turn. *)
AbortPops == {"SUBBEGIN", "SUBRELEASE", "SUBCOMMIT", "SUBABORT_PENDING",
              "SUBRESTART", "SUBABORT_END", "SUBABORT_RESTART"}
AbortSub ==
    /\ phase = "abort"
    /\ Cur(xs).block \in AbortPops
    /\ Settle(IF Cur(xs).block \in {"SUBABORT_END", "SUBABORT_RESTART"}
              THEN {} ELSE XidsOf(Cur(xs)), "aborted")
    /\ xs' = Pop(xs)
    /\ UNCHANGED <<chain, nextXid, heap, prepared, phase>>

(* The level stays, failed, until the client leaves it. *)
AbortStay ==
    /\ phase = "abort"
    /\ Cur(xs).block \in {"INPROGRESS", "SUBINPROGRESS"}
    /\ Settle(XidsOf(Cur(xs)), "aborted")
    /\ Finished([xs EXCEPT ![Len(xs)].state = "ABORT",
                           ![Len(xs)].block = IF @ = "INPROGRESS"
                                              THEN "ABORT" ELSE "SUBABORT"])
    /\ UNCHANGED <<chain, nextXid, heap, prepared>>

AbortNothing ==
    /\ phase = "abort"
    /\ Cur(xs).block \in {"DEFAULT", "ABORT", "SUBABORT"}
    /\ Finished(xs)
    /\ UNCHANGED <<chain, nextXid, heap, pg_xact, prepared>>

AbortTop ==
    /\ phase = "abort"
    /\ Cur(xs).block \in {"STARTED", "IMPLICIT_INPROGRESS", "BEGIN", "END",
                          "ABORT_PENDING", "PREPARE", "ABORT_END"}
    /\ Settle(IF Cur(xs).block = "ABORT_END" THEN {} ELSE XidsOf(xs[1]),
              "aborted")
    /\ Finished(<<TopTransactionStateData>>)
    /\ UNCHANGED <<chain, nextXid, heap, prepared>>

AbortCurrentTransaction == AbortSub \/ AbortStay \/ AbortNothing \/ AbortTop

(* The process ends: AbortOutOfAnyTransaction gives up every level of the
   stack.  The next process of the session starts afresh. *)
AbortOutOfAnyTransaction ==
    /\ Settle(UNION {XidsOf(xs[i]) : i \in DOMAIN xs}, "aborted")
    /\ xs' = <<TopTransactionStateData>>
    /\ chain' = FALSE
    /\ phase' = "idle"
    /\ UNCHANGED <<nextXid, heap, prepared>>

(* COMMIT PREPARED and ROLLBACK PREPARED. *)
FinishPreparedTransaction(g, isCommit) ==
    \E p \in prepared :
        /\ p.gid = g
        /\ prepared' = prepared \ {p}
        /\ Settle(p.xids, IF isCommit THEN "committed" ELSE "aborted")

============================================================================
