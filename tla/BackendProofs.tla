--------------------------- MODULE BackendProofs ---------------------------
(***************************************************************************)
(* What the query loop of a backend keeps true of its transaction state,   *)
(* for every number of savepoints, transaction ids, rows and statements.   *)
(*                                                                         *)
(* The inductive invariant joins that of the stack (module XactProofs) to  *)
(* two about the loop: ControlInv relates the place in PostgresMain to the *)
(* phase of the transaction command and the current block, and ReadyInv    *)
(* is about what it has told the client.                                   *)
(***************************************************************************)
EXTENDS Backend, XactProofs

ControlInv ==
    /\ PhaseInv
    /\ ctl \in {"loop", "hyper"} => phase \in {"idle", "command"}
    /\ ctl \in {"query", "execute"} => phase = "command"
    /\ ctl \in {"fence", "end", "message"} => phase \in {"idle", "commit", "subcommit"}
    /\ ctl = "error" => phase \in {"idle", "abort"}
    /\ phase = "command" => Cur(xs).block \in Plain \/ (ctl = "query" /\ left = 0)
    /\ Cur(xs).block = "IMPLICIT_INPROGRESS" =>
           phase = "abort" \/ (ctl = "query" /\ implicit)

ReadyInv ==
    /\ told # "-" => ctl = "loop"
    /\ StatusTellsTheBlock

BackendInv == TypeOK /\ XactInv /\ ControlInv /\ ReadyInv

----------------------------------------------------------------------------
(* The steps of the loop that leave the transaction state alone. *)

LEMMA StutterKeeps ==
    ASSUME XactInv, PhaseInv, UNCHANGED xactVars PROVE XactInv' /\ PhaseInv'
<1>1. UNCHANGED <<xs, chain, nextXid, heap, pg_xact, prepared, phase>>
  BY DEF xactVars
<1>2. XactInv'
  BY <1>1 DEF XactInv, XactTypeOK
<1>3. PhaseInv'
  BY <1>1 DEF PhaseInv, FreshTop
<1> QED
  BY <1>2, <1>3

LEMMA SkipKeeps ==
    ASSUME BackendInv, Skip PROVE BackendInv'
<1>1. /\ UNCHANGED <<xs, phase, ctl, left, implicit, ignore_till_sync,
                     send_ready_for_query>>
      /\ told' = "-" /\ doing_extended' \in BOOLEAN /\ UNCHANGED xactVars
  BY DEF Skip, ReadCommand, xactVars
<1>2. XactInv' /\ PhaseInv'
  BY <1>1, StutterKeeps DEF BackendInv, ControlInv
<1>3. TypeOK'
  BY <1>1, <1>2 DEF BackendInv, TypeOK, XactInv
<1>4. ControlInv'
  BY <1>1, <1>2 DEF BackendInv, ControlInv
<1>5. ReadyInv'
  BY <1>1 DEF BackendInv, ReadyInv, StatusTellsTheBlock
<1> QED
  BY <1>2, <1>3, <1>4, <1>5 DEF BackendInv

LEMMA HyperQueryKeeps ==
    ASSUME BackendInv, HyperQuery \/ HyperReturns PROVE BackendInv'
<1>1. /\ UNCHANGED <<xs, phase, left, implicit, ignore_till_sync>>
      /\ ctl \in {"loop", "hyper"} /\ ctl' \in {"loop", "hyper"}
      /\ told' = "-" /\ UNCHANGED xactVars
  BY DEF HyperQuery, HyperReturns, ReadCommand, xactVars, BackendInv, ReadyInv
<1>2. send_ready_for_query' \in BOOLEAN /\ doing_extended' \in BOOLEAN
  BY DEF HyperQuery, HyperReturns, ReadCommand, BackendInv, TypeOK
<1>3. XactInv' /\ PhaseInv'
  BY <1>1, StutterKeeps DEF BackendInv, ControlInv
<1>4. TypeOK'
  BY <1>1, <1>2, <1>3 DEF BackendInv, TypeOK, XactInv, Controls
<1>5. ControlInv'
  BY <1>1, <1>3 DEF BackendInv, ControlInv
<1>6. ReadyInv'
  BY <1>1 DEF ReadyInv, StatusTellsTheBlock
<1> QED
  BY <1>3, <1>4, <1>5, <1>6 DEF BackendInv

LEMMA ReadyForQueryKeeps ==
    ASSUME BackendInv, ReadyForQuery PROVE BackendInv'
<1>1. /\ UNCHANGED <<xs, phase, ctl, left, implicit, doing_extended, ignore_till_sync>>
      /\ send_ready_for_query = TRUE /\ send_ready_for_query' = FALSE /\ ctl = "loop"
      /\ told' = TransactionBlockStatusCode /\ UNCHANGED xactVars
  BY DEF ReadyForQuery, xactVars, BackendInv, TypeOK
<1>2. XactInv' /\ PhaseInv'
  BY <1>1, StutterKeeps DEF BackendInv, ControlInv
<1>3. told' \in {"I", "T", "E"}
  BY <1>1 DEF TransactionBlockStatusCode
<1>4. TypeOK'
  BY <1>1, <1>2, <1>3 DEF BackendInv, TypeOK, XactInv
<1>5. ControlInv'
  BY <1>1, <1>2 DEF BackendInv, ControlInv
<1>6. ReadyInv'
  <2>1. PICK b : b = Cur(xs).block
    OBVIOUS
  <2>2. \/ phase = "idle" /\ b \in Quiet
        \/ phase = "command" /\ b \in Plain /\ b # "IMPLICIT_INPROGRESS"
    BY <1>1, <2>1 DEF BackendInv, ControlInv, PhaseInv
  <2>3. /\ told' = "I" => \/ phase = "idle" /\ b = "DEFAULT"
                          \/ phase = "command" /\ b = "STARTED"
        /\ told' = "T" => b \in {"INPROGRESS", "SUBINPROGRESS"}
        /\ told' = "E" => b \in {"ABORT", "SUBABORT"}
    BY <1>1, <2>1, <2>2 DEF TransactionBlockStatusCode, Quiet, Plain
  <2>4. Cur(xs)'.block = b /\ phase' = phase
    BY <1>1, <2>1
  <2> QED
    BY <1>1, <2>3, <2>4 DEF ReadyInv, StatusTellsTheBlock
<1> QED
  BY <1>2, <1>4, <1>5, <1>6 DEF BackendInv

LEMMA CommandFinishedKeeps ==
    ASSUME BackendInv, CommandFinished \/ Recover PROVE BackendInv'
<1>1. /\ UNCHANGED <<xs, phase, told>> /\ phase = "idle" /\ ctl' = "loop"
      /\ implicit' = FALSE /\ doing_extended' = FALSE /\ UNCHANGED xactVars
      /\ ctl \in {"end", "message", "error"} /\ left' \in 0..MaxStatements
      /\ ignore_till_sync' \in BOOLEAN /\ send_ready_for_query' \in BOOLEAN
  <2>1. ignore_till_sync \in BOOLEAN /\ left \in 0..MaxStatements
    BY DEF BackendInv, TypeOK
  <2>2. CASE CommandFinished
    <3>1. send_ready_for_query' \in BOOLEAN
      BY <2>2, Zenon DEF CommandFinished
    <3> QED
      BY <2>1, <2>2, <3>1 DEF CommandFinished, xactVars
  <2>3. CASE Recover
    <3>1. send_ready_for_query' \in BOOLEAN /\ ignore_till_sync' \in BOOLEAN
      BY <2>3, Zenon DEF Recover
    <3>2. left' \in 0..MaxStatements
      BY <2>3, BackendAssumption DEF Recover
    <3> QED
      BY <2>3, <3>1, <3>2 DEF Recover, xactVars
  <2> QED
    BY <2>2, <2>3
<1>2. XactInv' /\ PhaseInv'
  BY <1>1, StutterKeeps DEF BackendInv, ControlInv
<1>3. TypeOK'
  BY <1>1, <1>2 DEF BackendInv, TypeOK, XactInv, Controls
<1>4. ControlInv'
  <2>1. Cur(xs)'.block \in Quiet
    BY <1>1, <1>2 DEF PhaseInv
  <2> QED
    BY <1>1, <1>2, <2>1 DEF ControlInv, Quiet
<1>5. told = "-"
  BY <1>1 DEF BackendInv, ReadyInv
<1>6. ReadyInv'
  BY <1>1, <1>5 DEF ReadyInv, StatusTellsTheBlock
<1> QED
  BY <1>2, <1>3, <1>4, <1>6 DEF BackendInv

----------------------------------------------------------------------------
(* Messages, and what start_xact_command makes of the stack. *)

LEMMA StartKeeps ==
    ASSUME XactInv, FreshTop(xs), NEW st, st = StartTransactionCommand(xs)
    PROVE  /\ Remarked(xs, st) /\ Shape(st) /\ Marks(st)
           /\ Cur(st).block = IF Cur(xs).block = "DEFAULT" THEN "STARTED"
                              ELSE Cur(xs).block
<1>1. CASE Cur(xs).block = "DEFAULT"
  <2>1. xs = <<TopTransactionStateData>> /\ st = StartTransaction("STARTED")
    BY <1>1 DEF FreshTop, StartTransactionCommand
  <2>2. "STARTED" \in Blocks
    BY DEF Blocks, TopBlocks
  <2>3. /\ st \in Stack /\ Len(st) = 1 /\ st[1].block = "STARTED"
        /\ st[1].state = "INPROGRESS" /\ st[1].xid = 0 /\ st[1].childXids = {}
        /\ st[1].name = NoName
    BY ONLY <2>1, <2>2, StartFacts
  <2>4. Shape(st) /\ Marks(st)
    BY <2>3, FreshKeeps DEF TopBlocks, FailedBlocks
  <2>5. xs[1] = TopTransactionStateData /\ Len(xs) = 1
    BY <2>1
  <2>6. Remarked(xs, st)
    BY <2>3, <2>5, TopFacts DEF Remarked
  <2> QED
    BY <1>1, <2>3, <2>4, <2>6 DEF Cur
<1>2. CASE Cur(xs).block # "DEFAULT"
  <2>1. st = xs
    BY <1>2 DEF StartTransactionCommand
  <2>2. Remarked(xs, xs) /\ Shape(xs) /\ Marks(xs)
    BY XactInvFacts DEF Remarked
  <2> QED
    BY <1>2, <2>1, <2>2
<1> QED
  BY <1>1, <1>2

(* start_xact_command opens a command on a stack between two statements. *)
LEMMA StartedKeeps ==
    ASSUME XactInv, ControlInv, ctl \in {"loop", "fence"},
           phase \in {"idle", "command"},
           xs' = StartTransactionCommand(xs),
           UNCHANGED store, phase' \in {"command", "abort"}
    PROVE  /\ XactInv' /\ PhaseInv' /\ Cur(xs)'.block \in Plain
           /\ Cur(xs)'.block # "IMPLICIT_INPROGRESS"
<1>1. PICK st : st = StartTransactionCommand(xs)
  OBVIOUS
<1>2. UNCHANGED <<chain, nextXid, heap, pg_xact, prepared>>
  BY DEF store
<1>3. /\ Remarked(xs, st) /\ Shape(st) /\ Marks(st)
      /\ Cur(st).block = IF Cur(xs).block = "DEFAULT" THEN "STARTED"
                         ELSE Cur(xs).block
  BY <1>1, StartKeeps DEF ControlInv, PhaseInv
<1>4. /\ Cur(st).block \in Plain /\ Cur(st).block # "IMPLICIT_INPROGRESS"
      /\ Cur(st).block # "DEFAULT"
  <2>1. Cur(xs).block \in Quiet \cup Plain /\ Cur(xs).block # "IMPLICIT_INPROGRESS"
    BY DEF ControlInv, PhaseInv
  <2> QED
    BY <1>3, <2>1 DEF Quiet, Plain
<1>5. chain' \in BOOLEAN /\ phase' \in Phases
  BY <1>2 DEF XactInv, XactTypeOK, Phases
<1>6. XactInv'
  BY <1>1, <1>2, <1>3, <1>5, MarkStep
<1>7. Cur(xs)' = Cur(st)
  BY <1>1
<1>8. PhaseInv'
  BY <1>4, <1>7 DEF PhaseInv, FreshTop
<1> QED
  BY <1>4, <1>6, <1>7, <1>8

LEMMA StartedIs ==
    ASSUME ControlInv, phase \in {"idle", "command"}
    PROVE  Started = StartTransactionCommand(xs)
BY DEF Started, StartTransactionCommand, ControlInv, PhaseInv

LEMMA OpenMessageKeeps ==
    ASSUME BackendInv,
           \/ \E n \in 0..MaxStatements : SimpleQuery(n)
           \/ \E ok \in BOOLEAN : PrepareMessage(ok)
           \/ ExecuteMessage
    PROVE  BackendInv'
<1>1. /\ xs' = Started /\ UNCHANGED store /\ UNCHANGED <<ignore_till_sync, send_ready_for_query>>
      /\ ctl = "loop" /\ phase \in {"idle", "command"} /\ send_ready_for_query = FALSE
      /\ told' = "-"
      /\ \/ ctl' \in {"query", "execute", "loop"} /\ phase' = "command"
         \/ ctl' = "error" /\ phase' = "abort"
  BY DEF SimpleQuery, PrepareMessage, ExecuteMessage, ReadCommand, BackendInv, TypeOK
<1>2. doing_extended' \in BOOLEAN /\ implicit' \in BOOLEAN /\ left' \in 0..MaxStatements
  <2>0. implicit \in BOOLEAN /\ left \in 0..MaxStatements
    BY DEF BackendInv, TypeOK
  <2>1. CASE \E n \in 0..MaxStatements : SimpleQuery(n)
    <3>1. PICK n \in 0..MaxStatements : SimpleQuery(n)
      BY <2>1
    <3>2. left' = n
      BY <3>1 DEF SimpleQuery
    <3>3. implicit' = TRUE \/ implicit' = FALSE
      BY <3>1 DEF SimpleQuery
    <3>4. doing_extended' = FALSE
      BY <3>1 DEF SimpleQuery, ReadCommand
    <3> QED
      BY <3>2, <3>3, <3>4
  <2>2. CASE \E ok \in BOOLEAN : PrepareMessage(ok)
    BY <2>0, <2>2, Zenon DEF PrepareMessage, ReadCommand
  <2>3. CASE ExecuteMessage
    BY <2>0, <2>3, Zenon DEF ExecuteMessage, ReadCommand
  <2> QED
    BY <2>1, <2>2, <2>3
<1>3. xs' = StartTransactionCommand(xs)
  BY <1>1, StartedIs DEF BackendInv
<1>4. /\ XactInv' /\ PhaseInv' /\ Cur(xs)'.block \in Plain
      /\ Cur(xs)'.block # "IMPLICIT_INPROGRESS"
  BY <1>1, <1>3, StartedKeeps DEF BackendInv
<1>5. TypeOK'
  BY <1>1, <1>2, <1>4 DEF BackendInv, TypeOK, XactInv, Controls
<1>6. ControlInv'
  BY <1>1, <1>4 DEF ControlInv
<1>7. ReadyInv'
  BY <1>1 DEF ReadyInv, StatusTellsTheBlock
<1> QED
  BY <1>4, <1>5, <1>6, <1>7 DEF BackendInv

LEMMA NextStatementKeeps ==
    ASSUME BackendInv, NextStatement PROVE BackendInv'
<1>1. /\ xs' = StartTransactionCommand(xs) /\ UNCHANGED store /\ ctl = "fence"
      /\ phase = "idle" /\ phase' = "command" /\ ctl' = "query"
      /\ UNCHANGED <<left, implicit, doing_extended, ignore_till_sync,
                     send_ready_for_query, told>>
  BY DEF NextStatement, flags
<1>2. /\ XactInv' /\ PhaseInv' /\ Cur(xs)'.block \in Plain
      /\ Cur(xs)'.block # "IMPLICIT_INPROGRESS"
  BY <1>1, StartedKeeps DEF BackendInv
<1>3. TypeOK'
  BY <1>1, <1>2 DEF BackendInv, TypeOK, XactInv, Controls
<1>4. ControlInv'
  BY <1>1, <1>2 DEF ControlInv
<1>5. ReadyInv'
  BY <1>1 DEF BackendInv, ReadyInv, StatusTellsTheBlock
<1> QED
  BY <1>2, <1>3, <1>4, <1>5 DEF BackendInv

(* Close, Sync and errors leave the stack as it is. *)
LEMMA SameStack ==
    ASSUME XactInv, xs' = xs, UNCHANGED store, phase' \in Phases PROVE XactInv'
BY DEF store, XactInv, XactTypeOK

LEMMA CloseKeeps ==
    ASSUME BackendInv, NEW ok \in BOOLEAN, CloseMessage(ok) PROVE BackendInv'
<1>1. /\ xs' = xs /\ UNCHANGED store
      /\ UNCHANGED <<left, implicit, ignore_till_sync, send_ready_for_query>>
      /\ ctl = "loop" /\ phase \in {"idle", "command"} /\ send_ready_for_query = FALSE
      /\ told' = "-"
      /\ \/ ctl' = "loop" /\ phase' = phase
         \/ ctl' = "error" /\ phase' = "abort"
  BY DEF CloseMessage, ReadCommand, BackendInv, TypeOK
<1>2. doing_extended' \in BOOLEAN
  BY Zenon DEF CloseMessage, ReadCommand
<1>3. XactInv'
  BY <1>1, SameStack DEF BackendInv, Phases
<1>4. TypeOK'
  BY <1>1, <1>2, <1>3 DEF BackendInv, TypeOK, XactInv, Controls
<1>5. ControlInv'
  BY <1>1 DEF BackendInv, ControlInv, PhaseInv, FreshTop
<1>6. ReadyInv'
  BY <1>1 DEF ReadyInv, StatusTellsTheBlock
<1> QED
  BY <1>3, <1>4, <1>5, <1>6 DEF BackendInv

LEMMA SyncKeeps ==
    ASSUME BackendInv, Sync PROVE BackendInv'
<1>1. /\ xs' = xs /\ UNCHANGED store
      /\ UNCHANGED <<left, implicit, send_ready_for_query>> /\ ignore_till_sync' = FALSE
      /\ ctl = "loop" /\ phase \in {"idle", "command"} /\ send_ready_for_query = FALSE
      /\ told' = "-" /\ ctl' = "end"
      /\ phase' = IF phase = "command" THEN "commit" ELSE phase
  BY DEF Sync, ReadCommand, BackendInv, TypeOK
<1>2. doing_extended' \in BOOLEAN
  BY Zenon DEF Sync, ReadCommand
<1>3. XactInv'
  BY <1>1, SameStack DEF BackendInv, Phases
<1>4. TypeOK'
  BY <1>1, <1>2, <1>3 DEF BackendInv, TypeOK, XactInv, Controls
<1>5. ControlInv'
  BY <1>1 DEF BackendInv, ControlInv, PhaseInv, FreshTop, Quiet
<1>6. ReadyInv'
  BY <1>1 DEF ReadyInv, StatusTellsTheBlock
<1> QED
  BY <1>3, <1>4, <1>5, <1>6 DEF BackendInv

----------------------------------------------------------------------------
(* Errors, the walks down the stack, and the end of the process. *)

LEMMA ErrorKeeps ==
    ASSUME BackendInv, RaiseError \/ RefuseStatement PROVE BackendInv'
<1>1. /\ xs' = xs /\ UNCHANGED store /\ phase' = "abort" /\ ctl' = "error"
      /\ UNCHANGED <<left, implicit, doing_extended, ignore_till_sync,
                     send_ready_for_query, told>>
      /\ phase \in {"command", "commit", "subcommit"}
  BY DEF RaiseError, RefuseStatement, Thrown, ereport, flags, store
<1>3. ctl # "loop"
  BY DEF RaiseError, RefuseStatement
<1>4. XactInv'
  BY <1>1, SameStack DEF BackendInv, Phases
<1>5. TypeOK'
  BY <1>1, <1>4 DEF BackendInv, TypeOK, XactInv, Controls
<1>6. ControlInv'
  BY <1>1 DEF BackendInv, ControlInv, PhaseInv, FreshTop
<1>7. ReadyInv'
  BY <1>1, <1>3 DEF BackendInv, ReadyInv, StatusTellsTheBlock
<1> QED
  BY <1>4, <1>5, <1>6, <1>7 DEF BackendInv

LEMMA PreparingErrorKeeps ==
    ASSUME BackendInv, Thrown(MarkAsPreparingFails) PROVE BackendInv'
<1>1. /\ MarkAsPreparingFails /\ ctl' = "error" /\ phase' = "abort"
      /\ phase \in {"commit", "subcommit"}
      /\ UNCHANGED <<left, implicit, doing_extended, ignore_till_sync,
                     send_ready_for_query, told>>
  BY DEF Thrown, MarkAsPreparingFails, flags
<1>2. XactInv' /\ PhaseInv' /\ Cur(xs)'.block = "PREPARE"
  BY <1>1, PreparingFailsKeeps DEF BackendInv
<1>3. told = "-"
  BY <1>1 DEF BackendInv, ControlInv, ReadyInv
<1>4. TypeOK'
  BY <1>1, <1>2 DEF BackendInv, TypeOK, XactInv, Controls
<1>5. ControlInv'
  BY <1>1, <1>2 DEF ControlInv
<1>6. ReadyInv'
  BY <1>1, <1>3 DEF ReadyInv, StatusTellsTheBlock
<1> QED
  BY <1>2, <1>4, <1>5, <1>6 DEF BackendInv

LEMMA WalkKeeps ==
    ASSUME BackendInv, CommitTransactionCommand \/ AbortCurrentTransaction,
           UNCHANGED rest
    PROVE  BackendInv'
<1>1. UNCHANGED <<ctl, left, implicit, doing_extended, ignore_till_sync,
                  send_ready_for_query, told>>
  BY DEF rest, flags
<1>2. XactInv' /\ PhaseInv'
  BY CommitKeeps, AbortKeeps DEF BackendInv, ControlInv
<1>3. \/ phase \in {"commit", "subcommit"} /\ phase' \in {"idle", "commit", "subcommit"}
      \/ phase = "abort" /\ phase' \in {"idle", "abort"}
  BY <1>2, WalkPhases
<1>4. ctl \notin {"loop", "query", "execute", "hyper"} /\ told = "-"
  BY <1>3 DEF BackendInv, ControlInv, ReadyInv
<1>5. TypeOK'
  BY <1>1, <1>2 DEF BackendInv, TypeOK, XactInv
<1>6. ControlInv'
  <2>1. phase' = "abort" \/ Cur(xs)'.block # "IMPLICIT_INPROGRESS"
    BY <1>2, <1>3 DEF PhaseInv, Quiet
  <2>2. /\ ctl \in {"fence", "end", "message"} => phase' \in {"idle", "commit", "subcommit"}
        /\ ctl = "error" => phase' \in {"idle", "abort"}
    BY <1>3 DEF BackendInv, ControlInv
  <2>3. phase' # "command"
    BY <1>3
  <2> QED
    BY <1>1, <1>2, <1>4, <2>1, <2>2, <2>3 DEF ControlInv
<1>7. ReadyInv'
  BY <1>1, <1>4 DEF BackendInv, ReadyInv, StatusTellsTheBlock
<1> QED
  BY <1>2, <1>5, <1>6, <1>7 DEF BackendInv

LEMMA DisconnectKeeps ==
    ASSUME BackendInv, Disconnect PROVE BackendInv'
<1>1. /\ AbortOutOfAnyTransaction /\ ctl' = "loop" /\ left' = 0 /\ implicit' = FALSE
      /\ doing_extended' = FALSE /\ ignore_till_sync' = FALSE
      /\ send_ready_for_query' = TRUE /\ told' = "-" /\ phase' = "idle"
  BY DEF Disconnect, AbortOutOfAnyTransaction
<1>2. XactInv' /\ PhaseInv'
  BY <1>1, AbortOutOfAnyKeeps DEF BackendInv
<1>3. TypeOK'
  <2>1. 0 \in 0..MaxStatements
    BY BackendAssumption
  <2> QED
    BY <1>1, <1>2, <2>1 DEF TypeOK, XactInv, Controls
<1>4. Cur(xs)'.block # "IMPLICIT_INPROGRESS"
  BY <1>1, <1>2 DEF PhaseInv, Quiet
<1>5. ControlInv'
  BY <1>1, <1>2, <1>4 DEF ControlInv
<1>6. ReadyInv'
  BY <1>1 DEF ReadyInv, StatusTellsTheBlock
<1> QED
  BY <1>2, <1>3, <1>5, <1>6 DEF BackendInv

(* After the last statement: an implicit block becomes an ordinary one. *)
LEMMA FinishQueryKeeps ==
    ASSUME BackendInv, FinishQuery PROVE BackendInv'
<1>1. PICK st : st = IF implicit THEN EndImplicitTransactionBlock(xs) ELSE xs
  OBVIOUS
<1>2. /\ xs' = st /\ UNCHANGED <<chain, nextXid, heap, pg_xact, prepared>>
      /\ ctl = "query" /\ phase' = "commit" /\ ctl' = "end" /\ phase = "command"
      /\ UNCHANGED <<left, implicit, doing_extended, ignore_till_sync,
                     send_ready_for_query, told>>
  BY <1>1 DEF FinishQuery, store, flags, BackendInv, ControlInv
<1>3. /\ Remarked(xs, st) /\ Shape(st) /\ Marks(st)
      /\ Cur(st).block \notin {"DEFAULT", "IMPLICIT_INPROGRESS"}
  <2>0. xs \in Stack /\ Shape(xs) /\ Marks(xs)
    BY XactInvFacts DEF BackendInv
  <2>1. CASE Cur(xs).block = "IMPLICIT_INPROGRESS"
    <3>1. st = WithBlock(xs, "STARTED")
      BY <1>1, <1>2, <2>1 DEF EndImplicitTransactionBlock, BackendInv, ControlInv
    <3>2. Len(xs) = 1 /\ xs[1].block = "IMPLICIT_INPROGRESS"
      BY <2>0, <2>1, TopIsAlone DEF SubBlocks
    <3> QED
      BY <2>0, <3>1, <3>2, WithBlockKeeps DEF TopBlocks, FailedBlocks
  <2>2. CASE Cur(xs).block # "IMPLICIT_INPROGRESS"
    <3>1. st = xs /\ Cur(xs).block # "DEFAULT"
      BY <1>1, <1>2, <2>2 DEF EndImplicitTransactionBlock, BackendInv, ControlInv, PhaseInv
    <3> QED
      BY <2>0, <2>2, <3>1 DEF Remarked
  <2> QED
    BY <2>1, <2>2
<1>4. chain' \in BOOLEAN /\ phase' \in Phases
  BY <1>2 DEF BackendInv, XactInv, XactTypeOK, Phases
<1>5. XactInv'
  BY <1>2, <1>3, <1>4, MarkStep DEF BackendInv
<1>6. Cur(xs)' = Cur(st)
  BY <1>2
<1>7. PhaseInv'
  BY <1>2, <1>3, <1>6 DEF PhaseInv, FreshTop
<1>8. TypeOK'
  BY <1>2, <1>5 DEF BackendInv, TypeOK, XactInv, Controls
<1>9. ControlInv'
  BY <1>2, <1>3, <1>6, <1>7 DEF ControlInv
<1>10. ReadyInv'
  BY <1>2 DEF BackendInv, ReadyInv, StatusTellsTheBlock
<1> QED
  BY <1>5, <1>8, <1>9, <1>10 DEF BackendInv

----------------------------------------------------------------------------
(* Statements. *)

LEMMA StatementFacts ==
    ASSUME NEW s \in Statements
    PROVE  /\ s.kind \in {"write", "begin", "prepare", "commit", "rollback", "savepoint",
                          "release", "rollback_to", "finish_prepared"}
           /\ s.kind \in {"commit", "rollback"} => s.chain \in BOOLEAN
           /\ s.kind \in {"savepoint", "release", "rollback_to"} => s.name \in Names
<1>1. CASE s \in [kind : {"write", "begin", "prepare"}]
  BY <1>1
<1>2. CASE s \in [kind : {"commit", "rollback"}, chain : BOOLEAN]
  BY <1>2
<1>3. CASE s \in [kind : {"savepoint", "release", "rollback_to"}, name : Names]
  BY <1>3
<1>4. CASE s \in [kind : {"finish_prepared"}, gid : Gids, isCommit : BOOLEAN]
  BY <1>4
<1> QED
  BY <1>1, <1>2, <1>3, <1>4 DEF Statements

LEMMA RemarkedTwice ==
    ASSUME NEW st, NEW st1, NEW st2, Remarked(st, st1), Remarked(st1, st2)
    PROVE  Remarked(st, st2)
BY DEF Remarked

(* A statement that only marks the stack finds it as its function of xact.c
   expects it, and leaves marks that CommitTransactionCommand can treat. *)
LEMMA MarkedKeeps ==
    ASSUME NEW st \in Stack, Shape(st), Marks(st), Cur(st).block \in Plain,
           NEW s \in Statements, ~Refused(s, st),
           s.kind \in {"begin", "commit", "prepare", "rollback", "release", "rollback_to"}
    PROVE  LET st2 == Marked(s, st)
           IN  /\ Remarked(st, st2) /\ Shape(st2) /\ Marks(st2)
               /\ Cur(st2).block \notin {"DEFAULT", "IMPLICIT_INPROGRESS"}
<1> PICK st2 : st2 = Marked(s, st)
  OBVIOUS
<1>1. /\ Len(st) \in 1..Len(st) /\ \A z : Len(z) = Len(st) => Cur(z) = z[Len(st)]
      /\ Remarked(st, st)
  BY StackFacts DEF Cur, Remarked
<1>2. CASE s.kind = "begin"
  <2>1. st2 = BeginTransactionBlock(st)
    BY <1>2 DEF Marked
  <2>2. Cur(st).block \notin FailedBlocks
    BY <1>2 DEF Refused, IsAbortedTransactionBlockState, IsTransactionExitStmt, Plain,
       FailedBlocks
  <2>3. CASE Cur(st).block \in {"STARTED", "IMPLICIT_INPROGRESS"}
    <3>1. Len(st) = 1 /\ Cur(st) = st[1]
      BY <2>3, TopIsAlone DEF SubBlocks
    <3>2. st2 = WithBlock(st, "BEGIN") /\ "BEGIN" \in TopBlocks \ FailedBlocks
      BY <2>1, <2>3 DEF BeginTransactionBlock, TopBlocks, FailedBlocks
    <3>3. Remarked(st, st2) /\ Shape(st2) /\ Marks(st2) /\ Cur(st2).block = "BEGIN"
      BY <2>2, <3>1, <3>2, WithBlockKeeps
    <3> QED
      BY <3>3
  <2>4. CASE Cur(st).block \notin {"STARTED", "IMPLICIT_INPROGRESS"}
    <3>1. st2 = st
      BY <2>1, <2>4 DEF BeginTransactionBlock
    <3> QED
      BY <1>1, <2>4, <3>1 DEF Plain
  <2> QED
    BY <2>3, <2>4
<1>3. CASE s.kind = "commit"
  <2>1. st2 = EndTransactionBlock(st)
    BY <1>3 DEF Marked
  <2>2. /\ Remarked(st, st2) /\ Shape(st2) /\ Marks(st2)
        /\ \/ Cur(st).block = "STARTED" /\ st2 = st
           \/ Cur(st2).block \in {"ABORT_END", "SUBABORT_END"}
           \/ \A i \in 1..Len(st) : st2[i].block = IF i = 1 THEN "END" ELSE "SUBCOMMIT"
    BY <2>1, EndKeeps
  <2>3. Cur(st2) = st2[Len(st)]
    BY <1>1, <2>2 DEF Remarked
  <2> QED
    BY <1>1, <2>2, <2>3
<1>4. CASE s.kind = "prepare"
  <2>1. st2 = PrepareTransactionBlock(st)
    BY <1>4 DEF Marked
  <2>2. /\ Remarked(st, st2) /\ Shape(st2) /\ Marks(st2)
        /\ \/ Cur(st).block = "STARTED" /\ st2 = st
           \/ Cur(st2).block \in {"ABORT_END", "SUBABORT_END"}
           \/ \A i \in 1..Len(st) :
                  st2[i].block = IF i = 1 THEN "PREPARE" ELSE "SUBCOMMIT"
    BY <2>1, PrepareKeeps
  <2>3. Cur(st2) = st2[Len(st)]
    BY <1>1, <2>2 DEF Remarked
  <2> QED
    BY <1>1, <2>2, <2>3
<1>5. CASE s.kind = "rollback"
  <2>1. st2 = UserAbortTransactionBlock(st)
    BY <1>5 DEF Marked
  <2> QED
    BY <2>1, UserAbortKeeps
<1>6. CASE s.kind = "release"
  <2>1. st2 = ReleaseSavepoint(st, s.name)
    BY <1>6 DEF Marked
  <2>2. Targets(st, s.name) # {} /\ Cur(st).block \notin {"ABORT", "SUBABORT"}
    BY <1>6 DEF Refused, IsAbortedTransactionBlockState, IsTransactionExitStmt
  <2>3. /\ Remarked(st, st2) /\ Shape(st2) /\ Marks(st2)
        /\ \A i \in 1..Len(st) :
               st2[i].block = IF i >= Target(st, s.name) THEN "SUBRELEASE"
                              ELSE st[i].block
    BY <2>1, <2>2, ReleaseKeeps
  <2>4. Target(st, s.name) \in 2..Len(st)
    BY <2>2, TargetFacts
  <2>5. Cur(st2) = st2[Len(st)] /\ Len(st) >= Target(st, s.name)
    BY <1>1, <2>3, <2>4 DEF Remarked
  <2> QED
    BY <1>1, <2>3, <2>5
<1>7. CASE s.kind = "rollback_to"
  <2>1. st2 = RollbackToSavepoint(st, s.name)
    BY <1>7 DEF Marked
  <2>2. Targets(st, s.name) # {}
    BY <1>7 DEF Refused
  <2> QED
    BY <2>1, <2>2, RollbackToKeeps
<1> QED
  BY <1>2, <1>3, <1>4, <1>5, <1>6, <1>7

(* What a statement leaves behind, on a stack that the query loop may have
   turned into an implicit block. *)
LEMMA RunKeeps ==
    ASSUME XactInv, NEW st, Remarked(xs, st), Shape(st), Marks(st),
           Cur(st).block \in Plain, NEW s \in Statements, ~Refused(s, st), Run(s, st),
           phase' \in Phases
    PROVE  /\ XactInv' /\ Cur(xs)'.block # "DEFAULT"
           /\ IsTransactionStmt(s) => Cur(xs)'.block # "IMPLICIT_INPROGRESS"
           /\ ~IsTransactionStmt(s) => Cur(xs)'.block = Cur(st).block
<1>0. st \in Stack /\ xs \in Stack
  BY XactInvFacts DEF Remarked
<1>1. CASE ~IsTransactionStmt(s)
  <2>1. Cur(st).block \notin FailedBlocks
    BY <1>1 DEF Refused, IsAbortedTransactionBlockState, IsTransactionExitStmt,
       IsTransactionStmt, Plain, FailedBlocks
  <2>2. CASE \E r \in Rows : heap_insert(st, r) /\ UNCHANGED <<chain, pg_xact, prepared>>
    <3>1. XactInv' /\ Cur(xs)'.block = Cur(st).block
      BY <2>1, <2>2, WriteKeeps DEF heap_insert
    <3> QED
      BY <1>1, <3>1 DEF Plain
  <2>3. CASE GetCurrentTransactionId(st) /\ UNCHANGED <<heap, chain, pg_xact, prepared>>
    <3>1. XactInv' /\ Cur(xs)'.block = Cur(st).block
      BY <2>1, <2>3, WriteKeeps
    <3> QED
      BY <1>1, <3>1 DEF Plain
  <2>4. CASE xs' = st /\ UNCHANGED store
    <3>1. UNCHANGED <<nextXid, heap, pg_xact, prepared>> /\ chain' \in BOOLEAN
      BY <2>4 DEF store, XactInv, XactTypeOK
    <3>2. XactInv'
      BY <2>4, <3>1, MarkStep
    <3>3. Cur(xs)' = Cur(st)
      BY <2>4
    <3> QED
      BY <1>1, <3>2, <3>3 DEF Plain
  <2> QED
    BY <1>1, <2>2, <2>3, <2>4 DEF Run
<1>2. CASE IsTransactionStmt(s)
  <2>1. /\ s.kind = "savepoint" => Len(st) < MaxDepth
        /\ xs' = Marked(s, st) /\ UNCHANGED <<nextXid, heap>>
        /\ s.kind = "finish_prepared" => FinishPreparedTransaction(s.gid, s.isCommit)
        /\ s.kind # "finish_prepared" => UNCHANGED <<prepared, pg_xact>>
    BY <1>2 DEF Run, ProcessUtility
  <2>2. chain' \in BOOLEAN
    <3>1. chain' = CASE s.kind \in {"commit", "rollback"} -> s.chain
                     [] s.kind = "prepare" -> FALSE
                     [] OTHER -> chain
      BY <1>2 DEF Run, ProcessUtility
    <3>2. chain \in BOOLEAN
      BY DEF XactInv, XactTypeOK
    <3>3. CASE s.kind \in {"commit", "rollback"}
      BY <3>1, <3>3, StatementFacts
    <3>4. CASE s.kind = "prepare"
      BY <3>1, <3>4
    <3>5. CASE s.kind \notin {"commit", "rollback", "prepare"}
      BY <3>1, <3>2, <3>5
    <3> QED
      BY <3>3, <3>4, <3>5
  <2>3. PICK st2 : st2 = Marked(s, st)
    OBVIOUS
  <2>4. Cur(xs)' = Cur(st2)
    BY <2>1, <2>3
  <2>5. CASE s.kind \in {"begin", "commit", "prepare", "rollback", "release", "rollback_to"}
    <3>1. /\ Remarked(st, st2) /\ Shape(st2) /\ Marks(st2)
          /\ Cur(st2).block \notin {"DEFAULT", "IMPLICIT_INPROGRESS"}
      BY <1>0, <2>3, <2>5, MarkedKeeps
    <3>2. Remarked(xs, st2)
      BY <3>1, RemarkedTwice
    <3>3. UNCHANGED <<nextXid, heap, pg_xact, prepared>>
      BY <2>1, <2>5
    <3>4. XactInv'
      BY <2>1, <2>2, <2>3, <3>1, <3>2, <3>3, MarkStep
    <3> QED
      BY <1>2, <2>4, <3>1, <3>4
  <2>6. CASE s.kind = "savepoint"
    <3>1. st2 = PushTransaction(st, s.name)
      BY <2>3, <2>6 DEF Marked
    <3>2. Cur(st).block \in Open /\ s.name \in Names \cup {NoName} /\ Len(st) < MaxDepth
      BY <2>1, <2>6, StatementFacts DEF Refused, IsAbortedTransactionBlockState,
         IsTransactionExitStmt, Plain, Open
    <3>3. Numbered(st, nextXid) /\ Accounted(st, prepared, nextXid, pg_xact)
      BY <1>0, XactInvFacts, RemarkKeeps
    <3>4. /\ Shape(st2) /\ Marks(st2) /\ Numbered(st2, nextXid)
          /\ Accounted(st2, prepared, nextXid, pg_xact)
      BY <1>0, <3>1, <3>2, <3>3, PushKeeps
    <3>5. st2 \in Stack /\ Cur(st2).block = "SUBBEGIN"
      BY <1>0, <3>1, <3>2, PushFacts
    <3>6. Accounted(st2, prepared, nextXid, pg_xact)'
      BY <2>1, <2>6, <3>4
    <3>7. /\ prepared' \subseteq [gid : Gids, xids : SUBSET (1..MaxXid)]
          /\ pg_xact' \in [1..MaxXid -> {"running", "committed", "aborted"}]
      BY <2>1, <2>6 DEF XactInv, XactTypeOK
    <3>8. XactInv'
      BY <2>1, <2>2, <2>3, <3>4, <3>5, <3>6, <3>7, MakeXactInv
    <3> QED
      BY <1>2, <2>4, <3>5, <3>8
  <2>7. CASE s.kind = "finish_prepared"
    <3>1. st2 = st
      BY <2>3, <2>7 DEF Marked
    <3>2. Cur(st).block = "STARTED"
      BY <2>7 DEF Refused, IsTransactionBlock, Plain
    <3>3. XactInv'
      BY <2>1, <2>2, <2>3, <2>7, <3>1, FinishPreparedKeeps
    <3> QED
      BY <1>2, <2>4, <3>1, <3>2, <3>3
  <2> QED
    BY <1>2, <2>5, <2>6, <2>7, StatementFacts DEF IsTransactionStmt
<1> QED
  BY <1>1, <1>2

(* The functions that mark the stack never meet a state they do not expect. *)
LEMMA ExpectedHolds ==
    ASSUME NEW st \in Stack, Shape(st), Cur(st).block \in Plain,
           NEW s \in Statements, ~Refused(s, st)
    PROVE  Expected(s, st)
<1>1. \A i \in 1..(Len(st) - 1) : st[i].block = LiveBlock(i)
  BY LowerLevels DEF LiveBlock
<1>2. BeginExpects(st) /\ EndExpects(st) /\ UserAbortExpects(st)
  BY <1>1 DEF BeginExpects, EndExpects, UserAbortExpects, Plain
<1>3. s.kind = "savepoint" => SavepointExpects(st)
  BY DEF SavepointExpects, Refused, IsAbortedTransactionBlockState,
     IsTransactionExitStmt, Plain
<1>4. ASSUME s.kind \in {"release", "rollback_to"}
      PROVE  /\ s.kind = "release" => ReleaseExpects(st)
             /\ RollbackToExpects(st, s.name)
  <2>1. Targets(st, s.name) # {}
    BY <1>4 DEF Refused
  <2>2. PICK t \in 2..Len(st) : t = Target(st, s.name)
    BY <2>1, TargetFacts
  <2>3. PICK d \in Nat : d = Len(st) /\ DOMAIN st = 1..d /\ Cur(st) = st[d]
    BY StackFacts
  <2>4. \A i \in t..d : i # 1 /\ (i = d \/ i \in 1..(d - 1))
    BY <2>2
  <2>5. st[d].block \in SubBlocks
    BY <2>2, <2>3 DEF Shape
  <2>6. Cur(st).block \in {"SUBINPROGRESS", "SUBABORT"}
    BY <2>3, <2>5 DEF Plain, SubBlocks
  <2>7. \A i \in t..d : st[i].block \in {"SUBINPROGRESS", "SUBABORT"}
    BY <1>1, <2>3, <2>4, <2>6 DEF LiveBlock
  <2>8. s.kind = "release" => ReleaseExpects(st)
    BY <2>6 DEF ReleaseExpects, Refused, IsAbortedTransactionBlockState,
       IsTransactionExitStmt
  <2> QED
    BY <2>2, <2>3, <2>7, <2>8 DEF RollbackToExpects
<1> QED
  BY <1>2, <1>3, <1>4 DEF Expected

LEMMA StatementStackKeeps ==
    ASSUME BackendInv, ctl = "query", Cur(xs).block \in Plain, NEW st, st = StatementStack
    PROVE  /\ Remarked(xs, st) /\ Shape(st) /\ Marks(st) /\ Cur(st).block \in Plain
           /\ Cur(st).block = "IMPLICIT_INPROGRESS" => implicit
<1>0. xs \in Stack /\ Shape(xs) /\ Marks(xs) /\ Remarked(xs, xs)
  BY XactInvFacts DEF BackendInv, Remarked
<1>1. CASE implicit /\ Cur(xs).block = "STARTED"
  <2>1. st = WithBlock(xs, "IMPLICIT_INPROGRESS")
    BY <1>1 DEF StatementStack, BeginImplicitTransactionBlock
  <2>2. Len(xs) = 1 /\ xs[1].block = "STARTED"
    BY <1>0, <1>1, TopIsAlone DEF SubBlocks
  <2>3. /\ Remarked(xs, st) /\ Cur(st).block = "IMPLICIT_INPROGRESS"
        /\ Shape(st) /\ Marks(st)
    BY <1>0, <2>1, <2>2, WithBlockKeeps DEF TopBlocks, FailedBlocks
  <2> QED
    BY <1>1, <2>3 DEF Plain
<1>2. CASE ~(implicit /\ Cur(xs).block = "STARTED")
  <2>1. st = xs
    BY <1>2 DEF StatementStack, BeginImplicitTransactionBlock
  <2>2. Cur(xs).block = "IMPLICIT_INPROGRESS" => implicit
    BY DEF BackendInv, ControlInv
  <2> QED
    BY <1>0, <2>1, <2>2
<1> QED
  BY <1>1, <1>2

LEMMA ExecStatementKeeps ==
    ASSUME BackendInv, NEW s \in Statements, ExecStatement(s) PROVE BackendInv'
<1>1. PICK st : st = StatementStack
  OBVIOUS
<1>2. /\ ctl = "query" /\ left > 0 /\ phase = "command" /\ ~Refused(s, st) /\ Run(s, st)
      /\ left' = left - 1
      /\ UNCHANGED <<implicit, doing_extended, ignore_till_sync, send_ready_for_query, told>>
  BY <1>1 DEF ExecStatement, flags
<1>3. Cur(xs).block \in Plain
  <2>1. left # 0
    BY <1>2 DEF BackendInv, TypeOK
  <2> QED
    BY <1>2, <2>1 DEF BackendInv, ControlInv
<1>4. Expected(s, st)
  <2>1. Shape(st) /\ Cur(st).block \in Plain /\ st \in Stack
    BY <1>1, <1>2, <1>3, StatementStackKeeps DEF Remarked
  <2> QED
    BY <1>2, <2>1, ExpectedHolds
<1>5. /\ \/ ctl' = "fence" /\ phase' = "commit" /\ IsTransactionStmt(s)
         \/ ctl' = "query" /\ phase' = "command" /\ (IsTransactionStmt(s) => ~(left > 1))
  <2>1. /\ phase' = CASE ~Expected(s, st) -> "fatal"
                      [] IsTransactionStmt(s) /\ left > 1 -> "commit"
                      [] OTHER -> "command"
        /\ ctl' = IF IsTransactionStmt(s) /\ left > 1 THEN "fence" ELSE "query"
    BY <1>1 DEF ExecStatement
  <2>2. CASE IsTransactionStmt(s) /\ left > 1
    BY <1>4, <2>1, <2>2
  <2>3. CASE ~(IsTransactionStmt(s) /\ left > 1)
    BY <1>4, <2>1, <2>3
  <2> QED
    BY <2>2, <2>3
<1>6. /\ Remarked(xs, st) /\ Shape(st) /\ Marks(st) /\ Cur(st).block \in Plain
      /\ Cur(st).block = "IMPLICIT_INPROGRESS" => implicit
  BY <1>1, <1>2, <1>3, StatementStackKeeps
<1>7. /\ XactInv' /\ Cur(xs)'.block # "DEFAULT"
      /\ IsTransactionStmt(s) => Cur(xs)'.block # "IMPLICIT_INPROGRESS"
      /\ ~IsTransactionStmt(s) => Cur(xs)'.block = Cur(st).block
  <2>1. phase' \in Phases
    BY <1>5 DEF Phases
  <2> QED
    BY <1>2, <1>6, <2>1, RunKeeps DEF BackendInv
<1>8. left' \in 0..MaxStatements /\ (~(left > 1) => left' = 0)
  BY <1>2, BackendAssumption DEF BackendInv, TypeOK
<1>9. PhaseInv'
  BY <1>5, <1>7 DEF PhaseInv, FreshTop
<1>10. TypeOK'
  BY <1>2, <1>5, <1>7, <1>8 DEF BackendInv, TypeOK, XactInv, Controls
<1>11. ControlInv'
  <2>1. Cur(xs)'.block = "IMPLICIT_INPROGRESS" => ctl' = "query" /\ implicit'
    BY <1>2, <1>5, <1>6, <1>7
  <2>2. phase' = "command" => Cur(xs)'.block \in Plain \/ (ctl' = "query" /\ left' = 0)
    BY <1>5, <1>6, <1>7, <1>8
  <2> QED
    BY <1>5, <1>9, <2>1, <2>2 DEF ControlInv
<1>12. ReadyInv'
  BY <1>2 DEF BackendInv, ReadyInv, StatusTellsTheBlock
<1> QED
  BY <1>7, <1>10, <1>11, <1>12 DEF BackendInv

LEMMA PortalRunKeeps ==
    ASSUME BackendInv, NEW s \in Statements, PortalRun(s) PROVE BackendInv'
<1>1. PICK st : st = xs
  OBVIOUS
<1>2. /\ ctl = "execute" /\ ~Refused(s, st) /\ Run(s, st) /\ phase = "command"
      /\ UNCHANGED <<left, implicit, ignore_till_sync, send_ready_for_query, told>>
  BY <1>1 DEF PortalRun, BackendInv, ControlInv
<1>3. Cur(xs).block \in Plain /\ Cur(xs).block # "IMPLICIT_INPROGRESS"
  BY <1>2 DEF BackendInv, ControlInv
<1>4. Expected(s, st)
  BY <1>1, <1>2, <1>3, XactInvFacts, ExpectedHolds DEF BackendInv
<1>5. \/ ctl' = "message" /\ phase' = "commit" /\ IsTransactionStmt(s)
      \/ ctl' = "loop" /\ phase' = "command" /\ ~IsTransactionStmt(s)
  <2>1. /\ phase' = CASE ~Expected(s, st) -> "fatal"
                      [] IsTransactionStmt(s) -> "commit"
                      [] OTHER -> "command"
        /\ ctl' = IF IsTransactionStmt(s) THEN "message" ELSE "loop"
    BY <1>1 DEF PortalRun
  <2>2. CASE IsTransactionStmt(s)
    BY <1>4, <2>1, <2>2
  <2>3. CASE ~IsTransactionStmt(s)
    BY <1>4, <2>1, <2>3
  <2> QED
    BY <2>2, <2>3
<1>6. Remarked(xs, st) /\ Shape(st) /\ Marks(st)
  BY <1>1, XactInvFacts DEF BackendInv, Remarked
<1>7. /\ XactInv' /\ Cur(xs)'.block # "DEFAULT"
      /\ IsTransactionStmt(s) => Cur(xs)'.block # "IMPLICIT_INPROGRESS"
      /\ ~IsTransactionStmt(s) => Cur(xs)'.block = Cur(st).block
  <2>1. phase' \in Phases
    BY <1>5 DEF Phases
  <2> QED
    BY <1>1, <1>2, <1>3, <1>6, <2>1, RunKeeps DEF BackendInv
<1>8. doing_extended' \in BOOLEAN
  BY Zenon DEF PortalRun, IsTransactionStmt
<1>9. PhaseInv'
  BY <1>5, <1>7 DEF PhaseInv, FreshTop
<1>10. TypeOK'
  BY <1>2, <1>5, <1>7, <1>8 DEF BackendInv, TypeOK, XactInv, Controls
<1>11. ControlInv'
  <2>1. Cur(xs)'.block # "IMPLICIT_INPROGRESS"
    BY <1>1, <1>3, <1>7
  <2>2. phase' = "command" => Cur(xs)'.block \in Plain
    BY <1>1, <1>3, <1>5, <1>7
  <2> QED
    BY <1>5, <1>9, <2>1, <2>2 DEF ControlInv
<1>12. ReadyInv'
  BY <1>2 DEF BackendInv, ReadyInv, StatusTellsTheBlock
<1> QED
  BY <1>7, <1>10, <1>11, <1>12 DEF BackendInv

----------------------------------------------------------------------------
(* The invariant is inductive. *)

LEMMA InvInit ==
    ASSUME Init PROVE BackendInv
<1>1. xs = <<TopTransactionStateData>> /\ xs[1] = TopTransactionStateData /\ Len(xs) = 1
  BY DEF Init, XactInit
<1>2. xs \in Stack
  BY <1>1, TopFacts
<1>3. Shape(xs) /\ Marks(xs) /\ Numbered(xs, nextXid) /\ Live(xs[1]) = {}
  BY <1>1, <1>2, TopFacts, FreshKeeps DEF TopBlocks, FailedBlocks
<1>4. XactTypeOK
  <2>1. xs \in Seq(Level) /\ Len(xs) \in 1..MaxDepth
    BY <1>2 DEF Stack
  <2>2. 1 \in 1..(MaxXid + 1) /\ 0 \in 0..MaxXid
    BY XactAssumption
  <2>3. nextXid \in 1..(MaxXid + 1) /\ heap \in [Rows -> 0..MaxXid]
    BY <2>2 DEF Init, XactInit
  <2>4. /\ pg_xact \in [1..MaxXid -> {"running", "committed", "aborted"}]
        /\ prepared \subseteq [gid : Gids, xids : SUBSET (1..MaxXid)]
        /\ chain \in BOOLEAN /\ phase \in Phases
    BY DEF Init, XactInit, Phases
  <2> QED
    BY <2>1, <2>3, <2>4 DEF XactTypeOK
<1>5. Accounted(xs, prepared, nextXid, pg_xact)
  <2>1. DOMAIN xs = {1} /\ prepared = {} /\ nextXid = 1
    BY <1>1 DEF Init, XactInit
  <2>2. \A x \in 1..MaxXid : pg_xact[x] = "running"
    BY DEF Init, XactInit
  <2>3. OneOwner(xs, prepared) /\ Owned(xs, prepared) = {}
    BY <1>3, <2>1 DEF OneOwner, Owned
  <2>4. \A x \in 1..MaxXid : x >= 1 /\ ~(x < 1)
    BY XactAssumption
  <2>5. xs[1].state # "ABORT"
    BY <1>1, TopFacts
  <2> QED
    BY <2>1, <2>2, <2>3, <2>4, <2>5 DEF Accounted
<1>6. Cur(xs).block = "DEFAULT"
  BY <1>1, TopFacts DEF Cur
<1>7. 0 \in 0..MaxStatements
  BY BackendAssumption
<1>8. TypeOK
  BY <1>4, <1>7 DEF Init, TypeOK, Controls
<1>9. ControlInv
  BY <1>1, <1>6 DEF Init, XactInit, ControlInv, PhaseInv, FreshTop, Quiet
<1>10. ReadyInv
  BY DEF Init, XactInit, ReadyInv, StatusTellsTheBlock
<1> QED
  BY <1>3, <1>4, <1>5, <1>8, <1>9, <1>10 DEF BackendInv, XactInv

LEMMA InvNext ==
    ASSUME BackendInv, [Next]_vars PROVE BackendInv'
<1>1. CASE Skip
  BY <1>1, SkipKeeps
<1>2. CASE HyperQuery \/ HyperReturns
  BY <1>2, HyperQueryKeeps
<1>3. CASE \/ \E n \in 0..MaxStatements : SimpleQuery(n)
           \/ \E ok \in BOOLEAN : PrepareMessage(ok)
           \/ ExecuteMessage
  BY <1>3, OpenMessageKeeps
<1>4. CASE \E ok \in BOOLEAN : CloseMessage(ok)
  BY <1>4, CloseKeeps
<1>5. CASE Sync
  BY <1>5, SyncKeeps
<1>6. CASE ReadyForQuery
  BY <1>6, ReadyForQueryKeeps
<1>7. CASE \E s \in Statements : ExecStatement(s)
  BY <1>7, ExecStatementKeeps
<1>8. CASE \E s \in Statements : PortalRun(s)
  BY <1>8, PortalRunKeeps
<1>9. CASE FinishQuery
  BY <1>9, FinishQueryKeeps
<1>10. CASE NextStatement
  BY <1>10, NextStatementKeeps
<1>11. CASE CommandFinished \/ Recover
  BY <1>11, CommandFinishedKeeps
<1>12. CASE (CommitTransactionCommand \/ AbortCurrentTransaction) /\ UNCHANGED rest
  BY <1>12, WalkKeeps
<1>13. CASE RaiseError \/ RefuseStatement \/ Thrown(MarkAsPreparingFails)
  BY <1>13, ErrorKeeps, PreparingErrorKeeps
<1>14. CASE Disconnect
  BY <1>14, DisconnectKeeps
<1>15. CASE UNCHANGED vars
  <2>1. UNCHANGED xactVars /\ UNCHANGED <<xs, phase, ctl, left, implicit, doing_extended,
           ignore_till_sync, send_ready_for_query, told>>
    BY <1>15 DEF vars, xactVars
  <2>2. XactInv' /\ PhaseInv'
    BY <2>1, StutterKeeps DEF BackendInv, ControlInv
  <2>3. TypeOK'
    BY <2>1, <2>2 DEF BackendInv, TypeOK, XactInv
  <2>4. ControlInv'
    BY <2>1, <2>2 DEF BackendInv, ControlInv
  <2>5. ReadyInv'
    BY <2>1 DEF BackendInv, ReadyInv, StatusTellsTheBlock
  <2> QED
    BY <2>2, <2>3, <2>4, <2>5 DEF BackendInv
<1> QED
  BY <1>1, <1>2, <1>3, <1>4, <1>5, <1>6, <1>7, <1>8, <1>9, <1>10, <1>11, <1>12,
     <1>13, <1>14, <1>15 DEF Next, Message, Step

(* The inductive invariant holds throughout every run of the backend. *)
THEOREM BackendInvariant == Spec => []BackendInv
<1>1. Init => BackendInv
  BY InvInit
<1>2. BackendInv /\ [Next]_vars => BackendInv'
  BY InvNext
<1> QED
  BY <1>1, <1>2, PTL DEF Spec

(* Every variable of the query loop and of the transaction state stays within
   its type: in particular the stack never runs empty, and ids stay within
   those given out. *)
THEOREM BackendTypeCorrect == Spec => []TypeOK
<1>1. BackendInv => TypeOK
  BY DEF BackendInv
<1> QED
  BY <1>1, BackendInvariant, PTL

(* The elog(FATAL) and elog(ERROR) branches of the switches of xact.c for
   unexpected states are never reached, whatever statements, messages and
   errors follow one another. *)
THEOREM StatesAreExpected == Spec => []NoUnexpectedState
<1>1. BackendInv => NoUnexpectedState
  BY DEF BackendInv, ControlInv, PhaseInv, NoUnexpectedState, Quiet
<1> QED
  BY <1>1, BackendInvariant, PTL

(* Ids grow along the stack and from a level to its committed children, as
   AssignTransactionId promises, through every walk down the stack. *)
THEOREM IdsGrowUpwards == Spec => []ParentsFirst
<1>1. BackendInv => ParentsFirst
  BY DEF BackendInv, XactInv, Numbered, ParentsFirst
<1> QED
  BY <1>1, BackendInvariant, PTL

(* Sets with at most one element. *)
LEMMA AtMostOne ==
    ASSUME NEW T, \A a, b \in T : a = b
    PROVE  Cardinality(T) = IF T = {} THEN 0 ELSE 1
<1>1. CASE T = {}
  BY <1>1, FS_EmptySet
<1>2. CASE T # {}
  <2>1. PICK a : a \in T
    BY <1>2
  <2>2. T = {a}
    BY <2>1
  <2> QED
    BY <1>2, <2>2, FS_Singleton
<1> QED
  BY <1>1, <1>2

LEMMA OneHolder ==
    ASSUME XactInv, NEW x \in 1..(nextXid - 1)
    PROVE  Cardinality(Holders(x)) + Cardinality({p \in prepared : x \in p.xids})
               = IF pg_xact[x] = "running" THEN 1 ELSE 0
<1>1. x \in 1..MaxXid /\ x < nextXid
  BY XactAssumption DEF XactInv, XactTypeOK
<1>2. PICK H, P : H = Holders(x) /\ P = {p \in prepared : x \in p.xids}
  OBVIOUS
<1>3. H = {i \in DOMAIN xs : x \in Live(xs[i])}
  BY <1>2 DEF Holders, Live
<1>4. OneOwner(xs, prepared)
  BY DEF XactInv, Accounted
<1>5. (\A a, b \in H : a = b) /\ (\A a, b \in P : a = b) /\ (H = {} \/ P = {})
  BY <1>2, <1>3, <1>4 DEF OneOwner
<1>6. /\ Cardinality(H) = IF H = {} THEN 0 ELSE 1
      /\ Cardinality(P) = IF P = {} THEN 0 ELSE 1
  BY <1>5, AtMostOne
<1>7. (H # {} \/ P # {}) <=> x \in Owned(xs, prepared)
  BY <1>1, <1>2, <1>3 DEF Owned
<1>8. x \in Owned(xs, prepared) <=> pg_xact[x] = "running"
  BY <1>1 DEF XactInv, Accounted
<1>9. PICK h, q : h = Cardinality(H) /\ q = Cardinality(P)
  OBVIOUS
<1>10. h + q = IF pg_xact[x] = "running" THEN 1 ELSE 0
  BY <1>5, <1>6, <1>7, <1>8, <1>9
<1> QED
  BY <1>2, <1>9, <1>10

(* An id that pg_xact calls running is one live level's or one prepared
   transaction's, and a settled one is nobody's: no path through commit,
   release, abort, PREPARE or the end of the process forgets an id or leaves
   it to two. *)
THEOREM XidsAreKept == Spec => []NoXidIsLost
<1>1. BackendInv => NoXidIsLost
  BY OneHolder DEF BackendInv, NoXidIsLost
<1> QED
  BY <1>1, BackendInvariant, PTL

(* The status of ReadyForQuery, with hyper queries among the messages or not,
   is that of the block the client is in, until the client sends something
   else: a failed block is never reported as one that goes on, nor a block as
   none. *)
THEOREM StatusIsTrue == Spec => []StatusTellsTheBlock
<1>1. BackendInv => StatusTellsTheBlock
  BY DEF BackendInv, ReadyInv
<1> QED
  BY <1>1, BackendInvariant, PTL

----------------------------------------------------------------------------
(* What is settled stays settled. *)

Final == \A x \in 1..MaxXid : pg_xact[x] # "running" => pg_xact'[x] = pg_xact[x]

(* An id may be settled when it is running, or has that outcome already. *)
LEMMA SettleIsFinal ==
    ASSUME NEW X, NEW o, Settle(X, o),
           \A x \in X : x \in 1..MaxXid => pg_xact[x] \in {"running", o}
    PROVE  Final
BY DEF Settle, Final

LEMMA LiveIsRunning ==
    ASSUME XactInv, NEW i \in DOMAIN xs, NEW x \in Live(xs[i])
    PROVE  x \in 1..MaxXid /\ pg_xact[x] = "running"
<1>1. xs[i] \in Level
  BY XactInvFacts
<1>2. x \in 1..MaxXid
  BY <1>1, XidsType
<1>3. x \in Owned(xs, prepared)
  BY <1>2 DEF Owned
<1> QED
  BY <1>2, <1>3 DEF XactInv, Accounted

LEMMA CurSettleIsFinal ==
    ASSUME XactInv, NEW o, Settle(Live(Cur(xs)), o) PROVE Final
<1>1. Len(xs) \in DOMAIN xs /\ Cur(xs) = xs[Len(xs)]
  BY XactInvFacts
<1>2. \A x \in Live(Cur(xs)) : pg_xact[x] = "running"
  BY <1>1, LiveIsRunning
<1>3. PICK X : X = Live(Cur(xs))
  OBVIOUS
<1> QED
  BY <1>2, <1>3, SettleIsFinal

LEMMA CommitIsFinal ==
    ASSUME XactInv, CommitTransactionCommand PROVE Final
<1>1. CASE pg_xact' = pg_xact
  BY <1>1 DEF Final
<1>2. CASE CommitSimple \/ CommitTopOfSubs \/ CommitEnd \/ CommitRollback
  <2>1. Cur(xs).block \in {"STARTED", "END", "ABORT_END", "ABORT_PENDING"}
    BY <1>2 DEF CommitSimple, CommitTopOfSubs, CommitEnd, CommitRollback
  <2>2. Cur(xs) = xs[1]
    BY <2>1, XactInvFacts, TopIsAlone DEF SubBlocks
  <2>3. Live(Cur(xs)) = IF Cur(xs).block = "ABORT_END" THEN {} ELSE XidsOf(xs[1])
    BY <2>1, <2>2, CurLive DEF FailedBlocks
  <2>4. PICK o : Settle(Live(Cur(xs)), o)
    BY <1>2, <2>3 DEF CommitSimple, CommitTopOfSubs, CommitEnd, CommitRollback
  <2> QED
    BY <2>4, CurSettleIsFinal
<1>3. CASE CommitSubAbort \/ CommitRestart
  <2>1. Live(Cur(xs)) = IF Cur(xs).block \in {"SUBABORT_END", "SUBABORT_RESTART"} THEN {}
                        ELSE XidsOf(Cur(xs))
    BY <1>3, CurLive DEF CommitSubAbort, CommitRestart, FailedBlocks
  <2>2. Settle(Live(Cur(xs)), "aborted")
    BY <1>3, <2>1 DEF CommitSubAbort, CommitRestart
  <2> QED
    BY <2>2, CurSettleIsFinal
<1> QED
  BY <1>1, <1>2, <1>3 DEF CommitTransactionCommand, CommitNothing, CommitBegin,
     PrepareTransaction, CommitSubBegin, CommitRelease, CommitSub

LEMMA AbortIsFinal ==
    ASSUME XactInv, AbortCurrentTransaction PROVE Final
<1>1. CASE AbortNothing
  BY <1>1 DEF AbortNothing, Final
<1>2. CASE AbortTop
  <2>1. Cur(xs) = xs[1]
    BY <1>2, XactInvFacts, TopIsAlone DEF AbortTop, SubBlocks
  <2>2. Live(Cur(xs)) = IF Cur(xs).block = "ABORT_END" THEN {} ELSE XidsOf(xs[1])
    BY <1>2, <2>1, CurLive DEF AbortTop, FailedBlocks
  <2>3. Settle(Live(Cur(xs)), "aborted")
    BY <1>2, <2>2 DEF AbortTop
  <2> QED
    BY <2>3, CurSettleIsFinal
<1>3. CASE AbortSub \/ AbortStay
  <2>1. Live(Cur(xs)) = IF Cur(xs).block \in {"SUBABORT_END", "SUBABORT_RESTART"} THEN {}
                        ELSE XidsOf(Cur(xs))
    BY <1>3, CurLive DEF AbortSub, AbortStay, AbortPops, FailedBlocks
  <2>2. Settle(Live(Cur(xs)), "aborted")
    BY <1>3, <2>1 DEF AbortSub, AbortStay
  <2> QED
    BY <2>2, CurSettleIsFinal
<1> QED
  BY <1>1, <1>2, <1>3 DEF AbortCurrentTransaction

LEMMA EndOfProcessIsFinal ==
    ASSUME XactInv, AbortOutOfAnyTransaction PROVE Final
<1>1. PICK X : X = UNION {XidsOf(xs[i]) : i \in DOMAIN xs}
  OBVIOUS
<1>2. Settle(X, "aborted")
  BY <1>1 DEF AbortOutOfAnyTransaction
<1>3. ASSUME NEW i \in DOMAIN xs, NEW x \in XidsOf(xs[i])
      PROVE  pg_xact[x] \in {"running", "aborted"}
  <2>1. CASE xs[i].state = "ABORT"
    BY <2>1 DEF XactInv, Accounted
  <2>2. CASE xs[i].state # "ABORT"
    BY <2>2, LiveIsRunning DEF Live
  <2> QED
    BY <2>1, <2>2
<1> QED
  BY <1>1, <1>2, <1>3, SettleIsFinal

LEMMA FinishPreparedIsFinal ==
    ASSUME XactInv, NEW g, NEW isCommit, FinishPreparedTransaction(g, isCommit)
    PROVE  Final
<1>1. PICK o : o = IF isCommit THEN "committed" ELSE "aborted"
  OBVIOUS
<1>2. PICK p \in prepared : Settle(p.xids, o)
  BY <1>1 DEF FinishPreparedTransaction
<1>3. \A x \in p.xids : x \in 1..MaxXid => pg_xact[x] = "running"
  <2>1. \A x \in p.xids : x \in 1..MaxXid => x \in Owned(xs, prepared)
    BY DEF Owned
  <2> QED
    BY <2>1 DEF XactInv, Accounted
<1> QED
  BY <1>2, <1>3, SettleIsFinal

LEMMA StepIsFinal ==
    ASSUME BackendInv, [Next]_vars PROVE Final
<1>1. CASE pg_xact' = pg_xact
  BY <1>1 DEF Final
<1>2. CASE CommitTransactionCommand
  BY <1>2, CommitIsFinal DEF BackendInv
<1>3. CASE AbortCurrentTransaction
  BY <1>3, AbortIsFinal DEF BackendInv
<1>4. CASE Disconnect
  BY <1>4, EndOfProcessIsFinal DEF BackendInv, Disconnect
<1>5. CASE \E s \in Statements : ExecStatement(s) \/ PortalRun(s)
  <2>1. PICK s \in Statements, st \in {StatementStack, xs} : Run(s, st)
    BY <1>5 DEF ExecStatement, PortalRun
  <2>2. CASE s.kind = "finish_prepared"
    <3>1. FinishPreparedTransaction(s.gid, s.isCommit)
      BY <2>1, <2>2 DEF Run, IsTransactionStmt, ProcessUtility
    <3> QED
      BY <3>1, FinishPreparedIsFinal DEF BackendInv
  <2>3. CASE s.kind # "finish_prepared"
    BY <1>1, <2>1, <2>3 DEF Run, ProcessUtility, store
  <2> QED
    BY <2>2, <2>3
<1>6. CASE Message
  BY <1>1, <1>6 DEF Message, Skip, SimpleQuery, HyperQuery, PrepareMessage,
     CloseMessage, ExecuteMessage, Sync, store, xactVars
<1>7. CASE ReadyForQuery \/ HyperReturns \/ CommandFinished \/ Recover \/ UNCHANGED vars
  BY <1>1, <1>7 DEF ReadyForQuery, HyperReturns, CommandFinished, Recover, vars, xactVars
<1>8. CASE FinishQuery \/ RefuseStatement \/ NextStatement
  BY <1>1, <1>8 DEF FinishQuery, RefuseStatement, NextStatement, store
<1>9. CASE RaiseError \/ Thrown(MarkAsPreparingFails)
  BY <1>1, <1>9 DEF RaiseError, Thrown, MarkAsPreparingFails, ereport
<1> QED
  BY <1>2, <1>3, <1>4, <1>5, <1>6, <1>7, <1>8, <1>9 DEF Next, Step

(* TransactionIdCommitTree and TransactionIdAbortTree never contradict one
   another, nor themselves: an id is settled once, with one outcome. *)
THEOREM SettledForGood == Spec => OutcomesAreFinal
<1>1. BackendInv /\ [Next]_vars => [Final]_vars
  BY StepIsFinal
<1> QED
  BY <1>1, BackendInvariant, PTL DEF Spec, OutcomesAreFinal, Final

============================================================================
