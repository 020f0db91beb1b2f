------------------------------ MODULE Session ------------------------------
(***************************************************************************)
(* What a session promises its client about transactions: the rows of a    *)
(* transaction become permanent together or not at all, a savepoint can be *)
(* returned to as long as it is defined, and a transaction that failed     *)
(* commits nothing.                                                        *)
(***************************************************************************)
EXTENDS Naturals, Sequences

CONSTANTS Names, NoName, Rows, Gids

VARIABLES
    status,     \* none, auto (one statement or query), block, failed
    levels,     \* the transaction's rows, by the savepoint they came after
    committed,  \* permanent rows
    doubt       \* rows of prepared transactions

vars == <<status, levels, committed, doubt>>

Fresh == <<[name |-> NoName, rows |-> {}]>>
RowsFrom(i) == UNION {levels[j].rows : j \in i..Len(levels)}
Defined(n) == {i \in 2..Len(levels) : levels[i].name = n}
Latest(n) == CHOOSE i \in Defined(n) : \A j \in Defined(n) : j <= i

Init ==
    /\ status = "none"
    /\ levels = <<>>
    /\ committed = {}
    /\ doubt = {}

Start ==
    /\ status = "none"
    /\ status' \in {"auto", "block"}
    /\ levels' = Fresh
    /\ UNCHANGED <<committed, doubt>>

Begin ==
    /\ status = "auto"
    /\ status' = "block"
    /\ UNCHANGED <<levels, committed, doubt>>

Write(r) ==
    /\ status \in {"auto", "block"}
    /\ levels' = [levels EXCEPT ![Len(levels)].rows = @ \cup {r}]
    /\ UNCHANGED <<status, committed, doubt>>

Savepoint(n) ==
    /\ status = "block"
    /\ levels' = Append(levels, [name |-> n, rows |-> {}])
    /\ UNCHANGED <<status, committed, doubt>>

Release(n) ==
    /\ status = "block" /\ Defined(n) # {}
    /\ levels' = [SubSeq(levels, 1, Latest(n) - 1) EXCEPT
                      ![Latest(n) - 1].rows = RowsFrom(Latest(n) - 1)]
    /\ UNCHANGED <<status, committed, doubt>>

RollbackTo(n) ==
    /\ status \in {"block", "failed"} /\ Defined(n) # {}
    /\ status' = "block"
    /\ levels' = [SubSeq(levels, 1, Latest(n)) EXCEPT ![Latest(n)].rows = {}]
    /\ UNCHANGED <<committed, doubt>>

(* A commit may fail, and then it is a rollback. *)
Commit(chained) ==
    /\ status \in {"auto", "block"}
    /\ committed' = committed \cup RowsFrom(1)
    /\ status' = IF chained THEN "block" ELSE "none"
    /\ levels' = IF chained THEN Fresh ELSE <<>>
    /\ UNCHANGED doubt

Rollback ==
    /\ status' = "none"
    /\ levels' = <<>>
    /\ UNCHANGED <<committed, doubt>>

(* A statement fails in a block: the rows since the latest savepoint are
   lost, and if the statement was about that savepoint, so is the savepoint. *)
Fail ==
    /\ status = "block"
    /\ status' = "failed"
    /\ \E n \in {Len(levels), Len(levels) - 1} :
           /\ n > 0
           /\ levels' = [SubSeq(levels, 1, n) EXCEPT ![n].rows = {}]
    /\ UNCHANGED <<committed, doubt>>

Prepare(g) ==
    /\ status \in {"auto", "block"}
    /\ doubt' = doubt \cup {[gid |-> g, rows |-> RowsFrom(1)]}
    /\ status' = "none"
    /\ levels' = <<>>
    /\ UNCHANGED committed

Resolve(d, isCommit) ==
    /\ doubt' = doubt \ {d}
    /\ committed' = IF isCommit THEN committed \cup d.rows ELSE committed
    /\ UNCHANGED <<status, levels>>

Next ==
    \/ Start \/ Begin \/ Rollback \/ Fail
    \/ \E r \in Rows : Write(r)
    \/ \E n \in Names : Savepoint(n) \/ Release(n) \/ RollbackTo(n)
    \/ \E c \in BOOLEAN : Commit(c)
    \/ \E g \in Gids : Prepare(g)
    \/ \E d \in doubt, c \in BOOLEAN : Resolve(d, c)

Spec == Init /\ [][Next]_vars
============================================================================
