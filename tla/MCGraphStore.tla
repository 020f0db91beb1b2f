---------------------------- MODULE MCGraphStore ----------------------------
(* GraphStore on a small instance: a table name and statements without one,   *)
(* tables with and without a foreign key, two values, and room for a root,    *)
(* tables and rows.                                                           *)
EXTENDS GraphStore, TLC

CONSTANTS student, i1, i2

MCTypeNames == {student, Null}
MCIds == {i1, i2}
MCAttrs == {"id", "ref"}

(* A row with values for the key and the foreign key column; create_node also *)
(* adds rows without "values".                                                *)
MCRows == {[a \in MCAttrs |-> IF a = "id" THEN i2 ELSE i1]}

(* A table with a key, and one that also refers to table student by its id.   *)
MCDefs == {[NoDef EXCEPT !.key = "id"],
           [key |-> "id", foreignKey |-> "ref",
            referredTable |-> student, referredAttr |-> "id"]}

=============================================================================
