---------------------------- MODULE MCHyperEdges ----------------------------
(* HyperEdges on small instances.  The values are two numbers, so that having *)
(* clauses select some rows and not others; one row lacks the column, and     *)
(* create_node also adds rows without "values".                               *)
EXTENDS HyperEdges, TLC

CONSTANTS student, i1, i2, b1, b1blank

MCRows == {[a \in {"name", "cpi"} |-> i1], [a \in {"name"} |-> i2]}
MCAttrs == {"name", "cpi"}
MCTrim == [x \in HEIds |-> IF x = b1blank THEN b1 ELSE x]
MCNum == [x \in Ids |-> IF x = i1 THEN 9 ELSE 8]
MCHashOrder == [x \in Ids \cup {Null} |-> IF x = i1 THEN 2 ELSE IF x = i2 THEN 1 ELSE 0]

Plain == [source |-> i1, dest |-> student, having |-> Null, connected |-> Null,
          distance |-> Null, count |-> Null]

(* students under i1 with cpi > 8                                             *)
WithCpi == [Plain EXCEPT !.having = [attr |-> "cpi", op |-> ">", value |-> i2]]

(* students connected to a student, to i2 at distance 2, and to no student    *)
ToType == [Plain EXCEPT !.source = Null,
                        !.connected = [by |-> "type", name |-> student]]
AtDistance == [Plain EXCEPT !.source = Null,
                            !.connected = [by |-> "id", name |-> i2],
                            !.distance = [op |-> "==", value |-> 2]]
NotConnected == [ToType EXCEPT !.count = [op |-> "<", value |-> 1]]

FromTable == [Plain EXCEPT !.source = Null]

MCForms == {WithCpi, ToType, AtDistance, NotConnected}
MCNestedBases == {FromTable}
MCOneRow == {[a \in {"name"} |-> i1]}

(* A hyperedge, with a row, with another one; no operation; no bases.         *)
MCNestedForms == {[op |-> "union", bases |-> <<b1>>],
                  [op |-> "union", bases |-> <<b1, i1>>],
                  [op |-> "intersection", bases |-> <<b1, b1blank>>],
                  [op |-> Null, bases |-> <<b1>>],
                  [op |-> "union", bases |-> Null]}

=============================================================================
