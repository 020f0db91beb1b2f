----------------------------- MODULE XactProofs -----------------------------
(***************************************************************************)
(* What the functions of xact.c keep true of the stack of transaction      *)
(* states and of the transaction ids, for a stack of any depth, any number *)
(* of ids and any savepoint names.  Module BackendProofs builds on it.     *)
(***************************************************************************)
EXTENDS Xact, WellOrder, FiniteSetTheorems, TLAPS

Blocks == TopBlocks \cup SubBlocks

(* The blocks of the levels below the current one, when nothing is marked. *)
Open == {"INPROGRESS", "SUBINPROGRESS"}

(* A level whose block is b may be somewhere below one whose block is c: the
   marks that a statement leaves cover the levels from its target upwards. *)
MayCarry(b, c) ==
    \/ /\ b \in Open
       /\ c \in {"SUBINPROGRESS", "SUBABORT", "SUBBEGIN", "SUBRESTART",
                 "SUBABORT_RESTART", "SUBRELEASE", "SUBABORT_PENDING",
                 "SUBABORT_END"}
    \/ b = "SUBRELEASE" /\ c = "SUBRELEASE"
    \/ b \in {"SUBCOMMIT", "END", "PREPARE"} /\ c = "SUBCOMMIT"
    \/ /\ b \in {"SUBABORT_PENDING", "ABORT_PENDING", "SUBRESTART"}
       /\ c \in {"SUBABORT_PENDING", "SUBABORT_END"}

Shape(st) ==
    /\ \A i \in DOMAIN st : st[i].block \in IF i = 1 THEN TopBlocks ELSE SubBlocks
    /\ \A i, j \in DOMAIN st : i < j => MayCarry(st[i].block, st[j].block)

(* A level has been aborted, and its ids settled, exactly when its block says
   that it failed. *)
FailedBlocks == {"ABORT", "SUBABORT", "ABORT_END", "SUBABORT_END",
                 "SUBABORT_RESTART"}
Marks(st) ==
    \A i \in DOMAIN st : st[i].state = "ABORT" <=> st[i].block \in FailedBlocks

(* Ids are given out from the bottom of the stack, in increasing order. *)
Numbered(st, next) ==
    /\ \E m \in 1..(Len(st) + 1) : \A i \in DOMAIN st : st[i].xid = 0 <=> i >= m
    /\ \A i \in DOMAIN st :
           /\ i > 1 /\ st[i].xid # 0 => st[i - 1].xid \in 1..(st[i].xid - 1)
           /\ \A x \in st[i].childXids : st[i].xid \in 1..(x - 1)
           /\ \A x \in XidsOf(st[i]) : x < next

(* The ids a level has still to settle.  Each id that is given out and still
   running is one level's or one prepared transaction's, and those of a level
   that failed are settled. *)
Live(l) == IF l.state = "ABORT" THEN {} ELSE XidsOf(l)
Owned(st, prep) ==
    {x \in 1..MaxXid : \/ \E i \in DOMAIN st : x \in Live(st[i])
                       \/ \E p \in prep : x \in p.xids}
OneOwner(st, prep) ==
    /\ \A i, j \in DOMAIN st : \A x \in Live(st[i]) : x \in Live(st[j]) => i = j
    /\ \A i \in DOMAIN st : \A p \in prep : \A x \in Live(st[i]) : x \notin p.xids
    /\ \A p, q \in prep : \A x \in p.xids : x \in q.xids => p = q
Accounted(st, prep, next, clog) ==
    /\ OneOwner(st, prep)
    /\ \A x \in 1..MaxXid :
           /\ x \in Owned(st, prep) <=> x < next /\ clog[x] = "running"
           /\ x >= next => clog[x] = "running"
    /\ \A i \in DOMAIN st : st[i].state = "ABORT" =>
           \A x \in XidsOf(st[i]) : clog[x] = "aborted"

XactInv ==
    /\ XactTypeOK
    /\ Shape(xs)
    /\ Marks(xs)
    /\ Numbered(xs, nextXid)
    /\ Accounted(xs, prepared, nextXid, pg_xact)

----------------------------------------------------------------------------
(* Levels and stacks. *)

Stack == {st \in Seq(Level) : Len(st) \in 1..MaxDepth}

LEMMA StackFacts ==
    ASSUME NEW st \in Stack
    PROVE  /\ st \in Seq(Level) /\ Len(st) \in Nat /\ Len(st) >= 1
           /\ Len(st) <= MaxDepth
           /\ DOMAIN st = 1..Len(st)
           /\ \A i \in 1..Len(st) : st[i] \in Level
           /\ Cur(st) = st[Len(st)] /\ Cur(st) \in Level
BY XactAssumption DEF Stack, Cur

LEMMA MakeStack ==
    ASSUME NEW n \in 1..MaxDepth, NEW st, st \in [1..n -> Level]
    PROVE  st \in Stack /\ Len(st) = n
BY XactAssumption DEF Stack

LEMMA LevelWithBlock ==
    ASSUME NEW l \in Level, NEW b \in Blocks
    PROVE  LET m == [l EXCEPT !.block = b]
           IN  /\ m \in Level /\ m.block = b
               /\ m.name = l.name /\ m.state = l.state
               /\ m.xid = l.xid /\ m.childXids = l.childXids
BY DEF Level, Blocks

LEMMA TopFacts ==
    /\ TopTransactionStateData \in Level
    /\ TopTransactionStateData.block = "DEFAULT"
    /\ TopTransactionStateData.state = "DEFAULT"
    /\ TopTransactionStateData.xid = 0
    /\ TopTransactionStateData.childXids = {}
    /\ TopTransactionStateData.name = NoName
    /\ <<TopTransactionStateData>> \in Stack
    /\ Len(<<TopTransactionStateData>>) = 1
<1> DEFINE t == TopTransactionStateData
<1>1. t \in Level /\ t.block = "DEFAULT" /\ t.state = "DEFAULT" /\ t.xid = 0
      /\ t.childXids = {} /\ t.name = NoName
  BY XactAssumption DEF TopTransactionStateData, Level, TopBlocks, TransState
<1>2. 1 \in 1..MaxDepth /\ <<t>> \in [1..1 -> Level]
  BY <1>1, XactAssumption
<1> QED
  BY <1>1, <1>2, MakeStack

LEMMA StartFacts ==
    ASSUME NEW b \in Blocks
    PROVE  /\ StartTransaction(b) \in Stack /\ Len(StartTransaction(b)) = 1
           /\ StartTransaction(b)[1].block = b
           /\ StartTransaction(b)[1].state = "INPROGRESS"
           /\ StartTransaction(b)[1].xid = 0
           /\ StartTransaction(b)[1].childXids = {}
           /\ StartTransaction(b)[1].name = NoName
<1> DEFINE s == [TopTransactionStateData EXCEPT !.block = b, !.state = "INPROGRESS"]
<1>1. s \in Level /\ s.block = b /\ s.state = "INPROGRESS" /\ s.xid = 0
      /\ s.childXids = {} /\ s.name = NoName
  BY TopFacts DEF Level, Blocks, TransState
<1>2. 1 \in 1..MaxDepth /\ <<s>> \in [1..1 -> Level]
  BY <1>1, XactAssumption
<1>3. StartTransaction(b) = <<s>>
  BY DEF StartTransaction
<1> HIDE DEF s
<1>4. <<s>> \in Stack /\ Len(<<s>>) = 1 /\ <<s>>[1] = s
  BY <1>2, MakeStack
<1> QED
  BY <1>1, <1>3, <1>4

LEMMA PopFacts ==
    ASSUME NEW st \in Stack, Len(st) > 1
    PROVE  /\ Pop(st) \in Stack /\ Len(Pop(st)) = Len(st) - 1
           /\ \A i \in 1..(Len(st) - 1) : Pop(st)[i] = st[i]
<1>1. st \in Seq(Level) /\ Len(st) - 1 \in Nat /\ Len(st) - 1 >= 1
      /\ Len(st) - 1 <= Len(st) /\ Len(st) - 1 <= MaxDepth
  BY StackFacts, XactAssumption
<1>2. /\ SubSeq(st, 1, Len(st) - 1) \in Seq(Level)
      /\ Len(SubSeq(st, 1, Len(st) - 1)) = Len(st) - 1
      /\ \A i \in 1..(Len(st) - 1) : SubSeq(st, 1, Len(st) - 1)[i] = st[i]
  BY <1>1
<1> QED
  BY <1>1, <1>2, XactAssumption DEF Pop, Stack

LEMMA PushFacts ==
    ASSUME NEW st \in Stack, NEW n \in Names \cup {NoName}, Len(st) < MaxDepth
    PROVE  LET st2 == PushTransaction(st, n)
           IN  /\ st2 \in Stack /\ Len(st2) = Len(st) + 1
               /\ \A i \in 1..Len(st) : st2[i] = st[i]
               /\ Cur(st2).block = "SUBBEGIN" /\ Cur(st2).state = "DEFAULT"
               /\ Cur(st2).xid = 0 /\ Cur(st2).childXids = {}
               /\ Cur(st2).name = n
<1> DEFINE l == [TopTransactionStateData EXCEPT !.name = n, !.block = "SUBBEGIN"]
<1>1. l \in Level /\ l.block = "SUBBEGIN" /\ l.state = "DEFAULT" /\ l.xid = 0
      /\ l.childXids = {} /\ l.name = n
  BY TopFacts DEF Level, SubBlocks
<1>2. PushTransaction(st, n) = Append(st, l)
  BY DEF PushTransaction
<1> HIDE DEF l
<1>3. Append(st, l) \in Seq(Level) /\ Len(Append(st, l)) = Len(st) + 1
      /\ (\A i \in 1..Len(st) : Append(st, l)[i] = st[i])
      /\ Append(st, l)[Len(st) + 1] = l
  BY <1>1, StackFacts
<1>4. Append(st, l) \in Stack
  BY <1>3, StackFacts, XactAssumption DEF Stack
<1> QED
  BY <1>1, <1>2, <1>3, <1>4 DEF Cur

(* The functions that mark the stack leave names and ids alone, and which
   levels have been aborted. *)
Remarked(st, st2) ==
    /\ st2 \in Stack /\ Len(st2) = Len(st)
    /\ \A i \in 1..Len(st) : /\ st2[i].name = st[i].name
                             /\ st2[i].state = "ABORT" <=> st[i].state = "ABORT"
                             /\ st2[i].xid = st[i].xid
                             /\ st2[i].childXids = st[i].childXids

LEMMA MarkFacts ==
    ASSUME NEW st \in Stack, NEW st2, st2 \in [1..Len(st) -> Level],
           \A i \in 1..Len(st) : /\ st2[i].name = st[i].name
                                 /\ st2[i].state = "ABORT" <=> st[i].state = "ABORT"
                                 /\ st2[i].xid = st[i].xid
                                 /\ st2[i].childXids = st[i].childXids
    PROVE  Remarked(st, st2)
<1>1. Len(st) \in 1..MaxDepth
  BY DEF Stack
<1> QED
  BY <1>1, MakeStack DEF Remarked

LEMMA RemarkKeeps ==
    ASSUME NEW st \in Stack, NEW st2, Remarked(st, st2), NEW n, NEW prep, NEW clog
    PROVE  /\ Numbered(st, n) => Numbered(st2, n)
           /\ Accounted(st, prep, n, clog) => Accounted(st2, prep, n, clog)
<1>1. st2 \in Stack /\ DOMAIN st2 = DOMAIN st /\ Len(st2) = Len(st)
      /\ DOMAIN st = 1..Len(st) /\ Len(st) \in Nat
  BY StackFacts DEF Remarked
<1>2. \A i \in DOMAIN st : /\ st2[i].xid = st[i].xid
                           /\ st2[i].childXids = st[i].childXids
                           /\ XidsOf(st2[i]) = XidsOf(st[i])
                           /\ Live(st2[i]) = Live(st[i])
  BY <1>1 DEF Remarked, XidsOf, Live
<1>3. ASSUME Numbered(st, n) PROVE Numbered(st2, n)
  <2>1. \A i \in DOMAIN st : i > 1 => i - 1 \in DOMAIN st
    BY <1>1
  <2> QED
    BY <1>1, <1>2, <1>3, <2>1 DEF Numbered
<1>4. ASSUME Accounted(st, prep, n, clog) PROVE Accounted(st2, prep, n, clog)
  <2>1. Owned(st2, prep) = Owned(st, prep)
    BY <1>1, <1>2 DEF Owned
  <2>2. OneOwner(st2, prep)
    BY <1>1, <1>2, <1>4 DEF Accounted, OneOwner
  <2> QED
    BY <1>1, <1>2, <1>4, <2>1, <2>2 DEF Accounted, Remarked
<1> QED
  BY <1>3, <1>4

LEMMA PopKeeps ==
    ASSUME NEW st \in Stack, Len(st) > 1, NEW n,
           Shape(st), Marks(st), Numbered(st, n)
    PROVE  Shape(Pop(st)) /\ Marks(Pop(st)) /\ Numbered(Pop(st), n)
<1> DEFINE st2 == Pop(st)
<1>1. /\ st2 \in Stack /\ Len(st2) = Len(st) - 1 /\ DOMAIN st2 = 1..(Len(st) - 1)
      /\ DOMAIN st = 1..Len(st) /\ Len(st) \in Nat
      /\ \A i \in DOMAIN st2 : i \in DOMAIN st /\ st2[i] = st[i]
  BY PopFacts, StackFacts
<1> HIDE DEF st2
<1>2. Shape(st2) /\ Marks(st2)
  BY <1>1 DEF Shape, Marks
<1>3. \A i \in DOMAIN st2 : i > 1 => i - 1 \in DOMAIN st2
  BY <1>1
<1>4. PICK m \in 1..(Len(st) + 1) : \A i \in DOMAIN st : st[i].xid = 0 <=> i >= m
  BY DEF Numbered
<1>5. \E k \in 1..(Len(st2) + 1) : \A i \in DOMAIN st2 : st2[i].xid = 0 <=> i >= k
  <2>1. CASE m <= Len(st)
    BY <1>1, <1>4, <2>1
  <2>2. CASE m = Len(st) + 1
    <3>1. Len(st) \in 1..(Len(st2) + 1)
      BY <1>1
    <3>2. \A i \in DOMAIN st2 : st2[i].xid = 0 <=> i >= Len(st)
      BY <1>1, <1>4, <2>2
    <3> QED
      BY <3>1, <3>2
  <2> QED
    BY <1>1, <2>1, <2>2
<1>6. Numbered(st2, n)
  BY <1>1, <1>3, <1>5 DEF Numbered
<1> QED
  BY <1>2, <1>6 DEF st2

(* A level can be started on top of one that is open. *)
LEMMA PushKeeps ==
    ASSUME NEW st \in Stack, NEW name \in Names \cup {NoName}, Len(st) < MaxDepth,
           NEW n, NEW prep, NEW clog,
           Shape(st), Marks(st), Numbered(st, n), Cur(st).block \in Open
    PROVE  LET st2 == PushTransaction(st, name)
           IN  /\ Shape(st2) /\ Marks(st2) /\ Numbered(st2, n)
               /\ Accounted(st, prep, n, clog) => Accounted(st2, prep, n, clog)
<1> DEFINE st2 == PushTransaction(st, name)
<1>1. /\ st2 \in Stack /\ Len(st2) = Len(st) + 1 /\ DOMAIN st2 = 1..(Len(st) + 1)
      /\ DOMAIN st = 1..Len(st) /\ Len(st) \in Nat /\ Len(st) >= 1
      /\ \A i \in DOMAIN st : i \in DOMAIN st2 /\ st2[i] = st[i]
  BY PushFacts, StackFacts
<1>2. LET l == st2[Len(st) + 1]
      IN l.block = "SUBBEGIN" /\ l.state = "DEFAULT" /\ l.xid = 0 /\ l.childXids = {}
  BY <1>1, PushFacts DEF Cur
<1> HIDE DEF st2
<1>3. \A i \in DOMAIN st : st[i].block \in Open
  BY <1>1 DEF Shape, MayCarry, Open, Cur
<1>4. Shape(st2)
  <2>1. \A i \in DOMAIN st2 : st2[i].block \in IF i = 1 THEN TopBlocks ELSE SubBlocks
    BY <1>1, <1>2 DEF Shape, SubBlocks
  <2>2. \A i \in DOMAIN st : MayCarry(st2[i].block, "SUBBEGIN")
    BY <1>1, <1>3 DEF MayCarry
  <2>3. ASSUME NEW i \in DOMAIN st2, NEW j \in DOMAIN st2, i < j
        PROVE  MayCarry(st2[i].block, st2[j].block)
    BY <1>1, <1>2, <2>2, <2>3 DEF Shape
  <2> QED
    BY <2>1, <2>3 DEF Shape
<1>5. Marks(st2)
  BY <1>1, <1>2 DEF Marks, FailedBlocks
<1>6. XidsOf(st2[Len(st) + 1]) = {} /\ Live(st2[Len(st) + 1]) = {}
  BY <1>2 DEF XidsOf, Live
<1>7. Numbered(st2, n)
  <2>1. PICK m \in 1..(Len(st) + 1) : \A i \in DOMAIN st : st[i].xid = 0 <=> i >= m
    BY DEF Numbered
  <2>2. m \in 1..(Len(st2) + 1) /\ \A i \in DOMAIN st2 : st2[i].xid = 0 <=> i >= m
    BY <1>1, <1>2, <2>1
  <2>3. ASSUME NEW i \in DOMAIN st2
        PROVE  /\ i > 1 /\ st2[i].xid # 0 => st2[i - 1].xid \in 1..(st2[i].xid - 1)
               /\ \A x \in st2[i].childXids : st2[i].xid \in 1..(x - 1)
               /\ \A x \in XidsOf(st2[i]) : x < n
    <3>1. CASE i \in DOMAIN st
      <4>1. i > 1 => i - 1 \in DOMAIN st
        BY <1>1, <3>1
      <4> QED
        BY <1>1, <3>1, <4>1 DEF Numbered
    <3>2. CASE i = Len(st) + 1
      BY <1>2, <1>6, <3>2
    <3> QED
      BY <1>1, <3>1, <3>2
  <2> QED
    BY <2>2, <2>3 DEF Numbered
<1>8. ASSUME Accounted(st, prep, n, clog) PROVE Accounted(st2, prep, n, clog)
  <2>1. \A i \in DOMAIN st2 : (i \in DOMAIN st /\ st2[i] = st[i]) \/ Live(st2[i]) = {}
    BY <1>1, <1>6
  <2>2. Owned(st2, prep) = Owned(st, prep)
    BY <1>1, <2>1 DEF Owned
  <2>3. OneOwner(st2, prep)
    BY <1>8, <2>1 DEF OneOwner, Accounted
  <2> QED
    BY <1>1, <1>2, <1>8, <2>2, <2>3 DEF Accounted
<1> QED
  BY <1>4, <1>5, <1>7, <1>8 DEF st2

(* A stack of one level without ids has nothing to account for. *)
LEMMA FreshKeeps ==
    ASSUME NEW st \in Stack, Len(st) = 1, st[1].block \in TopBlocks,
           st[1].state # "ABORT", st[1].block \notin FailedBlocks,
           st[1].xid = 0, st[1].childXids = {}, NEW n
    PROVE  Shape(st) /\ Marks(st) /\ Numbered(st, n) /\ Live(st[1]) = {}
<1>1. DOMAIN st = {1} /\ Len(st) + 1 = 2
  BY StackFacts
<1>2. XidsOf(st[1]) = {} /\ Live(st[1]) = {}
  BY DEF XidsOf, Live
<1>3. Shape(st) /\ Marks(st)
  BY <1>1 DEF Shape, Marks
<1>4. Numbered(st, n)
  <2>1. 1 \in 1..(Len(st) + 1) /\ \A i \in DOMAIN st : st[i].xid = 0 <=> i >= 1
    BY <1>1
  <2> QED
    BY <1>1, <1>2, <2>1 DEF Numbered
<1> QED
  BY <1>2, <1>3, <1>4

(* Levels that are given up, or committed for good, settle their ids: X are
   ids of the levels that no level of the new stack has any more. *)
Settles(st, st2, X, n, prep) ==
    /\ Len(st2) <= Len(st)
    /\ \A i \in 1..Len(st2) : Live(st2[i]) = Live(st[i]) \ X
    /\ \A i \in 1..Len(st) : i > Len(st2) => Live(st[i]) \subseteq X
    /\ \A x \in X : x < n /\ \A p \in prep : x \notin p.xids
SettledTo(outcome, clog, clog2, X) ==
    \A x \in 1..MaxXid : clog2[x] = IF x \in X THEN outcome ELSE clog[x]
FailedAreAborted(st, clog) ==
    \A i \in 1..Len(st) : st[i].state = "ABORT" =>
        \A x \in XidsOf(st[i]) : clog[x] = "aborted"

LEMMA SettleKeeps ==
    ASSUME NEW st \in Stack, NEW st2 \in Stack, NEW n \in Nat, NEW prep, NEW clog,
           Accounted(st, prep, n, clog), NEW X, Settles(st, st2, X, n, prep),
           NEW outcome, outcome # "running", NEW clog2,
           SettledTo(outcome, clog, clog2, X), FailedAreAborted(st2, clog2)
    PROVE  Accounted(st2, prep, n, clog2)
<1> USE DEF Settles, SettledTo, FailedAreAborted
<1>1. /\ DOMAIN st = 1..Len(st) /\ DOMAIN st2 = 1..Len(st2)
      /\ Len(st) \in Nat /\ Len(st2) \in Nat
      /\ DOMAIN st2 \subseteq DOMAIN st
  BY StackFacts
<1>2. OneOwner(st2, prep)
  BY <1>1 DEF OneOwner, Accounted
<1>3. ASSUME NEW x \in 1..MaxXid
      PROVE  x \in Owned(st2, prep) <=> x \in Owned(st, prep) /\ x \notin X
  <2>1. (\E i \in DOMAIN st2 : x \in Live(st2[i]))
            <=> (\E i \in DOMAIN st : x \in Live(st[i])) /\ x \notin X
    BY <1>1
  <2>2. (\E p \in prep : x \in p.xids) => x \notin X
    OBVIOUS
  <2> QED
    BY <2>1, <2>2 DEF Owned
<1>4. \A x \in 1..MaxXid : clog2[x] = "running" <=> clog[x] = "running" /\ x \notin X
  OBVIOUS
<1>5. \A x \in 1..MaxXid : x >= n => x \notin X
  BY XactAssumption
<1> QED
  BY <1>1, <1>2, <1>3, <1>4, <1>5 DEF Accounted

(* The levels' own ids are not those of prepared transactions. *)
LEMMA LiveIsUnprepared ==
    ASSUME NEW st \in Stack, NEW prep, NEW n, NEW clog, Accounted(st, prep, n, clog),
           NEW i \in 1..Len(st), NEW x \in Live(st[i]), NEW p \in prep
    PROVE  x \notin p.xids
BY StackFacts DEF Accounted, OneOwner

(* PrepareTransaction: the ids of the only level change hands. *)
LEMMA HandOverKeeps ==
    ASSUME NEW st \in Stack, Len(st) = 1, NEW st2 \in Stack, Len(st2) = 1,
           Live(st2[1]) = {}, st2[1].state # "ABORT", NEW prep, NEW p, p.xids = Live(st[1]), NEW n, NEW clog,
           Accounted(st, prep, n, clog)
    PROVE  Accounted(st2, prep \cup {p}, n, clog)
<1>1. DOMAIN st = {1} /\ DOMAIN st2 = {1}
  BY StackFacts
<1>2. Owned(st2, prep \cup {p}) = Owned(st, prep)
  BY <1>1 DEF Owned
<1>3. OneOwner(st2, prep \cup {p})
  BY <1>1 DEF OneOwner, Accounted
<1> QED
  BY <1>1, <1>2, <1>3 DEF Accounted

LEMMA XidsType ==
    ASSUME NEW l \in Level
    PROVE  XidsOf(l) \subseteq 1..MaxXid /\ Live(l) \subseteq 1..MaxXid
BY XactAssumption DEF Level, XidsOf, Live

(* FinishPreparedTransaction settles the ids of one prepared transaction. *)
LEMMA FinishKeeps ==
    ASSUME NEW st \in Stack, NEW prep, NEW p \in prep, p.xids \subseteq 1..MaxXid,
           NEW n \in Nat, NEW clog, NEW outcome, outcome # "running", NEW clog2,
           SettledTo(outcome, clog, clog2, p.xids), Accounted(st, prep, n, clog)
    PROVE  Accounted(st, prep \ {p}, n, clog2)
<1> USE DEF SettledTo
<1>1. OneOwner(st, prep \ {p})
  BY DEF OneOwner, Accounted
<1>2. ASSUME NEW x \in 1..MaxXid
      PROVE  x \in Owned(st, prep \ {p}) <=> x \in Owned(st, prep) /\ x \notin p.xids
  BY DEF Owned, OneOwner, Accounted
<1>3. \A x \in 1..MaxXid : clog2[x] = "running" <=> clog[x] = "running" /\ x \notin p.xids
  OBVIOUS
<1>4. \A x \in 1..MaxXid : x >= n => x \notin p.xids
  BY XactAssumption DEF Accounted, Owned
<1>5. ASSUME NEW i \in DOMAIN st, st[i].state = "ABORT", NEW x \in XidsOf(st[i])
      PROVE  clog2[x] = "aborted"
  <2>1. clog[x] = "aborted" /\ x \in 1..MaxXid
    BY <1>5, StackFacts, XidsType DEF Accounted
  <2>2. x \notin p.xids
    BY <2>1 DEF Accounted, Owned
  <2> QED
    BY <2>1, <2>2
<1> QED
  BY <1>1, <1>2, <1>3, <1>4, <1>5 DEF Accounted

(* CommitSubTransaction: the parent has an id if the level has one, and it is
   not a failed level, so that the ids it is given are accounted for. *)
LEMMA MergeFacts ==
    ASSUME xs \in Stack, Len(xs) > 1
    PROVE  LET st2 == CommitSubTransaction
               d == Len(xs) - 1
           IN  /\ st2 \in Stack /\ Len(st2) = d /\ d >= 1
               /\ \A i \in 1..d : /\ st2[i].name = xs[i].name
                                  /\ st2[i].block = xs[i].block
                                  /\ st2[i].state = xs[i].state
                                  /\ st2[i].xid = xs[i].xid
               /\ \A i \in 1..(d - 1) : st2[i] = xs[i]
               /\ st2[d].childXids = xs[d].childXids \cup XidsOf(Cur(xs))
<1>1. /\ Pop(xs) \in Stack /\ Len(Pop(xs)) = Len(xs) - 1 /\ Len(xs) - 1 \in Nat
      /\ Len(xs) - 1 >= 1 /\ Len(xs) - 1 \in 1..MaxDepth
      /\ \A i \in 1..(Len(xs) - 1) : Pop(xs)[i] = xs[i] /\ xs[i] \in Level
  BY PopFacts, StackFacts, XactAssumption DEF Stack
<1>2. PICK d : d = Len(xs) - 1
  OBVIOUS
<1>3. PICK C : C = xs[d].childXids \cup XidsOf(Cur(xs))
  OBVIOUS
<1>4. xs[d] \in Level /\ C \in SUBSET (1..MaxXid)
  <2>1. xs[d] \in Level /\ Cur(xs) \in Level /\ d \in 1..(Len(xs) - 1)
    BY <1>1, <1>2, StackFacts
  <2>2. xs[d].childXids \in SUBSET (1..MaxXid)
    BY <2>1 DEF Level
  <2>3. XidsOf(Cur(xs)) \subseteq 1..MaxXid
    BY <2>1, XidsType
  <2> QED
    BY <1>3, <2>1, <2>2, <2>3
<1>5. PICK l : l = [xs[d] EXCEPT !.childXids = C]
  OBVIOUS
<1>6. /\ l \in Level /\ l.name = xs[d].name /\ l.block = xs[d].block
      /\ l.state = xs[d].state /\ l.xid = xs[d].xid /\ l.childXids = C
  BY <1>4, <1>5 DEF Level
<1>7. CommitSubTransaction = [Pop(xs) EXCEPT ![d] = l]
  <2>1. Pop(xs)[d] = xs[d]
    BY <1>1, <1>2
  <2>2. CommitSubTransaction = [Pop(xs) EXCEPT ![d] =
            [Pop(xs)[d] EXCEPT !.childXids = Pop(xs)[d].childXids \cup XidsOf(Cur(xs))]]
    BY <1>2 DEF CommitSubTransaction
  <2> QED
    BY <1>3, <1>5, <2>1, <2>2
<1>8. Pop(xs) \in [1..d -> Level]
  BY <1>1, <1>2, StackFacts
<1>9. /\ CommitSubTransaction \in [1..d -> Level]
      /\ CommitSubTransaction[d] = l
      /\ \A i \in 1..d : i # d => CommitSubTransaction[i] = xs[i]
  BY <1>1, <1>2, <1>6, <1>7, <1>8
<1>10. CommitSubTransaction \in Stack /\ Len(CommitSubTransaction) = d
  BY <1>1, <1>2, <1>9, MakeStack
<1>11. PICK st2 : st2 = CommitSubTransaction
  OBVIOUS
<1>12. \A i \in 1..(d - 1) : st2[i] = xs[i]
  BY <1>1, <1>2, <1>9, <1>11
<1>13. \A i \in 1..d : /\ st2[i].name = xs[i].name
                       /\ st2[i].block = xs[i].block
                       /\ st2[i].state = xs[i].state
                       /\ st2[i].xid = xs[i].xid
  BY <1>6, <1>9, <1>11
<1>14. st2 \in Stack /\ Len(st2) = d /\ d >= 1
       /\ st2[d].childXids = xs[d].childXids \cup XidsOf(Cur(xs))
  BY <1>1, <1>2, <1>3, <1>6, <1>9, <1>10, <1>11
<1> QED
  BY <1>2, <1>11, <1>12, <1>13, <1>14

LEMMA MergeKeeps ==
    ASSUME xs \in Stack, Len(xs) > 1, Shape(xs), Marks(xs), NEW n, Numbered(xs, n),
           NEW prep, NEW clog, Accounted(xs, prep, n, clog),
           Cur(xs).block \in {"SUBRELEASE", "SUBCOMMIT"}
    PROVE  /\ Shape(CommitSubTransaction) /\ Marks(CommitSubTransaction)
           /\ Numbered(CommitSubTransaction, n)
           /\ Accounted(CommitSubTransaction, prep, n, clog)
<1>1. PICK st2 : st2 = CommitSubTransaction
  OBVIOUS
<1>2. PICK d : d = Len(xs) - 1
  OBVIOUS
<1>3. /\ st2 \in Stack /\ Len(st2) = d /\ d \in Nat /\ d >= 1 /\ Len(xs) = d + 1
      /\ DOMAIN st2 = 1..d /\ DOMAIN xs = 1..(d + 1)
      /\ Cur(xs) = xs[d + 1] /\ xs[d] \in Level /\ xs[d + 1] \in Level
  BY <1>1, <1>2, MergeFacts, StackFacts
<1>4. /\ \A i \in 1..d : /\ st2[i].block = xs[i].block /\ st2[i].state = xs[i].state
                         /\ st2[i].xid = xs[i].xid
      /\ \A i \in 1..(d - 1) : st2[i] = xs[i]
      /\ st2[d].childXids = xs[d].childXids \cup XidsOf(xs[d + 1])
  BY <1>1, <1>2, <1>3, MergeFacts
<1>5. Shape(st2) /\ Marks(st2)
  <2>1. Shape(st2)
    BY <1>3, <1>4 DEF Shape
  <2> QED
    BY <1>3, <1>4, <2>1 DEF Marks
<1>6. xs[d].state # "ABORT" /\ xs[d + 1].state # "ABORT"
  <2>1. MayCarry(xs[d].block, xs[d + 1].block)
    BY <1>3 DEF Shape
  <2> QED
    BY <1>3, <2>1 DEF MayCarry, Marks, FailedBlocks, Open
<1>7. /\ xs[d + 1].xid # 0 => xs[d].xid \in 1..(xs[d + 1].xid - 1)
      /\ \A x \in xs[d + 1].childXids : xs[d + 1].xid \in 1..(x - 1)
      /\ \A x \in xs[d].childXids : xs[d].xid \in 1..(x - 1)
  BY <1>3 DEF Numbered
<1>8. /\ \A x \in st2[d].childXids : st2[d].xid \in 1..(x - 1)
      /\ XidsOf(st2[d]) = XidsOf(xs[d]) \cup XidsOf(xs[d + 1])
  BY <1>3, <1>4, <1>7, XactAssumption DEF XidsOf, Level
<1>9. Live(st2[d]) = Live(xs[d]) \cup Live(xs[d + 1])
  BY <1>3, <1>4, <1>6, <1>8 DEF Live
<1>10. Numbered(st2, n)
  <2>1. PICK m \in 1..(Len(xs) + 1) : \A i \in DOMAIN xs : xs[i].xid = 0 <=> i >= m
    BY DEF Numbered
  <2>2. \E k \in 1..(Len(st2) + 1) : \A i \in DOMAIN st2 : st2[i].xid = 0 <=> i >= k
    <3>1. CASE m <= d + 1
      <4>1. m \in 1..(Len(st2) + 1) /\ \A i \in DOMAIN st2 : st2[i].xid = 0 <=> i >= m
        BY <1>3, <1>4, <2>1, <3>1
      <4> QED
        BY <4>1
    <3>2. CASE m = d + 2
      <4>1. d + 1 \in 1..(Len(st2) + 1) /\ \A i \in DOMAIN st2 : st2[i].xid = 0 <=> i >= d + 1
        BY <1>3, <1>4, <2>1, <3>2
      <4> QED
        BY <4>1
    <3> QED
      BY <1>3, <3>1, <3>2
  <2>3. ASSUME NEW i \in DOMAIN st2
        PROVE  /\ i > 1 /\ st2[i].xid # 0 => st2[i - 1].xid \in 1..(st2[i].xid - 1)
               /\ \A x \in st2[i].childXids : st2[i].xid \in 1..(x - 1)
               /\ \A x \in XidsOf(st2[i]) : x < n
    <3>1. i > 1 => i - 1 \in 1..d /\ i - 1 \in DOMAIN xs
      BY <1>3
    <3>2. i > 1 /\ st2[i].xid # 0 => st2[i - 1].xid \in 1..(st2[i].xid - 1)
      BY <1>3, <1>4, <3>1 DEF Numbered
    <3>3. CASE i = d
      BY <1>3, <1>8, <3>2, <3>3 DEF Numbered
    <3>4. CASE i # d
      BY <1>3, <1>4, <3>2, <3>4 DEF Numbered
    <3> QED
      BY <3>3, <3>4
  <2> QED
    BY <2>2, <2>3 DEF Numbered
<1>11. Accounted(st2, prep, n, clog)
  <2>1. Owned(st2, prep) = Owned(xs, prep)
    <3>1. \A x : (\E i \in DOMAIN st2 : x \in Live(st2[i]))
                     <=> (\E i \in DOMAIN xs : x \in Live(xs[i]))
      BY <1>3, <1>4, <1>9
    <3> QED
      BY <3>1 DEF Owned
  <2>2. OneOwner(st2, prep)
    <3>1. \A i \in DOMAIN st2 : \A x \in Live(st2[i]) :
              x \in Live(xs[i]) \/ (i = d /\ x \in Live(xs[d + 1]))
      BY <1>3, <1>4, <1>9
    <3> QED
      BY <1>3, <3>1 DEF OneOwner, Accounted
  <2>3. \A i \in DOMAIN st2 : st2[i].state # "ABORT"
    <3>1. \A i \in 1..d : MayCarry(xs[i].block, xs[d + 1].block)
      BY <1>3 DEF Shape
    <3>2. \A i \in 1..d : xs[i].block \notin FailedBlocks
      BY <3>1 DEF MayCarry, FailedBlocks, Open
    <3> QED
      BY <1>3, <1>4, <3>2 DEF Marks
  <2> QED
    BY <2>1, <2>2, <2>3 DEF Accounted
<1> QED
  BY <1>1, <1>5, <1>10, <1>11

(* AssignTransactionId gives the levels without an id, which are the topmost
   ones, the next ids in order. *)
LEMMA AssignFacts ==
    ASSUME NEW st \in Stack, NEW m \in 1..(Len(st) + 1),
           \A i \in DOMAIN st : st[i].xid = 0 <=> i >= m,
           nextXid \in Nat, nextXid + Cardinality(Unassigned(st)) <= MaxXid + 1
    PROVE  LET st2 == AssignTransactionId(st)
           IN  /\ Cardinality(Unassigned(st)) = Len(st) + 1 - m
               /\ st2 \in Stack /\ Len(st2) = Len(st)
               /\ \A i \in 1..Len(st) :
                     /\ st2[i].name = st[i].name /\ st2[i].block = st[i].block
                     /\ st2[i].state = st[i].state /\ st2[i].childXids = st[i].childXids
                     /\ st2[i].xid = IF i >= m THEN nextXid + (i - m) ELSE st[i].xid
<1>1. /\ DOMAIN st = 1..Len(st) /\ Len(st) \in Nat /\ m \in Nat /\ m >= 1
      /\ \A i \in 1..Len(st) : st[i] \in Level
  BY StackFacts
<1>2. Unassigned(st) = m..Len(st)
  BY <1>1 DEF Unassigned
<1>3. Cardinality(Unassigned(st)) = Len(st) + 1 - m
  <2>1. Cardinality(m..Len(st)) = IF m > Len(st) THEN 0 ELSE Len(st) - m + 1
    <3>1. m \in Int /\ Len(st) \in Int
      BY <1>1
    <3> QED
      BY <3>1, FS_Interval
  <2> QED
    BY <1>1, <1>2, <2>1
<1>4. ASSUME NEW i \in 1..Len(st), i >= m
      PROVE  /\ Cardinality({j \in Unassigned(st) : j < i}) = i - m
             /\ nextXid + (i - m) \in 0..MaxXid
  <2>1. {j \in Unassigned(st) : j < i} = m..(i - 1)
    BY <1>1, <1>2, <1>4
  <2>2. Cardinality(m..(i - 1)) = IF m > i - 1 THEN 0 ELSE (i - 1) - m + 1
    BY <1>1, FS_Interval
  <2>3. Cardinality({j \in Unassigned(st) : j < i}) = i - m
    <3>1. PICK c : c = Cardinality(m..(i - 1))
      OBVIOUS
    <3>2. c = i - m
      BY <1>1, <1>4, <2>2, <3>1
    <3> QED
      BY <2>1, <3>1, <3>2
  <2> QED
    BY <1>1, <1>3, <1>4, <2>3, XactAssumption
<1>5. PICK st2 : st2 = AssignTransactionId(st)
  OBVIOUS
<1>6. \A i \in 1..Len(st) :
          st2[i] = IF st[i].xid # 0 THEN st[i]
                   ELSE [st[i] EXCEPT !.xid = nextXid
                             + Cardinality({j \in Unassigned(st) : j < i})]
  BY <1>1, <1>5 DEF AssignTransactionId
<1>7. ASSUME NEW i \in 1..Len(st)
      PROVE  /\ st2[i] \in Level
             /\ st2[i].name = st[i].name /\ st2[i].block = st[i].block
             /\ st2[i].state = st[i].state /\ st2[i].childXids = st[i].childXids
             /\ st2[i].xid = IF i >= m THEN nextXid + (i - m) ELSE st[i].xid
  <2>1. CASE i >= m
    <3>1. PICK x : x = nextXid + (i - m)
      OBVIOUS
    <3>2. st2[i] = [st[i] EXCEPT !.xid = x] /\ x \in 0..MaxXid /\ st[i] \in Level
      BY <1>1, <1>4, <1>6, <2>1, <3>1
    <3> QED
      BY <2>1, <3>1, <3>2 DEF Level
  <2>2. CASE ~(i >= m)
    BY <1>1, <1>6, <2>2
  <2> QED
    BY <2>1, <2>2
<1>8. st2 \in [1..Len(st) -> Level]
  BY <1>1, <1>5, <1>7 DEF AssignTransactionId
<1>9. Len(st) \in 1..MaxDepth
  BY DEF Stack
<1>10. st2 \in Stack /\ Len(st2) = Len(st)
  BY <1>8, <1>9, MakeStack
<1> QED
  BY <1>3, <1>5, <1>7, <1>10

LEMMA AssignKeeps ==
    ASSUME NEW st \in Stack, nextXid \in Nat \ {0}, NEW k,
           k = nextXid + Cardinality(Unassigned(st)), k <= MaxXid + 1,
           Shape(st), Marks(st), Numbered(st, nextXid),
           \A i \in 1..Len(st) : st[i].state # "ABORT",
           Accounted(st, prepared, nextXid, pg_xact)
    PROVE  LET st2 == AssignTransactionId(st)
           IN  /\ st2 \in Stack /\ Len(st2) = Len(st)
               /\ k \in nextXid..(MaxXid + 1) /\ Cur(st2).xid \in 1..MaxXid
               /\ \A i \in 1..Len(st) : /\ st2[i].name = st[i].name
                                        /\ st2[i].block = st[i].block
               /\ Shape(st2) /\ Marks(st2) /\ Numbered(st2, k)
               /\ Accounted(st2, prepared, k, pg_xact)
<1>0. /\ DOMAIN st = 1..Len(st) /\ Len(st) \in Nat /\ Len(st) >= 1
      /\ \A i \in 1..Len(st) : st[i] \in Level
  BY StackFacts
<1>1. PICK m \in 1..(Len(st) + 1) : \A i \in DOMAIN st : st[i].xid = 0 <=> i >= m
  BY DEF Numbered
<1>2. PICK st2 : st2 = AssignTransactionId(st)
  OBVIOUS
<1>3. /\ k = nextXid + (Len(st) + 1 - m)
      /\ st2 \in Stack /\ Len(st2) = Len(st) /\ DOMAIN st2 = DOMAIN st
      /\ \A i \in 1..Len(st) :
            /\ st2[i].name = st[i].name /\ st2[i].block = st[i].block
            /\ st2[i].state = st[i].state /\ st2[i].childXids = st[i].childXids
            /\ st2[i].xid = IF i >= m THEN nextXid + (i - m) ELSE st[i].xid
  <2>1. nextXid \in Nat /\ nextXid + Cardinality(Unassigned(st)) <= MaxXid + 1
    OBVIOUS
  <2>2. /\ Cardinality(Unassigned(st)) = Len(st) + 1 - m
        /\ st2 \in Stack /\ Len(st2) = Len(st)
        /\ \A i \in 1..Len(st) :
              /\ st2[i].name = st[i].name /\ st2[i].block = st[i].block
              /\ st2[i].state = st[i].state /\ st2[i].childXids = st[i].childXids
              /\ st2[i].xid = IF i >= m THEN nextXid + (i - m) ELSE st[i].xid
    BY <1>1, <1>2, <2>1, AssignFacts
  <2>3. DOMAIN st2 = 1..Len(st2)
    BY <2>2, StackFacts
  <2> QED
    BY <1>0, <2>2, <2>3
<1>4. m \in Nat /\ m >= 1 /\ m <= Len(st) + 1 /\ k \in nextXid..(MaxXid + 1)
      /\ nextXid \in Nat /\ nextXid >= 1
  BY <1>0, <1>3, XactAssumption
<1>5. Shape(st2) /\ Marks(st2)
  <2>1. Shape(st2)
    BY <1>0, <1>3 DEF Shape
  <2> QED
    BY <1>0, <1>3, <2>1 DEF Marks
<1>6. \A i \in 1..Len(st) : i >= m => st[i].childXids = {}
  <2> SUFFICES ASSUME NEW i \in 1..Len(st), i >= m, NEW x \in st[i].childXids
               PROVE  FALSE
    OBVIOUS
  <2>1. st[i].xid = 0 /\ st[i].xid \in 1..(x - 1)
    BY <1>0, <1>1 DEF Numbered
  <2> QED
    BY <2>1
<1>7. \A i \in 1..Len(st) :
          XidsOf(st2[i]) = IF i >= m THEN {nextXid + (i - m)} ELSE XidsOf(st[i])
  <2> SUFFICES ASSUME NEW i \in 1..Len(st)
               PROVE  XidsOf(st2[i]) = IF i >= m THEN {nextXid + (i - m)} ELSE XidsOf(st[i])
    OBVIOUS
  <2>1. CASE i >= m
    <3>1. /\ st2[i].xid = nextXid + (i - m) /\ nextXid + (i - m) # 0
          /\ st2[i].childXids = {}
      BY <1>3, <1>4, <1>6, <2>1
    <3> QED
      BY <2>1, <3>1 DEF XidsOf
  <2>2. CASE ~(i >= m)
    <3>1. st2[i].xid = st[i].xid /\ st2[i].childXids = st[i].childXids
      BY <1>3, <2>2
    <3> QED
      BY <2>2, <3>1 DEF XidsOf
  <2> QED
    BY <2>1, <2>2
<1>8. \A i \in 1..Len(st) : Live(st2[i]) = XidsOf(st2[i]) /\ Live(st[i]) = XidsOf(st[i])
  BY <1>3 DEF Live
<1>9. Numbered(st2, k)
  <2>1. Len(st) + 1 \in 1..(Len(st2) + 1)
        /\ \A i \in DOMAIN st2 : st2[i].xid = 0 <=> i >= Len(st) + 1
    BY <1>0, <1>1, <1>3, <1>4
  <2>2. ASSUME NEW i \in DOMAIN st2
        PROVE  /\ i > 1 /\ st2[i].xid # 0 => st2[i - 1].xid \in 1..(st2[i].xid - 1)
               /\ \A x \in st2[i].childXids : st2[i].xid \in 1..(x - 1)
               /\ \A x \in XidsOf(st2[i]) : x < k
    <3>1. CASE i >= m
      <4>1. ASSUME i > 1 PROVE st2[i - 1].xid \in 1..(st2[i].xid - 1)
        <5>1. i - 1 \in 1..Len(st) /\ st[i - 1] \in Level
          BY <1>0, <1>3, <4>1
        <5>2. CASE i - 1 >= m
          BY <1>0, <1>3, <1>4, <3>1, <5>1, <5>2
        <5>3. CASE ~(i - 1 >= m)
          <6>1. st[i - 1].xid # 0 /\ st[i - 1].xid \in 0..MaxXid
            BY <1>0, <1>1, <5>1, <5>3 DEF Level
          <6>2. st[i - 1].xid < nextXid
            BY <1>0, <5>1, <6>1 DEF Numbered, XidsOf
          <6>3. st2[i - 1].xid = st[i - 1].xid /\ st2[i].xid = nextXid + (i - m)
            BY <1>0, <1>3, <3>1, <5>1, <5>3
          <6>4. PICK a : a = st[i - 1].xid /\ a \in Nat /\ a # 0 /\ a < nextXid
            BY <6>1, <6>2, XactAssumption
          <6>5. i - m \in Nat
            BY <1>0, <1>3, <1>4, <3>1
          <6>6. a \in 1..((nextXid + (i - m)) - 1)
            BY <1>4, <6>4, <6>5
          <6> QED
            BY ONLY <6>3, <6>4, <6>6, Zenon
        <5> QED
          BY <5>2, <5>3
      <4>2. st2[i].childXids = {}
        BY <1>0, <1>3, <1>6, <3>1
      <4>3. XidsOf(st2[i]) = {nextXid + (i - m)} /\ nextXid + (i - m) < k
        BY <1>0, <1>3, <1>4, <1>7, <3>1
      <4> QED
        BY <4>1, <4>2, <4>3
    <3>2. CASE ~(i >= m)
      <4>1. i > 1 => i - 1 \in 1..Len(st) /\ ~(i - 1 >= m)
        BY <1>0, <1>3, <1>4, <3>2
      <4>2. /\ i > 1 /\ st2[i].xid # 0 => st2[i - 1].xid \in 1..(st2[i].xid - 1)
            /\ \A x \in st2[i].childXids : st2[i].xid \in 1..(x - 1)
        BY <1>0, <1>3, <3>2, <4>1 DEF Numbered
      <4>3. XidsOf(st2[i]) = XidsOf(st[i]) /\ st[i] \in Level
        BY <1>0, <1>3, <1>7, <3>2
      <4>4. \A x \in XidsOf(st[i]) : x \in Nat /\ x < nextXid
        BY <1>0, <1>3, <4>3, XidsType, XactAssumption DEF Numbered
      <4> QED
        BY <1>4, <4>2, <4>3, <4>4
    <3> QED
      BY <3>1, <3>2
  <2> QED
    BY <2>1, <2>2 DEF Numbered
<1>10. Accounted(st2, prepared, k, pg_xact)
  <2>1. ASSUME NEW i \in 1..Len(st), NEW x \in Live(st2[i])
        PROVE  (i >= m /\ x = nextXid + (i - m)) \/ (~(i >= m) /\ x \in Live(st[i]))
    BY <1>7, <1>8
  <2>2. \A i \in 1..Len(st) : \A x \in Live(st[i]) : x \in Nat /\ x < nextXid
    BY <1>0, <1>8, XidsType, XactAssumption DEF Numbered
  <2>3. ASSUME NEW p \in prepared, NEW x \in p.xids, x \in 1..MaxXid
        PROVE  x < nextXid
    BY <2>3 DEF Accounted, Owned
  <2>4. OneOwner(st2, prepared)
    <3>1. ASSUME NEW i \in 1..Len(st), NEW j \in 1..Len(st), NEW x \in Live(st2[i]),
                 x \in Live(st2[j])
          PROVE  i = j
      <4>1. /\ i \in Nat /\ j \in Nat /\ i \in DOMAIN st /\ j \in DOMAIN st
            /\ (i >= m /\ x = nextXid + (i - m)) \/ (~(i >= m) /\ x \in Live(st[i]))
            /\ (j >= m /\ x = nextXid + (j - m)) \/ (~(j >= m) /\ x \in Live(st[j]))
        <5>1. i \in Nat /\ j \in Nat /\ i \in DOMAIN st /\ j \in DOMAIN st
          BY <1>0
        <5>2. (i >= m /\ x = nextXid + (i - m)) \/ (~(i >= m) /\ x \in Live(st[i]))
          BY <2>1, Zenon
        <5>3. (j >= m /\ x = nextXid + (j - m)) \/ (~(j >= m) /\ x \in Live(st[j]))
          BY <2>1, <3>1, Zenon
        <5> QED
          BY <5>1, <5>2, <5>3, Zenon
      <4>2. CASE x >= nextXid
        <5>1. ~(x \in Live(st[i])) /\ ~(x \in Live(st[j]))
          BY <1>4, <2>2, <4>2
        <5> QED
          BY <1>4, <4>1, <5>1
      <4>3. CASE ~(x >= nextXid)
        <5>1. x \in Live(st[i]) /\ x \in Live(st[j])
          BY <1>4, <4>1, <4>3
        <5> QED
          BY <4>1, <5>1 DEF Accounted, OneOwner
      <4> QED
        BY <4>2, <4>3
    <3>2. ASSUME NEW i \in 1..Len(st), NEW p \in prepared, NEW x \in Live(st2[i])
          PROVE  x \notin p.xids
      <4>1. x \in 1..MaxXid
        BY <1>0, <1>3, StackFacts, XidsType
      <4> QED
        BY <1>0, <1>4, <2>1, <2>3, <3>2, <4>1 DEF Accounted, OneOwner
    <3> QED
      BY <1>0, <1>3, <3>1, <3>2 DEF Accounted, OneOwner
  <2>5. ASSUME NEW x \in 1..MaxXid, x < k, x >= nextXid
        PROVE  x \in Owned(st2, prepared)
    <3>1. x - nextXid + m \in 1..Len(st) /\ x - nextXid + m >= m
      BY <1>3, <1>4, <2>5, XactAssumption
    <3>2. x \in Live(st2[x - nextXid + m])
      <4>1. nextXid + ((x - nextXid + m) - m) = x
        BY <1>4, XactAssumption
      <4> QED
        BY <1>7, <1>8, <3>1, <4>1
    <3> QED
      BY <1>0, <1>3, <3>1, <3>2 DEF Owned
  <2>6. ASSUME NEW x \in 1..MaxXid, x < nextXid
        PROVE  x \in Owned(st2, prepared) <=> x \in Owned(st, prepared)
    <3>1. ASSUME NEW i \in 1..Len(st) PROVE x \in Live(st2[i]) <=> x \in Live(st[i])
      <4>1. CASE i >= m
        <5>1. XidsOf(st[i]) = {} /\ XidsOf(st2[i]) = {nextXid + (i - m)}
          BY <1>0, <1>1, <1>7, <4>1 DEF XidsOf
        <5> QED
          BY <1>0, <1>4, <1>8, <2>6, <4>1, <5>1
      <4>2. CASE ~(i >= m)
        BY <1>7, <1>8, <4>2
      <4> QED
        BY <4>1, <4>2
    <3> QED
      BY <1>0, <1>3, <3>1 DEF Owned
  <2>7. ASSUME NEW x \in 1..MaxXid, x >= k
        PROVE  x \notin Owned(st2, prepared)
    <3>1. ASSUME NEW i \in 1..Len(st) PROVE x \notin Live(st2[i])
      BY <1>0, <1>3, <1>4, <2>1, <2>2, <2>7, XactAssumption
    <3>2. \A p \in prepared : x \notin p.xids
      BY <1>4, <2>3, <2>7, XactAssumption
    <3> QED
      BY <1>0, <1>3, <3>1, <3>2 DEF Owned
  <2>8. ASSUME NEW x \in 1..MaxXid
        PROVE  /\ x \in Owned(st2, prepared) <=> x < k /\ pg_xact[x] = "running"
               /\ x >= k => pg_xact[x] = "running"
    <3>1. x \in Nat /\ nextXid \in Nat /\ k \in Nat /\ nextXid <= k
      BY <1>4, XactAssumption
    <3>2. CASE x < nextXid
      BY <2>6, <3>1, <3>2 DEF Accounted
    <3>3. CASE x >= nextXid /\ x < k
      BY <2>5, <3>1, <3>3 DEF Accounted
    <3>4. CASE x >= k
      BY <2>7, <3>1, <3>4 DEF Accounted
    <3> QED
      BY <3>1, <3>2, <3>3, <3>4
  <2> QED
    <3>1. \A i \in DOMAIN st2 : st2[i].state # "ABORT"
      BY <1>0, <1>3
    <3> QED
      BY <2>4, <2>8, <3>1 DEF Accounted
<1>11. Cur(st2).xid \in 1..MaxXid
  <2>1. Len(st) \in 1..Len(st) /\ st2[Len(st)] \in Level /\ Cur(st2) = st2[Len(st)]
    BY <1>0, <1>3, StackFacts
  <2>2. st2[Len(st)].xid # 0
    BY <1>0, <1>1, <1>3, <1>4, <2>1
  <2> QED
    BY <2>1, <2>2, XactAssumption DEF Level
<1> QED
  BY <1>2, <1>3, <1>4, <1>5, <1>9, <1>10, <1>11

----------------------------------------------------------------------------
(* The functions that mark the stack. *)

(* The blocks between two statements, and between two commands. *)
Plain == {"STARTED", "IMPLICIT_INPROGRESS", "INPROGRESS", "SUBINPROGRESS",
          "ABORT", "SUBABORT"}
Quiet == {"DEFAULT", "INPROGRESS", "SUBINPROGRESS", "ABORT", "SUBABORT"}

LEMMA TopIsAlone ==
    ASSUME NEW st \in Stack, Shape(st), Cur(st).block \notin SubBlocks
    PROVE  Len(st) = 1 /\ Cur(st) = st[1] /\ Cur(st).block \in TopBlocks
<1>1. /\ Len(st) \in DOMAIN st /\ Len(st) >= 1 /\ Len(st) \in Nat
      /\ Cur(st) = st[Len(st)]
  BY StackFacts
<1>2. st[Len(st)].block \in IF Len(st) = 1 THEN TopBlocks ELSE SubBlocks
  BY <1>1 DEF Shape
<1> QED
  BY <1>1, <1>2

LEMMA SubIsAbove ==
    ASSUME NEW st \in Stack, Shape(st), Cur(st).block \notin TopBlocks
    PROVE  Len(st) > 1 /\ Cur(st).block \in SubBlocks
BY StackFacts DEF Shape

LEMMA LowerLevels ==
    ASSUME NEW st \in Stack, Shape(st), Cur(st).block \in Plain \cup Quiet
    PROVE  \A i \in 1..(Len(st) - 1) :
               st[i].block = IF i = 1 THEN "INPROGRESS" ELSE "SUBINPROGRESS"
<1> SUFFICES ASSUME NEW i \in 1..(Len(st) - 1)
             PROVE  st[i].block = IF i = 1 THEN "INPROGRESS" ELSE "SUBINPROGRESS"
  OBVIOUS
<1>1. i \in DOMAIN st /\ Len(st) \in DOMAIN st /\ i < Len(st) /\ Cur(st) = st[Len(st)]
  BY StackFacts
<1>2. MayCarry(st[i].block, Cur(st).block)
  BY <1>1 DEF Shape
<1>3. st[i].block \in Open
  BY <1>2 DEF MayCarry, Plain, Quiet, Open
<1> QED
  BY <1>1, <1>3 DEF Shape, Open, TopBlocks, SubBlocks

LEMMA WithBlockKeeps ==
    ASSUME NEW st \in Stack, Shape(st), Marks(st), Len(st) = 1,
           st[1].block \notin FailedBlocks, NEW b \in TopBlocks \ FailedBlocks
    PROVE  LET st2 == WithBlock(st, b)
           IN  /\ Remarked(st, st2) /\ Cur(st2).block = b
               /\ Shape(st2) /\ Marks(st2)
<1>1. DOMAIN st = 1..1 /\ st[1] \in Level
  BY StackFacts
<1>2. PICK l : l = [st[1] EXCEPT !.block = b]
  OBVIOUS
<1>3. /\ l \in Level /\ l.block = b /\ l.name = st[1].name /\ l.state = st[1].state
      /\ l.xid = st[1].xid /\ l.childXids = st[1].childXids
  BY <1>1, <1>2, LevelWithBlock DEF Blocks
<1>4. PICK st2 : st2 = WithBlock(st, b)
  OBVIOUS
<1>5. st2 \in [1..1 -> Level] /\ st2[1] = l
  <2>1. st2 = [st EXCEPT ![1] = l]
    BY <1>2, <1>4 DEF WithBlock
  <2> QED
    BY <1>1, <1>3, <2>1, StackFacts
<1>6. 1 \in 1..MaxDepth
  BY XactAssumption
<1>7. st2 \in Stack /\ Len(st2) = 1 /\ DOMAIN st2 = 1..1
  BY <1>5, <1>6, MakeStack
<1>8. Remarked(st, st2) /\ Cur(st2).block = b
  BY <1>3, <1>5, <1>7 DEF Remarked, Cur
<1>9. Shape(st2) /\ Marks(st2)
  BY <1>1, <1>3, <1>5, <1>7 DEF Shape, Marks
<1> QED
  BY <1>4, <1>8, <1>9

LEMMA AbortMarks ==
    /\ \A b \in Blocks : AbortMark(b) \in Blocks
    /\ AbortMark("INPROGRESS") = "ABORT_PENDING"
    /\ AbortMark("STARTED") = "ABORT_PENDING"
    /\ AbortMark("IMPLICIT_INPROGRESS") = "ABORT_PENDING"
    /\ AbortMark("ABORT") = "ABORT_END"
    /\ AbortMark("SUBINPROGRESS") = "SUBABORT_PENDING"
    /\ AbortMark("SUBABORT") = "SUBABORT_END"
BY DEF AbortMark, Blocks, TopBlocks, SubBlocks

(* ROLLBACK marks every level as one to be given up. *)
LEMMA UserAbortKeeps ==
    ASSUME NEW st \in Stack, Shape(st), Marks(st), Cur(st).block \in Plain
    PROVE  LET st2 == UserAbortTransactionBlock(st)
           IN  /\ Remarked(st, st2) /\ Shape(st2) /\ Marks(st2)
               /\ \A i \in 1..Len(st) : st2[i].block = AbortMark(st[i].block)
               /\ Cur(st2).block \in {"ABORT_PENDING", "ABORT_END",
                                      "SUBABORT_PENDING", "SUBABORT_END"}
<1>1. /\ DOMAIN st = 1..Len(st) /\ Len(st) \in Nat /\ Len(st) >= 1
      /\ Cur(st) = st[Len(st)] /\ \A i \in 1..Len(st) : st[i] \in Level
  BY StackFacts
<1>2. PICK st2 : st2 = UserAbortTransactionBlock(st)
  OBVIOUS
<1>3. \A i \in 1..Len(st) : st2[i] = [st[i] EXCEPT !.block = AbortMark(st[i].block)]
  BY <1>1, <1>2 DEF UserAbortTransactionBlock
<1>4. ASSUME NEW i \in 1..Len(st)
      PROVE  /\ st2[i] \in Level /\ st2[i].block = AbortMark(st[i].block)
             /\ st2[i].name = st[i].name /\ st2[i].state = st[i].state
             /\ st2[i].xid = st[i].xid /\ st2[i].childXids = st[i].childXids
  <2>1. st[i] \in Level /\ AbortMark(st[i].block) \in Blocks
    BY <1>1, AbortMarks DEF Level, Blocks
  <2>2. PICK b \in Blocks : b = AbortMark(st[i].block)
    BY <2>1
  <2>3. st2[i] = [st[i] EXCEPT !.block = b]
    BY <1>3, <2>2
  <2> QED
    BY <2>1, <2>2, <2>3, LevelWithBlock
<1>5. st2 \in [1..Len(st) -> Level]
  BY <1>1, <1>2, <1>4 DEF UserAbortTransactionBlock
<1>6. Remarked(st, st2) /\ \A i \in 1..Len(st) : st2[i].block = AbortMark(st[i].block)
  BY <1>4, <1>5, MarkFacts
<1>7. st2 \in Stack /\ Len(st2) = Len(st) /\ DOMAIN st2 = 1..Len(st)
      /\ Cur(st2) = st2[Len(st)]
  BY <1>6, StackFacts DEF Remarked
<1>8. ASSUME NEW i \in 1..Len(st), i < Len(st)
      PROVE  st2[i].block = IF i = 1 THEN "ABORT_PENDING" ELSE "SUBABORT_PENDING"
  <2>1. st[i].block = IF i = 1 THEN "INPROGRESS" ELSE "SUBINPROGRESS"
    BY <1>1, <1>8, LowerLevels
  <2> QED
    BY <1>6, <2>1, AbortMarks
<1>9. \/ Cur(st2).block \in {"ABORT_PENDING", "ABORT_END"} /\ Len(st) = 1
      \/ Cur(st2).block \in {"SUBABORT_PENDING", "SUBABORT_END"} /\ Len(st) > 1
  <2>1. CASE Cur(st).block \in {"SUBINPROGRESS", "SUBABORT"}
    <3>1. Len(st) > 1
      BY <2>1, SubIsAbove DEF TopBlocks
    <3> QED
      BY <1>1, <1>6, <1>7, <2>1, <3>1, AbortMarks
  <2>2. CASE Cur(st).block \notin {"SUBINPROGRESS", "SUBABORT"}
    <3>1. Len(st) = 1
      BY <2>2, TopIsAlone DEF SubBlocks, Plain
    <3> QED
      BY <1>1, <1>6, <1>7, <2>2, <3>1, AbortMarks DEF Plain
  <2> QED
    BY <2>1, <2>2
<1>10. Shape(st2)
  <2>1. ASSUME NEW i \in DOMAIN st2
        PROVE  st2[i].block \in IF i = 1 THEN TopBlocks ELSE SubBlocks
    <3>1. CASE i < Len(st)
      BY <1>7, <1>8, <3>1 DEF TopBlocks, SubBlocks
    <3>2. CASE i = Len(st)
      BY <1>7, <1>9, <3>2 DEF TopBlocks, SubBlocks
    <3> QED
      BY <1>1, <1>7, <3>1, <3>2
  <2>2. ASSUME NEW i \in DOMAIN st2, NEW j \in DOMAIN st2, i < j
        PROVE  MayCarry(st2[i].block, st2[j].block)
    <3>1. st2[i].block \in {"ABORT_PENDING", "SUBABORT_PENDING"}
      BY <1>1, <1>7, <1>8, <2>2
    <3>2. st2[j].block \in {"SUBABORT_PENDING", "SUBABORT_END"}
      BY <1>1, <1>7, <1>8, <1>9, <2>2
    <3> QED
      BY <3>1, <3>2 DEF MayCarry
  <2> QED
    BY <2>1, <2>2 DEF Shape
<1>11. Marks(st2)
  <2>1. \A i \in 1..Len(st) : st[i].block \in Plain
    BY <1>1, LowerLevels DEF Plain
  <2>2. \A b \in Plain : AbortMark(b) \in FailedBlocks <=> b \in FailedBlocks
    BY AbortMarks DEF Plain, FailedBlocks
  <2> QED
    BY <1>1, <1>6, <1>7, <2>1, <2>2 DEF Marks, Remarked
<1> QED
  BY <1>2, <1>6, <1>9, <1>10, <1>11

(* COMMIT marks every level as one to be committed, or given up if the
   current one has failed. *)
LEMMA EndKeeps ==
    ASSUME NEW st \in Stack, Shape(st), Marks(st), Cur(st).block \in Plain
    PROVE  LET st2 == EndTransactionBlock(st)
           IN  /\ Remarked(st, st2) /\ Shape(st2) /\ Marks(st2)
               /\ \/ Cur(st).block = "STARTED" /\ st2 = st
                  \/ /\ Cur(st).block \in {"ABORT", "SUBABORT"}
                     /\ st2 = UserAbortTransactionBlock(st)
                     /\ Cur(st2).block \in {"ABORT_END", "SUBABORT_END"}
                  \/ /\ Cur(st).block \in {"IMPLICIT_INPROGRESS"} \cup Open
                     /\ \A i \in 1..Len(st) :
                            st2[i].block = IF i = 1 THEN "END" ELSE "SUBCOMMIT"
<1>1. /\ DOMAIN st = 1..Len(st) /\ Len(st) \in Nat /\ Len(st) >= 1
      /\ Cur(st) = st[Len(st)] /\ \A i \in 1..Len(st) : st[i] \in Level
  BY StackFacts
<1>2. PICK st2 : st2 = EndTransactionBlock(st)
  OBVIOUS
<1>3. CASE Cur(st).block = "STARTED"
  <2>1. st2 = st
    BY <1>2, <1>3 DEF EndTransactionBlock, IsAbortedTransactionBlockState
  <2>2. Remarked(st, st)
    BY DEF Remarked
  <2> QED
    BY <1>2, <1>3, <2>1, <2>2
<1>4. CASE Cur(st).block \in {"ABORT", "SUBABORT"}
  <2>1. st2 = UserAbortTransactionBlock(st)
    BY <1>2, <1>4 DEF EndTransactionBlock, IsAbortedTransactionBlockState
  <2>2. /\ Remarked(st, st2) /\ Shape(st2) /\ Marks(st2)
        /\ st2[Len(st)].block = AbortMark(Cur(st).block)
    BY <1>1, <2>1, UserAbortKeeps
  <2>3. Cur(st2) = st2[Len(st)]
    BY <2>2 DEF Remarked, Cur
  <2> QED
    BY <1>2, <1>4, <2>1, <2>2, <2>3, AbortMarks
<1>5. CASE Cur(st).block \in {"IMPLICIT_INPROGRESS"} \cup Open
  <2>1. st2 = [i \in DOMAIN st |->
                  [st[i] EXCEPT !.block = IF i = 1 THEN "END" ELSE "SUBCOMMIT"]]
    BY <1>2, <1>5 DEF EndTransactionBlock, IsAbortedTransactionBlockState, Open
  <2>2. ASSUME NEW i \in 1..Len(st)
        PROVE  /\ st2[i] \in Level
               /\ st2[i].block = IF i = 1 THEN "END" ELSE "SUBCOMMIT"
               /\ st2[i].name = st[i].name /\ st2[i].state = st[i].state
               /\ st2[i].xid = st[i].xid /\ st2[i].childXids = st[i].childXids
    <3>1. PICK b \in Blocks : b = IF i = 1 THEN "END" ELSE "SUBCOMMIT"
      BY DEF Blocks, TopBlocks, SubBlocks
    <3>2. st2[i] = [st[i] EXCEPT !.block = b] /\ st[i] \in Level
      BY <1>1, <2>1, <3>1
    <3> QED
      BY <3>1, <3>2, LevelWithBlock
  <2>3. st2 \in [1..Len(st) -> Level]
    BY <1>1, <2>1, <2>2
  <2>4. Remarked(st, st2)
    BY <2>2, <2>3, MarkFacts
  <2>5. \A i \in 1..Len(st) : st2[i].block = IF i = 1 THEN "END" ELSE "SUBCOMMIT"
    BY <2>2
  <2>6. st2 \in Stack /\ DOMAIN st2 = 1..Len(st)
    BY <2>4, StackFacts DEF Remarked
  <2>7. Shape(st2)
    BY <1>1, <2>5, <2>6 DEF Shape, MayCarry, TopBlocks, SubBlocks
  <2>8. \A i \in 1..Len(st) : st[i].block \in {"IMPLICIT_INPROGRESS"} \cup Open
    BY <1>1, <1>5, LowerLevels DEF Open
  <2>9. Marks(st2)
    BY <1>1, <2>4, <2>5, <2>6, <2>8 DEF Marks, Remarked, FailedBlocks, Open
  <2> QED
    BY <1>2, <1>5, <2>4, <2>5, <2>7, <2>9
<1> QED
  BY <1>3, <1>4, <1>5 DEF Plain, Open

LEMMA PrepareKeeps ==
    ASSUME NEW st \in Stack, Shape(st), Marks(st), Cur(st).block \in Plain
    PROVE  LET st2 == PrepareTransactionBlock(st)
           IN  /\ Remarked(st, st2) /\ Shape(st2) /\ Marks(st2)
               /\ \/ Cur(st).block = "STARTED" /\ st2 = st
                  \/ /\ Cur(st).block \in {"ABORT", "SUBABORT"}
                     /\ st2 = UserAbortTransactionBlock(st)
                     /\ Cur(st2).block \in {"ABORT_END", "SUBABORT_END"}
                  \/ /\ Cur(st).block \in {"IMPLICIT_INPROGRESS"} \cup Open
                     /\ \A i \in 1..Len(st) :
                            st2[i].block = IF i = 1 THEN "PREPARE" ELSE "SUBCOMMIT"
<1>1. PICK e : e = EndTransactionBlock(st)
  OBVIOUS
<1>2. /\ Remarked(st, e) /\ Shape(e) /\ Marks(e)
      /\ \/ Cur(st).block = "STARTED" /\ e = st
         \/ /\ Cur(st).block \in {"ABORT", "SUBABORT"}
            /\ e = UserAbortTransactionBlock(st)
            /\ Cur(e).block \in {"ABORT_END", "SUBABORT_END"}
         \/ /\ Cur(st).block \in {"IMPLICIT_INPROGRESS"} \cup Open
            /\ \A i \in 1..Len(st) :
                   e[i].block = IF i = 1 THEN "END" ELSE "SUBCOMMIT"
  BY <1>1, EndKeeps
<1>3. PICK st2 : st2 = PrepareTransactionBlock(st)
  OBVIOUS
<1>4. st2 = IF e[1].block = "END" THEN [e EXCEPT ![1].block = "PREPARE"] ELSE e
  BY <1>1, <1>3 DEF PrepareTransactionBlock
<1>5. /\ e \in Stack /\ Len(e) = Len(st) /\ DOMAIN e = 1..Len(st) /\ Len(st) \in Nat
      /\ Len(st) >= 1 /\ \A i \in 1..Len(st) : e[i] \in Level
  BY <1>2, StackFacts DEF Remarked
<1>6. CASE e[1].block # "END"
  <2>1. st2 = e
    BY <1>4, <1>6
  <2> QED
    BY <1>2, <1>3, <1>5, <1>6, <2>1
<1>7. CASE e[1].block = "END"
  <2>1. /\ Cur(st).block \in {"IMPLICIT_INPROGRESS"} \cup Open
        /\ \A i \in 1..Len(st) : e[i].block = IF i = 1 THEN "END" ELSE "SUBCOMMIT"
    <3>1. ~(Cur(st).block = "STARTED" /\ e = st)
      <4>1. st[1].block = "END" /\ Cur(st).block = "STARTED" => FALSE
        BY TopIsAlone DEF SubBlocks
      <4> QED
        BY <1>7, <4>1
    <3>2. ~(Cur(e).block \in {"ABORT_END", "SUBABORT_END"})
      BY <1>2, <1>5, <1>7 DEF Shape, MayCarry, Cur, Open
    <3> QED
      BY <1>2, <3>1, <3>2
  <2>2. PICK l : l = [e[1] EXCEPT !.block = "PREPARE"]
    OBVIOUS
  <2>3. /\ l \in Level /\ l.block = "PREPARE" /\ l.name = e[1].name
        /\ l.state = e[1].state /\ l.xid = e[1].xid /\ l.childXids = e[1].childXids
    <3>1. "PREPARE" \in Blocks /\ e[1] \in Level
      BY <1>5 DEF Blocks, TopBlocks
    <3> QED
      BY <2>2, <3>1, LevelWithBlock
  <2>4. st2 = [e EXCEPT ![1] = l]
    BY <1>4, <1>7, <2>2
  <2>5. e \in [1..Len(st) -> Level]
    BY <1>5, StackFacts
  <2>6. /\ st2 \in [1..Len(st) -> Level] /\ st2[1] = l
        /\ \A i \in 1..Len(st) : i # 1 => st2[i] = e[i]
    BY <1>5, <2>3, <2>4, <2>5
  <2>7. Remarked(st, st2) /\ DOMAIN st2 = 1..Len(st)
    <3>1. \A i \in 1..Len(st) : /\ st2[i].name = st[i].name
                                /\ st2[i].state = "ABORT" <=> st[i].state = "ABORT"
                                /\ st2[i].xid = st[i].xid
                                /\ st2[i].childXids = st[i].childXids
      BY <1>2, <1>5, <2>3, <2>6 DEF Remarked
    <3> QED
      BY <2>6, <3>1, MarkFacts
  <2>8. \A i \in 1..Len(st) : st2[i].block = IF i = 1 THEN "PREPARE" ELSE "SUBCOMMIT"
    BY <2>1, <2>3, <2>6
  <2>9. Shape(st2)
    BY <1>5, <2>7, <2>8 DEF Shape, MayCarry, TopBlocks, SubBlocks
  <2>10. Marks(st2)
    <3>1. \A i \in 1..Len(st) : st2[i].state = e[i].state
      BY <1>5, <2>3, <2>6
    <3> QED
      BY <1>2, <1>5, <2>1, <2>7, <2>8, <3>1 DEF Marks, FailedBlocks
  <2> QED
    BY <1>3, <2>1, <2>7, <2>8, <2>9, <2>10
<1> QED
  BY <1>6, <1>7

(* The savepoint a statement names is the latest one with that name. *)
LEMMA TargetFacts ==
    ASSUME NEW st \in Stack, NEW n, Targets(st, n) # {}
    PROVE  /\ Target(st, n) \in 2..Len(st) /\ st[Target(st, n)].name = n
           /\ \A j \in 2..Len(st) : st[j].name = n => j <= Target(st, n)
<1>1. Len(st) \in Nat /\ Targets(st, n) \subseteq 0..Len(st)
  BY StackFacts DEF Targets
<1>2. \E i \in Targets(st, n) : \A j \in Targets(st, n) : j <= i
  BY <1>1, GreatestElement
<1>3. /\ Target(st, n) \in Targets(st, n)
      /\ \A j \in Targets(st, n) : j <= Target(st, n)
  BY <1>2 DEF Target
<1> QED
  BY <1>3 DEF Targets

(* RELEASE marks the levels from its target upwards. *)
LEMMA ReleaseKeeps ==
    ASSUME NEW st \in Stack, Shape(st), Marks(st), NEW n, Targets(st, n) # {},
           Cur(st).block \in Plain, Cur(st).block \notin {"ABORT", "SUBABORT"}
    PROVE  LET st2 == ReleaseSavepoint(st, n)
           IN  /\ Remarked(st, st2) /\ Shape(st2) /\ Marks(st2)
               /\ \A i \in 1..Len(st) :
                     st2[i].block = IF i >= Target(st, n) THEN "SUBRELEASE"
                                    ELSE st[i].block
<1>1. /\ DOMAIN st = 1..Len(st) /\ Len(st) \in Nat /\ Len(st) >= 1
      /\ Cur(st) = st[Len(st)] /\ \A i \in 1..Len(st) : st[i] \in Level
  BY StackFacts
<1>2. PICK t \in 2..Len(st) : t = Target(st, n)
  BY TargetFacts
<1>3. PICK st2 : st2 = ReleaseSavepoint(st, n)
  OBVIOUS
<1>4. ASSUME NEW i \in 1..Len(st)
      PROVE  /\ st2[i] \in Level
             /\ st2[i].block = IF i >= t THEN "SUBRELEASE" ELSE st[i].block
             /\ st2[i].name = st[i].name /\ st2[i].state = st[i].state
             /\ st2[i].xid = st[i].xid /\ st2[i].childXids = st[i].childXids
  <2>1. st[i] \in Level /\ "SUBRELEASE" \in Blocks
    BY <1>1 DEF Blocks, SubBlocks
  <2>2. st2[i] = IF i >= t THEN [st[i] EXCEPT !.block = "SUBRELEASE"] ELSE st[i]
    BY <1>1, <1>2, <1>3 DEF ReleaseSavepoint
  <2> QED
    BY <2>1, <2>2, LevelWithBlock
<1>5. st2 \in [1..Len(st) -> Level]
  BY <1>1, <1>3, <1>4 DEF ReleaseSavepoint
<1>6. Remarked(st, st2)
  BY <1>4, <1>5, MarkFacts
<1>7. \A i \in 1..Len(st) : st[i].block \in Open
  <2>1. Cur(st).block \in Open
    <3>1. Len(st) # 1
      BY <1>1, <1>2
    <3> QED
      BY <3>1, TopIsAlone DEF Plain, SubBlocks, Open
  <2> QED
    BY <1>1, <2>1, LowerLevels DEF Open
<1>8. Shape(st2)
  <2>1. DOMAIN st2 = 1..Len(st)
    BY <1>5
  <2>2. \A i \in DOMAIN st2 : st2[i].block \in IF i = 1 THEN TopBlocks ELSE SubBlocks
    BY <1>1, <1>2, <1>4, <2>1 DEF Shape, SubBlocks
  <2>3. ASSUME NEW i \in DOMAIN st2, NEW j \in DOMAIN st2, i < j
        PROVE  MayCarry(st2[i].block, st2[j].block)
    <3>1. CASE j >= t
      BY <1>4, <1>7, <2>1, <3>1 DEF MayCarry
    <3>2. CASE ~(j >= t)
      <4>1. st2[i].block = st[i].block /\ st2[j].block = st[j].block
        BY <1>1, <1>2, <1>4, <2>1, <2>3, <3>2
      <4> QED
        BY <1>1, <2>1, <2>3, <4>1 DEF Shape
    <3> QED
      BY <3>1, <3>2
  <2> QED
    BY <2>2, <2>3 DEF Shape
<1>9. Marks(st2)
  BY <1>1, <1>4, <1>5, <1>7 DEF Marks, FailedBlocks, Open
<1> QED
  BY <1>2, <1>3, <1>4, <1>6, <1>8, <1>9

(* ROLLBACK TO marks its target as one to start again and the levels above
   it as ones to give up. *)
LEMMA RollbackToKeeps ==
    ASSUME NEW st \in Stack, Shape(st), Marks(st), NEW n, Targets(st, n) # {},
           Cur(st).block \in Plain
    PROVE  LET st2 == RollbackToSavepoint(st, n)
               t == Target(st, n)
           IN  /\ Remarked(st, st2) /\ Shape(st2) /\ Marks(st2)
               /\ \A i \in 1..Len(st) :
                     st2[i].block = CASE i < t -> st[i].block
                                      [] i = t -> RestartMark(st[i].block)
                                      [] OTHER -> AbortMark(st[i].block)
               /\ Cur(st2).block \in {"SUBRESTART", "SUBABORT_RESTART",
                                      "SUBABORT_PENDING", "SUBABORT_END"}
<1>1. /\ DOMAIN st = 1..Len(st) /\ Len(st) \in Nat /\ Len(st) >= 1
      /\ Cur(st) = st[Len(st)] /\ \A i \in 1..Len(st) : st[i] \in Level
  BY StackFacts
<1>2. PICK t \in 2..Len(st) : t = Target(st, n)
  BY TargetFacts
<1>3. PICK st2 : st2 = RollbackToSavepoint(st, n)
  OBVIOUS
<1>4. \A b \in Blocks : RestartMark(b) \in Blocks
  BY DEF RestartMark, Blocks, SubBlocks
<1>5. ASSUME NEW i \in 1..Len(st)
      PROVE  /\ st2[i] \in Level
             /\ i < t => st2[i].block = st[i].block
             /\ i = t => st2[i].block = RestartMark(st[i].block)
             /\ i > t => st2[i].block = AbortMark(st[i].block)
             /\ st2[i].name = st[i].name /\ st2[i].state = st[i].state
             /\ st2[i].xid = st[i].xid /\ st2[i].childXids = st[i].childXids
  <2>1. st[i] \in Level /\ st[i].block \in Blocks
    BY <1>1 DEF Level, Blocks
  <2>2. st2[i] = CASE i < t -> st[i]
                   [] i = t -> [st[i] EXCEPT !.block = RestartMark(st[i].block)]
                   [] OTHER -> [st[i] EXCEPT !.block = AbortMark(st[i].block)]
    BY <1>1, <1>2, <1>3 DEF RollbackToSavepoint
  <2>3. CASE i < t
    <3>1. st2[i] = st[i]
      BY <2>2, <2>3
    <3> QED
      BY <2>1, <2>3, <3>1
  <2>4. CASE i = t
    <3>1. PICK b \in Blocks : b = RestartMark(st[i].block)
      BY <1>4, <2>1
    <3>2. st2[i] = [st[i] EXCEPT !.block = b]
      BY <2>2, <2>4, <3>1
    <3> QED
      BY <2>1, <2>4, <3>1, <3>2, LevelWithBlock
  <2>5. CASE i > t
    <3>1. PICK b \in Blocks : b = AbortMark(st[i].block)
      BY <2>1, AbortMarks
    <3>2. st2[i] = [st[i] EXCEPT !.block = b]
      BY <2>2, <2>5, <3>1
    <3> QED
      BY <2>1, <2>5, <3>1, <3>2, LevelWithBlock
  <2> QED
    BY <1>1, <1>2, <2>3, <2>4, <2>5
<1>6. st2 \in [1..Len(st) -> Level]
  BY <1>1, <1>3, <1>5 DEF RollbackToSavepoint
<1>7. Remarked(st, st2)
  BY <1>5, <1>6, MarkFacts
<1>8. /\ \A i \in 1..Len(st) : i < Len(st) =>
             st[i].block = IF i = 1 THEN "INPROGRESS" ELSE "SUBINPROGRESS"
      /\ st[Len(st)].block \in {"SUBINPROGRESS", "SUBABORT"}
  <2>1. Len(st) # 1
    BY <1>1, <1>2
  <2> QED
    BY <1>1, <2>1, LowerLevels, TopIsAlone DEF Plain, SubBlocks
<1>9. ASSUME NEW i \in 1..Len(st)
      PROVE  /\ i < t => st2[i].block = IF i = 1 THEN "INPROGRESS" ELSE "SUBINPROGRESS"
             /\ i = t => st2[i].block \in {"SUBRESTART", "SUBABORT_RESTART"}
             /\ i = t /\ i < Len(st) => st2[i].block = "SUBRESTART"
             /\ i > t => st2[i].block \in {"SUBABORT_PENDING", "SUBABORT_END"}
             /\ i > t /\ i < Len(st) => st2[i].block = "SUBABORT_PENDING"
             /\ st2[i].block \in FailedBlocks <=> st[i].block \in FailedBlocks
  <2>1. CASE i < t
    BY <1>1, <1>2, <1>5, <1>8, <2>1
  <2>2. CASE i = t
    <3>1. st[i].block = "SUBINPROGRESS" \/ (st[i].block = "SUBABORT" /\ i = Len(st))
      BY <1>1, <1>2, <1>8, <2>2
    <3> QED
      BY <1>1, <1>2, <1>5, <2>2, <3>1 DEF RestartMark, FailedBlocks
  <2>3. CASE i > t
    <3>1. st[i].block = "SUBINPROGRESS" \/ (st[i].block = "SUBABORT" /\ i = Len(st))
      BY <1>1, <1>2, <1>8, <2>3
    <3>2. st2[i].block = AbortMark(st[i].block) /\ ~(i < t) /\ i # t
      BY <1>1, <1>2, <1>5, <2>3
    <3>3. CASE st[i].block = "SUBINPROGRESS"
      BY <3>2, <3>3, AbortMarks DEF FailedBlocks
    <3>4. CASE st[i].block = "SUBABORT" /\ i = Len(st)
      <4>1. ~(i < Len(st))
        BY <1>1, <3>4
      <4>2. st2[i].block = "SUBABORT_END"
        BY <3>2, <3>4, AbortMarks
      <4> QED
        BY <3>2, <3>4, <4>1, <4>2 DEF FailedBlocks
    <3> QED
      BY <3>1, <3>3, <3>4
  <2> QED
    BY <1>1, <1>2, <2>1, <2>2, <2>3
<1>10. Shape(st2)
  <2>1. DOMAIN st2 = 1..Len(st)
    BY <1>6
  <2>2. ASSUME NEW i \in DOMAIN st2
        PROVE  st2[i].block \in IF i = 1 THEN TopBlocks ELSE SubBlocks
    BY <1>1, <1>2, <1>9, <2>1 DEF TopBlocks, SubBlocks
  <2>3. ASSUME NEW i \in DOMAIN st2, NEW j \in DOMAIN st2, i < j
        PROVE  MayCarry(st2[i].block, st2[j].block)
    <3>1. i \in 1..Len(st) /\ j \in 1..Len(st) /\ i < Len(st)
      BY <1>1, <2>1, <2>3
    <3>2. CASE i < t
      <4>1. st2[i].block \in Open
        BY <1>9, <3>1, <3>2 DEF Open
      <4>2. st2[j].block \in {"SUBINPROGRESS", "SUBRESTART", "SUBABORT_RESTART",
                              "SUBABORT_PENDING", "SUBABORT_END"}
        BY <1>1, <1>2, <1>9, <2>3, <3>1
      <4> QED
        BY <4>1, <4>2 DEF MayCarry
    <3>3. CASE ~(i < t)
      <4>1. st2[i].block \in {"SUBRESTART", "SUBABORT_PENDING"}
        BY <1>1, <1>2, <1>9, <3>1, <3>3
      <4>2. st2[j].block \in {"SUBABORT_PENDING", "SUBABORT_END"}
        BY <1>1, <1>2, <1>9, <2>3, <3>1, <3>3
      <4> QED
        BY <4>1, <4>2 DEF MayCarry
    <3> QED
      BY <3>2, <3>3
  <2> QED
    BY <2>2, <2>3 DEF Shape
<1>11. Marks(st2)
  BY <1>1, <1>5, <1>6, <1>9 DEF Marks
<1>12. Cur(st2).block \in {"SUBRESTART", "SUBABORT_RESTART",
                           "SUBABORT_PENDING", "SUBABORT_END"}
  <2>1. Cur(st2) = st2[Len(st)] /\ Len(st) \in 1..Len(st)
    BY <1>1, <1>7 DEF Remarked, Cur
  <2> QED
    BY <1>1, <1>2, <1>9, <2>1
<1>13. ASSUME NEW i \in 1..Len(st)
       PROVE  st2[i].block = CASE i < t -> st[i].block
                               [] i = t -> RestartMark(st[i].block)
                               [] OTHER -> AbortMark(st[i].block)
  BY <1>1, <1>2, <1>5
<1> QED
  BY <1>2, <1>3, <1>7, <1>10, <1>11, <1>12, <1>13

----------------------------------------------------------------------------
(* CommitTransactionCommand, AbortCurrentTransaction and the other functions
   that end levels. *)

(* What the phases of a command expect of the current level. *)
FreshTop(st) == Cur(st).block = "DEFAULT" => st = <<TopTransactionStateData>>
PhaseInv ==
    /\ phase # "fatal"
    /\ FreshTop(xs)
    /\ phase = "idle" => Cur(xs).block \in Quiet
    /\ phase \in {"command", "commit"} => Cur(xs).block # "DEFAULT"
    /\ phase = "commit" => Cur(xs).block # "IMPLICIT_INPROGRESS"
    /\ phase = "subcommit" => Cur(xs).block \in {"SUBCOMMIT", "END", "PREPARE"}

LEMMA XactInvFacts ==
    ASSUME XactInv
    PROVE  /\ xs \in Stack /\ nextXid \in Nat /\ nextXid >= 1
           /\ DOMAIN xs = 1..Len(xs) /\ Len(xs) \in Nat /\ Len(xs) >= 1
           /\ Cur(xs) = xs[Len(xs)] /\ \A i \in 1..Len(xs) : xs[i] \in Level
           /\ Shape(xs) /\ Marks(xs) /\ Numbered(xs, nextXid)
           /\ Accounted(xs, prepared, nextXid, pg_xact)
<1>1. xs \in Stack
  BY DEF XactInv, XactTypeOK, Stack
<1> QED
  BY <1>1, StackFacts DEF XactInv, XactTypeOK

(* Only the current level can have failed. *)
LEMMA LowerLive ==
    ASSUME NEW st \in Stack, Shape(st), Marks(st), NEW i \in 1..(Len(st) - 1)
    PROVE  st[i].state # "ABORT" /\ Live(st[i]) = XidsOf(st[i])
<1>1. i \in DOMAIN st /\ Len(st) \in DOMAIN st /\ i < Len(st)
  BY StackFacts
<1>2. MayCarry(st[i].block, st[Len(st)].block)
  BY <1>1 DEF Shape
<1>3. st[i].block \notin FailedBlocks
  BY <1>2 DEF MayCarry, FailedBlocks, Open
<1> QED
  BY <1>1, <1>3 DEF Marks, Live

LEMMA CurLive ==
    ASSUME XactInv
    PROVE  /\ Live(Cur(xs)) = IF Cur(xs).block \in FailedBlocks THEN {} ELSE XidsOf(Cur(xs))
           /\ \A x \in Live(Cur(xs)) : x < nextXid /\ \A p \in prepared : x \notin p.xids
<1>1. /\ Len(xs) \in 1..Len(xs) /\ Len(xs) \in DOMAIN xs /\ Cur(xs) = xs[Len(xs)]
      /\ xs \in Stack /\ Marks(xs) /\ Numbered(xs, nextXid)
      /\ Accounted(xs, prepared, nextXid, pg_xact)
  BY XactInvFacts
<1>2. Live(Cur(xs)) = IF Cur(xs).block \in FailedBlocks THEN {} ELSE XidsOf(Cur(xs))
  BY <1>1 DEF Marks, Live
<1>3. \A x \in Live(Cur(xs)) : x < nextXid
  BY <1>1, <1>2 DEF Numbered
<1>4. \A x \in Live(Cur(xs)) : \A p \in prepared : x \notin p.xids
  BY <1>1, LiveIsUnprepared
<1> QED
  BY <1>2, <1>3, <1>4

LEMMA SettleType ==
    ASSUME XactInv, NEW X, NEW outcome \in {"committed", "aborted"}, Settle(X, outcome)
    PROVE  pg_xact' \in [1..MaxXid -> {"running", "committed", "aborted"}]
BY DEF Settle, XactInv, XactTypeOK

(* The current level ends for good; the levels below it stay. *)
LEMMA CurSettles ==
    ASSUME NEW st \in Stack, NEW d \in Nat, Len(st) = d, Shape(st), Marks(st),
           NEW n \in Nat, Numbered(st, n), NEW prep, NEW clog,
           Accounted(st, prep, n, clog),
           NEW st2 \in Stack, Len(st2) \in {d - 1, d},
           \A i \in 1..(d - 1) : st2[i] = st[i],
           Len(st2) = d => Live(st2[d]) = {} /\ st2[d].state # "ABORT",
           NEW X, X = Live(st[d]), NEW outcome, outcome # "running", NEW clog2,
           SettledTo(outcome, clog, clog2, X)
    PROVE  Accounted(st2, prep, n, clog2)
<1>1. d >= 1 /\ DOMAIN st = 1..d /\ Len(st2) \in Nat /\ Len(st2) <= Len(st)
  BY StackFacts
<1>2. ASSUME NEW i \in 1..Len(st2)
      PROVE  Live(st2[i]) = Live(st[i]) \ X /\ st2[i].state # "ABORT"
  <2>1. CASE i = d
    BY <2>1
  <2>2. CASE i # d
    <3>1. i \in 1..(d - 1)
      BY <1>1, <2>2
    <3>2. st2[i] = st[i] /\ st[i].state # "ABORT"
      BY <3>1, LowerLive
    <3>3. \A x \in Live(st[i]) : x \notin X
      BY <1>1, <3>1 DEF Accounted, OneOwner
    <3> QED
      BY <3>2, <3>3
  <2> QED
    BY <2>1, <2>2
<1>3. \A i \in 1..Len(st) : i > Len(st2) => Live(st[i]) \subseteq X
  BY <1>1
<1>4. \A x \in X : x < n /\ \A p \in prep : x \notin p.xids
  <2>1. \A x \in X : x < n
    BY <1>1 DEF Numbered, Live
  <2>2. \A x \in X : \A p \in prep : x \notin p.xids
    BY <1>1 DEF Accounted, OneOwner
  <2> QED
    BY <2>1, <2>2
<1> QED
  <2>1. Settles(st, st2, X, n, prep)
    BY <1>1, <1>2, <1>3, <1>4 DEF Settles
  <2>2. FailedAreAborted(st2, clog2)
    BY <1>2 DEF FailedAreAborted
  <2> QED
    BY <2>1, <2>2, SettleKeeps

LEMMA MakeXactInv ==
    ASSUME XactInv, NEW st, xs' = st, st \in Stack, Shape(st), Marks(st),
           Numbered(st, nextXid), Accounted(st, prepared, nextXid, pg_xact)',
           UNCHANGED <<nextXid, heap>>, chain' \in BOOLEAN, phase' \in Phases,
           prepared' \subseteq [gid : Gids, xids : SUBSET (1..MaxXid)],
           pg_xact' \in [1..MaxXid -> {"running", "committed", "aborted"}]
    PROVE  XactInv'
<1>1. XactTypeOK'
  BY DEF XactInv, XactTypeOK, Stack
<1>2. nextXid' = nextXid
  OBVIOUS
<1> QED
  BY <1>1, <1>2 DEF XactInv

(* A step that marks the stack, or leaves it alone. *)
LEMMA MarkStep ==
    ASSUME XactInv, NEW st, xs' = st, Remarked(xs, st), Shape(st), Marks(st),
           UNCHANGED <<nextXid, heap, pg_xact, prepared>>, chain' \in BOOLEAN,
           phase' \in Phases
    PROVE  XactInv'
<1>1. st \in Stack
  BY DEF Remarked
<1>2. /\ xs \in Stack /\ Numbered(xs, nextXid)
      /\ Accounted(xs, prepared, nextXid, pg_xact)
  BY XactInvFacts
<1>3. Numbered(st, nextXid) /\ Accounted(st, prepared, nextXid, pg_xact)
  BY <1>2, RemarkKeeps
<1>4. Accounted(st, prepared, nextXid, pg_xact)'
  BY <1>3
<1>5. /\ prepared' \subseteq [gid : Gids, xids : SUBSET (1..MaxXid)]
      /\ pg_xact' \in [1..MaxXid -> {"running", "committed", "aborted"}]
  BY DEF XactInv, XactTypeOK
<1> QED
  BY <1>1, <1>3, <1>4, <1>5, MakeXactInv

(* The current level ends for good, by commit or abort. *)
LEMMA EndStep ==
    ASSUME XactInv, NEW o \in {"committed", "aborted"}, Settle(Live(Cur(xs)), o),
           NEW st, xs' = st, st \in Stack, Shape(st), Marks(st), Numbered(st, nextXid),
           Len(st) \in {Len(xs) - 1, Len(xs)},
           \A i \in 1..(Len(xs) - 1) : st[i] = xs[i],
           Len(st) = Len(xs) => Live(Cur(st)) = {} /\ Cur(st).state # "ABORT",
           UNCHANGED <<nextXid, heap, prepared>>, chain' \in BOOLEAN, phase' \in Phases
    PROVE  XactInv'
<1>0. PICK X : X = Live(Cur(xs))
  OBVIOUS
<1>1. PICK d \in Nat, n \in Nat : d = Len(xs) /\ n = nextXid
  BY XactInvFacts
<1>2. PICK clog2 : clog2 = pg_xact'
  OBVIOUS
<1>3. SettledTo(o, pg_xact, clog2, X)
  BY <1>0, <1>1, <1>2 DEF Settle, SettledTo
<1>4. /\ xs \in Stack /\ Shape(xs) /\ Marks(xs) /\ Numbered(xs, n)
      /\ Accounted(xs, prepared, n, pg_xact)
      /\ Cur(xs) = xs[Len(xs)] /\ Cur(st) = st[Len(st)]
  BY <1>1, XactInvFacts, StackFacts
<1>5. Accounted(st, prepared, n, clog2)
  BY <1>0, <1>1, <1>3, <1>4, CurSettles
<1>6. Accounted(st, prepared, nextXid, pg_xact)'
  BY <1>1, <1>2, <1>5
<1>7. /\ prepared' \subseteq [gid : Gids, xids : SUBSET (1..MaxXid)]
      /\ pg_xact' \in [1..MaxXid -> {"running", "committed", "aborted"}]
  BY SettleType DEF XactInv, XactTypeOK
<1> QED
  BY <1>6, <1>7, MakeXactInv

(* The transaction ends with its top level; a chained one starts anew. *)
LEMMA TopEnds ==
    ASSUME XactInv, Cur(xs).block \notin SubBlocks,
           NEW o \in {"committed", "aborted"}, Settle(Live(Cur(xs)), o),
           NEW st, xs' = st,
           st = <<TopTransactionStateData>> \/ st = StartTransaction("INPROGRESS"),
           UNCHANGED <<nextXid, heap, prepared>>, chain' \in BOOLEAN, phase' = "idle"
    PROVE  XactInv' /\ PhaseInv'
<1>1. /\ st \in Stack /\ Len(st) = 1 /\ st[1].block \in {"DEFAULT", "INPROGRESS"}
      /\ st[1].state # "ABORT" /\ st[1].xid = 0 /\ st[1].childXids = {}
      /\ st[1].block = "DEFAULT" => st = <<TopTransactionStateData>>
  <2>1. CASE st = <<TopTransactionStateData>>
    <3>1. st[1] = TopTransactionStateData
      BY <2>1
    <3> QED
      BY <2>1, <3>1, TopFacts
  <2>2. CASE st = StartTransaction("INPROGRESS")
    <3>1. "INPROGRESS" \in Blocks
      BY DEF Blocks, TopBlocks
    <3> QED
      BY <2>2, <3>1, StartFacts
  <2> QED
    BY <2>1, <2>2
<1>2. Shape(st) /\ Marks(st) /\ Numbered(st, nextXid) /\ Live(st[1]) = {}
  BY <1>1, FreshKeeps DEF TopBlocks, FailedBlocks
<1>3. Len(xs) = 1 /\ Cur(st) = st[1]
  BY <1>1, XactInvFacts, TopIsAlone DEF Cur
<1>4. phase' \in Phases
  BY DEF Phases
<1>5. XactInv'
  BY <1>1, <1>2, <1>3, <1>4, EndStep
<1>6. PhaseInv'
  BY <1>1, <1>3 DEF PhaseInv, FreshTop, Quiet
<1> QED
  BY <1>5, <1>6

LEMMA CommitSimpleKeeps ==
    ASSUME XactInv, CommitSimple \/ CommitTopOfSubs
    PROVE  XactInv' /\ PhaseInv'
<1>1. Cur(xs).block \in {"STARTED", "END"}
  BY DEF CommitSimple, CommitTopOfSubs
<1>2. Cur(xs) = xs[1] /\ Cur(xs).block \notin SubBlocks
  BY <1>1, XactInvFacts, TopIsAlone DEF SubBlocks
<1>3. Live(Cur(xs)) = XidsOf(xs[1])
  BY <1>1, <1>2, CurLive DEF FailedBlocks
<1>4. Settle(Live(Cur(xs)), "committed")
  BY <1>3 DEF CommitSimple, CommitTopOfSubs
<1>5. /\ xs' = <<TopTransactionStateData>> /\ UNCHANGED <<nextXid, heap, prepared>>
      /\ chain' \in BOOLEAN /\ phase' = "idle"
  BY DEF CommitSimple, CommitTopOfSubs, Finished, XactInv, XactTypeOK
<1> QED
  BY <1>2, <1>4, <1>5, TopEnds

LEMMA CommitEndKeeps ==
    ASSUME XactInv, CommitEnd \/ CommitRollback
    PROVE  XactInv' /\ PhaseInv'
<1>1. Cur(xs).block \in {"END", "ABORT_END", "ABORT_PENDING"}
  BY DEF CommitEnd, CommitRollback
<1>2. Cur(xs) = xs[1] /\ Cur(xs).block \notin SubBlocks
  BY <1>1, XactInvFacts, TopIsAlone DEF SubBlocks
<1>3. Live(Cur(xs)) = IF Cur(xs).block = "ABORT_END" THEN {} ELSE XidsOf(xs[1])
  BY <1>1, <1>2, CurLive DEF FailedBlocks
<1>4. PICK o \in {"committed", "aborted"} : Settle(Live(Cur(xs)), o)
  BY <1>3 DEF CommitEnd, CommitRollback
<1>5. EndOfTransaction /\ UNCHANGED <<nextXid, heap, prepared>>
  BY DEF CommitEnd, CommitRollback
<1>6. /\ xs' = <<TopTransactionStateData>> \/ xs' = StartTransaction("INPROGRESS")
      /\ chain' \in BOOLEAN /\ phase' = "idle"
  BY <1>5 DEF EndOfTransaction, Finished, XactInv, XactTypeOK
<1>7. PICK st : st = xs'
  OBVIOUS
<1> QED
  BY <1>2, <1>4, <1>5, <1>6, <1>7, TopEnds

LEMMA AbortTopKeeps ==
    ASSUME XactInv, AbortTop PROVE XactInv' /\ PhaseInv'
<1>1. Cur(xs).block \in {"STARTED", "IMPLICIT_INPROGRESS", "BEGIN", "END",
                         "ABORT_PENDING", "PREPARE", "ABORT_END"}
  BY DEF AbortTop
<1>2. Cur(xs) = xs[1] /\ Cur(xs).block \notin SubBlocks
  BY <1>1, XactInvFacts, TopIsAlone DEF SubBlocks
<1>3. Live(Cur(xs)) = IF Cur(xs).block = "ABORT_END" THEN {} ELSE XidsOf(xs[1])
  BY <1>1, <1>2, CurLive DEF FailedBlocks
<1>4. Settle(Live(Cur(xs)), "aborted")
  BY <1>3 DEF AbortTop
<1>5. /\ xs' = <<TopTransactionStateData>> /\ UNCHANGED <<nextXid, heap, prepared>>
      /\ chain' \in BOOLEAN /\ phase' = "idle"
  BY DEF AbortTop, Finished, XactInv, XactTypeOK
<1> QED
  BY <1>2, <1>4, <1>5, TopEnds

(* The steps that only return. *)
LEMMA NothingKeeps ==
    ASSUME XactInv, PhaseInv, CommitNothing \/ AbortNothing
    PROVE  XactInv' /\ PhaseInv'
<1>1. xs' = xs /\ phase' = "idle" /\ UNCHANGED <<chain, nextXid, heap, pg_xact, prepared>>
  BY DEF CommitNothing, AbortNothing, Finished
<1>2. Remarked(xs, xs) /\ Shape(xs) /\ Marks(xs)
  BY XactInvFacts DEF Remarked
<1>3. chain' \in BOOLEAN /\ phase' \in Phases
  BY <1>1 DEF XactInv, XactTypeOK, Phases
<1>4. PICK st : st = xs
  OBVIOUS
<1>5. XactInv'
  BY <1>1, <1>2, <1>3, <1>4, MarkStep
<1>6. Cur(xs).block \in Quiet
  BY DEF CommitNothing, AbortNothing, PhaseInv, Quiet
<1>7. Cur(xs)' = Cur(xs)
  BY <1>1
<1> QED
  BY <1>1, <1>5, <1>6, <1>7 DEF PhaseInv, FreshTop

LEMMA CommitBeginKeeps ==
    ASSUME XactInv, CommitBegin PROVE XactInv' /\ PhaseInv'
<1>1. /\ Cur(xs).block = "BEGIN" /\ xs' = WithBlock(xs, "INPROGRESS") /\ phase' = "idle"
      /\ UNCHANGED <<chain, nextXid, heap, pg_xact, prepared>>
  BY DEF CommitBegin, Finished
<1>2. /\ xs \in Stack /\ Shape(xs) /\ Marks(xs) /\ Len(xs) = 1 /\ xs[1].block = "BEGIN"
  BY <1>1, XactInvFacts, TopIsAlone DEF SubBlocks
<1>3. PICK st : st = WithBlock(xs, "INPROGRESS")
  OBVIOUS
<1>4. Remarked(xs, st) /\ Shape(st) /\ Marks(st) /\ Cur(st).block = "INPROGRESS"
  BY <1>2, <1>3, WithBlockKeeps DEF TopBlocks, FailedBlocks
<1>5. chain' \in BOOLEAN /\ phase' \in Phases
  BY <1>1 DEF XactInv, XactTypeOK, Phases
<1>6. XactInv'
  BY <1>1, <1>3, <1>4, <1>5, MarkStep
<1>7. Cur(xs)'.block = "INPROGRESS"
  BY <1>1, <1>3, <1>4
<1> QED
  BY <1>1, <1>6, <1>7 DEF PhaseInv, FreshTop, Quiet

Replaced(st, l) == [st EXCEPT ![Len(st)] = l]

LEMMA ReplaceCur ==
    ASSUME NEW st \in Stack, NEW l \in Level, NEW d \in Nat, d = Len(st), NEW st2,
           st2 = Replaced(st, l)
    PROVE  /\ st2 \in Stack /\ Len(st2) = d /\ st2[d] = l
           /\ \A i \in 1..(d - 1) : st2[i] = st[i]
<1>1. st \in [1..d -> Level] /\ d \in 1..d /\ d \in 1..MaxDepth
  BY StackFacts, XactAssumption
<1>2. st2 \in [1..d -> Level] /\ st2[d] = l /\ \A i \in 1..(d - 1) : st2[i] = st[i]
  BY <1>1 DEF Replaced
<1> QED
  BY <1>1, <1>2, MakeStack

(* The current level gets another block and state. *)
WithCur(st, s, b) == [st EXCEPT ![Len(st)].state = s, ![Len(st)].block = b]

LEMMA CurChanges ==
    ASSUME NEW st \in Stack, NEW s \in TransState, NEW b \in Blocks, NEW st2,
           st2 = WithCur(st, s, b)
    PROVE  /\ st2 \in Stack /\ Len(st2) = Len(st) /\ Cur(st2) = st2[Len(st)]
           /\ \A i \in 1..(Len(st) - 1) : st2[i] = st[i]
           /\ Cur(st2).state = s /\ Cur(st2).block = b /\ Cur(st2).name = Cur(st).name
           /\ Cur(st2).xid = Cur(st).xid /\ Cur(st2).childXids = Cur(st).childXids
<1>1. PICK d \in Nat : d = Len(st)
  BY StackFacts
<1>2. st[d] \in Level /\ Cur(st) = st[d]
  BY <1>1, StackFacts
<1>3. PICK l : l = [st[d] EXCEPT !.state = s, !.block = b]
  OBVIOUS
<1>4. /\ l \in Level /\ l.state = s /\ l.block = b /\ l.name = st[d].name
      /\ l.xid = st[d].xid /\ l.childXids = st[d].childXids
  BY <1>2, <1>3 DEF Level, Blocks
<1>5. st2 = Replaced(st, l)
  BY <1>1, <1>2, <1>3, StackFacts DEF WithCur, Replaced
<1>6. /\ st2 \in Stack /\ Len(st2) = d /\ st2[d] = l
      /\ \A i \in 1..(d - 1) : st2[i] = st[i]
  BY <1>1, <1>4, <1>5, ReplaceCur
<1> QED
  BY <1>1, <1>2, <1>4, <1>6 DEF Cur

LEMMA CommitSubBeginKeeps ==
    ASSUME XactInv, CommitSubBegin PROVE XactInv' /\ PhaseInv'
<1>1. PICK st : st = WithCur(xs, "INPROGRESS", "SUBINPROGRESS")
  OBVIOUS
<1>2. /\ Cur(xs).block = "SUBBEGIN" /\ xs' = st /\ phase' = "idle"
      /\ UNCHANGED <<chain, nextXid, heap, pg_xact, prepared>>
  BY <1>1 DEF CommitSubBegin, Finished, WithCur
<1>3. /\ xs \in Stack /\ Shape(xs) /\ Marks(xs) /\ DOMAIN xs = 1..Len(xs)
      /\ Len(xs) \in Nat /\ Cur(xs) = xs[Len(xs)]
  BY XactInvFacts
<1>4. Len(xs) > 1
  BY <1>2, <1>3, SubIsAbove DEF TopBlocks
<1>5. /\ st \in Stack /\ Len(st) = Len(xs) /\ Cur(st) = st[Len(xs)]
      /\ DOMAIN st = 1..Len(xs)
      /\ \A i \in 1..(Len(xs) - 1) : st[i] = xs[i]
      /\ Cur(st).state = "INPROGRESS" /\ Cur(st).block = "SUBINPROGRESS"
      /\ Cur(st).name = Cur(xs).name /\ Cur(st).xid = Cur(xs).xid
      /\ Cur(st).childXids = Cur(xs).childXids
  <2>1. "INPROGRESS" \in TransState /\ "SUBINPROGRESS" \in Blocks
    BY DEF TransState, Blocks, SubBlocks
  <2> QED
    BY <1>1, <1>3, <2>1, CurChanges, StackFacts
<1>6. Cur(xs).state # "ABORT"
  BY <1>2, <1>3, <1>4 DEF Marks, FailedBlocks
<1>7. Remarked(xs, st)
  <2>1. PICK d \in Nat : d = Len(xs)
    BY <1>3
  <2>2. \A i \in 1..d : i = d \/ i \in 1..(d - 1)
    OBVIOUS
  <2> QED
    BY <1>3, <1>5, <1>6, <2>1, <2>2 DEF Remarked
<1>8. Shape(st)
  <2>1. ASSUME NEW i \in 1..(Len(xs) - 1) PROVE MayCarry(st[i].block, "SUBINPROGRESS")
    <3>1. MayCarry(xs[i].block, "SUBBEGIN")
      BY <1>2, <1>3, <1>4 DEF Shape
    <3> QED
      BY <1>5, <3>1 DEF MayCarry
  <2>2. ASSUME NEW i \in DOMAIN st, NEW j \in DOMAIN st, i < j
        PROVE  MayCarry(st[i].block, st[j].block)
    <3>1. i \in 1..(Len(xs) - 1) /\ (j = Len(xs) \/ j \in 1..(Len(xs) - 1))
      BY <1>3, <1>5, <2>2
    <3>2. CASE j = Len(xs)
      BY <1>5, <2>1, <3>1, <3>2
    <3>3. CASE j \in 1..(Len(xs) - 1)
      BY <1>3, <1>5, <2>2, <3>1, <3>3 DEF Shape
    <3> QED
      BY <3>1, <3>2, <3>3
  <2>3. \A i \in DOMAIN st : st[i].block \in IF i = 1 THEN TopBlocks ELSE SubBlocks
    BY <1>3, <1>4, <1>5 DEF Shape, SubBlocks
  <2> QED
    BY <2>2, <2>3 DEF Shape
<1>9. Marks(st)
  BY <1>3, <1>5 DEF Marks, FailedBlocks
<1>10. chain' \in BOOLEAN /\ phase' \in Phases
  BY <1>2 DEF XactInv, XactTypeOK, Phases
<1>11. XactInv'
  BY <1>2, <1>7, <1>8, <1>9, <1>10, MarkStep
<1>12. Cur(xs)'.block = "SUBINPROGRESS"
  BY <1>2, <1>5
<1> QED
  BY <1>2, <1>11, <1>12 DEF PhaseInv, FreshTop, Quiet

(* Released and committed levels hand their ids down. *)
LEMMA CommitSubKeeps ==
    ASSUME XactInv, CommitRelease \/ CommitSub PROVE XactInv' /\ PhaseInv'
<1>1. PICK st : st = CommitSubTransaction
  OBVIOUS
<1>2. /\ Cur(xs).block \in {"SUBRELEASE", "SUBCOMMIT"} /\ xs' = st
      /\ UNCHANGED <<chain, nextXid, heap, pg_xact, prepared>>
  BY <1>1 DEF CommitRelease, CommitSub
<1>3. /\ xs \in Stack /\ Shape(xs) /\ Marks(xs) /\ DOMAIN xs = 1..Len(xs)
      /\ Len(xs) \in Nat /\ Cur(xs) = xs[Len(xs)] /\ Numbered(xs, nextXid)
      /\ Accounted(xs, prepared, nextXid, pg_xact)
  BY XactInvFacts
<1>4. Len(xs) > 1
  BY <1>2, <1>3, SubIsAbove DEF TopBlocks
<1>5. st \in Stack /\ Len(st) = Len(xs) - 1 /\ Cur(st).block = xs[Len(xs) - 1].block
  <2>1. Len(xs) - 1 \in 1..(Len(xs) - 1)
    BY <1>3, <1>4
  <2> QED
    BY <1>1, <1>3, <1>4, <2>1, MergeFacts DEF Cur
<1>6. /\ Shape(st) /\ Marks(st) /\ Numbered(st, nextXid)
      /\ Accounted(st, prepared, nextXid, pg_xact)
  BY <1>1, <1>2, <1>3, <1>4, MergeKeeps
<1>7. Accounted(st, prepared, nextXid, pg_xact)'
  BY <1>2, <1>6
<1>8. MayCarry(xs[Len(xs) - 1].block, Cur(xs).block)
  BY <1>3, <1>4 DEF Shape
<1>9. Cur(xs)' = Cur(st)
  BY <1>2
<1>10. PhaseInv' /\ phase' \in Phases
  <2>1. CASE CommitRelease
    <3>1. Cur(st).block \in Open \cup {"SUBRELEASE"}
      BY <1>5, <1>8, <2>1 DEF CommitRelease, MayCarry, Open
    <3>2. phase' = IF Cur(st).block = "SUBRELEASE" THEN "commit" ELSE "idle"
      BY <1>2, <2>1 DEF CommitRelease
    <3> QED
      BY <1>9, <3>1, <3>2 DEF PhaseInv, FreshTop, Quiet, Open, Phases
  <2>2. CASE CommitSub
    <3>1. Cur(st).block \in {"SUBCOMMIT", "END", "PREPARE"}
      BY <1>5, <1>8, <2>2 DEF CommitSub, MayCarry, Open
    <3>2. phase' = "subcommit"
      BY <2>2 DEF CommitSub
    <3> QED
      BY <1>9, <3>1, <3>2 DEF PhaseInv, FreshTop, Phases
  <2> QED
    BY <2>1, <2>2
<1>11. /\ prepared' \subseteq [gid : Gids, xids : SUBSET (1..MaxXid)]
       /\ pg_xact' \in [1..MaxXid -> {"running", "committed", "aborted"}]
       /\ chain' \in BOOLEAN
  BY <1>2 DEF XactInv, XactTypeOK
<1>12. XactInv'
  BY <1>2, <1>5, <1>6, <1>7, <1>10, <1>11, MakeXactInv
<1> QED
  BY <1>10, <1>12

(* A level that is given up is popped. *)
LEMMA PopStep ==
    ASSUME XactInv, PhaseInv, CommitSubAbort \/ AbortSub PROVE XactInv' /\ PhaseInv'
<1>1. PICK st : st = Pop(xs)
  OBVIOUS
<1>2. /\ Cur(xs).block \in AbortPops
      /\ Cur(xs).block \in FailedBlocks <=>
             Cur(xs).block \in {"SUBABORT_END", "SUBABORT_RESTART"}
      /\ xs' = st /\ UNCHANGED <<chain, nextXid, heap, prepared, phase>>
  BY <1>1 DEF CommitSubAbort, AbortSub, AbortPops, FailedBlocks
<1>3. Settle(Live(Cur(xs)), "aborted")
  <2>1. CASE CommitSubAbort
    BY <1>2, <2>1, CurLive DEF CommitSubAbort, FailedBlocks
  <2>2. CASE AbortSub
    BY <1>2, <2>2, CurLive DEF AbortSub
  <2> QED
    BY <2>1, <2>2
<1>4. /\ xs \in Stack /\ Shape(xs) /\ Marks(xs) /\ DOMAIN xs = 1..Len(xs)
      /\ Len(xs) \in Nat /\ Cur(xs) = xs[Len(xs)] /\ Numbered(xs, nextXid)
  BY XactInvFacts
<1>5. Len(xs) > 1
  BY <1>2, <1>4, SubIsAbove DEF TopBlocks, AbortPops
<1>6. /\ st \in Stack /\ Len(st) = Len(xs) - 1 /\ Len(st) # Len(xs)
      /\ \A i \in 1..(Len(xs) - 1) : st[i] = xs[i]
      /\ Shape(st) /\ Marks(st) /\ Numbered(st, nextXid)
  <2>1. /\ st \in Stack /\ Len(st) = Len(xs) - 1
        /\ \A i \in 1..(Len(xs) - 1) : st[i] = xs[i]
    BY <1>1, <1>4, <1>5, PopFacts
  <2>2. Shape(st) /\ Marks(st) /\ Numbered(st, nextXid)
    BY <1>1, <1>4, <1>5, PopKeeps
  <2>3. PICK d \in Nat : d = Len(xs)
    BY <1>4
  <2>4. Len(st) # Len(xs)
    BY <2>1, <2>3
  <2> QED
    BY <2>1, <2>2, <2>4
<1>7. chain' \in BOOLEAN /\ phase' \in Phases
  BY <1>2 DEF XactInv, XactTypeOK
<1>8. XactInv'
  BY <1>2, <1>3, <1>6, <1>7, EndStep
<1>9. Cur(st) = xs[Len(xs) - 1] /\ MayCarry(xs[Len(xs) - 1].block, Cur(xs).block)
  <2>1. Len(xs) - 1 \in 1..(Len(xs) - 1) /\ Len(xs) - 1 \in DOMAIN xs
        /\ Len(xs) \in DOMAIN xs /\ Len(xs) - 1 < Len(xs)
    BY <1>4, <1>5
  <2> QED
    BY <1>4, <1>6, <2>1 DEF Cur, Shape
<1>10. Cur(st).block \notin {"DEFAULT", "IMPLICIT_INPROGRESS"}
  BY <1>9 DEF MayCarry, Open
<1>11. phase' = phase /\ phase \in {"commit", "abort"} /\ Cur(xs)' = Cur(st)
  BY <1>2 DEF CommitSubAbort, AbortSub
<1> QED
  BY <1>8, <1>10, <1>11 DEF PhaseInv, FreshTop

(* ROLLBACK TO: the level is popped and pushed again. *)
LEMMA RestartStep ==
    ASSUME XactInv, CommitRestart PROVE XactInv' /\ PhaseInv'
<1>1. PICK low : low = Pop(xs)
  OBVIOUS
<1>2. PICK st : st = PushTransaction(low, Cur(xs).name)
  OBVIOUS
<1>3. /\ Cur(xs).block \in {"SUBRESTART", "SUBABORT_RESTART"} /\ xs' = st
      /\ phase' = IF Cur(low).block \in {"INPROGRESS", "SUBINPROGRESS"}
                  THEN "commit" ELSE "fatal"
      /\ UNCHANGED <<chain, nextXid, heap, prepared>>
  BY <1>1, <1>2 DEF CommitRestart
<1>4. Settle(Live(Cur(xs)), "aborted")
  BY <1>3, CurLive DEF CommitRestart, FailedBlocks
<1>5. /\ xs \in Stack /\ Shape(xs) /\ Marks(xs) /\ DOMAIN xs = 1..Len(xs)
      /\ Len(xs) \in Nat /\ Cur(xs) = xs[Len(xs)] /\ Numbered(xs, nextXid)
      /\ Cur(xs) \in Level /\ Len(xs) <= MaxDepth
  BY XactInvFacts, StackFacts
<1>6. Len(xs) > 1 /\ Cur(xs).name \in Names \cup {NoName}
  BY <1>3, <1>5, SubIsAbove DEF TopBlocks, Level
<1>7. /\ low \in Stack /\ Len(low) = Len(xs) - 1
      /\ \A i \in 1..(Len(xs) - 1) : low[i] = xs[i]
      /\ Shape(low) /\ Marks(low) /\ Numbered(low, nextXid)
  BY <1>1, <1>5, <1>6, PopFacts, PopKeeps
<1>8. Cur(low).block \in Open
  <2>1. /\ Len(xs) - 1 \in 1..(Len(xs) - 1) /\ Len(xs) - 1 \in DOMAIN xs
        /\ Len(xs) \in DOMAIN xs /\ Len(xs) - 1 < Len(xs)
    BY <1>5, <1>6
  <2>2. Cur(low) = xs[Len(xs) - 1] /\ MayCarry(xs[Len(xs) - 1].block, Cur(xs).block)
    BY <1>5, <1>7, <2>1 DEF Cur, Shape
  <2> QED
    BY <1>3, <2>2 DEF MayCarry, Open
<1>9. Len(low) < MaxDepth
  BY <1>5, <1>7, XactAssumption
<1>10. /\ st \in Stack /\ Len(st) = Len(low) + 1
       /\ \A i \in 1..Len(low) : st[i] = low[i]
       /\ Cur(st).block = "SUBBEGIN" /\ Cur(st).state = "DEFAULT" /\ Cur(st).xid = 0
  BY <1>2, <1>6, <1>7, <1>9, PushFacts
<1>11. Shape(st) /\ Marks(st) /\ Numbered(st, nextXid)
  BY <1>2, <1>6, <1>7, <1>8, <1>9, PushKeeps
<1>12. Len(st) = Len(xs) /\ \A i \in 1..(Len(xs) - 1) : st[i] = xs[i]
  BY <1>5, <1>7, <1>10
<1>13. Live(Cur(st)) = {} /\ Cur(st).state # "ABORT"
  BY <1>10 DEF Live, XidsOf
<1>14. phase' = "commit" /\ chain' \in BOOLEAN /\ phase' \in Phases
  BY <1>3, <1>8 DEF Open, XactInv, XactTypeOK, Phases
<1>15. XactInv'
  BY <1>3, <1>4, <1>10, <1>11, <1>12, <1>13, <1>14, EndStep
<1>16. Cur(xs)' = Cur(st)
  BY <1>3
<1> QED
  BY <1>10, <1>14, <1>15, <1>16 DEF PhaseInv, FreshTop

(* The current level has failed and stays: its ids are settled. *)
LEMMA CurFails ==
    ASSUME NEW st \in Stack, NEW d \in Nat, Len(st) = d, Shape(st), Marks(st),
           NEW n \in Nat, Numbered(st, n), NEW prep, NEW clog,
           Accounted(st, prep, n, clog),
           NEW st2 \in Stack, Len(st2) = d, \A i \in 1..(d - 1) : st2[i] = st[i],
           st[d].state # "ABORT", st2[d].state = "ABORT",
           st2[d].xid = st[d].xid, st2[d].childXids = st[d].childXids,
           NEW X, X = Live(st[d]), NEW clog2, SettledTo("aborted", clog, clog2, X)
    PROVE  Accounted(st2, prep, n, clog2)
<1>1. d >= 1 /\ DOMAIN st = 1..d /\ st[d] \in Level
  BY StackFacts
<1>2. X = XidsOf(st2[d]) /\ Live(st2[d]) = {}
  BY DEF Live, XidsOf
<1>3. ASSUME NEW i \in 1..(d - 1)
      PROVE  /\ st2[i].state # "ABORT"
             /\ Live(st2[i]) = Live(st[i]) \ X
  <2>1. st2[i] = st[i] /\ st[i].state # "ABORT"
    BY LowerLive
  <2>2. \A x \in Live(st[i]) : x \notin X
    BY <1>1 DEF Accounted, OneOwner
  <2> QED
    BY <2>1, <2>2
<1>4. \A i \in 1..d : i = d \/ i \in 1..(d - 1)
  OBVIOUS
<1>5. \A x \in X : x < n
  BY <1>1 DEF Numbered, Live
<1>6. \A x \in X : \A p \in prep : x \notin p.xids
  BY <1>1 DEF Accounted, OneOwner
<1>7. Settles(st, st2, X, n, prep)
  <2>1. \A i \in 1..d : Live(st2[i]) = Live(st[i]) \ X
    BY <1>2, <1>3, <1>4
  <2>2. \A i \in 1..d : ~(i > d)
    OBVIOUS
  <2> QED
    BY <1>5, <1>6, <2>1, <2>2 DEF Settles
<1>8. X \subseteq 1..MaxXid
  BY <1>1, XidsType
<1>9. FailedAreAborted(st2, clog2)
  BY <1>2, <1>3, <1>4, <1>8 DEF FailedAreAborted, SettledTo
<1> QED
  BY <1>7, <1>9, SettleKeeps

(* AbortCurrentTransaction in an open block leaves the level failed. *)
LEMMA AbortStayKeeps ==
    ASSUME XactInv, AbortStay PROVE XactInv' /\ PhaseInv'
<1>0. PICK b : b = IF Cur(xs).block = "INPROGRESS" THEN "ABORT" ELSE "SUBABORT"
  OBVIOUS
<1>1. PICK st : st = WithCur(xs, "ABORT", b)
  OBVIOUS
<1>2. PICK d \in Nat, n \in Nat : d = Len(xs) /\ n = nextXid
  BY XactInvFacts
<1>3. /\ xs \in Stack /\ Shape(xs) /\ Marks(xs) /\ DOMAIN xs = 1..d
      /\ Cur(xs) = xs[d] /\ xs[d] \in Level /\ d >= 1
      /\ Numbered(xs, n) /\ Accounted(xs, prepared, n, pg_xact)
  BY <1>2, XactInvFacts
<1>4. /\ Cur(xs).block \in Open /\ xs' = st /\ phase' = "idle"
      /\ UNCHANGED <<chain, nextXid, heap, prepared>>
  BY <1>0, <1>1, <1>2, <1>3 DEF AbortStay, Finished, WithCur, Open
<1>5. /\ st \in Stack /\ Len(st) = d /\ Cur(st) = st[d] /\ DOMAIN st = 1..d
      /\ \A i \in 1..(d - 1) : st[i] = xs[i]
      /\ Cur(st).state = "ABORT" /\ Cur(st).block = b
      /\ Cur(st).xid = Cur(xs).xid /\ Cur(st).childXids = Cur(xs).childXids
  <2>1. "ABORT" \in TransState /\ b \in Blocks
    BY <1>0 DEF TransState, Blocks, SubBlocks, TopBlocks
  <2> QED
    BY <1>1, <1>2, <1>3, <2>1, CurChanges, StackFacts
<1>6. Cur(xs).state # "ABORT"
  BY <1>3, <1>4 DEF Marks, FailedBlocks, Open
<1>7. PICK X, clog2 : X = Live(Cur(xs)) /\ clog2 = pg_xact'
  OBVIOUS
<1>8. Settle(X, "aborted")
  BY <1>6, <1>7 DEF AbortStay, Live
<1>9. SettledTo("aborted", pg_xact, clog2, X)
  BY <1>7, <1>8 DEF Settle, SettledTo
<1>10. Accounted(st, prepared, n, clog2)
  BY <1>2, <1>3, <1>5, <1>6, <1>7, <1>9, CurFails
<1>11. Accounted(st, prepared, nextXid, pg_xact)'
  BY <1>2, <1>4, <1>7, <1>10
<1>12. \A i \in 1..d : i = d \/ i \in 1..(d - 1)
  OBVIOUS
<1>13. Shape(st)
  <2>1. ASSUME NEW i \in 1..(d - 1), d > 1 PROVE MayCarry(st[i].block, b)
    <3>1. MayCarry(xs[i].block, xs[d].block) /\ xs[d].block \in SubBlocks
      BY <1>3, <2>1 DEF Shape
    <3>2. xs[d].block = "SUBINPROGRESS" /\ b = "SUBABORT"
      BY <1>0, <1>3, <1>4, <3>1 DEF Open, SubBlocks
    <3> QED
      BY <1>5, <3>1, <3>2 DEF MayCarry, Open
  <2>2. ASSUME NEW i \in DOMAIN st, NEW j \in DOMAIN st, i < j
        PROVE  MayCarry(st[i].block, st[j].block)
    <3>1. i \in 1..(d - 1) /\ (j = d \/ j \in 1..(d - 1)) /\ d > 1
      BY <1>5, <2>2
    <3>2. CASE j = d
      BY <1>5, <2>1, <3>1, <3>2
    <3>3. CASE j \in 1..(d - 1)
      BY <1>3, <1>5, <2>2, <3>1, <3>3 DEF Shape
    <3> QED
      BY <3>1, <3>2, <3>3
  <2>3. b \in IF d = 1 THEN TopBlocks ELSE SubBlocks
    <3>1. xs[d].block \in IF d = 1 THEN TopBlocks ELSE SubBlocks
      BY <1>3 DEF Shape
    <3> QED
      BY <1>0, <1>3, <1>4, <3>1 DEF TopBlocks, SubBlocks, Open
  <2>4. \A i \in DOMAIN st : st[i].block \in IF i = 1 THEN TopBlocks ELSE SubBlocks
    BY <1>3, <1>5, <1>12, <2>3 DEF Shape
  <2> QED
    BY <2>2, <2>4 DEF Shape
<1>14. Marks(st)
  BY <1>0, <1>3, <1>5, <1>12 DEF Marks, FailedBlocks
<1>15. Numbered(st, nextXid)
  <2>1. \A i \in 1..d : st[i].xid = xs[i].xid /\ st[i].childXids = xs[i].childXids
    BY <1>3, <1>5, <1>12
  <2>2. \A i \in 1..d : XidsOf(st[i]) = XidsOf(xs[i])
    BY <2>1 DEF XidsOf
  <2>3. \E m \in 1..(d + 1) : \A i \in 1..d : st[i].xid = 0 <=> i >= m
    BY <1>2, <1>3, <2>1 DEF Numbered
  <2>4. ASSUME NEW i \in 1..d
        PROVE  /\ i > 1 /\ st[i].xid # 0 => st[i - 1].xid \in 1..(st[i].xid - 1)
               /\ \A x \in st[i].childXids : st[i].xid \in 1..(x - 1)
               /\ \A x \in XidsOf(st[i]) : x < nextXid
    <3>1. i > 1 => i - 1 \in 1..d
      BY <1>2
    <3> QED
      BY <1>2, <1>3, <2>1, <2>2, <3>1 DEF Numbered
  <2> QED
    BY <1>5, <2>3, <2>4 DEF Numbered
<1>16. /\ prepared' \subseteq [gid : Gids, xids : SUBSET (1..MaxXid)]
       /\ pg_xact' \in [1..MaxXid -> {"running", "committed", "aborted"}]
       /\ chain' \in BOOLEAN /\ phase' \in Phases
  BY <1>4, <1>8, SettleType DEF XactInv, XactTypeOK, Phases
<1>17. XactInv'
  BY <1>4, <1>5, <1>11, <1>13, <1>14, <1>15, <1>16, MakeXactInv
<1>18. Cur(xs)'.block = b
  BY <1>4, <1>5
<1> QED
  BY <1>0, <1>4, <1>17, <1>18 DEF PhaseInv, FreshTop, Quiet

(* The levels of a stack none of whose levels has failed get their ids. *)
LEMMA IdsAssigned ==
    ASSUME XactInv, NEW st, Remarked(xs, st), Shape(st), Marks(st),
           Cur(st).block \notin FailedBlocks, GetNewTransactionIds(st),
           NEW st2, st2 = AssignTransactionId(st), NEW k, k = nextXid'
    PROVE  /\ st2 \in Stack /\ Len(st2) = Len(st) /\ Cur(st2).block = Cur(st).block
           /\ k \in 1..(MaxXid + 1) /\ Cur(st2).xid \in 1..MaxXid
           /\ Shape(st2) /\ Marks(st2) /\ Numbered(st2, k)
           /\ Accounted(st2, prepared, k, pg_xact)
<1>1. k = nextXid + Cardinality(Unassigned(st)) /\ k <= MaxXid + 1
  BY DEF GetNewTransactionIds
<1>2. /\ xs \in Stack /\ st \in Stack /\ nextXid \in Nat \ {0}
      /\ Numbered(st, nextXid) /\ Accounted(st, prepared, nextXid, pg_xact)
  <2>1. xs \in Stack /\ nextXid \in Nat \ {0} /\ Numbered(xs, nextXid)
        /\ Accounted(xs, prepared, nextXid, pg_xact)
    BY XactInvFacts
  <2>2. st \in Stack
    BY DEF Remarked
  <2> QED
    BY <2>1, <2>2, RemarkKeeps
<1>3. \A i \in 1..Len(st) : st[i].state # "ABORT"
  <2>1. PICK d \in Nat : d = Len(st)
    BY <1>2, StackFacts
  <2>2. d >= 1 /\ Cur(st) = st[d] /\ DOMAIN st = 1..d
    BY <1>2, <2>1, StackFacts
  <2>3. st[d].state # "ABORT"
    BY <2>2 DEF Marks
  <2>4. \A i \in 1..(d - 1) : st[i].state # "ABORT"
    BY <1>2, <2>1, LowerLive
  <2>5. \A i \in 1..d : i = d \/ i \in 1..(d - 1)
    OBVIOUS
  <2> QED
    BY <2>1, <2>3, <2>4, <2>5
<1>4. /\ st2 \in Stack /\ Len(st2) = Len(st)
      /\ k \in nextXid..(MaxXid + 1) /\ Cur(st2).xid \in 1..MaxXid
      /\ \A i \in 1..Len(st) : /\ st2[i].name = st[i].name
                               /\ st2[i].block = st[i].block
      /\ Shape(st2) /\ Marks(st2) /\ Numbered(st2, k)
      /\ Accounted(st2, prepared, k, pg_xact)
  BY <1>1, <1>2, <1>3, AssignKeeps
<1>5. k \in 1..(MaxXid + 1)
  BY <1>2, <1>4, XactAssumption
<1>6. Cur(st2).block = Cur(st).block
  <2>1. Len(st) \in 1..Len(st)
    BY <1>2, StackFacts
  <2> QED
    BY <1>4, <2>1 DEF Cur
<1> QED
  BY <1>4, <1>5, <1>6

(* The stack of a transaction that is being prepared, with its ids. *)
LEMMA PreparedIds ==
    ASSUME XactInv, Cur(xs).block = "PREPARE", GetNewTransactionIds(xs),
           NEW st, st = AssignTransactionId(xs), NEW k, k = nextXid'
    PROVE  /\ st \in Stack /\ Len(st) = 1 /\ st[1].block = "PREPARE"
           /\ Cur(st) = st[1] /\ k \in 1..(MaxXid + 1)
           /\ Shape(st) /\ Marks(st) /\ Numbered(st, k)
           /\ Accounted(st, prepared, k, pg_xact) /\ Live(st[1]) = XidsOf(st[1])
<1>1. xs \in Stack /\ Shape(xs) /\ Marks(xs) /\ Remarked(xs, xs)
  BY XactInvFacts DEF Remarked
<1>2. Len(xs) = 1
  BY <1>1, TopIsAlone DEF SubBlocks
<1>3. "PREPARE" \notin FailedBlocks
  BY DEF FailedBlocks
<1>4. /\ st \in Stack /\ Len(st) = 1 /\ Cur(st).block = "PREPARE"
      /\ k \in 1..(MaxXid + 1) /\ Shape(st) /\ Marks(st) /\ Numbered(st, k)
      /\ Accounted(st, prepared, k, pg_xact)
  BY <1>1, <1>2, <1>3, IdsAssigned
<1>5. Cur(st) = st[1] /\ 1 \in DOMAIN st
  BY <1>4, StackFacts DEF Cur
<1>6. Live(st[1]) = XidsOf(st[1])
  BY <1>3, <1>4, <1>5 DEF Marks, Live
<1> QED
  BY <1>4, <1>5, <1>6

(* PREPARE TRANSACTION hands the ids of the top level over. *)
LEMMA PrepareTransactionKeeps ==
    ASSUME XactInv, PrepareTransaction PROVE XactInv' /\ PhaseInv'
<1>1. PICK st2, k : st2 = AssignTransactionId(xs) /\ k = nextXid'
  OBVIOUS
<1>2. PICK g \in Gids :
         prepared' = prepared \cup {[gid |-> g, xids |-> XidsOf(st2[1])]}
  BY <1>1 DEF PrepareTransaction
<1>3. PICK p, st : /\ p = [gid |-> g, xids |-> XidsOf(st2[1])]
                   /\ st = <<TopTransactionStateData>>
  OBVIOUS
<1>4. /\ Cur(xs).block = "PREPARE" /\ xs' = st /\ phase' = "idle"
      /\ GetNewTransactionIds(xs) /\ UNCHANGED <<chain, heap, pg_xact>>
  BY <1>3 DEF PrepareTransaction, Finished
<1>5. /\ st2 \in Stack /\ Len(st2) = 1 /\ k \in 1..(MaxXid + 1)
      /\ Accounted(st2, prepared, k, pg_xact) /\ Live(st2[1]) = XidsOf(st2[1])
      /\ st2[1] \in Level
  <2>1. /\ st2 \in Stack /\ Len(st2) = 1 /\ k \in 1..(MaxXid + 1)
        /\ Accounted(st2, prepared, k, pg_xact) /\ Live(st2[1]) = XidsOf(st2[1])
    BY <1>1, <1>4, PreparedIds
  <2> QED
    BY <2>1, StackFacts
<1>6. p.xids = Live(st2[1])
  BY <1>3, <1>5
<1>7. /\ st \in Stack /\ Len(st) = 1 /\ st[1].block = "DEFAULT"
      /\ st[1].state = "DEFAULT" /\ st[1].xid = 0 /\ st[1].childXids = {}
  <2>1. st[1] = TopTransactionStateData
    BY <1>3
  <2> QED
    BY <1>3, <2>1, TopFacts
<1>8. Shape(st) /\ Marks(st) /\ Numbered(st, k) /\ Live(st[1]) = {}
  BY <1>7, FreshKeeps DEF TopBlocks, FailedBlocks
<1>9. Accounted(st, prepared \cup {p}, k, pg_xact)
  BY <1>5, <1>6, <1>7, <1>8, HandOverKeeps
<1>10. Accounted(st, prepared, nextXid, pg_xact)'
  BY <1>1, <1>2, <1>3, <1>4, <1>9
<1>11. prepared' \subseteq [gid : Gids, xids : SUBSET (1..MaxXid)]
  BY <1>2, <1>5, XidsType DEF XactInv, XactTypeOK
<1>12. XactTypeOK'
  <2>1. xs' \in Seq(Level) /\ Len(xs') \in 1..MaxDepth
    BY <1>4, <1>7 DEF Stack
  <2>2. nextXid' \in 1..(MaxXid + 1)
    BY <1>1, <1>5
  <2> QED
    BY <1>4, <1>11, <2>1, <2>2 DEF XactInv, XactTypeOK, Phases
<1>13. XactInv'
  BY <1>1, <1>4, <1>8, <1>10, <1>12 DEF XactInv
<1>14. Cur(xs)'.block = "DEFAULT"
  BY <1>4, <1>7 DEF Cur
<1> QED
  BY <1>3, <1>4, <1>13, <1>14 DEF PhaseInv, FreshTop, Quiet

(* The identifier is in use: the transaction fails with its id. *)
LEMMA PreparingFailsKeeps ==
    ASSUME XactInv, MarkAsPreparingFails
    PROVE  XactInv' /\ PhaseInv' /\ Cur(xs)'.block = "PREPARE"
<1>1. PICK st, k : st = AssignTransactionId(xs) /\ k = nextXid'
  OBVIOUS
<1>2. /\ Cur(xs).block = "PREPARE" /\ xs' = st /\ phase' = "abort"
      /\ GetNewTransactionIds(xs) /\ UNCHANGED <<chain, heap, pg_xact, prepared>>
  BY <1>1 DEF MarkAsPreparingFails, GetCurrentTransactionId
<1>3. /\ st \in Stack /\ Len(st) = 1 /\ st[1].block = "PREPARE"
      /\ Cur(st) = st[1] /\ k \in 1..(MaxXid + 1)
      /\ Shape(st) /\ Marks(st) /\ Numbered(st, k)
      /\ Accounted(st, prepared, k, pg_xact)
  BY <1>1, <1>2, PreparedIds
<1>4. XactTypeOK'
  <2>1. xs' \in Seq(Level) /\ Len(xs') \in 1..MaxDepth
    BY <1>2, <1>3 DEF Stack
  <2>2. nextXid' \in 1..(MaxXid + 1)
    BY <1>1, <1>3
  <2> QED
    BY <1>2, <2>1, <2>2 DEF XactInv, XactTypeOK, Phases
<1>5. XactInv'
  BY <1>1, <1>2, <1>3, <1>4 DEF XactInv
<1>6. Cur(xs)'.block = "PREPARE"
  BY <1>2, <1>3
<1> QED
  BY <1>2, <1>5, <1>6 DEF PhaseInv, FreshTop

(* COMMIT PREPARED and ROLLBACK PREPARED settle what was handed over. *)
LEMMA FinishPreparedKeeps ==
    ASSUME XactInv, NEW g, NEW isCommit, FinishPreparedTransaction(g, isCommit),
           NEW st, xs' = st, Remarked(xs, st), Shape(st), Marks(st),
           UNCHANGED <<nextXid, heap>>, chain' \in BOOLEAN, phase' \in Phases
    PROVE  XactInv'
<1>1. PICK o : o = IF isCommit THEN "committed" ELSE "aborted"
  OBVIOUS
<1>2. PICK p \in prepared : prepared' = prepared \ {p} /\ Settle(p.xids, o)
  BY <1>1 DEF FinishPreparedTransaction
<1>3. p.xids \subseteq 1..MaxXid
  BY DEF XactInv, XactTypeOK
<1>4. PICK X, clog2 : X = p.xids /\ clog2 = pg_xact'
  OBVIOUS
<1>5. o \in {"committed", "aborted"} /\ o # "running"
  BY <1>1
<1>6. SettledTo(o, pg_xact, clog2, p.xids)
  BY <1>2, <1>4 DEF Settle, SettledTo
<1>7. /\ st \in Stack /\ Numbered(st, nextXid) /\ nextXid \in Nat
      /\ Accounted(st, prepared, nextXid, pg_xact)
  <2>1. /\ xs \in Stack /\ Numbered(xs, nextXid) /\ nextXid \in Nat
        /\ Accounted(xs, prepared, nextXid, pg_xact)
    BY XactInvFacts
  <2> QED
    BY <2>1, RemarkKeeps DEF Remarked
<1>8. Accounted(st, prepared \ {p}, nextXid, clog2)
  BY <1>3, <1>5, <1>6, <1>7, FinishKeeps
<1>9. Accounted(st, prepared, nextXid, pg_xact)'
  BY <1>2, <1>4, <1>8
<1>10. pg_xact' \in [1..MaxXid -> {"running", "committed", "aborted"}]
  BY <1>2, <1>5, SettleType
<1>11. prepared' \subseteq [gid : Gids, xids : SUBSET (1..MaxXid)]
  BY <1>2 DEF XactInv, XactTypeOK
<1> QED
  BY <1>7, <1>9, <1>10, <1>11, MakeXactInv

(* The ids of a level that failed are not those of a prepared transaction. *)
LEMMA AnyIdIsUnprepared ==
    ASSUME NEW st \in Stack, NEW n, NEW prep, NEW clog, Accounted(st, prep, n, clog),
           NEW i \in 1..Len(st), NEW x \in XidsOf(st[i]), NEW p \in prep
    PROVE  x \notin p.xids
<1>1. st[i] \in Level /\ DOMAIN st = 1..Len(st)
  BY StackFacts
<1>2. CASE st[i].state # "ABORT"
  BY <1>2, LiveIsUnprepared DEF Live
<1>3. CASE st[i].state = "ABORT"
  <2>1. x \in 1..MaxXid
    BY <1>1, XidsType
  <2>2. clog[x] = "aborted"
    BY <1>1, <1>3 DEF Accounted
  <2>3. x \in p.xids => x \in Owned(st, prep)
    BY <2>1 DEF Owned
  <2> QED
    BY <2>1, <2>2, <2>3 DEF Accounted
<1> QED
  BY <1>2, <1>3

(* The process ends and gives up every level. *)
LEMMA AllSettle ==
    ASSUME NEW st \in Stack, NEW n \in Nat, Numbered(st, n), NEW prep, NEW clog,
           Accounted(st, prep, n, clog),
           NEW st2 \in Stack, Len(st2) = 1, Live(st2[1]) = {}, st2[1].state # "ABORT",
           NEW X, X = UNION {XidsOf(st[i]) : i \in DOMAIN st},
           NEW clog2, SettledTo("aborted", clog, clog2, X)
    PROVE  Accounted(st2, prep, n, clog2)
<1>1. DOMAIN st = 1..Len(st) /\ Len(st) \in Nat /\ Len(st) >= 1
  BY StackFacts
<1>2. \A i \in 1..Len(st) : Live(st[i]) \subseteq X
  BY <1>1 DEF Live
<1>3. \A x \in X : x < n
  BY <1>1 DEF Numbered
<1>4. \A x \in X : \A p \in prep : x \notin p.xids
  BY <1>1, AnyIdIsUnprepared
<1>5. \A i \in 1..Len(st2) : i = 1
  OBVIOUS
<1>6. Settles(st, st2, X, n, prep)
  <2>1. \A i \in 1..Len(st2) : Live(st2[i]) = Live(st[i]) \ X
    <3>1. 1 \in 1..Len(st)
      BY <1>1
    <3>2. Live(st2[1]) = Live(st[1]) \ X
      BY <1>2, <3>1
    <3> QED
      BY <1>5, <3>2
  <2> QED
    BY <1>1, <1>2, <1>3, <1>4, <2>1 DEF Settles
<1>7. FailedAreAborted(st2, clog2)
  BY <1>5 DEF FailedAreAborted
<1> QED
  BY <1>6, <1>7, SettleKeeps

LEMMA AbortOutOfAnyKeeps ==
    ASSUME XactInv, AbortOutOfAnyTransaction PROVE XactInv' /\ PhaseInv'
<1>1. PICK st : st = <<TopTransactionStateData>>
  OBVIOUS
<1>2. PICK X, clog2 : X = UNION {XidsOf(xs[i]) : i \in DOMAIN xs} /\ clog2 = pg_xact'
  OBVIOUS
<1>3. /\ xs' = st /\ phase' = "idle" /\ chain' = FALSE
      /\ UNCHANGED <<nextXid, heap, prepared>> /\ Settle(X, "aborted")
  BY <1>1, <1>2 DEF AbortOutOfAnyTransaction
<1>4. /\ st \in Stack /\ Len(st) = 1 /\ st[1].block = "DEFAULT"
      /\ st[1].state = "DEFAULT" /\ st[1].xid = 0 /\ st[1].childXids = {}
  <2>1. st[1] = TopTransactionStateData
    BY <1>1
  <2> QED
    BY <1>1, <2>1, TopFacts
<1>5. Shape(st) /\ Marks(st) /\ Numbered(st, nextXid) /\ Live(st[1]) = {}
  BY <1>4, FreshKeeps DEF TopBlocks, FailedBlocks
<1>6. SettledTo("aborted", pg_xact, clog2, X)
  BY <1>2, <1>3 DEF Settle, SettledTo
<1>7. /\ xs \in Stack /\ nextXid \in Nat /\ Numbered(xs, nextXid)
      /\ Accounted(xs, prepared, nextXid, pg_xact)
  BY XactInvFacts
<1>8. Accounted(st, prepared, nextXid, clog2)
  BY <1>2, <1>4, <1>5, <1>6, <1>7, AllSettle
<1>9. Accounted(st, prepared, nextXid, pg_xact)'
  BY <1>2, <1>3, <1>8
<1>10. /\ pg_xact' \in [1..MaxXid -> {"running", "committed", "aborted"}]
       /\ prepared' \subseteq [gid : Gids, xids : SUBSET (1..MaxXid)]
       /\ chain' \in BOOLEAN /\ phase' \in Phases
  BY <1>3, SettleType DEF XactInv, XactTypeOK, Phases
<1>11. XactInv'
  BY <1>3, <1>4, <1>5, <1>9, <1>10, MakeXactInv
<1>12. Cur(xs)'.block = "DEFAULT"
  BY <1>3, <1>4 DEF Cur
<1> QED
  BY <1>1, <1>3, <1>11, <1>12 DEF PhaseInv, FreshTop, Quiet

(* A statement writes on a stack none of whose levels has failed: the levels
   that have no id yet get theirs. *)
LEMMA WriteKeeps ==
    ASSUME XactInv, NEW st, Remarked(xs, st), Shape(st), Marks(st),
           Cur(st).block \notin FailedBlocks, GetCurrentTransactionId(st),
           \/ UNCHANGED heap
           \/ \E r \in Rows : heap_insert(st, r),
           UNCHANGED <<chain, pg_xact, prepared>>, phase' \in Phases
    PROVE  XactInv' /\ Cur(xs)'.block = Cur(st).block /\ Len(xs') = Len(st)
<1>1. PICK k, st2 : k = nextXid' /\ st2 = AssignTransactionId(st)
  OBVIOUS
<1>2. /\ GetNewTransactionIds(st) /\ xs' = st2
      /\ \/ heap' = heap
         \/ \E r \in Rows : heap' = [heap EXCEPT ![r] = Cur(st2).xid]
  BY <1>1 DEF heap_insert, GetCurrentTransactionId
<1>3. /\ st2 \in Stack /\ Len(st2) = Len(st) /\ Cur(st2).block = Cur(st).block
      /\ k \in 1..(MaxXid + 1) /\ Cur(st2).xid \in 1..MaxXid
      /\ Shape(st2) /\ Marks(st2) /\ Numbered(st2, k)
      /\ Accounted(st2, prepared, k, pg_xact)
  BY <1>1, <1>2, IdsAssigned
<1>4. heap' \in [Rows -> 0..MaxXid]
  <2>1. Cur(st2).xid \in 0..MaxXid
    BY <1>3
  <2> QED
    BY <1>2, <2>1 DEF XactInv, XactTypeOK
<1>5. XactTypeOK'
  <2>1. xs' \in Seq(Level) /\ Len(xs') \in 1..MaxDepth
    BY <1>2, <1>3 DEF Stack
  <2>2. nextXid' \in 1..(MaxXid + 1)
    BY <1>1, <1>3
  <2> QED
    BY <1>4, <2>1, <2>2 DEF XactInv, XactTypeOK
<1>6. XactInv'
  BY <1>1, <1>2, <1>3, <1>5 DEF XactInv
<1> QED
  BY <1>2, <1>3, <1>6

(* The walks down the stack, as a whole. *)
LEMMA CommitKeeps ==
    ASSUME XactInv, PhaseInv, CommitTransactionCommand PROVE XactInv' /\ PhaseInv'
BY CommitSimpleKeeps, CommitEndKeeps, NothingKeeps, CommitBeginKeeps,
   CommitSubBeginKeeps, CommitSubKeeps, PopStep, RestartStep,
   PrepareTransactionKeeps DEF CommitTransactionCommand

LEMMA AbortKeeps ==
    ASSUME XactInv, PhaseInv, AbortCurrentTransaction PROVE XactInv' /\ PhaseInv'
BY AbortTopKeeps, NothingKeeps, AbortStayKeeps, PopStep DEF AbortCurrentTransaction

LEMMA WalkPhases ==
    /\ CommitTransactionCommand =>
           phase \in {"commit", "subcommit"}
           /\ (PhaseInv' => phase' \in {"idle", "commit", "subcommit"})
    /\ AbortCurrentTransaction => phase = "abort" /\ phase' \in {"idle", "abort"}
<1>1. ASSUME CommitTransactionCommand, PhaseInv'
      PROVE  phase' \in {"idle", "commit", "subcommit"}
  <2>1. CASE CommitEnd \/ CommitRollback
    BY <2>1 DEF CommitEnd, CommitRollback, EndOfTransaction, Finished
  <2>2. CASE CommitRestart
    BY <1>1, <2>2 DEF CommitRestart, PhaseInv
  <2>3. CASE CommitRelease
    BY <2>3 DEF CommitRelease
  <2> QED
    BY <1>1, <2>1, <2>2, <2>3 DEF CommitTransactionCommand, CommitSimple,
       CommitNothing, CommitBegin, PrepareTransaction, CommitSubBegin, CommitSub,
       CommitTopOfSubs, CommitSubAbort, Finished
<1>2. CommitTransactionCommand => phase \in {"commit", "subcommit"}
  BY DEF CommitTransactionCommand, CommitSimple, CommitNothing, CommitBegin,
     CommitEnd, CommitRollback, PrepareTransaction, CommitSubBegin, CommitRelease,
     CommitSub, CommitTopOfSubs, CommitSubAbort, CommitRestart
<1>3. AbortCurrentTransaction => phase = "abort" /\ phase' \in {"idle", "abort"}
  BY DEF AbortCurrentTransaction, AbortSub, AbortStay, AbortNothing, AbortTop,
     Finished
<1> QED
  BY <1>1, <1>2, <1>3

============================================================================
