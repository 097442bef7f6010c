------------------------- MODULE RewardLedgerProofs -------------------------
(***************************************************************************)
(* Lemmas about the reward ledger that the proofs about its users share:   *)
(* what write does to the two tables, and that every row the service       *)
(* builds is a row.                                                        *)
(***************************************************************************)
EXTENDS RewardLedger, WellFoundedInduction, FiniteSetTheorems, TLAPS

\* A new balance whose six columns fit is a balance.
LEMMA AppliedType ==
    ASSUME NEW b, NEW row, \A c \in Columns : Applied(b, row)[c] \in Int32
    PROVE  Applied(b, row) \in [Columns -> Int32]
<1>1. DOMAIN Applied(b, row) = Columns
  BY DEF Applied, Columns
<1>2. Applied(b, row) = [c \in DOMAIN Applied(b, row) |-> Applied(b, row)[c]]
  BY DEF Applied
<1> QED
  BY <1>1, <1>2

\* Appending a row keeps every earlier one where it was.
LEMMA AppendRow ==
    ASSUME NEW ll \in Seq(Row), NEW row \in Row
    PROVE  /\ Append(ll, row) \in Seq(Row)
           /\ Len(Append(ll, row)) = Len(ll) + 1
           /\ \A j \in 1 .. Len(ll) : Append(ll, row)[j] = ll[j]
           /\ Append(ll, row)[Len(ll) + 1] = row
  OBVIOUS

\* write keeps the tables well typed.
LEMMA WriteType ==
    ASSUME LedgerTypeOK, NEW row \in Row, Write(row)
    PROVE  LedgerTypeOK'
<1> USE DEF LedgerTypeOK
<1>1. opened' \subseteq Users
  BY DEF Write
<1>2. balance' \in [Users -> [Columns -> Int32]]
  <2>1. row.user \in Users
    BY DEF Row
  <2>2. Applied(balance[row.user], row) \in [Columns -> Int32]
    BY AppliedType DEF Write
  <2> QED
    BY <2>1, <2>2 DEF Write
<1>3. ledger' \in Seq(Row) /\ Len(ledger') <= MaxRows
  BY AppendRow, BoundsAssumption DEF Write
<1> QED
  BY <1>1, <1>2, <1>3

\* write adds one row at the end and touches none of the others.
LEMMA WriteLedger ==
    ASSUME LedgerTypeOK, NEW row \in Row, Write(row)
    PROVE  /\ Len(ledger) \in Nat
           /\ Len(ledger') = Len(ledger) + 1
           /\ \A j \in RowIds : j \in RowIds' /\ ledger'[j] = ledger[j]
           /\ \A j \in RowIds' : j \in RowIds \/ j = Len(ledger')
           /\ Len(ledger') \in RowIds' /\ Len(ledger') \notin RowIds
           /\ ledger'[Len(ledger')] = row
  BY AppendRow DEF LedgerTypeOK, Write, RowIds

LEMMA RowIdIsPosition ==
    ASSUME LedgerTypeOK
    PROVE  /\ Len(ledger) \in Nat
           /\ \A i \in RowIds : i \in Nat /\ ledger[i] \in Row
  BY DEF LedgerTypeOK, RowIds

-----------------------------------------------------------------------------
(* The rows the service writes are rows.                                   *)

LEMMA NewRowTypes ==
    ASSUME NEW u \in Users, NEW a \in Amounts
    PROVE  /\ \A hold \in {"timed", "indefinite"} : CreditRow(u, a, hold) \in Row
           /\ DebitRow(u, a) \in Row
           /\ LockRow(u, a) \in Row
<1>1. a \in Nat \ {0}
  BY AmountsAssumption
<1> QED
  BY <1>1 DEF CreditRow, DebitRow, LockRow, Row, RowTypes, Holds, NoRow

LEMMA ReversalRowType ==
    ASSUME LedgerTypeOK, NEW i \in RowIds
    PROVE  ReversalRow(i) \in Row
<1>1. ledger[i].user \in Users /\ ledger[i].amount \in Int /\ i \in Nat
  BY RowIdIsPosition DEF Row
<1>2. balance[ledger[i].user].pending \in Int
  BY <1>1, BoundsAssumption DEF LedgerTypeOK, Columns, Int32
<1> DEFINE m == Lesser(balance[ledger[i].user].pending, ledger[i].amount)
<1>3. m \in Int
  BY <1>1, <1>2 DEF Lesser
<1>4. ReversalRow(i) =
        [user |-> ledger[i].user, type |-> "CHARGEBACK_DEBIT", amount |-> -ledger[i].amount,
         pending |-> -m, available |-> m - ledger[i].amount, locked |-> 0,
         source |-> i, hold |-> "none"]
  BY DEF ReversalRow
<1> HIDE DEF m
<1> QED
  BY <1>1, <1>3, <1>4 DEF Row, RowTypes, Holds

LEMMA MaturationRowType ==
    ASSUME LedgerTypeOK, NEW i \in RowIds
    PROVE  MaturationRow(i) \in Row
<1>1. ledger[i].user \in Users /\ ledger[i].amount \in Int /\ i \in Nat
  BY RowIdIsPosition DEF Row
<1> QED
  BY <1>1 DEF MaturationRow, Row, RowTypes, Holds

LEMMA ResolutionRowType ==
    ASSUME LedgerTypeOK, NEW i \in RowIds, NEW type \in Resolutions
    PROVE  ResolutionRow(i, type) \in Row
<1>1. ledger[i].user \in Users /\ ledger[i].locked \in Int /\ i \in Nat
  BY RowIdIsPosition DEF Row
<1> QED
  BY <1>1 DEF ResolutionRow, Row, RowTypes, Holds, Resolutions

LEMMA LedgerInitType == LedgerInit => LedgerTypeOK /\ RowIds = {}
<1> SUFFICES ASSUME LedgerInit PROVE LedgerTypeOK /\ RowIds = {}
  OBVIOUS
<1>1. ledger \in Seq(Row) /\ Len(ledger) = 0 /\ RowIds = {}
  BY DEF LedgerInit, RowIds
<1>2. ZeroBalance \in [Columns -> Int32]
  BY BoundsAssumption DEF ZeroBalance, Int32
<1> QED
  BY <1>1, <1>2, BoundsAssumption DEF LedgerInit, LedgerTypeOK

-----------------------------------------------------------------------------
(* Sums over finite sets.  Nothing here is an induction: of the sets where *)
(* a statement fails there is one with no smaller, because < is well       *)
(* founded on the naturals, and there it does not fail.                    *)

LEMMA Least ==
    ASSUME NEW T, T \subseteq Nat, T # {}
    PROVE  \E n \in T : \A m \in T : n <= m
<1>1. PICK R : R = {ss \in Nat \X Nat : ss[1] < ss[2]}
    OBVIOUS
<1>2. IsWellFoundedOn(R, Nat)
    BY <1>1, NatLessThanWellFounded DEF OpToRel
<1>3. PICK n \in T : \A m \in T : ~(<<m, n>> \in R)
    BY <1>2, WFMin
<1>4. ASSUME NEW m \in T
      PROVE  n <= m
  <2>1. m \in Nat /\ n \in Nat
    OBVIOUS
  <2>2. ~(<<m, n>> \in R)
    BY <1>3
  <2>3. m < n => <<m, n>> \in R
    BY <1>1, <2>1
  <2> QED
    BY <2>1, <2>2, <2>3
<1> QED
    BY <1>4

LEMMA LeastSet ==
    ASSUME NEW S, IsFiniteSet(S), NEW T, T \subseteq SUBSET S, T # {}
    PROVE  \E s \in T : \A r \in T : ~(r \subseteq s /\ r # s)
<1>1. PICK T2 : T2 = {n \in Nat : \E s \in T : n = Cardinality(s)}
    OBVIOUS
<1>2. \A s \in T : IsFiniteSet(s) /\ Cardinality(s) \in Nat
    BY FS_Subset, FS_CardinalityType
<1>3. T2 \subseteq Nat /\ T2 # {}
    BY <1>1, <1>2
<1>4. PICK n \in T2 : \A m \in T2 : n <= m
    BY <1>3, Least
<1>5. PICK s \in T : n = Cardinality(s)
    BY <1>1, <1>4
<1>6. ASSUME NEW r \in T, r \subseteq s, r # s
      PROVE  FALSE
  <2>1. Cardinality(r) < Cardinality(s)
    BY <1>2, <1>6, FS_Subset
  <2>2. Cardinality(r) \in T2
    BY <1>1, <1>2, <1>6
  <2> QED
    BY <1>2, <1>4, <1>5, <2>1, <2>2
<1> QED
    BY <1>6

\* The member a fold takes first.
First(s) == CHOOSE x \in s : TRUE

\* g is the sum of f over each set, member by member.
SumsUp(g, f) ==
    \A s \in SUBSET DOMAIN f :
        g[s] = IF s = {} THEN 0 ELSE f[First(s)] + g[s \ {First(s)}]

\* ... and whichever member comes first.
SumsAnyhow(g, f) == \A s \in SUBSET DOMAIN f : \A x \in s : g[s] = f[x] + g[s \ {x}]

LEMMA FirstIn ==
    ASSUME NEW s, s # {}
    PROVE  First(s) \in s
    BY DEF First

LEMMA SmallerSet ==
    ASSUME NEW s, IsFiniteSet(s), s # {}
    PROVE  /\ IsFiniteSet(s \ {First(s)}) /\ Cardinality(s) \in Nat
           /\ Cardinality(s \ {First(s)}) = Cardinality(s) - 1
<1>1. PICK x \in s : x = First(s)
    BY FirstIn
<1>2. IsFiniteSet(s \ {x}) /\ Cardinality(s \ {x}) = Cardinality(s) - 1
    BY <1>1, FS_RemoveElement
<1> QED
    BY <1>1, <1>2, FS_CardinalityType

\* There is such a sum over every finite set.
LEMMA SumsExist ==
    ASSUME NEW D, IsFiniteSet(D), NEW f \in [D -> Int]
    PROVE  \E g \in [SUBSET D -> Int] : SumsUp(g, f)
<1> DEFINE Upto(g, n) == \A s \in SUBSET D : Cardinality(s) <= n =>
                            g[s] = IF s = {} THEN 0 ELSE f[First(s)] + g[s \ {First(s)}]
<1> DEFINE Missing == {n \in Nat : ~\E g \in [SUBSET D -> Int] : Upto(g, n)}
<1>1. \A s \in SUBSET D : IsFiniteSet(s) /\ Cardinality(s) \in Nat /\ Cardinality(s) <= Cardinality(D)
    BY FS_Subset, FS_CardinalityType
<1>2. Cardinality(D) \in Nat
    BY FS_CardinalityType
<1>3. Missing = {}
  <2> SUFFICES ASSUME Missing # {} PROVE FALSE
    OBVIOUS
  <2>1. PICK n \in Missing : \A m \in Missing : n <= m
    <3>1. Missing \subseteq Nat
      OBVIOUS
    <3> HIDE DEF Missing
    <3> QED
      BY <3>1, Least
  <2>2. n \in Nat /\ ~\E g \in [SUBSET D -> Int] : Upto(g, n)
    OBVIOUS
  <2>3. CASE n = 0
    <3>1. PICK g : g = [s \in SUBSET D |-> 0]
      OBVIOUS
    <3>2. g \in [SUBSET D -> Int]
      BY <3>1
    <3>3. \A s \in SUBSET D : Cardinality(s) <= 0 => s = {}
      BY <1>1, FS_EmptySet
    <3>4. Upto(g, 0)
      BY <3>1, <3>3
    <3> QED
      BY <2>2, <2>3, <3>2, <3>4
  <2>4. CASE n # 0
    <3>0. n - 1 \in Nat /\ n - 1 < n /\ n \in Nat
      BY <2>2, <2>4
    <3>1. n - 1 \in Nat /\ n - 1 \notin Missing
      <4> HIDE DEF Missing
      <4>1. n - 1 \in Missing => n <= n - 1
        BY <2>1
      <4> QED
        BY <3>0, <4>1
    <3>2. PICK g \in [SUBSET D -> Int] : Upto(g, n - 1)
      BY <3>1
    <3>3. PICK h : h = [s \in SUBSET D |-> IF Cardinality(s) <= n - 1 THEN g[s]
                                         ELSE f[First(s)] + g[s \ {First(s)}]]
      OBVIOUS
    <3>4. ASSUME NEW s \in SUBSET D, s # {}
          PROVE  /\ First(s) \in D /\ f[First(s)] \in Int /\ s \ {First(s)} \in SUBSET D
                 /\ Cardinality(s \ {First(s)}) = Cardinality(s) - 1
                 /\ Cardinality(s) \in Nat
      BY <1>1, <3>4, FirstIn, SmallerSet
    <3>5. h \in [SUBSET D -> Int]
      <4>1. ASSUME NEW s \in SUBSET D
            PROVE  h[s] \in Int
        <5>1. CASE Cardinality(s) <= n - 1
          BY <3>3, <5>1
        <5>2. CASE ~(Cardinality(s) <= n - 1)
          <6>1. s # {}
            BY <1>1, <2>2, <3>1, <5>2, FS_EmptySet
          <6> QED
            BY <3>3, <3>4, <5>2, <6>1
        <5> QED
          BY <5>1, <5>2
      <4> QED
        BY <3>3, <4>1
    <3>6. ASSUME NEW s \in SUBSET D, Cardinality(s) <= n
          PROVE  h[s] = IF s = {} THEN 0 ELSE f[First(s)] + h[s \ {First(s)}]
      <4>1. CASE s = {}
        <5>1. Cardinality(s) <= n - 1
          BY <3>1, <4>1, FS_EmptySet
        <5> QED
          BY <3>2, <3>3, <4>1, <5>1
      <4>2. CASE s # {}
        <5>1. PICK r \in SUBSET D : r = s \ {First(s)}
          BY <3>4, <4>2
        <5>2. Cardinality(r) <= n - 1
          BY <2>2, <3>4, <3>6, <4>2, <5>1
        <5>3. h[r] = g[r]
          BY <3>3, <5>2
        <5>4. h[s] = f[First(s)] + g[r]
          BY <3>2, <3>3, <4>2, <5>1
        <5> QED
          BY <4>2, <5>1, <5>3, <5>4
      <4> QED
        BY <4>1, <4>2
    <3>7. Upto(h, n)
      BY <3>6
    <3> QED
      BY <2>2, <3>5, <3>7
  <2> QED
    BY <2>3, <2>4
<1>4. PICK g \in [SUBSET D -> Int] : Upto(g, Cardinality(D))
    BY <1>2, <1>3
<1>5. SumsUp(g, f)
    BY <1>1, <1>4 DEF SumsUp
<1> QED
    BY <1>5

\* There is one such sum.
LEMMA SumsAgree ==
    ASSUME NEW D, IsFiniteSet(D), NEW f, DOMAIN f = D, NEW g, NEW h, SumsUp(g, f), SumsUp(h, f)
    PROVE  \A s \in SUBSET D : g[s] = h[s]
<1>1. PICK Bad : Bad = {s \in SUBSET D : g[s] # h[s]}
    OBVIOUS
<1>2. Bad = {}
  <2> SUFFICES ASSUME Bad # {} PROVE FALSE
    OBVIOUS
  <2>1. Bad \subseteq SUBSET D
    BY <1>1
  <2>2. PICK s \in Bad : \A r \in Bad : ~(r \subseteq s /\ r # s)
    BY <2>1, LeastSet
  <2>3. s \in SUBSET D /\ g[s] # h[s]
    BY <1>1
  <2>4. s # {}
    BY <2>3 DEF SumsUp
  <2>5. PICK r \in SUBSET D : r = s \ {First(s)}
    BY <2>3
  <2>6. r \subseteq s /\ r # s
    BY <2>4, <2>5, FirstIn
  <2>7. g[r] = h[r]
    BY <1>1, <2>2, <2>6
  <2>8. g[s] = f[First(s)] + g[r] /\ h[s] = f[First(s)] + h[r]
    BY <2>3, <2>4, <2>5 DEF SumsUp
  <2> QED
    BY <2>3, <2>7, <2>8
<1> QED
    BY <1>1, <1>2

LEMMA SumIs ==
    ASSUME NEW D, IsFiniteSet(D), NEW f \in [D -> Int]
    PROVE  \E g \in [SUBSET D -> Int] : SumsUp(g, f) /\ SumFunction(f) = g[D]
<1>1. PICK g \in [SUBSET D -> Int] : SumsUp(g, f)
    BY SumsExist
<1>2. DOMAIN f = D
    OBVIOUS
<1> DEFINE Body(h) == [s \in SUBSET DOMAIN f |-> IF s = {} THEN 0 ELSE f[First(s)] + h[s \ {First(s)}]]
<1>3. g = Body(g)
  <2>1. g = [s \in SUBSET D |-> g[s]]
    OBVIOUS
  <2>2. \A s \in SUBSET D : g[s] = IF s = {} THEN 0 ELSE f[First(s)] + g[s \ {First(s)}]
    BY <1>1, <1>2 DEF SumsUp
  <2> QED
    BY <1>2, <2>1, <2>2
<1>4. PICK iter : iter = CHOOSE h : h = Body(h)
    OBVIOUS
<1>5. iter = Body(iter)
  <2> HIDE DEF Body
  <2> QED
    BY <1>3, <1>4
<1>6. SumFunction(f) = iter[D]
    BY <1>2, <1>4 DEF SumFunction, SumFunctionOnSet, FoldFunctionOnSet, MapThenFoldSet, First
<1>7. SumsUp(iter, f)
  <2>1. \A s \in SUBSET D : Body(iter)[s] = IF s = {} THEN 0 ELSE f[First(s)] + iter[s \ {First(s)}]
    BY <1>2
  <2> HIDE DEF Body
  <2> QED
    BY <1>2, <1>5, <2>1 DEF SumsUp
<1>8. iter[D] = g[D]
    BY <1>1, <1>2, <1>7, SumsAgree
<1> QED
    BY <1>1, <1>6, <1>8

\* A sum takes any member apart.
LEMMA SumsAnyOrder ==
    ASSUME NEW D, IsFiniteSet(D), NEW f \in [D -> Int], NEW g \in [SUBSET D -> Int], SumsUp(g, f)
    PROVE  SumsAnyhow(g, f)
<1>1. PICK Bad : Bad = {s \in SUBSET D : \E x \in s : g[s] # f[x] + g[s \ {x}]}
    OBVIOUS
<1>2. Bad = {}
  <2> SUFFICES ASSUME Bad # {} PROVE FALSE
    OBVIOUS
  <2>1. Bad \subseteq SUBSET D
    BY <1>1
  <2>2. PICK s \in Bad : \A r \in Bad : ~(r \subseteq s /\ r # s)
    BY <2>1, LeastSet
  <2>3. PICK x \in s : s \in SUBSET D /\ g[s] # f[x] + g[s \ {x}]
    BY <1>1
  <2>4. PICK y \in s : y = First(s)
    BY <2>3, FirstIn
  <2>5. g[s] = f[y] + g[s \ {y}]
    BY <2>3, <2>4 DEF SumsUp
  <2>6. x # y
    BY <2>3, <2>5
  <2>7. PICK r \in SUBSET D : r = s \ {y}
    BY <2>3
  <2>8. PICK q \in SUBSET D : q = s \ {x}
    BY <2>3
  <2>9. PICK p \in SUBSET D : p = s \ {x, y}
    BY <2>3
  <2>10. r \ {x} = p /\ q \ {y} = p /\ x \in r /\ y \in q
    BY <2>6, <2>7, <2>8, <2>9
  <2>11. r \notin Bad /\ q \notin Bad
    BY <2>2, <2>7, <2>8
  <2>12. g[r] = f[x] + g[p] /\ g[q] = f[y] + g[p]
    BY <1>1, <2>10, <2>11
  <2>13. f[x] \in Int /\ f[y] \in Int /\ g[p] \in Int
    BY <2>3
  <2> QED
    BY <2>3, <2>5, <2>7, <2>8, <2>12, <2>13
<1> QED
    BY <1>1, <1>2 DEF SumsAnyhow

\* The sum of nothing is 0, and a sum is an integer.
LEMMA SumType ==
    ASSUME NEW D, IsFiniteSet(D), NEW f \in [D -> Int]
    PROVE  SumFunction(f) \in Int /\ (D = {} => SumFunction(f) = 0)
<1>1. PICK g \in [SUBSET D -> Int] : SumsUp(g, f) /\ SumFunction(f) = g[D]
    BY SumIs
<1>2. D \in SUBSET D /\ DOMAIN f = D
    OBVIOUS
<1> QED
    BY <1>1, <1>2 DEF SumsUp

LEMMA SumIsApart ==
    ASSUME NEW D, IsFiniteSet(D), NEW f \in [D -> Int]
    PROVE  \E g \in [SUBSET D -> Int] :
              /\ SumsUp(g, f) /\ SumFunction(f) = g[D]
              /\ \A x \in D : g[D] = f[x] + g[D \ {x}]
<1>1. PICK g \in [SUBSET D -> Int] : SumsUp(g, f) /\ SumFunction(f) = g[D]
    BY SumIs
<1>2. SumsAnyhow(g, f)
    BY <1>1, SumsAnyOrder
<1>3. \A x \in D : g[D] = f[x] + g[D \ {x}]
    BY <1>2 DEF SumsAnyhow
<1> QED
    BY <1>1, <1>3

\* A sum without one of its members.
LEMMA SumWithout ==
    ASSUME NEW D, IsFiniteSet(D), NEW f \in [D -> Int], NEW x \in D,
           NEW E, E \in SUBSET D, D \ {x} = E, NEW e \in [E -> Int], \A y \in E : e[y] = f[y]
    PROVE  SumFunction(f) = SumFunction(e) + f[x]
<1>1. IsFiniteSet(E)
    BY FS_Subset
<1>2. PICK g \in [SUBSET D -> Int] : /\ SumsUp(g, f) /\ SumFunction(f) = g[D]
                                     /\ \A y \in D : g[D] = f[y] + g[D \ {y}]
    BY SumIsApart
<1>3. PICK h \in [SUBSET E -> Int] : SumsUp(h, e) /\ SumFunction(e) = h[E]
    BY <1>1, SumIs
<1>4. g[D] = f[x] + g[E]
    BY <1>2
<1>5. SumsUp(g, e)
  <2> SUFFICES ASSUME NEW s \in SUBSET E
               PROVE  g[s] = IF s = {} THEN 0 ELSE e[First(s)] + g[s \ {First(s)}]
    BY DEF SumsUp
  <2>1. s \in SUBSET DOMAIN f
    OBVIOUS
  <2>2. g[s] = IF s = {} THEN 0 ELSE f[First(s)] + g[s \ {First(s)}]
    BY <1>2, <2>1 DEF SumsUp
  <2>3. s # {} => First(s) \in E
    BY FirstIn
  <2> QED
    BY <2>2, <2>3
<1>6. g[E] = h[E]
  <2>1. DOMAIN e = E /\ E \in SUBSET E
    OBVIOUS
  <2> QED
    BY <1>1, <1>3, <1>5, <2>1, SumsAgree
<1>7. g[E] \in Int /\ f[x] \in Int
    OBVIOUS
<1> QED
    BY <1>2, <1>3, <1>4, <1>6, <1>7

\* A sum with a member more.
Grows(f, f2, x) ==
    /\ x \in DOMAIN f2 /\ x \notin DOMAIN f
    /\ \A y \in DOMAIN f : y \in DOMAIN f2 /\ f[y] = f2[y]
    /\ \A y \in DOMAIN f2 : y = x \/ y \in DOMAIN f

LEMMA SumGrows ==
    ASSUME NEW D, IsFiniteSet(D), NEW f2 \in [D -> Int], NEW E, NEW f \in [E -> Int], NEW x, Grows(f, f2, x)
    PROVE  SumFunction(f2) = SumFunction(f) + f2[x]
<1>1. x \in D /\ E \in SUBSET D /\ D \ {x} = E /\ \A y \in E : f[y] = f2[y]
    BY DEF Grows
<1> QED
    BY <1>1, SumWithout

-----------------------------------------------------------------------------
(* What a user's rows add up to.                                           *)

LedgerColumns == {"amount", "pending", "available", "locked"}

\* The rows of a history that a total is made of, and the sum over them.
Picked(ll, u, types) == {j \in 1 .. Len(ll) : ll[j].user = u /\ ll[j].type \in types}
Values(ll, u, types, column) == [j \in Picked(ll, u, types) |-> ll[j][column]]

LEMMA RowColumns ==
    ASSUME NEW row \in Row
    PROVE  \A column \in LedgerColumns : row[column] \in Int
    BY DEF Row, LedgerColumns

LEMMA ValuesType ==
    ASSUME NEW ll \in Seq(Row), NEW u, NEW types, NEW column \in LedgerColumns
    PROVE  /\ IsFiniteSet(Picked(ll, u, types))
           /\ Values(ll, u, types, column) \in [Picked(ll, u, types) -> Int]
           /\ SumFunction(Values(ll, u, types, column)) \in Int
           /\ Picked(ll, u, types) = {} => SumFunction(Values(ll, u, types, column)) = 0
<1>1. IsFiniteSet(Picked(ll, u, types))
    <2>1. IsFiniteSet(1 .. Len(ll))
      BY FS_Interval
    <2>2. Picked(ll, u, types) \subseteq 1 .. Len(ll)
      BY DEF Picked
    <2> QED
      BY <2>1, <2>2, FS_Subset
<1>2. \A j \in Picked(ll, u, types) : ll[j][column] \in Int
    BY RowColumns DEF Picked
<1>3. Values(ll, u, types, column) \in [Picked(ll, u, types) -> Int]
    BY <1>2 DEF Values
<1> QED
    BY <1>1, <1>3, SumType

\* A history that goes on with row, and the totals of it.
LEMMA ValuesAfter ==
    ASSUME NEW ll \in Seq(Row), NEW row \in Row, NEW u, NEW types, NEW column \in LedgerColumns
    PROVE  SumFunction(Values(Append(ll, row), u, types, column)) =
             SumFunction(Values(ll, u, types, column))
             + (IF row.user = u /\ row.type \in types THEN row[column] ELSE 0)
<1>1. PICK n, ll2 : n = Len(ll) + 1 /\ ll2 = Append(ll, row)
    OBVIOUS
<1>2. PICK D, D2 : D = Picked(ll, u, types) /\ D2 = Picked(ll2, u, types)
    OBVIOUS
<1>3. PICK f, f2 : f = Values(ll, u, types, column) /\ f2 = Values(ll2, u, types, column)
    OBVIOUS
<1>4. ll2 \in Seq(Row) /\ Len(ll2) = n /\ ll2[n] = row /\ Len(ll) \in Nat /\ \A j \in 1 .. Len(ll) : ll2[j] = ll[j]
    BY <1>1, AppendRow
<1>5. IsFiniteSet(D) /\ f \in [D -> Int] /\ SumFunction(f) \in Int
    BY <1>2, <1>3, ValuesType
<1>6. IsFiniteSet(D2) /\ f2 \in [D2 -> Int]
    BY <1>2, <1>3, <1>4, ValuesType
<1>7. /\ n \notin D
      /\ \A j \in D : j \in D2
      /\ \A j \in D2 : j \in D \/ j = n
      /\ n \in D2 <=> row.user = u /\ row.type \in types
    BY <1>1, <1>2, <1>4 DEF Picked
<1>8. \A j \in D : f[j] = f2[j]
    <2>1. \A j \in D : f[j] = ll[j][column]
      BY <1>2, <1>3 DEF Values
    <2>2. \A j \in D2 : f2[j] = ll2[j][column]
      BY <1>2, <1>3 DEF Values
    <2>3. \A j \in D : ll2[j] = ll[j]
      BY <1>2, <1>4 DEF Picked
    <2> QED
      BY <1>7, <2>1, <2>2, <2>3
<1>9. CASE row.user = u /\ row.type \in types
    <2>1. Grows(f, f2, n)
      BY <1>5, <1>6, <1>7, <1>8, <1>9 DEF Grows
    <2>2. SumFunction(f2) = SumFunction(f) + f2[n]
      BY <1>5, <1>6, <2>1, SumGrows
    <2>3. f2[n] = row[column]
      BY <1>2, <1>3, <1>4, <1>7, <1>9 DEF Values
    <2> QED
      BY <1>1, <1>3, <1>9, <2>2, <2>3
<1>10. CASE ~(row.user = u /\ row.type \in types)
    <2>1. D2 = D
      BY <1>7, <1>10
    <2>2. f2 = f
      BY <1>5, <1>6, <1>8, <2>1
    <2> QED
      BY <1>1, <1>3, <1>5, <1>10, <2>2
<1> QED
    BY <1>9, <1>10

LEMMA TotalIs ==
    ASSUME NEW u, NEW types, NEW column
    PROVE  /\ Total(u, types, column) = SumFunction(Values(ledger, u, types, column))
           /\ Total(u, types, column)' = SumFunction(Values(ledger', u, types, column))
    BY DEF Total, RowsOf, RowIds, Values, Picked

LEMMA TotalType ==
    ASSUME LedgerTypeOK, NEW u, NEW types, NEW column \in LedgerColumns
    PROVE  Total(u, types, column) \in Int /\ (RowIds = {} => Total(u, types, column) = 0)
<1>1. ledger \in Seq(Row)
    BY DEF LedgerTypeOK
<1>2. RowIds = {} => Picked(ledger, u, types) = {}
    BY DEF RowIds, Picked
<1> QED
    BY <1>1, <1>2, ValuesType, TotalIs

\* write adds its row to the totals of its user and type, and to no other.
LEMMA TotalAfter ==
    ASSUME LedgerTypeOK, NEW row \in Row, Write(row), NEW u, NEW types, NEW column \in LedgerColumns
    PROVE  Total(u, types, column)' =
             Total(u, types, column) + (IF row.user = u /\ row.type \in types THEN row[column] ELSE 0)
<1>1. PICK ll \in Seq(Row) : ll = ledger
    BY DEF LedgerTypeOK
<1>2. ledger' = Append(ll, row)
    BY <1>1 DEF Write
<1> QED
    BY <1>1, <1>2, ValuesAfter, TotalIs

\* What write does to the six columns.
LEMMA BalanceAfter ==
    ASSUME LedgerTypeOK, NEW row \in Row, Write(row), NEW u \in Users
    PROVE  /\ \A c \in Columns : balance[u][c] \in Int
           /\ u # row.user => balance'[u] = balance[u]
           /\ u = row.user =>
                /\ \A c \in {"pending", "available", "locked"} : balance'[u][c] = balance[u][c] + row[c]
                /\ balance'[u].earned =
                     balance[u].earned + (IF row.type = "CONVERSION_CREDIT" THEN row.amount ELSE 0)
                /\ balance'[u].reversed =
                     balance[u].reversed - (IF row.type = "CHARGEBACK_DEBIT" THEN row.amount ELSE 0)
                /\ balance'[u].withdrawn =
                     balance[u].withdrawn - (IF row.type = "PAYOUT_SETTLE" THEN row.amount ELSE 0)
<1>1. \A c \in Columns : balance[u][c] \in Int
    BY BoundsAssumption DEF LedgerTypeOK, Int32
<1>2. row.amount \in Int
    BY DEF Row
<1>3. balance' = [balance EXCEPT ![row.user] = Applied(balance[row.user], row)] /\ DOMAIN balance = Users
    BY DEF Write, LedgerTypeOK
<1>4. u # row.user => balance'[u] = balance[u]
    BY <1>3
<1>5. ASSUME u = row.user
      PROVE  balance'[u] = Applied(balance[u], row)
    BY <1>3, <1>5
<1>6. LET life == LifetimeOf(row) IN
        /\ life.earned = IF row.type = "CONVERSION_CREDIT" THEN row.amount ELSE 0
        /\ life.reversed = IF row.type = "CHARGEBACK_DEBIT" THEN -row.amount ELSE 0
        /\ life.withdrawn = IF row.type = "PAYOUT_SETTLE" THEN -row.amount ELSE 0
    BY DEF LifetimeOf, NoLifetime
<1> QED
    BY <1>1, <1>2, <1>4, <1>5, <1>6 DEF Applied, Columns

\* write keeps every balance equal to its history.
LEMMA WriteReconciles ==
    ASSUME LedgerTypeOK, Reconciles, NEW row \in Row, Write(row)
    PROVE  Reconciles'
<1> SUFFICES ASSUME NEW u \in Users
             PROVE  /\ Drift(u)' = [pending |-> 0, available |-> 0, locked |-> 0]
                    /\ balance'[u].earned = Total(u, {"CONVERSION_CREDIT"}, "amount")'
                    /\ balance'[u].reversed = -Total(u, {"CHARGEBACK_DEBIT"}, "amount")'
                    /\ balance'[u].withdrawn = -Total(u, {"PAYOUT_SETTLE"}, "amount")'
    BY DEF Reconciles
<1>1. row.type \in RowTypes /\ row.amount \in Int
    BY DEF Row
<1>2. \A types : \A column \in LedgerColumns : Total(u, types, column) \in Int
    BY TotalType
<1>3. ASSUME NEW c \in {"pending", "available", "locked"}
      PROVE  balance'[u][c] - Total(u, RowTypes, c)' = 0
    <2>1. balance[u][c] - Total(u, RowTypes, c) = 0
      <3>1. Drift(u)[c] = 0
        BY <1>3 DEF Reconciles
      <3> QED
        BY <3>1 DEF Drift
    <2>2. Total(u, RowTypes, c)' = Total(u, RowTypes, c) + (IF row.user = u THEN row[c] ELSE 0)
      BY <1>1, <1>3, TotalAfter DEF LedgerColumns
    <2>3. balance'[u][c] = balance[u][c] + (IF row.user = u THEN row[c] ELSE 0)
      BY <1>3, BalanceAfter DEF Columns
    <2>4. balance[u][c] \in Int /\ row[c] \in Int /\ Total(u, RowTypes, c) \in Int
      <3>1. c \in Columns /\ c \in LedgerColumns
        BY <1>3 DEF Columns, LedgerColumns
      <3> QED
        BY <1>2, <3>1, BalanceAfter, RowColumns
    <2> QED
      BY <2>1, <2>2, <2>3, <2>4
<1>4. Drift(u)' = [pending |-> 0, available |-> 0, locked |-> 0]
    BY <1>3 DEF Drift
<1>5. ASSUME NEW type \in RowTypes
      PROVE  Total(u, {type}, "amount")' =
               Total(u, {type}, "amount") + (IF row.user = u /\ row.type = type THEN row.amount ELSE 0)
    BY TotalAfter DEF LedgerColumns
<1>6. ASSUME NEW type \in RowTypes
      PROVE  Total(u, {type}, "amount") \in Int
    BY <1>2 DEF LedgerColumns
<1>7. /\ balance[u].earned = Total(u, {"CONVERSION_CREDIT"}, "amount")
      /\ balance[u].reversed = -Total(u, {"CHARGEBACK_DEBIT"}, "amount")
      /\ balance[u].withdrawn = -Total(u, {"PAYOUT_SETTLE"}, "amount")
    BY DEF Reconciles
<1>8. {"CONVERSION_CREDIT", "CHARGEBACK_DEBIT", "PAYOUT_SETTLE"} \subseteq RowTypes
    BY DEF RowTypes
<1>9. balance'[u].earned = Total(u, {"CONVERSION_CREDIT"}, "amount")'
    BY <1>1, <1>5, <1>6, <1>7, <1>8, BalanceAfter
<1>10. balance'[u].reversed = -Total(u, {"CHARGEBACK_DEBIT"}, "amount")'
    BY <1>1, <1>5, <1>6, <1>7, <1>8, BalanceAfter
<1>11. balance'[u].withdrawn = -Total(u, {"PAYOUT_SETTLE"}, "amount")'
    BY <1>1, <1>5, <1>6, <1>7, <1>8, BalanceAfter
<1> QED
    BY <1>4, <1>9, <1>10, <1>11

\* A step that leaves the tables alone, and the empty tables, reconcile.
LEMMA StillReconciles ==
    ASSUME Reconciles, UNCHANGED <<balance, ledger>>
    PROVE  Reconciles'
<1>1. \A u, types, column : Total(u, types, column)' = Total(u, types, column)
    BY TotalIs
<1> QED
    BY <1>1 DEF Reconciles, Drift

LEMMA EmptyReconciles ==
    ASSUME LedgerTypeOK, ledger = <<>>, balance = [u \in Users |-> ZeroBalance]
    PROVE  Reconciles
<1> SUFFICES ASSUME NEW u \in Users
             PROVE  /\ \A types : \A column \in LedgerColumns : Total(u, types, column) = 0
                    /\ \A c \in Columns : balance[u][c] = 0
    BY DEF Reconciles, Drift, Columns, LedgerColumns
<1>1. RowIds = {}
    BY DEF RowIds
<1>2. ASSUME NEW types, NEW column \in LedgerColumns
      PROVE  Total(u, types, column) = 0
    BY <1>1, TotalType
<1>3. \A c \in Columns : balance[u][c] = 0
    BY DEF ZeroBalance
<1> QED
    BY <1>2, <1>3
=============================================================================
