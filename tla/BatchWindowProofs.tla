--------------------------- MODULE BatchWindowProofs ---------------------------
(***************************************************************************)
(* Proofs about BatchWindow.tla: the window of a batch holds its rows and  *)
(* stays within the window of the listen that returned them.               *)
(***************************************************************************)
EXTENDS BatchWindow, WellFoundedInduction, TLAPS

LEMMA SmallestExists ==
  ASSUME NEW S \in SUBSET Nat, S # {}
  PROVE  \E x \in S : \A y \in S : x <= y
<1>1. PICK x \in S : \A y \in S : ~ (<<y, x>> \in OpToRel(<, Nat))
  BY WFMin, NatLessThanWellFounded
<1>2. \A y \in S : ~ (y < x)
  BY <1>1 DEF OpToRel
<1> QED BY <1>2

LEMMA LargestExists ==
  ASSUME NEW b \in Nat, NEW S \in SUBSET (0..b), S # {}
  PROVE  \E x \in S : \A y \in S : x >= y
<1> DEFINE T == {b - y : y \in S}
<1>1. T \in SUBSET Nat /\ T # {}
  <2>1. \A y \in S : b - y \in Nat
    OBVIOUS
  <2> QED BY <2>1
<1>2. PICK z \in T : \A t \in T : z <= t
  BY <1>1, SmallestExists
<1>3. PICK x \in S : z = b - x
  OBVIOUS
<1>4. \A y \in S : b - x <= b - y
  BY <1>2, <1>3
<1> QED BY <1>4

LEMMA MinIsSmallest ==
  ASSUME NEW S \in SUBSET Nat, S # {}
  PROVE  Min(S) \in S /\ \A y \in S : Min(S) <= y
BY SmallestExists DEF Min

LEMMA MaxIsLargest ==
  ASSUME NEW b \in Nat, NEW S \in SUBSET (0..b), S # {}
  PROVE  Max(S) \in S /\ \A y \in S : Max(S) >= y
BY LargestExists DEF Max

\* The window of a batch holds the snapshots of its rows and stays within the
\* window of its listen, whichever rows have the columns.
THEOREM WindowHoldsRows ==
  ASSUME NEW first \in Nat, NEW last \in Nat, NEW rows, RowsOfWindow(rows, first, last)
  PROVE  LET batch == BuildBatch(rows) IN
           /\ batch.start \in first..last /\ batch.end \in first..last
           /\ batch.snapshots # {}
           /\ \A k \in batch.snapshots : batch.start <= k /\ k <= batch.end
<1> DEFINE starts == {RowStart(row) : row \in rows}
           ends == {RowEnd(row) : row \in rows}
<1>1. PICK r : r \in rows
  BY DEF RowsOfWindow
<1>2. \A row \in rows :
        /\ row.snapshot \in first..last
        /\ RowStart(row) \in first..last /\ RowStart(row) <= row.snapshot
        /\ RowEnd(row) \in first..last /\ row.snapshot <= RowEnd(row)
  BY DEF RowsOfWindow, RowStart, RowEnd, NoColumn
<1>3. Min(starts) \in starts /\ \A k \in starts : Min(starts) <= k
  <2>1. starts \in SUBSET Nat /\ starts # {}
    BY <1>1, <1>2
  <2> QED BY <2>1, MinIsSmallest
<1>4. Max(ends) \in ends /\ \A k \in ends : Max(ends) >= k
  <2>1. ends \in SUBSET (0..last) /\ ends # {}
    BY <1>1, <1>2
  <2> QED BY <2>1, MaxIsLargest
<1>5. Min(starts) \in first..last /\ Max(ends) \in first..last
  BY <1>2, <1>3, <1>4
<1>6. \A row \in rows : Min(starts) <= row.snapshot /\ row.snapshot <= Max(ends)
  <2> SUFFICES ASSUME NEW row \in rows
               PROVE  Min(starts) <= row.snapshot /\ row.snapshot <= Max(ends)
    OBVIOUS
  <2>1. Min(starts) <= RowStart(row) /\ RowEnd(row) <= Max(ends)
    BY <1>2, <1>3, <1>4
  <2> HIDE DEF starts, ends
  <2> QED BY <1>2, <1>5, <2>1
<1> QED BY <1>1, <1>5, <1>6 DEF BuildBatch, StartOf, EndOf
=============================================================================
