------------------------------ MODULE BatchWindow ------------------------------
(***************************************************************************)
(* _build_change_batch and _build_tick_batch (dml.py, ddl.py): the window  *)
(* a batch stands for, from the rows of one listen.  A row carries its     *)
(* snapshot and, when the result has these columns, the first and the last *)
(* snapshot of the window it was read from.                                *)
(***************************************************************************)
EXTENDS Integers, FiniteSetsExt

NoColumn == -1

\* A row of a result, as ChangeRow and its like keep it.
Row == [snapshot : Nat, start : Nat \cup {NoColumn}, end : Nat \cup {NoColumn}]

RowStart(row) == IF row.start # NoColumn THEN row.start ELSE row.snapshot
RowEnd(row) == IF row.end # NoColumn THEN row.end ELSE row.snapshot

StartOf(rows) == Min({RowStart(row) : row \in rows})

\* A bug the code does not have: min() was copied along with the line above it.
EarliestEnd(rows) == Min({RowEnd(row) : row \in rows})

EndOf(rows) == Max({RowEnd(row) : row \in rows})

\* The order of the rows and rows of the same snapshot do not matter to it.
BuildBatch(rows) ==
  [ start     |-> StartOf(rows),
    end       |-> EndOf(rows),
    snapshots |-> {row.snapshot : row \in rows} ]

\* max(1, end_snapshot - start_snapshot + 1).
Span(batch) == Max({1, batch.end - batch.start + 1})

\* Rows of one listen: they lie in the window first..last, and a column that is
\* there says so.
RowsOfWindow(rows, first, last) ==
  /\ rows \subseteq Row /\ rows # {}
  /\ \A row \in rows :
       /\ row.snapshot \in first..last
       /\ row.start \in {NoColumn, first}
       /\ row.end \in {NoColumn, last}
=============================================================================
