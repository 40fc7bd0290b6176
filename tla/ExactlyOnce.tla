------------------------------ MODULE ExactlyOnce ------------------------------
(***************************************************************************)
(* What batch.transaction() promises (types.py, BatchTransaction): the     *)
(* rows of a batch and the cursor behind it become durable together or not *)
(* at all, however often the batch is handed out again.                    *)
(***************************************************************************)
EXTENDS Integers

VARIABLES
  head,    \* newest snapshot of the lake
  cursor,  \* newest committed snapshot
  copies   \* copies[i]: how often the rows of snapshot i are in the destination

vars == <<head, cursor, copies>>

Init == head = 0 /\ cursor = 0 /\ \A i \in DOMAIN copies : copies[i] = 0

Publish == head' = head + 1 /\ UNCHANGED <<cursor, copies>>

\* The next snapshots and the cursor, in one step.
Apply ==
  /\ cursor' \in (cursor + 1)..head
  /\ copies' = [i \in DOMAIN copies |->
                  copies[i] + IF i \in (cursor + 1)..cursor' THEN 1 ELSE 0]
  /\ UNCHANGED head

Next == Publish \/ Apply

Spec == Init /\ [][Next]_vars
=============================================================================
