----------------------------- MODULE DurableCursor -----------------------------
(***************************************************************************)
(* What the client promises about one durable consumer, with sessions,     *)
(* connections, leases, retries and error paths forgotten: a cursor over   *)
(* an append-only stream of snapshots that only ever steps over snapshots  *)
(* every required sink has acknowledged.                                   *)
(*                                                                         *)
(* ConsumerSession.tla is shown to implement this specification.           *)
(***************************************************************************)
EXTENDS Integers

CONSTANTS
  Sink,       \* the destinations batches are delivered to
  Required    \* the sinks whose acknowledgement gates the cursor

VARIABLES
  head,       \* id of the newest snapshot of the lake
  exists,     \* whether the consumer is registered
  base,       \* where the current registration started
  cursor,     \* newest snapshot the consumer has committed
  acked       \* acked[k]: snapshots sink k acknowledged since registration

vars == <<head, exists, base, cursor, acked>>

Init ==
  /\ head = 0
  /\ exists = FALSE
  /\ base = 0
  /\ cursor = 0
  /\ acked = [k \in Sink |-> {}]

\* The producer appends one snapshot.
Publish ==
  /\ head' = head + 1
  /\ UNCHANGED <<exists, base, cursor, acked>>

\* The consumer is registered at a position of the stream.
Register ==
  /\ ~exists
  /\ exists' = TRUE
  /\ \E p \in 0..head : base' = p /\ cursor' = p
  /\ acked' = [k \in Sink |-> {}]
  /\ UNCHANGED head

\* The registration is removed.
Unregister ==
  /\ exists
  /\ exists' = FALSE
  /\ UNCHANGED <<head, base, cursor, acked>>

\* One sink acknowledges a window of the stream.
Acknowledge(k) ==
  /\ \E a, b \in 1..head : acked' = [acked EXCEPT ![k] = @ \cup (a..b)]
  /\ UNCHANGED <<head, exists, base, cursor>>

\* The cursor moves forward over snapshots every required sink acknowledged.
Advance ==
  /\ exists
  /\ \E e \in (cursor + 1)..head :
       /\ \A k \in Required : (cursor + 1)..e \subseteq acked[k]
       /\ cursor' = e
  /\ UNCHANGED <<head, exists, base, acked>>

Next ==
  \/ Publish
  \/ Register
  \/ Unregister
  \/ \E k \in Sink : Acknowledge(k)
  \/ Advance

Spec == Init /\ [][Next]_vars
=============================================================================
