-------------------------- MODULE DurableCursorProofs --------------------------
(***************************************************************************)
(* What follows from DurableCursor.tla alone: at-least-once delivery, for  *)
(* whatever implements it, as ConsumerSession.tla does.                    *)
(***************************************************************************)
EXTENDS DurableCursor, TLAPS

\* A cursor lies between the start of its registration and the head, and sinks have
\* acknowledged published snapshots only.
TypeOK ==
  /\ head \in Nat /\ exists \in BOOLEAN
  /\ base \in Nat /\ cursor \in Nat
  /\ base <= cursor /\ cursor <= head
  /\ acked \in [Sink -> SUBSET (1..head)]

\* Nothing is lost: every required sink has acknowledged every snapshot between the
\* start of the registration and its cursor.
AtLeastOnce ==
  exists => \A k \in Required : (base + 1)..cursor \subseteq acked[k]

IInv == TypeOK /\ AtLeastOnce

\* While it is registered a consumer never goes back, and what a sink has acknowledged
\* stays acknowledged.
NeverGoesBack ==
  [][exists /\ exists' =>
       /\ base' = base /\ cursor' >= cursor
       /\ \A k \in Sink : acked[k] \subseteq acked'[k]]_vars
-----------------------------------------------------------------------------
\* The initial states satisfy the invariant, and every step preserves it.
LEMMA Initially == Init => IInv
<1> SUFFICES ASSUME Init PROVE TypeOK /\ AtLeastOnce
  BY DEF IInv
<1>1. acked \in [Sink -> SUBSET (1..head)]
  BY DEF Init
<1>2. exists \in BOOLEAN /\ AtLeastOnce
  BY DEF Init, AtLeastOnce
<1>3. head = 0 /\ base = 0 /\ cursor = 0
  BY DEF Init
<1> QED BY <1>1, <1>2, <1>3 DEF TypeOK

LEMMA Inductive ==
  ASSUME Required \subseteq Sink, IInv, [Next]_vars
  PROVE  IInv'
<1>1. CASE Publish
  <2>1. 1..head \subseteq 1..head'
    BY <1>1 DEF Publish, IInv, TypeOK
  <2>2. TypeOK'
    BY <1>1, <2>1 DEF Publish, IInv, TypeOK
  <2>3. AtLeastOnce'
    BY <1>1 DEF Publish, IInv, AtLeastOnce
  <2> QED BY <2>2, <2>3 DEF IInv
<1>2. CASE Register
  <2>1. TypeOK'
    <3>1. acked' \in [Sink -> SUBSET (1..head)] /\ head' = head
      BY <1>2 DEF Register
    <3>2. PICK p \in 0..head : base' = p /\ cursor' = p
      BY <1>2 DEF Register
    <3>3. exists' \in BOOLEAN
      BY <1>2 DEF Register
    <3>4. /\ head' \in Nat /\ base' \in Nat /\ cursor' \in Nat
          /\ base' <= cursor' /\ cursor' <= head'
      BY <3>1, <3>2 DEF IInv, TypeOK
    <3>5. acked' \in [Sink -> SUBSET (1..head')]
      BY <3>1
    <3> QED BY <3>3, <3>4, <3>5 DEF TypeOK
  <2>2. base' = cursor' /\ cursor' \in Nat
    BY <1>2 DEF Register, IInv, TypeOK
  <2>3. \A i : i \notin (base' + 1)..cursor'
    BY <2>2
  <2>4. ASSUME NEW k \in Required PROVE (base' + 1)..cursor' \subseteq acked'[k]
    BY <2>3
  <2>5. AtLeastOnce'
    BY <2>4 DEF AtLeastOnce
  <2> QED BY <2>1, <2>5 DEF IInv
<1>3. CASE Unregister
  <2>1. exists' \in BOOLEAN /\ ~exists' /\ UNCHANGED <<head, base, cursor, acked>>
    BY <1>3 DEF Unregister
  <2>2. TypeOK'
    BY <2>1 DEF IInv, TypeOK
  <2> QED BY <2>1, <2>2 DEF IInv, AtLeastOnce
<1>4. ASSUME NEW k \in Sink, Acknowledge(k) PROVE IInv'
  <2>1. PICK a \in 1..head, b \in 1..head : acked' = [acked EXCEPT ![k] = @ \cup (a..b)]
    BY <1>4 DEF Acknowledge
  <2>2. a..b \subseteq 1..head
    BY DEF IInv, TypeOK
  <2>3. TypeOK'
    BY <1>4, <2>1, <2>2 DEF Acknowledge, IInv, TypeOK
  <2>4. \A j \in Sink : acked[j] \subseteq acked'[j]
    BY <2>1 DEF IInv, TypeOK
  <2>5. AtLeastOnce'
    BY <1>4, <2>4 DEF Acknowledge, IInv, AtLeastOnce
  <2> QED BY <2>3, <2>5 DEF IInv
<1>5. CASE Advance
  <2>1. PICK e \in (cursor + 1)..head :
          cursor' = e /\ \A k \in Required : (cursor + 1)..e \subseteq acked[k]
    BY <1>5 DEF Advance
  <2>2. TypeOK'
    BY <1>5, <2>1 DEF Advance, IInv, TypeOK
  <2>3. (base + 1)..e \subseteq ((base + 1)..cursor) \cup ((cursor + 1)..e)
    BY DEF IInv, TypeOK
  <2>4. AtLeastOnce'
    BY <1>5, <2>1, <2>3 DEF Advance, IInv, AtLeastOnce
  <2> QED BY <2>2, <2>4 DEF IInv
<1>6. CASE UNCHANGED vars
  BY <1>6 DEF vars, IInv, TypeOK, AtLeastOnce
<1> QED BY <1>1, <1>2, <1>3, <1>4, <1>5, <1>6 DEF Next

\* A required sink is one of the sinks: the invariant then holds in every reachable
\* state.
THEOREM InvariantHolds ==
  ASSUME Required \subseteq Sink
  PROVE  Spec => []IInv
<1>1. IInv /\ [Next]_vars => IInv'
  BY Required \subseteq Sink, Inductive
<1> QED BY <1>1, Initially, PTL DEF Spec

\* At-least-once delivery follows from the way the cursor moves.
THEOREM AtLeastOnceHolds ==
  ASSUME Required \subseteq Sink
  PROVE  Spec => []AtLeastOnce
<1>1. IInv => AtLeastOnce
  BY DEF IInv
<1>2. Spec => []IInv
  BY Required \subseteq Sink, InvariantHolds
<1> QED BY <1>1, <1>2, PTL

\* Neither the cursor nor an acknowledgement is taken back.
THEOREM NeverGoesBackHolds ==
  ASSUME Required \subseteq Sink
  PROVE  Spec => NeverGoesBack
<1>1. ASSUME IInv, [Next]_vars, exists, exists'
      PROVE  /\ base' = base /\ cursor' >= cursor
             /\ \A k \in Sink : acked[k] \subseteq acked'[k]
  <2>1. cursor \in Nat
    BY <1>1 DEF IInv, TypeOK
  <2>2. CASE Advance
    BY <1>1, <2>1, <2>2 DEF Advance, IInv, TypeOK
  <2>3. ASSUME NEW k \in Sink, Acknowledge(k)
        PROVE  /\ base' = base /\ cursor' = cursor
               /\ \A j \in Sink : acked[j] \subseteq acked'[j]
    BY <1>1, <2>3 DEF Acknowledge, IInv, TypeOK
  <2>4. CASE Publish \/ UNCHANGED vars
    BY <2>1, <2>4 DEF Publish, vars
  <2> QED BY <1>1, <2>1, <2>2, <2>3, <2>4 DEF Next, Register, Unregister
<1>2. IInv /\ [Next]_vars =>
        [exists /\ exists' =>
           /\ base' = base /\ cursor' >= cursor
           /\ \A k \in Sink : acked[k] \subseteq acked'[k]]_vars
  BY <1>1
<1>3. Spec => []IInv
  BY Required \subseteq Sink, InvariantHolds
<1> QED BY <1>2, <1>3, PTL DEF Spec, NeverGoesBack
=============================================================================
