----------------------------- MODULE RunLoopProofs -----------------------------
(***************************************************************************)
(* What follows from the promises of RunLoop.tla alone, so for the loop of *)
(* BatchLoop.tla and for the workers of CDCApp.tla, which both keep them.  *)
(***************************************************************************)
EXTENDS RunLoop, TLAPS

TypeOK ==
  /\ phase \in [Loop -> Phases]
  /\ stop \in [Loop -> BOOLEAN]
  /\ behind \in [Loop -> Nat]
  /\ late \in [Loop -> Nat]

\* A loop that was not asked to stop has counted no late batch, one that was asked at
\* most one, and one that has not started none.
Stopping ==
  \A l \in Loop : late[l] = 0 \/ (late[l] = 1 /\ stop[l] /\ phase[l] # "idle")

IInv == TypeOK /\ Stopping

\* A loop takes at most one batch after it was asked to stop.
OneLateBatch == \A l \in Loop : late[l] <= 1

\* A loop that was asked to stop and has taken its late batch takes no other one, and
\* no loop that has ended goes on.
StopsForGood ==
  [][\A l \in Loop :
       /\ stop[l] /\ late[l] = 1 /\ phase[l] = "looping" => phase'[l] \in {"looping", "ended"}
       /\ phase[l] = "ended" => phase'[l] = "ended"]_vars

\* The cursor of a loop moves by the batch it holds and by nothing else, and that
\* batch is then out of its hands.
MovesBySettling ==
  [][\A l \in Loop :
       behind'[l] < behind[l] =>
         phase[l] = "holding" /\ phase'[l] \in {"looping", "ended"}]_vars
-----------------------------------------------------------------------------
\* The initial states satisfy the invariant, and every step preserves it.
LEMMA Initially == Init => IInv
BY DEF Init, IInv, TypeOK, Stopping, Phases

LEMMA Inductive == ASSUME IInv, [Next]_vars PROVE IInv'
<1> USE DEF IInv, TypeOK, Stopping, Phases, Goto
<1>1. ASSUME NEW l \in Loop, Start(l) PROVE IInv'
  BY <1>1 DEF Start
<1>2. ASSUME NEW l \in Loop, Take(l) PROVE IInv'
  <2>1. late' \in [Loop -> Nat] /\ phase' \in [Loop -> Phases]
    BY <1>2 DEF Take
  <2>2. ASSUME NEW m \in Loop
        PROVE  late'[m] = 0 \/ (late'[m] = 1 /\ stop'[m] /\ phase'[m] # "idle")
    <3>1. CASE m = l /\ stop[l]
      BY <1>2, <3>1 DEF Take
    <3>2. CASE ~(m = l /\ stop[l])
      BY <1>2, <3>2 DEF Take
    <3> QED BY <3>1, <3>2
  <2> QED BY <1>2, <2>1, <2>2 DEF Take
<1>3. ASSUME NEW l \in Loop, Settle(l) PROVE IInv'
  BY <1>3 DEF Settle
<1>4. ASSUME NEW l \in Loop, End(l) PROVE IInv'
  BY <1>4 DEF End
<1>5. ASSUME NEW l \in Loop, Grow(l) PROVE IInv'
  BY <1>5 DEF Grow
<1>6. CASE RequestStop
  BY <1>6 DEF RequestStop
<1>7. CASE UNCHANGED vars
  BY <1>7 DEF vars
<1> QED BY <1>1, <1>2, <1>3, <1>4, <1>5, <1>6, <1>7 DEF Next

\* The invariant holds in every reachable state.
THEOREM InvariantHolds == Spec => []IInv
<1>1. IInv /\ [Next]_vars => IInv'
  BY Inductive
<1> QED BY <1>1, Initially, PTL DEF Spec

\* At most one batch after the stop.
THEOREM OneLateBatchHolds == Spec => []OneLateBatch
<1>1. IInv => OneLateBatch
  <2> SUFFICES ASSUME IInv, NEW l \in Loop PROVE late[l] <= 1
    BY DEF OneLateBatch
  <2> QED BY DEF IInv, Stopping
<1> QED BY <1>1, InvariantHolds, PTL

\* What a step does to the phase and the cursor of each loop.
LEMMA PhaseSteps ==
  ASSUME IInv, [Next]_vars, NEW l \in Loop
  PROVE  \/ phase'[l] = phase[l] /\ behind'[l] >= behind[l]
         \/ phase[l] = "idle" /\ phase'[l] = "looping" /\ behind'[l] = behind[l]
         \/ /\ phase[l] = "looping" /\ phase'[l] = "holding" /\ behind'[l] = behind[l]
            /\ stop[l] => late[l] = 0
         \/ /\ phase[l] \in {"looping", "holding"} /\ phase'[l] = "ended"
            /\ behind'[l] = behind[l]
         \/ phase[l] = "holding" /\ phase'[l] \in {"looping", "ended"}
<1> USE DEF IInv, TypeOK, Goto
<1>1. ASSUME NEW m \in Loop, Start(m) \/ Take(m) \/ End(m)
      PROVE  /\ behind' = behind
             /\ \/ phase'[l] = phase[l]
                \/ phase[l] = "idle" /\ phase'[l] = "looping"
                \/ /\ phase[l] = "looping" /\ phase'[l] = "holding"
                   /\ stop[l] => late[l] = 0
                \/ phase[l] \in {"looping", "holding"} /\ phase'[l] = "ended"
  BY <1>1 DEF Start, Take, End
<1>2. ASSUME NEW m \in Loop, Settle(m)
      PROVE  \/ phase'[l] = phase[l] /\ behind'[l] = behind[l]
             \/ phase[l] = "holding" /\ phase'[l] \in {"looping", "ended"}
  BY <1>2 DEF Settle
<1>3. ASSUME NEW m \in Loop, Grow(m) PROVE phase' = phase /\ behind'[l] >= behind[l]
  BY <1>3 DEF Grow
<1>4. ASSUME RequestStop \/ UNCHANGED vars PROVE phase' = phase /\ behind' = behind
  BY <1>4 DEF RequestStop, vars
<1>5. behind[l] \in Nat
  OBVIOUS
<1> QED BY <1>1, <1>2, <1>3, <1>4, <1>5 DEF Next

\* After its late batch a loop only ends, and then for good.
THEOREM StopsForGoodHolds == Spec => StopsForGood
<1>1. ASSUME IInv, [Next]_vars, NEW l \in Loop
      PROVE  /\ stop[l] /\ late[l] = 1 /\ phase[l] = "looping" =>
                  phase'[l] \in {"looping", "ended"}
             /\ phase[l] = "ended" => phase'[l] = "ended"
  BY <1>1, PhaseSteps
<1>2. IInv /\ [Next]_vars =>
        [\A l \in Loop :
           /\ stop[l] /\ late[l] = 1 /\ phase[l] = "looping" =>
                phase'[l] \in {"looping", "ended"}
           /\ phase[l] = "ended" => phase'[l] = "ended"]_vars
  BY <1>1
<1> QED BY <1>2, InvariantHolds, PTL DEF Spec, StopsForGood

\* Only a batch that was held moves the cursor, and only once.
THEOREM MovesBySettlingHolds == Spec => MovesBySettling
<1>1. ASSUME IInv, [Next]_vars, NEW l \in Loop, behind'[l] < behind[l]
      PROVE  phase[l] = "holding" /\ phase'[l] \in {"looping", "ended"}
  <2>1. behind[l] \in Nat /\ behind'[l] \in Nat
    BY <1>1, Inductive DEF IInv, TypeOK
  <2> QED BY <1>1, <2>1, PhaseSteps
<1>2. IInv /\ [Next]_vars =>
        [\A l \in Loop :
           behind'[l] < behind[l] =>
             phase[l] = "holding" /\ phase'[l] \in {"looping", "ended"}]_vars
  BY <1>1
<1> QED BY <1>2, InvariantHolds, PTL DEF Spec, MovesBySettling
=============================================================================
