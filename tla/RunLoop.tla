-------------------------------- MODULE RunLoop --------------------------------
(***************************************************************************)
(* What a consumer's run loop promises whoever hosts it (abstract): it     *)
(* holds one batch at a time; the cursor moves when a held batch is        *)
(* settled and at no other time; the loop may end at any moment, but never *)
(* takes more than one batch after it was asked to stop.                   *)
(***************************************************************************)
EXTENDS Integers

CONSTANT Loop   \* the loops of a program

VARIABLES
  phase,   \* phase[l]: not started, between batches, holding one, or ended
  stop,    \* stop[l]: it was asked to stop
  behind,  \* behind[l]: how far the cursor is behind the stream
  late     \* late[l]: batches taken since it was asked to stop

vars == <<phase, stop, behind, late>>

Phases == {"idle", "looping", "holding", "ended"}

Init ==
  /\ phase \in [Loop -> {"idle", "looping"}]
  /\ stop = [l \in Loop |-> FALSE]
  /\ behind \in [Loop -> Nat]
  /\ late = [l \in Loop |-> 0]

Goto(l, there) == phase' = [phase EXCEPT ![l] = there]

\* A loop starts, not yet asked to stop.
Start(l) ==
  /\ phase[l] = "idle"
  /\ Goto(l, "looping")
  /\ stop' = [stop EXCEPT ![l] = FALSE]
  /\ UNCHANGED <<behind, late>>

Take(l) ==
  /\ phase[l] = "looping"
  /\ stop[l] => late[l] = 0
  /\ Goto(l, "holding")
  /\ late' = [late EXCEPT ![l] = IF stop[l] THEN @ + 1 ELSE @]
  /\ UNCHANGED <<stop, behind>>

\* The batch is delivered and committed.
Settle(l) ==
  /\ phase[l] = "holding"
  /\ \/ Goto(l, "looping")
     \/ Goto(l, "ended")
  /\ behind'[l] \in Nat /\ behind'[l] < behind[l]
  /\ behind' = [behind EXCEPT ![l] = behind'[l]]
  /\ UNCHANGED <<stop, late>>

\* It returns between batches, or raises; a batch it holds is not settled.
End(l) ==
  /\ phase[l] \in {"looping", "holding"}
  /\ Goto(l, "ended")
  /\ UNCHANGED <<stop, behind, late>>

\* Loops are asked to stop, together or one by one.
RequestStop ==
  /\ stop' \in [Loop -> BOOLEAN]
  /\ \A l \in Loop : stop[l] => stop'[l]
  /\ UNCHANGED <<phase, behind, late>>

\* The stream moves on.
Grow(l) ==
  /\ behind'[l] \in Nat /\ behind'[l] > behind[l]
  /\ behind' = [behind EXCEPT ![l] = behind'[l]]
  /\ UNCHANGED <<phase, stop, late>>

Next ==
  \/ \E l \in Loop : Start(l) \/ Take(l) \/ Settle(l) \/ End(l) \/ Grow(l)
  \/ RequestStop

Spec == Init /\ [][Next]_vars
=============================================================================
