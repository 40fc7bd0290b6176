------------------------------ MODULE MCBatchLoop ------------------------------
(* Instances of BatchLoop.tla for TLC. *)
EXTENDS BatchLoop

Call(adaptive, maxSnapshots, infinite, maxBatches, idleTimeout) ==
  [ adaptive |-> adaptive, maxSnapshots |-> maxSnapshots, infinite |-> infinite,
    maxBatches |-> maxBatches, idleTimeout |-> idleTimeout, drainIdle |-> 2 ]

\* A DML and a DDL loop, without a bound, with each exit, and with a ceiling below
\* the first window.
EveryExit ==
  { Call(TRUE, 3, TRUE, 0, 0), Call(TRUE, 0, TRUE, 0, 0), Call(TRUE, 3, FALSE, 0, 0),
    Call(TRUE, 3, TRUE, 2, 0), Call(TRUE, 3, TRUE, 0, 2), Call(FALSE, 3, TRUE, 2, 1) }

OneLoop == {Call(TRUE, 1, TRUE, 0, 0)}
=============================================================================
