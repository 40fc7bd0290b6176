-------------------------- MODULE MCConsumerLifecycle --------------------------
(* Instances of ConsumerLifecycle.tla for TLC. *)
EXTENDS ConsumerLifecycle

CONSTANTS c1, c2
WithSuccessor == {c1, c2}
=============================================================================
