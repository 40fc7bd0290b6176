--------------------------- MODULE MCSinkTransaction ---------------------------
(* Instances of SinkTransaction.tla for TLC. *)
EXTENDS SinkTransaction, TLC

\* The sessions are interchangeable.
Sessions == Permutations(Session)
=============================================================================
