--------------------------- MODULE MCConsumerSession ---------------------------
(* Instances of ConsumerSession.tla for TLC. *)
EXTENDS ConsumerSession, TLC

\* The sessions are interchangeable (safety runs only).
Sessions == Permutations(Session)

\* The first sink gates the cursor, the second is optional.
FirstSink == {1}

Option(onExists, leasePolicy, startAt) ==
  [onExists |-> onExists, leasePolicy |-> leasePolicy, startAt |-> startAt]

\* Ordinary restarts under every lease policy, and a session that insists on
\* being the first.
LeaseOptions ==
  {Option("use", p, 0) : p \in {"wait", "takeover", "error"}}
    \cup {Option("error", "wait", Now)}

\* Sessions that displace each other: by a takeover or by replacing the
\* registration itself.
DisplacingOptions == {Option("use", "takeover", 0), Option("replace", "wait", Now)}

\* Every registration policy, the constructor's lease policy and position.
DefaultOptions == {Option(e, "wait", Now) : e \in {"error", "use", "replace"}}
=============================================================================
