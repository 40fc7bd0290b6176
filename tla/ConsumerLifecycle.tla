--------------------------- MODULE ConsumerLifecycle ---------------------------
(***************************************************************************)
(* Consumer objects (base.py) through their whole life: entered, refused,  *)
(* left, entered again, closed twice, and replaced by a successor()        *)
(* (dml.py).  What ConsumerSession.tla takes for granted is the subject    *)
(* here: which connection the calls of an object go through, who closes    *)
(* it, and what is left open when a step of __enter__ or __exit__ raises.  *)
(*                                                                         *)
(* A connection is a number: the caller's own, which the caller keeps      *)
(* open, and those made by lake.connection.cursor().  A connection nothing *)
(* refers to any more is closed by the interpreter.                        *)
(***************************************************************************)
EXTENDS Integers

CONSTANTS
  Consumer,        \* consumer objects
  First,           \* the one the program constructs; others are its successors
  NumSinks,        \* sinks of each of them
  MaxConnections   \* bound: connections derived in a behaviour

None == -1
Caller == 0
Connection == 0..MaxConnections
Sink == 1..NumSinks

\* How an object was constructed: with connection=, with client=, or neither.
Sources == {"derived", "connection", "client"}
Labels == {"unborn", "outside", "constructing", "setup", "opening", "unwinding",
           "inside", "leaving"}

ASSUME ConsumerAssumption == First \in Consumer
ASSUME BoundAssumption == NumSinks \in Nat /\ MaxConnections \in Nat

VARIABLES
  source,      \* source[c]: the override it was constructed with
  pc,          \* pc[c]: what its owner's thread does next with it
  sink,        \* sink[c]: the sink that thread's loop has come to
  client,      \* client[c]: the connection _client is bound to
  connection,  \* connection[c]: _connection
  derived,     \* derived[c]: _derived_connection
  opened,      \* opened[c]: _opened
  sinkOpen,    \* sinkOpen[c]: sinks opened and not asked to close since
  batch,       \* batch[c]: _connection of the last batch it has built
  live,        \* connections that are open
  made,        \* connections derived so far
  skipped,     \* history: an exception went past the clean-up of the object
  spoiled,     \* history: a failed __enter__ cleaned up while the object was open
  stranded     \* history: connections whose one close() raised or was interrupted

fields == <<client, connection, derived, opened>>
connections == <<live, made, stranded>>
vars == <<source, pc, sink, fields, sinkOpen, batch, connections, skipped, spoiled>>

Init ==
  /\ \E s \in Sources : source = [c \in Consumer |-> IF c = First THEN s ELSE "derived"]
  /\ pc = [c \in Consumer |-> IF c = First THEN "outside" ELSE "unborn"]
  /\ sink = [c \in Consumer |-> 0]
  /\ client = [c \in Consumer |-> IF source[c] = "client" THEN Caller ELSE None]
  /\ connection = [c \in Consumer |-> None]
  /\ derived = [c \in Consumer |-> None]
  /\ opened = [c \in Consumer |-> FALSE]
  /\ sinkOpen = [c \in Consumer |-> {}]
  /\ batch = [c \in Consumer |-> None]
  /\ live = {Caller} /\ made = 0
  /\ skipped = [c \in Consumer |-> FALSE]
  /\ spoiled = [c \in Consumer |-> FALSE] /\ stranded = {}

Goto(c, label) == pc' = [pc EXCEPT ![c] = label]
LoopAt(c, label, k) == Goto(c, label) /\ sink' = [sink EXCEPT ![c] = k]

\* The caller has its thread back: in the block, or out of it.
Return(c) == Goto(c, IF opened[c] THEN "inside" ELSE "outside")
-----------------------------------------------------------------------------
(* __enter__. *)

\* Both ways in: `with` and open(), also on an object that is open.
Entering(c) ==
  /\ pc[c] \in {"outside", "inside"}
  /\ UNCHANGED <<source, sink, opened, sinkOpen, batch, skipped, spoiled>>

\* _derive_connection; what an earlier attempt had derived loses its last
\* reference, also when its close() has failed.
EnterDerived(c) ==
  /\ Entering(c) /\ client[c] = None /\ source[c] # "connection"
  /\ made < MaxConnections
  /\ made' = made + 1
  /\ live' = (live \ {connection[c]}) \cup {made + 1}
  /\ stranded' = stranded \ {connection[c]}
  /\ connection' = [connection EXCEPT ![c] = made + 1]
  /\ derived' = [derived EXCEPT ![c] = made + 1]
  /\ Goto(c, "constructing")
  /\ UNCHANGED client

EnterOverride(c) ==
  /\ Entering(c) /\ client[c] = None /\ source[c] = "connection"
  /\ connection' = [connection EXCEPT ![c] = Caller]
  /\ Goto(c, "constructing")
  /\ UNCHANGED <<client, derived, connections>>

\* A bug the code does not have: entering again derives a connection for the
\* batches and leaves the client where it was.
EnterAnew(c) ==
  /\ Entering(c) /\ client[c] # None /\ made < MaxConnections
  /\ made' = made + 1
  /\ live' = live \cup {made + 1}
  /\ connection' = [connection EXCEPT ![c] = made + 1]
  /\ derived' = [derived EXCEPT ![c] = made + 1]
  /\ Goto(c, "setup")
  /\ UNCHANGED <<client, stranded>>

\* A client that is already there, from the caller or from an earlier entry.
EnterWithClient(c) ==
  /\ Entering(c) /\ client[c] # None
  /\ connection' = [connection EXCEPT ![c] = client[c]]
  /\ Goto(c, "setup")
  /\ UNCHANGED <<client, derived, connections>>

\* CDCClient(...) prewarms the connection.
Construct(c) ==
  /\ pc[c] = "constructing"
  /\ client' = [client EXCEPT ![c] = connection[c]]
  /\ Goto(c, "setup")
  /\ UNCHANGED <<source, sink, connection, derived, opened, sinkOpen, batch, connections,
                 skipped, spoiled>>

\* It raises before the try of __enter__: nothing is closed.
ConstructRaises(c) ==
  /\ pc[c] = "constructing"
  /\ Return(c)
  /\ skipped' = [skipped EXCEPT ![c] = TRUE]
  /\ UNCHANGED <<source, sink, fields, sinkOpen, batch, connections, spoiled>>

SetUp(c) ==
  /\ pc[c] = "setup" /\ client[c] \in live
  /\ LoopAt(c, "opening", 1)
  /\ UNCHANGED <<source, fields, sinkOpen, batch, connections, skipped, spoiled>>

\* Retries that run out, a lease, an interrupt; always on a closed connection.
SetUpRaises(c) ==
  /\ pc[c] = "setup"
  /\ LoopAt(c, "unwinding", NumSinks)
  /\ UNCHANGED <<source, fields, sinkOpen, batch, connections, skipped, spoiled>>

\* A bug the code does not have: the loop goes past the last sink.
OpenSinkBeyond(c) ==
  /\ pc[c] = "opening" /\ sink[c] <= NumSinks + 1
  /\ sinkOpen' = [sinkOpen EXCEPT ![c] = @ \cup {sink[c]}]
  /\ LoopAt(c, "opening", sink[c] + 1)
  /\ UNCHANGED <<source, fields, batch, connections, skipped, spoiled>>

OpenSink(c) ==
  /\ pc[c] = "opening" /\ sink[c] <= NumSinks
  /\ sinkOpen' = [sinkOpen EXCEPT ![c] = @ \cup {sink[c]}]
  /\ LoopAt(c, "opening", sink[c] + 1)
  /\ UNCHANGED <<source, fields, batch, connections, skipped, spoiled>>

\* A sink raises, opened or not: _open_sinks closes those before it.
OpenSinkRaises(c) ==
  /\ pc[c] = "opening" /\ sink[c] <= NumSinks
  /\ \E half \in {{}, {sink[c]}} :
       sinkOpen' = [sinkOpen EXCEPT ![c] = (@ \ 1..(sink[c] - 1)) \cup half]
  /\ LoopAt(c, "unwinding", NumSinks)
  /\ UNCHANGED <<source, fields, batch, connections, skipped, spoiled>>

Entered(c) ==
  /\ pc[c] = "opening" /\ sink[c] > NumSinks
  /\ opened' = [opened EXCEPT ![c] = TRUE]
  /\ spoiled' = [spoiled EXCEPT ![c] = FALSE]
  /\ LoopAt(c, "inside", 0)
  /\ UNCHANGED <<source, client, connection, derived, sinkOpen, batch, connections, skipped>>
-----------------------------------------------------------------------------
(* __exit__ and the handler of __enter__. *)

\* Leaving the block, or close(), which may be called at any time.
Exit(c) ==
  /\ pc[c] \in {"inside", "outside"}
  /\ opened' = [opened EXCEPT ![c] = FALSE]
  /\ spoiled' = [spoiled EXCEPT ![c] = FALSE]
  /\ LoopAt(c, "leaving", NumSinks)
  /\ UNCHANGED <<source, client, connection, derived, sinkOpen, batch, connections, skipped>>

\* The sinks in reverse, whether they were opened or not.
CloseSink(c) ==
  /\ pc[c] \in {"unwinding", "leaving"} /\ sink[c] > 0
  /\ sinkOpen' = [sinkOpen EXCEPT ![c] = @ \ {sink[c]}]
  /\ sink' = [sink EXCEPT ![c] = @ - 1]
  /\ UNCHANGED <<source, pc, fields, batch, connections, skipped, spoiled>>

\* A bug the code does not have: the connection in use is closed, whoever owns it.
CloseInUse(c) ==
  /\ derived' = [derived EXCEPT ![c] = None]
  /\ live' = live \ {connection[c]}
  /\ UNCHANGED stranded

\* _close_derived_connection: the connection is forgotten, then closed; its close()
\* may raise or be interrupted, and nobody calls it again.
ForgetDerived(c) ==
  /\ derived' = [derived EXCEPT ![c] = None]
  /\ \/ live' = live \ {derived[c]} /\ UNCHANGED stranded
     \/ /\ derived[c] # None
        /\ stranded' = stranded \cup {derived[c]} /\ UNCHANGED live

\* A bug the code does not have: a failed __enter__ leaves the connection to
\* __exit__, which is never called.
CloseOnExitOnly(c) ==
  /\ pc[c] \in {"unwinding", "leaving"} /\ sink[c] = 0
  /\ IF pc[c] = "leaving" THEN ForgetDerived(c) ELSE UNCHANGED <<derived, live, stranded>>
  /\ skipped' = [skipped EXCEPT ![c] = FALSE]
  /\ Return(c)
  /\ UNCHANGED <<source, sink, client, connection, opened, sinkOpen, batch, made, spoiled>>

\* An Exception of close() is swallowed.
CloseDerived(c) ==
  /\ pc[c] \in {"unwinding", "leaving"} /\ sink[c] = 0
  /\ ForgetDerived(c)
  /\ skipped' = [skipped EXCEPT ![c] = FALSE]
  /\ spoiled' = [spoiled EXCEPT ![c] = opened[c]]
  /\ Return(c)
  /\ UNCHANGED <<source, sink, client, connection, opened, sinkOpen, batch, made>>

\* What is not an Exception (KeyboardInterrupt) goes through both, from any sink or
\* from the connection, before, during or after its close().
CleanUpInterrupted(c) ==
  /\ pc[c] \in {"unwinding", "leaving"}
  /\ \/ UNCHANGED <<derived, live, stranded, spoiled>>
     \/ /\ sink[c] = 0
        /\ ForgetDerived(c)
        /\ spoiled' = [spoiled EXCEPT ![c] = opened[c]]
  /\ Return(c)
  /\ skipped' = [skipped EXCEPT ![c] = TRUE]
  /\ UNCHANGED <<source, sink, client, connection, opened, sinkOpen, batch, made>>
-----------------------------------------------------------------------------
(* Use. *)

\* listen(), read() or a step of batches() returns rows, on this or another
\* thread: the batch carries _connection for its transaction().
BuildBatch(c) ==
  /\ opened[c] /\ client[c] \in live
  /\ batch' = [batch EXCEPT ![c] = connection[c]]
  /\ UNCHANGED <<source, pc, sink, fields, sinkOpen, connections, skipped, spoiled>>

\* A bug the code does not have: the successor is given the connection in use.
SucceedOnConnection(p, c) ==
  /\ opened[p] /\ client[p] \in live /\ pc[c] = "unborn"
  /\ source' = [source EXCEPT ![c] = "client"]
  /\ client' = [client EXCEPT ![c] = connection[p]]
  /\ Goto(c, "outside")
  /\ UNCHANGED <<sink, connection, derived, opened, sinkOpen, batch, connections, skipped, spoiled>>

\* successor(), at a schema boundary (window() needs the connection): it takes
\* over a connection= override and nothing else of the kind.
Succeed(p, c) ==
  /\ opened[p] /\ client[p] \in live /\ pc[c] = "unborn"
  /\ source' = [source EXCEPT ![c] = IF source[p] = "connection" THEN "connection" ELSE "derived"]
  /\ Goto(c, "outside")
  /\ UNCHANGED <<sink, client, connection, derived, opened, sinkOpen, batch, connections, skipped, spoiled>>
-----------------------------------------------------------------------------
Step(c) ==
  \/ EnterDerived(c) \/ EnterOverride(c) \/ EnterWithClient(c) \/ Construct(c)
  \/ ConstructRaises(c) \/ SetUp(c) \/ SetUpRaises(c) \/ OpenSink(c) \/ OpenSinkRaises(c)
  \/ Entered(c) \/ Exit(c) \/ CloseSink(c) \/ CloseDerived(c) \/ CleanUpInterrupted(c)
  \/ BuildBatch(c)

Next ==
  \/ \E c \in Consumer : Step(c)
  \/ \E p, c \in Consumer : Succeed(p, c)

Spec == Init /\ [][Next]_vars
-----------------------------------------------------------------------------
(* Properties. *)

\* Every variable has its type; None stands where the code has no connection.
TypeOK ==
  /\ source \in [Consumer -> Sources]
  /\ pc \in [Consumer -> Labels]
  /\ sink \in [Consumer -> 0..(NumSinks + 1)]
  /\ client \in [Consumer -> Connection \cup {None}]
  /\ connection \in [Consumer -> Connection \cup {None}]
  /\ derived \in [Consumer -> Connection \cup {None}]
  /\ opened \in [Consumer -> BOOLEAN]
  /\ sinkOpen \in [Consumer -> SUBSET Sink]
  /\ batch \in [Consumer -> Connection \cup {None}]
  /\ live \subseteq Connection /\ made \in Connection
  /\ stranded \subseteq Connection
  /\ skipped \in [Consumer -> BOOLEAN] /\ spoiled \in [Consumer -> BOOLEAN]

\* An object that says it is open has an open connection, whatever was entered,
\* refused, interrupted or closed before, entered again while it was open, or done by
\* its successors and predecessors with theirs.  Only its own __enter__ can take it
\* away: one that fails on an object that is open.
OpenMeansConnected ==
  \A c \in Consumer : opened[c] /\ ~spoiled[c] => client[c] \in live

\* The connection batch.transaction() begins on is the one the client listens and
\* commits through, so the one the lease is on ("so consumer.connection and
\* BatchTransaction still resolve to the lease holder", base.py:221-224).
BatchOnLeaseConnection ==
  \A c \in Consumer : batch[c] # None => batch[c] = client[c]

\* A connection that one object will close is in use by no other, and is not the
\* caller's; the caller's is never closed.
ClosesOnlyItsOwn ==
  /\ Caller \in live
  /\ \A c \in Consumer : derived[c] # None =>
       /\ derived[c] # Caller
       /\ \A p \in Consumer \ {c} : derived[c] \notin {client[p], connection[p], derived[p]}

\* Outside its block an object holds nothing: no sink it has opened, no connection
\* it has derived, also after a refused entry, and its client is on none that is
\* open; except when an exception went past the clean-up, until it is entered or
\* closed again, and for a connection whose close() failed.
ClosedBehind ==
  \A c \in Consumer : pc[c] \in {"unborn", "outside"} /\ ~skipped[c] =>
    /\ sinkOpen[c] = {} /\ derived[c] = None
    /\ client[c] \in live => client[c] \in {Caller} \cup stranded

\* Only the connections some object will still close are open, and the caller's:
\* none is lost on the way, but those whose one close() failed or was interrupted,
\* which the code forgets before it closes them.
NothingLeaks ==
  live \subseteq {Caller} \cup stranded \cup {derived[c] : c \in Consumer}

\* "the durable recovery for that shape is to recreate the DuckLake instance (which
\* the high-level consumers do automatically when they're re-entered into a new
\* with block)" (retry.py:22-26): set-up begins on a connection that is open.
ReentryReconnects ==
  \A c \in Consumer : pc[c] = "setup" => client[c] \in live
=============================================================================
