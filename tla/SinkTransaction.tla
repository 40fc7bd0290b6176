---------------------------- MODULE SinkTransaction ----------------------------
(***************************************************************************)
(* `with batch.transaction() as tx:` inside a batches() loop: the          *)
(* BatchTransaction of types.py on the pinned connection of a consumer,    *)
(* with cdc_commit retried inside the transaction                          *)
(* (_ConsumerBase._commit_snapshot_within).                                *)
(*                                                                         *)
(* A session is one consumer object in its `with` block, past the set-up   *)
(* of ConsumerSession.tla; a restart is another session.  Calls may raise  *)
(* an error, transient or not, with or without having taken effect, and an *)
(* exception that is not an Exception (KeyboardInterrupt) may rise from    *)
(* any call.                                                               *)
(*                                                                         *)
(* The database is external.  What it does for the code: nothing a         *)
(* transaction did shows before COMMIT; COMMIT is refused when another     *)
(* session has changed the consumer's row, which taking its lease does; a  *)
(* failed statement may abort the transaction, which then refuses all but  *)
(* ROLLBACK; a closed connection loses its transaction.                    *)
(***************************************************************************)
EXTENDS Integers, FiniteSets

CONSTANTS
  Session,      \* consumer objects
  Nobody,       \* owner of a lease that is not held
  MaxAttempts,  \* attempts of the retry policy
  MaxWindow,    \* max_snapshots of a listen call
  MaxHead,      \* bound: snapshots published in a behaviour
  MaxFaults     \* bound: errors and interrupts in a behaviour

ASSUME SessionAssumption == Nobody \notin Session
ASSUME BoundAssumption ==
  /\ MaxAttempts \in Nat \ {0}
  /\ MaxWindow \in Nat \ {0}
  /\ MaxHead \in Nat
  /\ MaxFaults \in Nat

Snapshot == 1..MaxHead

VARIABLES
  \* the database
  head,     \* newest snapshot of the lake
  cursor,   \* newest committed snapshot
  owner,    \* connection that holds the lease, or Nobody
  fresh,    \* whether the lease has not expired
  copies,   \* copies[i]: how often the rows of snapshot i are in the destination
  txn,      \* txn[s]: the transaction of the session's connection
  \* the sessions
  given,    \* given[s]: connection= was passed, __exit__ does not close it
  pc,       \* what the session does next
  attempt,  \* attempt number of cdc_commit
  batch,    \* the batch in hand
  \* the environment
  faults    \* errors and interrupts so far

database == <<head, cursor, owner, fresh, copies>>
session == <<given, pc, attempt, batch>>
vars == <<database, txn, session, faults>>

EndLabels == {"closed", "crashed"}
\* "body": in the `with` block; "cdc_commit", "commit", "rollback": the calls of
\* __exit__; "raised": an exception has left the block.
Labels == {"listen", "begin", "body", "cdc_commit", "commit", "rollback", "raised"}
            \cup EndLabels

\* Of an open transaction: the snapshots whose rows it has written, and the
\* snapshot it has moved the cursor to, or 0.
NoTransaction == [status |-> "none", rows |-> {}, moved |-> 0]
NewTransaction == [NoTransaction EXCEPT !.status = "open"]
Aborted(t) == [t EXCEPT !.status = "aborted"]

NoBatch == [start |-> 1, end |-> 0]
Snapshots(b) == b.start..b.end

Init ==
  /\ head = 0 /\ cursor = 0 /\ owner = Nobody /\ fresh = FALSE
  /\ copies = [i \in Snapshot |-> 0]
  /\ txn = [s \in Session |-> NoTransaction]
  /\ given \in [Session -> BOOLEAN]
  /\ pc = [s \in Session |-> "listen"]
  /\ attempt = [s \in Session |-> 1]
  /\ batch = [s \in Session |-> NoBatch]
  /\ faults = 0
-----------------------------------------------------------------------------
Goto(s, label) == pc' = [pc EXCEPT ![s] = label] /\ UNCHANGED <<given, batch>>

SetTxn(s, t) == txn' = [txn EXCEPT ![s] = t]

\* An error or an interrupt, of which a behaviour has MaxFaults.
Fault == faults < MaxFaults /\ faults' = faults + 1

\* A failed statement aborts the transaction it is part of, or does not.
StatementFails(s) == txn' = txn \/ SetTxn(s, Aborted(txn[s]))
-----------------------------------------------------------------------------
(* batches(). *)

\* A window after position c, and the batch of its rows.
WindowAfter(s, c) ==
  /\ \E e \in (c + 1)..head :
       e - c <= MaxWindow /\ batch' = [batch EXCEPT ![s] = [start |-> c + 1, end |-> e]]
  /\ pc' = [pc EXCEPT ![s] = "begin"]
  /\ UNCHANGED <<head, cursor, copies, txn, given, attempt, faults>>

Grants(s) == owner \in {Nobody, s} \/ ~fresh

\* The listen takes the lease.
Listen(s) ==
  /\ pc[s] = "listen"
  /\ txn[s].status = "none"
  /\ Grants(s)
  /\ owner' = s /\ fresh' = TRUE
  /\ WindowAfter(s, cursor)

\* Inside a transaction left behind it takes nothing that others see, and sees
\* the cursor as that transaction has moved it.
ListenInTransaction(s) ==
  /\ pc[s] = "listen"
  /\ txn[s].status = "open"
  /\ Grants(s)
  /\ WindowAfter(s, IF txn[s].moved = 0 THEN cursor ELSE txn[s].moved)
  /\ UNCHANGED <<owner, fresh>>

\* The listen raises: refused, or in an aborted transaction.
ListenRaises(s) ==
  /\ pc[s] = "listen"
  /\ txn[s].status = "aborted" \/ ~Grants(s)
  /\ Goto(s, "raised")
  /\ UNCHANGED <<database, txn, attempt, faults>>

\* The caller's handler is inside the loop and the generator listens again ...
Catch(s) ==
  /\ pc[s] = "raised"
  /\ Goto(s, "listen")
  /\ UNCHANGED <<database, txn, attempt, faults>>

\* ... or the block of the consumer ends, and with it a derived connection.
Close(s) ==
  /\ pc[s] \in {"listen", "raised"}
  /\ Goto(s, "closed")
  /\ SetTxn(s, IF given[s] THEN txn[s] ELSE NoTransaction)
  /\ UNCHANGED <<database, attempt, faults>>
-----------------------------------------------------------------------------
(* BatchTransaction. *)

\* __enter__: BEGIN.  Each block is that of a fresh batch.transaction(); an object used
\* again raises before its BEGIN (types.py:96-97) and changes nothing.
Begin(s) ==
  /\ pc[s] = "begin"
  /\ txn[s].status = "none"
  /\ SetTxn(s, NewTransaction)
  /\ Goto(s, "body")
  /\ UNCHANGED <<database, attempt, faults>>

\* Within a transaction left behind BEGIN is refused.
BeginRefused(s) ==
  /\ pc[s] = "begin"
  /\ txn[s].status # "none"
  /\ StatementFails(s)
  /\ Goto(s, "raised")
  /\ UNCHANGED <<database, attempt, faults>>

\* A bug the code does not have: the rows go through another connection.
ExecuteElsewhere(s) ==
  /\ pc[s] = "body"
  /\ \E i \in Snapshots(batch[s]) \ txn[s].rows :
       /\ SetTxn(s, [txn[s] EXCEPT !.rows = @ \cup {i}])
       /\ copies' = [copies EXCEPT ![i] = @ + 1]
  /\ UNCHANGED <<head, cursor, owner, fresh, session, faults>>

\* A bug the code does not have: the batch is one snapshot longer than its rows.
ExecuteBeyond(s) ==
  /\ pc[s] = "body"
  /\ \E i \in Snapshots(batch[s]) :
       SetTxn(s, [txn[s] EXCEPT !.rows = @ \cup {i, i + 1}])
  /\ UNCHANGED <<database, session, faults>>

\* The caller writes the rows of one snapshot with execute or executemany.
Execute(s) ==
  /\ pc[s] = "body"
  /\ \E i \in Snapshots(batch[s]) \ txn[s].rows :
       SetTxn(s, [txn[s] EXCEPT !.rows = @ \cup {i}])
  /\ UNCHANGED <<database, session, faults>>

\* The caller's block raises anything, BaseException included: ROLLBACK.
BodyRaises(s) ==
  /\ pc[s] = "body"
  /\ StatementFails(s)
  /\ Goto(s, "rollback")
  /\ Fault
  /\ UNCHANGED <<database, attempt>>

\* A bug the code does not have: cdc_commit does not wait for the rows.
BodyEndsEarly(s) ==
  /\ pc[s] = "body"
  /\ Goto(s, "cdc_commit")
  /\ attempt' = [attempt EXCEPT ![s] = 1]
  /\ UNCHANGED <<database, txn, faults>>

\* The block ends normally once every row is written.
BodyEnds(s) ==
  /\ pc[s] = "body"
  /\ txn[s].rows = Snapshots(batch[s])
  /\ Goto(s, "cdc_commit")
  /\ attempt' = [attempt EXCEPT ![s] = 1]
  /\ UNCHANGED <<database, txn, faults>>

\* A bug the code does not have: the cursor moves at once.
CommitCursorNow(s) ==
  /\ pc[s] = "cdc_commit"
  /\ txn[s].status = "open" /\ owner = s
  /\ cursor' = batch[s].end
  /\ SetTxn(s, [txn[s] EXCEPT !.moved = batch[s].end])
  /\ Goto(s, "commit")
  /\ UNCHANGED <<head, owner, fresh, copies, attempt, faults>>

\* _commit_snapshot_within: cdc_commit joins the transaction.
CommitWithin(s) ==
  /\ pc[s] = "cdc_commit"
  /\ txn[s].status = "open" /\ owner = s
  /\ SetTxn(s, [txn[s] EXCEPT !.moved = batch[s].end])
  /\ Goto(s, "commit")
  /\ UNCHANGED <<database, attempt, faults>>

\* It raises for good: the lease is gone or the transaction aborted.
CommitWithinRefused(s) ==
  /\ pc[s] = "cdc_commit"
  /\ txn[s].status # "open" \/ owner # s
  /\ StatementFails(s)
  /\ Goto(s, "rollback")
  /\ UNCHANGED <<database, attempt, faults>>

\* A transient error, whose statement may have taken effect or have aborted the
\* transaction, is retried in the same transaction, or was the last attempt.
CommitWithinTransient(s) ==
  /\ pc[s] = "cdc_commit"
  /\ \/ StatementFails(s)
     \/ txn[s].status = "open" /\ owner = s /\ SetTxn(s, [txn[s] EXCEPT !.moved = batch[s].end])
  /\ IF attempt[s] < MaxAttempts
     THEN attempt' = [attempt EXCEPT ![s] = @ + 1] /\ Goto(s, "cdc_commit")
     ELSE attempt' = attempt /\ Goto(s, "rollback")
  /\ Fault
  /\ UNCHANGED database

\* The database's part of a COMMIT: everything the transaction did becomes durable.
MakeDurable(s) ==
  /\ txn[s].status = "open" /\ owner = s
  /\ copies' = [i \in Snapshot |-> copies[i] + IF i \in txn[s].rows THEN 1 ELSE 0]
  /\ cursor' = IF txn[s].moved = 0 THEN cursor ELSE txn[s].moved
  /\ SetTxn(s, NoTransaction)
  /\ UNCHANGED <<head, owner, fresh>>

Commit(s) ==
  /\ pc[s] = "commit"
  /\ MakeDurable(s)
  /\ Goto(s, "listen")
  /\ UNCHANGED <<attempt, faults>>

\* Another session has changed the consumer's row.
CommitRefused(s) ==
  /\ pc[s] = "commit"
  /\ owner # s
  /\ StatementFails(s) \/ SetTxn(s, NoTransaction)
  /\ Goto(s, "rollback")
  /\ UNCHANGED <<database, attempt, faults>>

\* COMMIT raises an error of another kind, also one whose COMMIT took effect.
CommitRaises(s) ==
  /\ pc[s] = "commit"
  /\ \/ MakeDurable(s)
     \/ (StatementFails(s) \/ SetTxn(s, NoTransaction)) /\ UNCHANGED database
  /\ Goto(s, "rollback")
  /\ Fault
  /\ UNCHANGED attempt

\* ROLLBACK; without a transaction it raises, which __exit__ swallows.
Rollback(s) ==
  /\ pc[s] = "rollback"
  /\ SetTxn(s, NoTransaction)
  /\ Goto(s, "raised")
  /\ UNCHANGED <<database, attempt, faults>>

\* A ROLLBACK that fails is swallowed too, and the transaction stays.
RollbackRaises(s) ==
  /\ pc[s] = "rollback"
  /\ Goto(s, "raised")
  /\ Fault
  /\ UNCHANGED <<database, txn, attempt>>

\* KeyboardInterrupt in __exit__: `except Exception` does not see it, so there is
\* no ROLLBACK, whatever the interrupted call has or has not done; in __enter__
\* the block has not begun, so __exit__ is never called.
Interrupt(s) ==
  /\ pc[s] \in {"begin", "cdc_commit", "commit", "rollback"}
  /\ \/ pc[s] = "begin" /\ txn[s].status = "none"
        /\ SetTxn(s, NewTransaction) /\ UNCHANGED database
     \/ pc[s] = "cdc_commit" /\ owner = s /\ txn[s].status = "open"
        /\ SetTxn(s, [txn[s] EXCEPT !.moved = batch[s].end]) /\ UNCHANGED database
     \/ pc[s] = "commit" /\ MakeDurable(s)
     \/ UNCHANGED <<database, txn>>
  /\ Goto(s, "raised")
  /\ Fault
  /\ UNCHANGED attempt
-----------------------------------------------------------------------------
(* The environment. *)

Publish ==
  /\ head < MaxHead
  /\ head' = head + 1
  /\ UNCHANGED <<cursor, owner, fresh, copies, txn, session, faults>>

LeaseExpires ==
  /\ fresh
  /\ fresh' = FALSE
  /\ UNCHANGED <<head, cursor, owner, copies, txn, session, faults>>

\* The process of a session dies.
Crash(s) ==
  /\ pc[s] \notin EndLabels
  /\ SetTxn(s, NoTransaction)
  /\ Goto(s, "crashed")
  /\ UNCHANGED <<database, attempt, faults>>

Terminated ==
  /\ \A s \in Session : pc[s] \in EndLabels
  /\ UNCHANGED vars
-----------------------------------------------------------------------------
LoopStep(s) ==
  Listen(s) \/ ListenInTransaction(s) \/ ListenRaises(s) \/ Catch(s) \/ Close(s)

BlockStep(s) ==
  \/ Begin(s) \/ BeginRefused(s) \/ Execute(s) \/ BodyRaises(s) \/ BodyEnds(s)
  \/ CommitWithin(s) \/ CommitWithinRefused(s) \/ CommitWithinTransient(s)
  \/ Commit(s) \/ CommitRefused(s) \/ CommitRaises(s)
  \/ Rollback(s) \/ RollbackRaises(s) \/ Interrupt(s)

Next ==
  \/ \E s \in Session : LoopStep(s) \/ BlockStep(s) \/ Crash(s)
  \/ Publish
  \/ LeaseExpires
  \/ Terminated

Spec == Init /\ [][Next]_vars
-----------------------------------------------------------------------------
(* Properties. *)

\* Every variable has its type, and nothing has been delivered or committed that
\* was not published.
TypeOK ==
  /\ head \in 0..MaxHead /\ cursor \in 0..head
  /\ owner \in Session \cup {Nobody} /\ fresh \in BOOLEAN
  /\ copies \in [Snapshot -> Nat]
  /\ txn \in [Session -> [status : {"none", "open", "aborted"},
                          rows : SUBSET (1..head), moved : 0..head]]
  /\ given \in [Session -> BOOLEAN]
  /\ pc \in [Session -> Labels]
  /\ attempt \in [Session -> 1..MaxAttempts]
  /\ batch \in [Session -> [start : 1..(head + 1), end : 0..head]]
  /\ faults \in 0..MaxFaults

\* Exactly-once (types.py:51-53): whatever blocks raise, crash, retry or lose
\* their lease, the destination has one copy of every snapshot the cursor has
\* passed and none of any other.
OneCopy == \A i \in Snapshot : copies[i] = IF i <= cursor THEN 1 ELSE 0

\* The rows of a transaction that COMMIT would make durable are the next of the
\* stream and come with the cursor behind them; a block that has begun after
\* another session delivered the same batch can write, but never commit.
CommitIsComplete ==
  \A s \in Session : pc[s] = "commit" /\ txn[s].status = "open" /\ owner = s =>
    /\ txn[s].moved = batch[s].end /\ txn[s].rows = Snapshots(batch[s])
    /\ batch[s].start = cursor + 1

\* Sessions with their transactions implement the exactly-once specification.
Abstract == INSTANCE ExactlyOnce
ImplementsExactlyOnce == Abstract!Spec

\* "Exceptional __exit__ issues ROLLBACK ... nothing is committed" (types.py:51-53):
\* once an exception has left the block, what the block wrote is off the connection.
NoRowsLeftBehind ==
  \A s \in Session : pc[s] = "raised" => txn[s].rows = {}
-----------------------------------------------------------------------------
(* The inductive invariant: what makes the properties above hold. *)

\* The session is about to begin a transaction, or in one that may commit.
InBlock(s) ==
  \/ pc[s] = "begin" /\ txn[s].status = "none"
  \/ pc[s] \in {"body", "cdc_commit", "commit"}

\* The batch of a block is not empty, and with the lease it is the next one.
HolderReady(s) ==
  InBlock(s) =>
    /\ batch[s].start <= batch[s].end
    /\ owner = s => batch[s].start = cursor + 1

\* How far the transaction of a block has come, label by label.
TransactionFollows(s) ==
  /\ pc[s] = "body" => txn[s].rows \subseteq Snapshots(batch[s]) /\ txn[s].moved = 0
  /\ pc[s] \in {"cdc_commit", "commit"} => txn[s].rows = Snapshots(batch[s])
  /\ pc[s] = "cdc_commit" => txn[s].moved \in {0, batch[s].end}
  /\ pc[s] = "commit" => txn[s].moved = batch[s].end

\* The conjunction the proofs carry through every step.
IInv ==
  /\ TypeOK
  /\ OneCopy
  /\ \A s \in Session : HolderReady(s) /\ TransactionFollows(s)
=============================================================================
