------------------------- MODULE SinkTransactionProofs -------------------------
(***************************************************************************)
(* Proofs about SinkTransaction.tla for any set of sessions and any        *)
(* bounds: exactly-once delivery and the refinement of ExactlyOnce.tla.    *)
(***************************************************************************)
EXTENDS SinkTransaction, TLAPS

\* The types, split into what the database keeps and what a session keeps.
DatabaseType ==
  /\ head \in 0..MaxHead /\ cursor \in 0..head
  /\ owner \in Session \cup {Nobody} /\ fresh \in BOOLEAN
  /\ copies \in [Snapshot -> Nat]

Transaction == [status : {"none", "open", "aborted"}, rows : SUBSET (1..head), moved : 0..head]
TxnType == txn \in [Session -> Transaction]

SessionType ==
  /\ given \in [Session -> BOOLEAN]
  /\ pc \in [Session -> Labels]
  /\ attempt \in [Session -> 1..MaxAttempts]
  /\ batch \in [Session -> [start : 1..(head + 1), end : 0..head]]
  /\ faults \in 0..MaxFaults

LEMMA TypeSplits == TypeOK <=> DatabaseType /\ TxnType /\ SessionType
  BY DEF TypeOK, DatabaseType, TxnType, SessionType, Transaction

\* The initial states satisfy the inductive invariant.
THEOREM InitEstablishes == Init => IInv
<1> SUFFICES ASSUME Init PROVE IInv
  OBVIOUS
<1>1. DatabaseType
  <2>1. copies \in [Snapshot -> Nat]
    BY DEF Init
  <2>2. head \in 0..MaxHead /\ cursor \in 0..head
    BY BoundAssumption DEF Init
  <2> QED BY <2>1, <2>2 DEF Init, DatabaseType
<1>2. TxnType
  <2>1. NoTransaction \in Transaction
    BY DEF NoTransaction, Transaction, Init
  <2> QED BY <2>1 DEF Init, TxnType
<1>3. SessionType
  BY BoundAssumption DEF Init, SessionType, Labels, NoBatch
<1>4. OneCopy
  BY BoundAssumption DEF Init, OneCopy, Snapshot
<1>5. \A s \in Session : HolderReady(s) /\ TransactionFollows(s)
  BY DEF Init, HolderReady, InBlock, TransactionFollows
<1> QED BY <1>1, <1>2, <1>3, <1>4, <1>5, TypeSplits DEF IInv
-----------------------------------------------------------------------------
(* The database stays: a session works in its transaction and moves on. *)

\* A step of session s that leaves the database alone: only its own transaction,
\* label and attempts change.
OwnStep(s) ==
  /\ UNCHANGED <<database, given, batch>>
  /\ \E t \in Transaction : SetTxn(s, t)
  /\ \E l \in Labels : pc' = [pc EXCEPT ![s] = l]
  /\ attempt' \in [Session -> 1..MaxAttempts]
  /\ faults' \in 0..MaxFaults

\* What such a step must show of s itself is enough for the whole invariant.
LEMMA OwnStepPreserves ==
  ASSUME IInv, NEW s \in Session, OwnStep(s), HolderReady(s)', TransactionFollows(s)'
  PROVE IInv'
<1> USE TypeSplits DEF IInv
<1>1. DatabaseType'
  BY DEF OwnStep, database, DatabaseType
<1>2. TxnType'
  BY DEF OwnStep, database, SetTxn, TxnType, Transaction
<1>3. SessionType'
  BY DEF OwnStep, database, SessionType
<1>4. OneCopy'
  BY DEF OwnStep, database, OneCopy
<1>5. ASSUME NEW x \in Session, x # s PROVE HolderReady(x)' /\ TransactionFollows(x)'
  <2>1. pc'[x] = pc[x] /\ txn'[x] = txn[x] /\ batch'[x] = batch[x] /\ owner' = owner /\ cursor' = cursor
    BY <1>5 DEF OwnStep, database, SetTxn, SessionType, TxnType
  <2>2. HolderReady(x) /\ TransactionFollows(x)
    OBVIOUS
  <2> QED BY <2>1, <2>2 DEF HolderReady, InBlock, TransactionFollows
<1>6. \A x \in Session : HolderReady(x)' /\ TransactionFollows(x)'
  BY <1>5
<1>7. TypeOK'
  BY <1>1, <1>2, <1>3 DEF TypeOK, DatabaseType, TxnType, SessionType, Transaction
<1> QED BY <1>4, <1>6, <1>7

\* Outside a block nothing has to be shown.
OutsideLabels == {"listen", "rollback", "raised", "closed", "crashed"}

LEMMA OutsidePreserves ==
  ASSUME IInv, NEW s \in Session, OwnStep(s), pc'[s] \in OutsideLabels
  PROVE IInv'
<1>1. HolderReady(s)' /\ TransactionFollows(s)'
  BY DEF HolderReady, InBlock, TransactionFollows, OutsideLabels
<1> QED BY <1>1, OwnStepPreserves

\* Transactions stay transactions.
LEMMA TransactionTypes ==
  ASSUME IInv, NEW s \in Session
  PROVE /\ txn[s] \in Transaction
        /\ NoTransaction \in Transaction /\ NewTransaction \in Transaction
        /\ Aborted(txn[s]) \in Transaction
        /\ [txn[s] EXCEPT !.moved = batch[s].end] \in Transaction
        /\ Aborted(txn[s]).rows = txn[s].rows /\ Aborted(txn[s]).moved = txn[s].moved
        /\ txn = [txn EXCEPT ![s] = txn[s]]
<1>1. txn[s] \in Transaction /\ batch[s].end \in 0..head /\ head \in Nat
  BY TypeSplits, BoundAssumption DEF IInv, TxnType, SessionType, DatabaseType
<1>2. NoTransaction \in Transaction /\ NewTransaction \in Transaction
  BY <1>1 DEF NoTransaction, NewTransaction, Transaction
<1>3. /\ Aborted(txn[s]) \in Transaction
      /\ [txn[s] EXCEPT !.moved = batch[s].end] \in Transaction
      /\ Aborted(txn[s]).rows = txn[s].rows /\ Aborted(txn[s]).moved = txn[s].moved
  BY <1>1 DEF Aborted, Transaction
<1>4. txn = [txn EXCEPT ![s] = txn[s]]
  BY TypeSplits DEF IInv, TxnType
<1> QED BY <1>1, <1>2, <1>3, <1>4

\* A failed statement leaves what the transaction has done.
LEMMA FailureKeeps ==
  ASSUME IInv, NEW s \in Session, StatementFails(s)
  PROVE /\ \E t \in Transaction : SetTxn(s, t)
        /\ txn'[s].rows = txn[s].rows /\ txn'[s].moved = txn[s].moved
        /\ txn'[s].status \in {txn[s].status, "aborted"}
<1>1. txn \in [Session -> Transaction]
  BY TypeSplits DEF IInv, TxnType
<1> QED BY <1>1, TransactionTypes DEF StatementFails, SetTxn, Aborted, Transaction
-----------------------------------------------------------------------------
(* The steps that write to the database. *)

\* COMMIT makes the next snapshots durable, with the cursor behind them.
LEMMA DurableIsNext ==
  ASSUME IInv, NEW s \in Session, pc[s] = "commit", MakeDurable(s)
  PROVE /\ cursor' = batch[s].end /\ cursor' \in (cursor + 1)..head
        /\ copies' = [i \in Snapshot |->
                        copies[i] + IF i \in (cursor + 1)..cursor' THEN 1 ELSE 0]
        /\ UNCHANGED <<head, owner, fresh>> /\ owner = s
        /\ txn' = [txn EXCEPT ![s] = NoTransaction]
<1>1. /\ batch[s].start \in 1..(head + 1) /\ batch[s].end \in 0..head
      /\ head \in Nat /\ cursor \in Nat
  BY TypeSplits, BoundAssumption DEF IInv, SessionType, DatabaseType
<1>2. /\ batch[s].start = cursor + 1 /\ batch[s].start <= batch[s].end
      /\ txn[s].rows = batch[s].start..batch[s].end /\ txn[s].moved = batch[s].end
  BY DEF IInv, HolderReady, InBlock, TransactionFollows, MakeDurable, Snapshots
<1>3. cursor' = batch[s].end
  BY <1>1, <1>2 DEF MakeDurable
<1> QED BY <1>1, <1>2, <1>3 DEF MakeDurable, SetTxn

\* After it the session is out of the block, and nobody else holds the lease.
LEMMA DurablePreserves ==
  ASSUME IInv, NEW s \in Session, pc[s] = "commit", MakeDurable(s),
         NEW l \in OutsideLabels, Goto(s, l),
         attempt' = attempt, faults' \in 0..MaxFaults
  PROVE IInv'
<1>1. DatabaseType /\ TxnType /\ SessionType /\ OneCopy
  BY TypeSplits DEF IInv
<1>2. DatabaseType'
  BY <1>1, DurableIsNext, BoundAssumption DEF DatabaseType
<1>3. TxnType'
  BY <1>1, DurableIsNext, TransactionTypes DEF TxnType, Transaction
<1>4. SessionType'
  BY <1>1, DurableIsNext DEF SessionType, Goto, OutsideLabels, Labels, EndLabels
<1>5. OneCopy'
  <2>1. cursor \in Nat /\ head \in Nat /\ cursor' \in Nat /\ cursor' >= cursor + 1
    BY <1>1, DurableIsNext, BoundAssumption DEF DatabaseType
  <2>2. ASSUME NEW i \in Snapshot PROVE copies'[i] = IF i <= cursor' THEN 1 ELSE 0
    <3>1. copies[i] = IF i <= cursor THEN 1 ELSE 0
      BY <1>1 DEF OneCopy
    <3>2. copies'[i] = copies[i] + IF i \in (cursor + 1)..cursor' THEN 1 ELSE 0
      BY DurableIsNext
    <3>3. i \in Nat
      BY BoundAssumption DEF Snapshot
    <3> QED BY <2>1, <3>1, <3>2, <3>3
  <2> QED BY <2>2 DEF OneCopy
<1>6. ASSUME NEW x \in Session PROVE HolderReady(x)' /\ TransactionFollows(x)'
  <2>1. CASE x = s
    BY <1>1, <2>1 DEF Goto, SessionType, HolderReady, InBlock, TransactionFollows, OutsideLabels
  <2>2. CASE x # s
    <3>1. /\ pc'[x] = pc[x] /\ txn'[x] = txn[x] /\ batch'[x] = batch[x] /\ owner' # x
      BY <1>1, <2>2, DurableIsNext DEF Goto, SessionType, TxnType
    <3>2. HolderReady(x) /\ TransactionFollows(x)
      BY DEF IInv
    <3> QED BY <3>1, <3>2 DEF HolderReady, InBlock, TransactionFollows
  <2> QED BY <2>1, <2>2
<1>7. TypeOK'
  BY <1>2, <1>3, <1>4 DEF TypeOK, DatabaseType, TxnType, SessionType, Transaction
<1> QED BY <1>5, <1>6, <1>7 DEF IInv
-----------------------------------------------------------------------------
(* One lemma per action. *)

\* A listen without a transaction takes the lease and the next window.
LEMMA ListenPreserves ==
  ASSUME IInv, NEW s \in Session, Listen(s)
  PROVE IInv'
<1>1. DatabaseType /\ TxnType /\ SessionType
  BY TypeSplits DEF IInv
<1>2. PICK e \in (cursor + 1)..head :
        batch' = [batch EXCEPT ![s] = [start |-> cursor + 1, end |-> e]]
  BY DEF Listen, WindowAfter
<1>3. /\ pc' = [pc EXCEPT ![s] = "begin"] /\ owner' = s /\ fresh' = TRUE
      /\ UNCHANGED <<head, cursor, copies, txn, given, attempt, faults>>
  BY DEF Listen, WindowAfter
<1>4. DatabaseType' /\ TxnType'
  BY <1>1, <1>3 DEF DatabaseType, TxnType, Transaction
<1>5. SessionType'
  <2>1. [start |-> cursor + 1, end |-> e] \in [start : 1..(head + 1), end : 0..head]
    BY <1>1, BoundAssumption DEF DatabaseType
  <2>2. batch' \in [Session -> [start : 1..(head' + 1), end : 0..head']]
    BY <1>1, <1>2, <1>3, <2>1 DEF SessionType
  <2>3. pc' \in [Session -> Labels]
    BY <1>1, <1>3 DEF SessionType, Labels
  <2> QED BY <1>1, <1>3, <2>2, <2>3 DEF SessionType
<1>6. OneCopy'
  BY <1>3 DEF IInv, OneCopy
<1>7. ASSUME NEW x \in Session PROVE HolderReady(x)' /\ TransactionFollows(x)'
  <2>1. CASE x = s
    <3>1. batch'[s].start = cursor + 1 /\ batch'[s].end = e /\ cursor + 1 <= e /\ pc'[s] = "begin"
      BY <1>1, <1>2, <1>3, BoundAssumption DEF SessionType, DatabaseType
    <3> QED BY <1>3, <2>1, <3>1 DEF HolderReady, TransactionFollows
  <2>2. CASE x # s
    <3>1. pc'[x] = pc[x] /\ txn'[x] = txn[x] /\ batch'[x] = batch[x] /\ owner' # x
      BY <1>1, <1>2, <1>3, <2>2 DEF SessionType
    <3>2. HolderReady(x) /\ TransactionFollows(x)
      BY DEF IInv
    <3> QED BY <3>1, <3>2 DEF HolderReady, InBlock, TransactionFollows
  <2> QED BY <2>1, <2>2
<1>8. TypeOK'
  BY <1>4, <1>5 DEF TypeOK, DatabaseType, TxnType, SessionType, Transaction
<1> QED BY <1>6, <1>7, <1>8 DEF IInv

\* One inside a transaction left behind leads to a BEGIN that is refused.
LEMMA ListenInTransactionPreserves ==
  ASSUME IInv, NEW s \in Session, ListenInTransaction(s)
  PROVE IInv'
<1> DEFINE c == IF txn[s].moved = 0 THEN cursor ELSE txn[s].moved
<1>1. DatabaseType /\ TxnType /\ SessionType
  BY TypeSplits DEF IInv
<1>2. PICK e \in (c + 1)..head : batch' = [batch EXCEPT ![s] = [start |-> c + 1, end |-> e]]
  BY DEF ListenInTransaction, WindowAfter
<1>3. /\ pc' = [pc EXCEPT ![s] = "begin"] /\ txn[s].status = "open"
      /\ UNCHANGED <<head, cursor, owner, fresh, copies, txn, given, attempt, faults>>
  BY DEF ListenInTransaction, WindowAfter
<1>4. DatabaseType' /\ TxnType'
  BY <1>1, <1>3 DEF DatabaseType, TxnType, Transaction
<1>5. SessionType'
  <2>1. c \in Nat /\ head \in Nat
    BY <1>1, BoundAssumption DEF DatabaseType, TxnType, Transaction
  <2>2. [start |-> c + 1, end |-> e] \in [start : 1..(head + 1), end : 0..head]
    BY <2>1
  <2>3. batch' \in [Session -> [start : 1..(head' + 1), end : 0..head']]
    BY <1>1, <1>2, <1>3, <2>2 DEF SessionType
  <2>4. pc' \in [Session -> Labels]
    BY <1>1, <1>3 DEF SessionType, Labels
  <2> QED BY <1>1, <1>3, <2>3, <2>4 DEF SessionType
<1>6. OneCopy'
  BY <1>3 DEF IInv, OneCopy
<1>7. ASSUME NEW x \in Session PROVE HolderReady(x)' /\ TransactionFollows(x)'
  <2>1. CASE x = s
    <3>1. pc'[s] = "begin" /\ txn'[s].status # "none"
      BY <1>1, <1>3 DEF SessionType
    <3> QED BY <2>1, <3>1 DEF HolderReady, InBlock, TransactionFollows
  <2>2. CASE x # s
    <3>1. pc'[x] = pc[x] /\ txn'[x] = txn[x] /\ batch'[x] = batch[x]
      BY <1>1, <1>2, <1>3, <2>2 DEF SessionType
    <3>2. HolderReady(x) /\ TransactionFollows(x)
      BY DEF IInv
    <3> QED BY <1>3, <3>1, <3>2 DEF HolderReady, InBlock, TransactionFollows
  <2> QED BY <2>1, <2>2
<1>8. TypeOK'
  BY <1>4, <1>5 DEF TypeOK, DatabaseType, TxnType, SessionType, Transaction
<1> QED BY <1>6, <1>7, <1>8 DEF IInv

\* Steps that end up outside a block: raising, rolling back, leaving, crashing.
LEMMA OutsideSteps ==
  ASSUME IInv, NEW s \in Session,
         \/ ListenRaises(s) \/ Catch(s) \/ Close(s) \/ Crash(s)
         \/ BeginRefused(s) \/ BodyRaises(s) \/ CommitWithinRefused(s) \/ CommitRefused(s)
         \/ Rollback(s) \/ RollbackRaises(s)
  PROVE IInv'
<1>1. SessionType /\ MaxFaults \in Nat
  BY TypeSplits, BoundAssumption DEF IInv
<1>2. UNCHANGED <<database, given, batch>>
  BY DEF ListenRaises, Catch, Close, Crash, BeginRefused, BodyRaises, CommitWithinRefused,
         CommitRefused, Rollback, RollbackRaises, Goto
<1>3. PICK l \in OutsideLabels : Goto(s, l)
  BY DEF ListenRaises, Catch, Close, Crash, BeginRefused, BodyRaises, CommitWithinRefused,
         CommitRefused, Rollback, RollbackRaises, OutsideLabels
<1>4. attempt' = attempt /\ faults' \in 0..MaxFaults
  BY <1>1 DEF ListenRaises, Catch, Close, Crash, BeginRefused, BodyRaises, CommitWithinRefused,
         CommitRefused, Rollback, RollbackRaises, Fault, SessionType
<1>5. \/ UNCHANGED txn
      \/ StatementFails(s)
      \/ SetTxn(s, NoTransaction)
      \/ SetTxn(s, txn[s])
  <2>1. CASE Close(s)
    BY <2>1 DEF Close
  <2>2. CASE ListenRaises(s) \/ Catch(s) \/ RollbackRaises(s)
    BY <2>2 DEF ListenRaises, Catch, RollbackRaises
  <2>3. CASE \/ Crash(s) \/ BeginRefused(s) \/ BodyRaises(s) \/ CommitWithinRefused(s)
             \/ CommitRefused(s) \/ Rollback(s)
    BY <2>3 DEF Crash, BeginRefused, BodyRaises, CommitWithinRefused, CommitRefused, Rollback
  <2> QED BY <2>1, <2>2, <2>3
<1>6. \E t \in Transaction : SetTxn(s, t)
  <2>1. CASE UNCHANGED txn
    <3>1. SetTxn(s, txn[s])
      BY <2>1, TransactionTypes DEF SetTxn
    <3> QED BY <3>1, TransactionTypes
  <2>2. CASE StatementFails(s)
    BY <2>2, FailureKeeps
  <2>3. CASE SetTxn(s, NoTransaction) \/ SetTxn(s, txn[s])
    BY <2>3, TransactionTypes
  <2> QED BY <1>5, <2>1, <2>2, <2>3
<1>7. OwnStep(s) /\ pc'[s] \in OutsideLabels
  BY <1>1, <1>2, <1>3, <1>4, <1>6
  DEF OwnStep, Goto, SessionType, OutsideLabels, Labels, EndLabels
<1> QED BY <1>7, OutsidePreserves

\* BEGIN opens an empty transaction.
LEMMA BeginPreserves ==
  ASSUME IInv, NEW s \in Session, Begin(s)
  PROVE IInv'
<1>1. SessionType /\ TxnType
  BY TypeSplits DEF IInv
<1>2. OwnStep(s)
  BY <1>1, TransactionTypes DEF Begin, Goto, OwnStep, SessionType, Labels
<1>3. /\ pc[s] = "begin" /\ txn[s].status = "none"
      /\ pc'[s] = "body" /\ txn'[s].rows = {} /\ txn'[s].moved = 0
      /\ UNCHANGED <<cursor, owner, batch>>
  BY <1>1 DEF Begin, Goto, SetTxn, SessionType, TxnType, NewTransaction, NoTransaction, database
<1>4. HolderReady(s) /\ TransactionFollows(s)
  BY DEF IInv
<1>5. HolderReady(s)' /\ TransactionFollows(s)'
  BY <1>3, <1>4 DEF HolderReady, InBlock, TransactionFollows
<1> QED BY <1>2, <1>5, OwnStepPreserves

\* The rows of a transaction belong to its batch.
LEMMA ExecutePreserves ==
  ASSUME IInv, NEW s \in Session, Execute(s)
  PROVE IInv'
<1>1. SessionType /\ TxnType /\ DatabaseType /\ head \in Nat
  BY TypeSplits, BoundAssumption DEF IInv, DatabaseType
<1>2. PICK i \in Snapshots(batch[s]) : SetTxn(s, [txn[s] EXCEPT !.rows = @ \cup {i}])
  BY DEF Execute
<1>3. i \in 1..head
  BY <1>1 DEF Snapshots, SessionType
<1>4. [txn[s] EXCEPT !.rows = @ \cup {i}] \in Transaction
  BY <1>1, <1>3, TransactionTypes DEF Transaction
<1>5. /\ pc[s] = "body" /\ UNCHANGED <<pc, cursor, owner, batch>>
      /\ txn'[s].rows = txn[s].rows \cup {i} /\ txn'[s].moved = txn[s].moved
  BY <1>1, <1>2, TransactionTypes DEF Execute, SetTxn, TxnType, Transaction, database, session
<1>6. OwnStep(s)
  <2>1. pc' = [pc EXCEPT ![s] = "body"] /\ "body" \in Labels
    BY <1>1, <1>5 DEF SessionType, Labels
  <2> QED BY <1>1, <1>2, <1>4, <2>1 DEF Execute, OwnStep, session, SessionType
<1>7. HolderReady(s) /\ TransactionFollows(s)
  BY DEF IInv
<1>8. HolderReady(s)' /\ TransactionFollows(s)'
  BY <1>2, <1>5, <1>7 DEF HolderReady, InBlock, TransactionFollows, Snapshots
<1> QED BY <1>6, <1>8, OwnStepPreserves

\* The block ends with every row written.
LEMMA BodyEndsPreserves ==
  ASSUME IInv, NEW s \in Session, BodyEnds(s)
  PROVE IInv'
<1>1. SessionType /\ TxnType
  BY TypeSplits DEF IInv
<1>2. OwnStep(s)
  <2>1. SetTxn(s, txn[s]) /\ txn[s] \in Transaction
    BY TransactionTypes DEF BodyEnds, SetTxn
  <2>2. attempt' \in [Session -> 1..MaxAttempts]
    BY <1>1, BoundAssumption DEF BodyEnds, SessionType
  <2> QED BY <1>1, <2>1, <2>2 DEF BodyEnds, Goto, OwnStep, SessionType, Labels
<1>3. /\ pc[s] = "body" /\ pc'[s] = "cdc_commit" /\ txn[s].rows = Snapshots(batch[s])
      /\ UNCHANGED <<cursor, owner, batch, txn>>
  BY <1>1 DEF BodyEnds, Goto, SessionType, database
<1>4. HolderReady(s) /\ TransactionFollows(s)
  BY DEF IInv
<1>5. HolderReady(s)' /\ TransactionFollows(s)'
  BY <1>3, <1>4 DEF HolderReady, InBlock, TransactionFollows, Snapshots
<1> QED BY <1>2, <1>5, OwnStepPreserves

\* cdc_commit inside the transaction, taken effect or not.
LEMMA CommitWithinPreserves ==
  ASSUME IInv, NEW s \in Session, CommitWithin(s)
  PROVE IInv'
<1>1. SessionType /\ TxnType
  BY TypeSplits DEF IInv
<1>2. OwnStep(s)
  BY <1>1, TransactionTypes DEF CommitWithin, Goto, OwnStep, SessionType, Labels
<1>3. /\ pc[s] = "cdc_commit" /\ pc'[s] = "commit"
      /\ txn'[s].rows = txn[s].rows /\ txn'[s].moved = batch[s].end
      /\ UNCHANGED <<cursor, owner, batch>>
  BY <1>1, TransactionTypes
  DEF CommitWithin, Goto, SetTxn, SessionType, TxnType, Transaction, database
<1>4. HolderReady(s) /\ TransactionFollows(s)
  BY DEF IInv
<1>5. HolderReady(s)' /\ TransactionFollows(s)'
  BY <1>3, <1>4 DEF HolderReady, InBlock, TransactionFollows, Snapshots
<1> QED BY <1>2, <1>5, OwnStepPreserves

LEMMA CommitWithinTransientPreserves ==
  ASSUME IInv, NEW s \in Session, CommitWithinTransient(s)
  PROVE IInv'
<1>1. SessionType /\ TxnType
  BY TypeSplits DEF IInv
<1>2. PICK t \in Transaction :
        SetTxn(s, t) /\ t.rows = txn[s].rows /\ t.moved \in {txn[s].moved, batch[s].end}
  <2>1. CASE StatementFails(s)
    <3>1. PICK t \in Transaction : SetTxn(s, t)
      BY <2>1, FailureKeeps
    <3>2. txn'[s] = t
      BY <1>1, <3>1 DEF SetTxn, TxnType
    <3> QED BY <2>1, <3>1, <3>2, FailureKeeps
  <2>2. CASE SetTxn(s, [txn[s] EXCEPT !.moved = batch[s].end])
    <3>1. /\ [txn[s] EXCEPT !.moved = batch[s].end].rows = txn[s].rows
          /\ [txn[s] EXCEPT !.moved = batch[s].end].moved = batch[s].end
      BY TransactionTypes DEF Transaction
    <3> QED BY <2>2, <3>1, TransactionTypes
  <2> QED BY <2>1, <2>2 DEF CommitWithinTransient
<1>3. faults' \in 0..MaxFaults /\ attempt' \in [Session -> 1..MaxAttempts]
  BY <1>1, BoundAssumption DEF CommitWithinTransient, Fault, SessionType
<1>4. PICK l \in {"cdc_commit", "rollback"} : Goto(s, l)
  BY DEF CommitWithinTransient
<1>5. OwnStep(s)
  BY <1>1, <1>2, <1>3, <1>4 DEF CommitWithinTransient, Goto, OwnStep, SessionType, Labels
<1>6. /\ pc[s] = "cdc_commit" /\ pc'[s] = l /\ txn'[s] = t
      /\ UNCHANGED <<cursor, owner, batch>>
  BY <1>1, <1>2, <1>4 DEF CommitWithinTransient, Goto, SetTxn, SessionType, TxnType, database
<1>7. HolderReady(s) /\ TransactionFollows(s)
  BY DEF IInv
<1>8. HolderReady(s)' /\ TransactionFollows(s)'
  BY <1>2, <1>6, <1>7 DEF HolderReady, InBlock, TransactionFollows, Snapshots
<1> QED BY <1>5, <1>8, OwnStepPreserves

\* COMMIT, and one that raises after it has or has not taken effect.
LEMMA CommitPreserves ==
  ASSUME IInv, NEW s \in Session, Commit(s) \/ CommitRaises(s)
  PROVE IInv'
<1>1. SessionType
  BY TypeSplits DEF IInv
<1>2. /\ pc[s] = "commit" /\ attempt' = attempt
      /\ \E l \in {"listen", "rollback"} : Goto(s, l)
  BY DEF Commit, CommitRaises
<1>3. faults' \in 0..MaxFaults
  BY <1>1, BoundAssumption DEF Commit, CommitRaises, Fault, SessionType
<1>4. CASE MakeDurable(s)
  BY <1>2, <1>3, <1>4, DurablePreserves DEF OutsideLabels
<1>5. CASE (StatementFails(s) \/ SetTxn(s, NoTransaction)) /\ UNCHANGED database
  <2>1. \E t \in Transaction : SetTxn(s, t)
    BY <1>5, FailureKeeps, TransactionTypes
  <2>2. OwnStep(s) /\ pc'[s] \in OutsideLabels
    BY <1>1, <1>2, <1>3, <1>5, <2>1 DEF OwnStep, Goto, SessionType, OutsideLabels, Labels
  <2> QED BY <2>2, OutsidePreserves
<1> QED BY <1>4, <1>5 DEF Commit, CommitRaises

\* An interrupt leaves the block, whatever the call has done.
LEMMA InterruptPreserves ==
  ASSUME IInv, NEW s \in Session, Interrupt(s)
  PROVE IInv'
<1>1. SessionType
  BY TypeSplits DEF IInv
<1>2. Goto(s, "raised") /\ attempt' = attempt
  BY DEF Interrupt
<1>3. faults' \in 0..MaxFaults
  BY <1>1, BoundAssumption DEF Interrupt, Fault, SessionType
<1>4. CASE pc[s] = "commit" /\ MakeDurable(s)
  BY <1>2, <1>3, <1>4, DurablePreserves DEF OutsideLabels
<1>5. CASE /\ UNCHANGED database
           /\ \/ SetTxn(s, NewTransaction)
              \/ SetTxn(s, [txn[s] EXCEPT !.moved = batch[s].end])
              \/ UNCHANGED txn
  <2>1. \E t \in Transaction : SetTxn(s, t)
    BY <1>5, TransactionTypes DEF SetTxn
  <2>2. OwnStep(s) /\ pc'[s] \in OutsideLabels
    BY <1>1, <1>2, <1>3, <1>5, <2>1 DEF OwnStep, Goto, SessionType, OutsideLabels, Labels
  <2> QED BY <2>2, OutsidePreserves
<1> QED BY <1>4, <1>5 DEF Interrupt

\* Publishing and the passing of time touch no session.
LEMMA EnvironmentPreserves ==
  ASSUME IInv, Publish \/ LeaseExpires
  PROVE IInv'
<1>1. DatabaseType /\ TxnType /\ SessionType /\ MaxHead \in Nat
  BY TypeSplits, BoundAssumption DEF IInv
<1>2. /\ UNCHANGED <<cursor, owner, copies, txn, given, pc, attempt, batch, faults>>
      /\ head' \in {head, head + 1} /\ head' \in 0..MaxHead /\ fresh' \in BOOLEAN
  <2>1. CASE Publish
    BY <1>1, <2>1 DEF Publish, session, DatabaseType
  <2>2. CASE LeaseExpires
    BY <1>1, <2>2 DEF LeaseExpires, session, DatabaseType
  <2> QED BY <2>1, <2>2
<1>3. DatabaseType'
  BY <1>1, <1>2 DEF DatabaseType
<1>4. TxnType'
  <2>1. 1..head \subseteq 1..head' /\ 0..head \subseteq 0..head'
    BY <1>1, <1>2 DEF DatabaseType
  <2>2. ASSUME NEW x \in Session PROVE txn[x] \in Transaction'
    <3>1. txn[x] \in Transaction
      BY <1>1 DEF TxnType
    <3> QED BY <2>1, <3>1 DEF Transaction
  <2> QED BY <1>1, <1>2, <2>2 DEF TxnType
<1>5. SessionType'
  <2>1. head \in Nat /\ (head' = head \/ head' = head + 1)
    BY <1>1, <1>2 DEF DatabaseType
  <2>2. ASSUME NEW x \in Session PROVE batch[x] \in [start : 1..(head' + 1), end : 0..head']
    <3>1. batch[x] \in [start : 1..(head + 1), end : 0..head]
      BY <1>1 DEF SessionType
    <3>2. CASE head' = head
      BY <3>1, <3>2
    <3>3. CASE head' = head + 1
      BY <2>1, <3>1, <3>3
    <3> QED BY <2>1, <3>2, <3>3
  <2> QED BY <1>1, <1>2, <2>2 DEF SessionType
<1>6. OneCopy'
  BY <1>2 DEF IInv, OneCopy
<1>7. \A x \in Session : HolderReady(x)' /\ TransactionFollows(x)'
  BY <1>2 DEF IInv, HolderReady, InBlock, TransactionFollows, Snapshots
<1>8. TypeOK'
  BY <1>3, <1>4, <1>5 DEF TypeOK, DatabaseType, TxnType, SessionType, Transaction
<1> QED BY <1>6, <1>7, <1>8 DEF IInv
-----------------------------------------------------------------------------
(* The theorems. *)

\* Every step preserves the inductive invariant.
THEOREM StepPreserves == IInv /\ [Next]_vars => IInv'
<1> SUFFICES ASSUME IInv, [Next]_vars PROVE IInv'
  OBVIOUS
<1>1. ASSUME NEW s \in Session, LoopStep(s) \/ BlockStep(s) \/ Crash(s) PROVE IInv'
  <2>1. CASE Listen(s)
    BY <2>1, ListenPreserves
  <2>2. CASE ListenInTransaction(s)
    BY <2>2, ListenInTransactionPreserves
  <2>3. CASE Begin(s)
    BY <2>3, BeginPreserves
  <2>4. CASE Execute(s)
    BY <2>4, ExecutePreserves
  <2>5. CASE BodyEnds(s)
    BY <2>5, BodyEndsPreserves
  <2>6. CASE CommitWithin(s)
    BY <2>6, CommitWithinPreserves
  <2>7. CASE CommitWithinTransient(s)
    BY <2>7, CommitWithinTransientPreserves
  <2>8. CASE Commit(s) \/ CommitRaises(s)
    BY <2>8, CommitPreserves
  <2>9. CASE Interrupt(s)
    BY <2>9, InterruptPreserves
  <2> QED
    BY <1>1, <2>1, <2>2, <2>3, <2>4, <2>5, <2>6, <2>7, <2>8, <2>9, OutsideSteps
    DEF LoopStep, BlockStep
<1>2. CASE Publish \/ LeaseExpires
  BY <1>2, EnvironmentPreserves
<1>3. CASE UNCHANGED vars
  BY <1>3
  DEF vars, database, session, IInv, TypeOK, OneCopy, HolderReady, InBlock, TransactionFollows,
      Snapshots
<1> QED BY <1>1, <1>2, <1>3 DEF Next, Terminated

\* The inductive invariant holds in every reachable state.
THEOREM InvariantHolds == Spec => []IInv
  BY InitEstablishes, StepPreserves, PTL DEF Spec

\* Types hold (BatchTransaction and the batches() loop around it).
THEOREM TypeCorrect == Spec => []TypeOK
<1>1. IInv => TypeOK
  BY DEF IInv
<1> QED BY <1>1, InvariantHolds, PTL

\* Exactly-once (types.py:51-53): one copy of every snapshot the cursor has passed
\* and none of any other.
THEOREM OneCopyHolds == Spec => []OneCopy
<1>1. IInv => OneCopy
  BY DEF IInv
<1> QED BY <1>1, InvariantHolds, PTL

\* What a COMMIT of __exit__ would make durable is the next batch and its cursor.
THEOREM CommitIsCompleteHolds == Spec => []CommitIsComplete
<1>1. IInv => CommitIsComplete
  BY DEF IInv, CommitIsComplete, HolderReady, InBlock, TransactionFollows
<1> QED BY <1>1, InvariantHolds, PTL

\* A step of the sessions is a step of the exactly-once specification or a stutter.
LEMMA StepRefines == IInv /\ [Next]_vars => [Abstract!Next]_(Abstract!vars)
<1> SUFFICES ASSUME IInv, [Next]_vars PROVE [Abstract!Next]_(Abstract!vars)
  OBVIOUS
<1>1. CASE UNCHANGED database
  BY <1>1 DEF database, Abstract!vars
<1>2. CASE Publish
  BY <1>2 DEF Publish, Abstract!Next, Abstract!Publish
<1>3. CASE LeaseExpires
  BY <1>3 DEF LeaseExpires, Abstract!vars
<1>4. ASSUME NEW s \in Session, LoopStep(s) \/ BlockStep(s) \/ Crash(s)
      PROVE [Abstract!Next]_(Abstract!vars)
  <2>1. CASE Listen(s)
    BY <2>1 DEF Listen, WindowAfter, Abstract!vars
  <2>2. CASE ListenInTransaction(s)
    BY <2>2 DEF ListenInTransaction, WindowAfter, Abstract!vars
  <2>3. CASE pc[s] = "commit" /\ MakeDurable(s)
    <3>1. DOMAIN copies = Snapshot
      BY TypeSplits DEF IInv, DatabaseType
    <3> QED BY <2>3, <3>1, DurableIsNext DEF Abstract!Next, Abstract!Apply
  <2> QED
    BY <1>1, <1>4, <2>1, <2>2, <2>3
    DEF LoopStep, BlockStep, ListenRaises, Catch, Close, Crash, Begin, BeginRefused, Execute,
        BodyRaises, BodyEnds, CommitWithin, CommitWithinRefused, CommitWithinTransient, Commit,
        CommitRefused, CommitRaises, Rollback, RollbackRaises, Interrupt
<1>5. CASE UNCHANGED vars
  BY <1>5 DEF vars, database, Abstract!vars
<1> QED BY <1>2, <1>3, <1>4, <1>5 DEF Next, Terminated

\* Sessions with their transactions implement exactly-once.
THEOREM ImplementsExactlyOnceHolds == Spec => ImplementsExactlyOnce
<1>1. Init => Abstract!Init
  BY DEF Init, Abstract!Init
<1> QED BY <1>1, StepRefines, InvariantHolds, PTL
         DEF Spec, ImplementsExactlyOnce, Abstract!Spec

\* What is durable stays so: whatever fails, is interrupted or delivered again, no
\* step takes a row back or moves the cursor back.
NothingUndone ==
  [][cursor <= cursor' /\ \A i \in Snapshot : copies[i] <= copies'[i]]_vars

\* A ROLLBACK or a lost connection undoes the open transaction and nothing else.
THEOREM NothingUndoneHolds == Spec => NothingUndone
<1>1. ASSUME IInv, [Next]_vars
      PROVE  cursor <= cursor' /\ \A i \in Snapshot : copies[i] <= copies'[i]
  <2>1. cursor \in Nat /\ head \in Nat /\ copies \in [Snapshot -> Nat]
    BY <1>1, TypeSplits DEF IInv, DatabaseType
  <2>2. CASE UNCHANGED <<cursor, copies>>
    BY <2>1, <2>2
  <2>3. CASE Abstract!Apply
    <3>1. cursor' \in (cursor + 1)..head
      BY <2>3 DEF Abstract!Apply
    <3>2. \A i \in Snapshot :
            copies'[i] = copies[i] + IF i \in (cursor + 1)..cursor' THEN 1 ELSE 0
      BY <2>1, <2>3 DEF Abstract!Apply
    <3> QED BY <2>1, <3>1, <3>2
  <2> QED
    BY <1>1, <2>2, <2>3, StepRefines DEF Abstract!Next, Abstract!Publish, Abstract!vars
<1> QED BY <1>1, InvariantHolds, PTL DEF Spec, NothingUndone
-----------------------------------------------------------------------------
(* How a block ends: in finitely many steps, and with its transaction off the *)
(* connection unless the call that should have ended it did not return.       *)

\* The labels of a block in the order in which it may pass them.
Place ==
  [begin |-> 0, body |-> 1, cdc_commit |-> 2, commit |-> 3, rollback |-> 4,
   listen |-> 5, raised |-> 5, closed |-> 5, crashed |-> 5]

\* Each step of a block leads on: to a later label, to one more written snapshot of
\* the batch, or to a further attempt of cdc_commit, of which there are MaxAttempts.
BlockProgresses ==
  [][\A s \in Session :
       \/ UNCHANGED <<pc[s], txn[s], attempt[s]>>
       \/ Place[pc[s]] = 5
       \/ Place[pc'[s]] > Place[pc[s]]
       \/ /\ pc[s] = "body" /\ pc'[s] = "body"
          /\ txn[s].rows \subseteq txn'[s].rows /\ txn'[s].rows # txn[s].rows
          /\ txn'[s].rows \subseteq Snapshots(batch'[s])
       \/ /\ pc[s] = "cdc_commit" /\ pc'[s] = "cdc_commit"
          /\ attempt'[s] = attempt[s] + 1 /\ attempt'[s] <= MaxAttempts]_vars

\* A transaction on the connection of a session that is in no block.
LeftOpen(s) == pc[s] \notin {"body", "cdc_commit", "commit", "rollback"} /\ txn[s] # NoTransaction

\* A transaction is left behind only by a BEGIN, cdc_commit, COMMIT or ROLLBACK that
\* was interrupted or a ROLLBACK that failed: no error of the caller's block, of
\* cdc_commit or of COMMIT does it.
LeftOpenByItsEnd ==
  [][\A s \in Session :
       ~LeftOpen(s) /\ LeftOpen(s)' =>
         /\ pc[s] \in {"begin", "cdc_commit", "commit", "rollback"} /\ pc'[s] = "raised"
         /\ faults' = faults + 1]_vars

LEMMA NobodyMoves ==
  ASSUME [Next]_vars, ~(\E x \in Session : LoopStep(x) \/ BlockStep(x) \/ Crash(x))
  PROVE  UNCHANGED <<pc, txn, attempt, batch>>
BY DEF Next, Publish, LeaseExpires, Terminated, vars, session

\* A step of one session leaves the others where they are.
LEMMA OthersStay ==
  ASSUME IInv, NEW x \in Session, LoopStep(x) \/ BlockStep(x) \/ Crash(x),
         NEW s \in Session, s # x
  PROVE  UNCHANGED <<pc[s], txn[s], attempt[s], batch[s]>>
<1>1. txn \in [Session -> Transaction] /\ pc \in [Session -> Labels]
      /\ attempt \in [Session -> 1..MaxAttempts]
      /\ batch \in [Session -> [start : 1..(head + 1), end : 0..head]]
  BY TypeSplits DEF IInv, TxnType, SessionType
<1>2. CASE LoopStep(x)
  BY <1>1, <1>2
  DEF LoopStep, Listen, ListenInTransaction, ListenRaises, Catch, Close, WindowAfter, Goto, SetTxn
<1>3. CASE Begin(x) \/ BeginRefused(x) \/ Execute(x) \/ BodyRaises(x) \/ BodyEnds(x)
  BY <1>1, <1>3
  DEF Begin, BeginRefused, Execute, BodyRaises, BodyEnds, StatementFails, Goto, SetTxn, session
<1>4. CASE CommitWithin(x) \/ CommitWithinRefused(x) \/ CommitWithinTransient(x)
  BY <1>1, <1>4
  DEF CommitWithin, CommitWithinRefused, CommitWithinTransient, StatementFails, Goto, SetTxn
<1>5. CASE Commit(x) \/ CommitRefused(x) \/ CommitRaises(x)
  BY <1>1, <1>5
  DEF Commit, CommitRefused, CommitRaises, MakeDurable, StatementFails, Goto, SetTxn
<1>6. CASE Rollback(x) \/ RollbackRaises(x) \/ Interrupt(x) \/ Crash(x)
  BY <1>1, <1>6
  DEF Rollback, RollbackRaises, Interrupt, Crash, MakeDurable, Goto, SetTxn
<1> QED BY <1>2, <1>3, <1>4, <1>5, <1>6 DEF BlockStep

\* Where a step takes its session.
LEMMA OwnLabel ==
  ASSUME IInv, NEW s \in Session
  PROVE  /\ \A label : Goto(s, label) => pc'[s] = label
         /\ \A t : SetTxn(s, t) => txn'[s] = t
BY TypeSplits DEF IInv, TxnType, SessionType, Goto, SetTxn

\* A block ends in finitely many steps of its own.
THEOREM BlockProgressesHolds == Spec => BlockProgresses
<1> DEFINE Progress(s) ==
      \/ UNCHANGED <<pc[s], txn[s], attempt[s]>>
      \/ Place[pc[s]] = 5
      \/ Place[pc'[s]] > Place[pc[s]]
      \/ /\ pc[s] = "body" /\ pc'[s] = "body"
         /\ txn[s].rows \subseteq txn'[s].rows /\ txn'[s].rows # txn[s].rows
         /\ txn'[s].rows \subseteq Snapshots(batch'[s])
      \/ /\ pc[s] = "cdc_commit" /\ pc'[s] = "cdc_commit"
         /\ attempt'[s] = attempt[s] + 1 /\ attempt'[s] <= MaxAttempts
<1>1. ASSUME IInv, [Next]_vars, NEW s \in Session PROVE Progress(s)
  <2>1. CASE LoopStep(s) \/ Crash(s)
    <3>1. CASE LoopStep(s)
      <4>1. pc[s] = "listen" \/ pc[s] = "raised"
        BY <3>1 DEF LoopStep, Listen, ListenInTransaction, ListenRaises, Catch, Close
      <4>2. Place[pc[s]] = 5
        BY <4>1 DEF Place
      <4> QED BY <4>2
    <3>2. CASE Crash(s)
      <4>1. pc'[s] = "crashed" /\ pc[s] \in Labels
        BY <1>1, <3>2, OwnLabel, TypeSplits DEF Crash, IInv, SessionType
      <4>2. Place[pc[s]] = 5 \/ Place[pc'[s]] > Place[pc[s]]
        BY <4>1 DEF Place, Labels, EndLabels
      <4> QED BY <4>2
    <3> QED BY <2>1, <3>1, <3>2
  <2>2. CASE Execute(s)
    <3>1. PICK i \in Snapshots(batch[s]) \ txn[s].rows :
            SetTxn(s, [txn[s] EXCEPT !.rows = @ \cup {i}])
      BY <2>2 DEF Execute
    <3>2. txn[s] \in Transaction
      BY <1>1, TypeSplits DEF IInv, TxnType
    <3>3. txn'[s].rows = txn[s].rows \cup {i}
      BY <1>1, <3>1, <3>2, OwnLabel DEF Transaction
    <3>4. pc[s] = "body" /\ pc'[s] = "body" /\ batch'[s] = batch[s]
      BY <2>2 DEF Execute, session
    <3>5. txn[s].rows \subseteq Snapshots(batch[s])
      BY <1>1, <3>4 DEF IInv, TransactionFollows
    <3> QED BY <3>1, <3>3, <3>4, <3>5
  <2>3. CASE CommitWithinTransient(s)
    <3>1. CASE attempt[s] < MaxAttempts
      <4>1. /\ pc[s] = "cdc_commit" /\ pc'[s] = "cdc_commit"
            /\ attempt'[s] = attempt[s] + 1
        BY <1>1, <2>3, <3>1, OwnLabel, TypeSplits DEF CommitWithinTransient, IInv, SessionType
      <4>2. attempt[s] \in Nat
        BY <1>1, TypeSplits DEF IInv, SessionType
      <4> QED BY <3>1, <4>1, <4>2, BoundAssumption
    <3>2. CASE ~(attempt[s] < MaxAttempts)
      <4>1. pc[s] = "cdc_commit" /\ pc'[s] = "rollback"
        BY <1>1, <2>3, <3>2, OwnLabel DEF CommitWithinTransient
      <4> QED BY <4>1 DEF Place
    <3> QED BY <3>1, <3>2
  <2>4. CASE BlockStep(s) /\ ~Execute(s) /\ ~CommitWithinTransient(s)
    <3>1. \/ pc[s] = "begin" /\ pc'[s] \in {"body", "raised"}
          \/ pc[s] = "body" /\ pc'[s] \in {"rollback", "cdc_commit"}
          \/ pc[s] = "cdc_commit" /\ pc'[s] \in {"commit", "rollback", "raised"}
          \/ pc[s] = "commit" /\ pc'[s] \in {"listen", "rollback", "raised"}
          \/ pc[s] = "rollback" /\ pc'[s] = "raised"
      <4>1. CASE Begin(s) \/ BeginRefused(s) \/ BodyRaises(s) \/ BodyEnds(s)
        BY <1>1, <4>1, OwnLabel DEF Begin, BeginRefused, BodyRaises, BodyEnds
      <4>2. CASE CommitWithin(s) \/ CommitWithinRefused(s)
        BY <1>1, <4>2, OwnLabel DEF CommitWithin, CommitWithinRefused
      <4>3. CASE Commit(s) \/ CommitRefused(s) \/ CommitRaises(s)
        BY <1>1, <4>3, OwnLabel DEF Commit, CommitRefused, CommitRaises
      <4>4. CASE Rollback(s) \/ RollbackRaises(s) \/ Interrupt(s)
        BY <1>1, <4>4, OwnLabel DEF Rollback, RollbackRaises, Interrupt
      <4> QED BY <2>4, <4>1, <4>2, <4>3, <4>4 DEF BlockStep
    <3> QED BY <3>1 DEF Place
  <2>5. CASE \E x \in Session : x # s /\ (LoopStep(x) \/ BlockStep(x) \/ Crash(x))
    BY <1>1, <2>5, OthersStay
  <2> QED BY <1>1, <2>1, <2>2, <2>3, <2>4, <2>5, NobodyMoves
<1>2. IInv /\ [Next]_vars => [\A s \in Session : Progress(s)]_vars
  BY <1>1
<1> QED BY <1>2, InvariantHolds, PTL DEF Spec, BlockProgresses

\* What leaves a transaction on the connection.
THEOREM LeftOpenByItsEndHolds == Spec => LeftOpenByItsEnd
<1> DEFINE Leaves(s) ==
      ~LeftOpen(s) /\ LeftOpen(s)' =>
        /\ pc[s] \in {"begin", "cdc_commit", "commit", "rollback"} /\ pc'[s] = "raised"
        /\ faults' = faults + 1
<1>1. ASSUME IInv, [Next]_vars, NEW s \in Session, ~LeftOpen(s), LeftOpen(s)'
      PROVE  /\ pc[s] \in {"begin", "cdc_commit", "commit", "rollback"} /\ pc'[s] = "raised"
             /\ faults' = faults + 1
  <2>1. CASE Listen(s) \/ ListenInTransaction(s) \/ ListenRaises(s) \/ Catch(s)
    BY <1>1, <2>1
    DEF LeftOpen, Listen, ListenInTransaction, ListenRaises, Catch, WindowAfter
  <2>2. CASE Close(s)
    <3>1. txn'[s] = IF given[s] THEN txn[s] ELSE NoTransaction
      BY <1>1, <2>2, OwnLabel DEF Close
    <3> QED BY <1>1, <2>2, <3>1 DEF Close, LeftOpen
  <2>3. CASE Crash(s) \/ Rollback(s)
    BY <1>1, <2>3, OwnLabel DEF Crash, Rollback, LeftOpen
  <2>4. CASE BeginRefused(s)
    <3>1. txn[s] # NoTransaction
      BY <2>4 DEF BeginRefused, NoTransaction
    <3> QED BY <1>1, <2>4, <3>1 DEF BeginRefused, LeftOpen
  <2>5. CASE Begin(s) \/ BodyRaises(s) \/ BodyEnds(s) \/ CommitWithin(s) \/ CommitWithinRefused(s)
    BY <1>1, <2>5, OwnLabel
    DEF Begin, BodyRaises, BodyEnds, CommitWithin, CommitWithinRefused, LeftOpen
  <2>6. CASE Execute(s)
    BY <1>1, <2>6 DEF Execute, session, LeftOpen
  <2>7. CASE CommitWithinTransient(s) \/ CommitRefused(s) \/ CommitRaises(s)
    BY <1>1, <2>7, OwnLabel DEF CommitWithinTransient, CommitRefused, CommitRaises, LeftOpen
  <2>8. CASE Commit(s)
    BY <1>1, <2>8, OwnLabel DEF Commit, MakeDurable, LeftOpen
  <2>9. CASE RollbackRaises(s) \/ Interrupt(s)
    BY <1>1, <2>9, OwnLabel DEF RollbackRaises, Interrupt, Fault
  <2>10. CASE \E x \in Session : x # s /\ (LoopStep(x) \/ BlockStep(x) \/ Crash(x))
    BY <1>1, <2>10, OthersStay DEF LeftOpen
  <2>11. CASE ~(\E x \in Session : LoopStep(x) \/ BlockStep(x) \/ Crash(x))
    BY <1>1, <2>11, NobodyMoves DEF LeftOpen
  <2> QED
    BY <2>1, <2>2, <2>3, <2>4, <2>5, <2>6, <2>7, <2>8, <2>9, <2>10, <2>11
    DEF LoopStep, BlockStep
<1>2. IInv /\ [Next]_vars => [\A s \in Session : Leaves(s)]_vars
  BY <1>1
<1> QED BY <1>2, InvariantHolds, PTL DEF Spec, LeftOpenByItsEnd
=============================================================================
