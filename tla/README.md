# A verification of ducklake-cdc-client

TLA+ models of the Python client of the `ducklake_cdc` DuckDB extension, their
TLC runs, and proofs checked by TLAPS. Paths below are relative to the
repository: `base.py` is `src/ducklake_cdc_client/consumers/base.py`, `dml.py`
and `ddl.py` are beside it, `app.py`, `types.py` and `retry.py` are in
`src/ducklake_cdc_client/`.

## 1. Inventory

The client turns a *durable consumer* (a row in the extension's tables: cursor,
lease) into a Python object that listens, delivers and commits.

| Component | State it keeps | Operations | Hard behaviour |
|---|---|---|---|
| Consumer session (`base.py`, `dml.py`, `ddl.py`) | in the catalog: cursor, lease owner, heartbeat | register, lease policy, `listen`, `run`, `commit`, heartbeat | several sessions of one name; crashes; expired leases; retries of non-idempotent set-up; unacknowledged commits |
| Consumer object (`base.py`, `dml.py`) | `_client`, `_connection`, `_derived_connection`, `_opened`, its open sinks | `__enter__`, `__exit__`, `open()`, `close()`, `successor()` | entered again, or while open; a step of the entry or of the clean-up fails or is interrupted; who closes which connection |
| Delivery (`base.py` `_deliver`, `sinks/base.py`) | none beyond the sinks | `open_sink`, `write_sink`, `sink_required`, `close_sink` | one of several sinks fails |
| Retry policy (`retry.py`) | attempt number | `retry_on_transient` | an error after the call took effect |
| Batch loop (`base.py` `batches`) | `last_activity`, `yielded`, `_AdaptiveSnapshotWindow` | exits by stop, drain, idle, one-shot, `max_batches` | events racing listens, measured time |
| Batch construction (`dml.py`, `ddl.py`, `types.py`) | frozen records | `_build_change_batch`, `_build_tick_batch` | window columns that are missing |
| Batch transactions (`types.py` `BatchTransaction`) | `_state`, the connection's transaction | BEGIN, execute, cdc_commit, COMMIT, ROLLBACK | failure of any of them, interrupts, lost lease |
| `CDCApp` (`app.py`) | `_lock`, `_stopping`, handlers, one `_Worker` with thread and stop event per consumer | `__enter__`, `run`, `stats`, signal handler, `__exit__` | threads, signals on the main thread, join deadline, refused entries |
| `CDCClient`, SQL rendering, prewarm | none beyond the lake | one SQL call per operation | I/O and conversions |
| Output sinks, JSON, enums, value types | none | formatting | none |
| Demo, packaging, release workflow | none | scripts | none |

Interactions: a worker thread of `CDCApp` calls `consumer.run()`; that calls
`batches()`, which calls the extension through `CDCClient` under the retry
policy, then `_deliver` and `batch.commit()`. A caller of `batches()` uses
`batch.transaction()` instead, which sends `cdc_commit` on the same connection.
Sessions of one name meet only in the catalog. `CDCApp` and its workers meet in
the stop events, the threads and the consumers' resources. A consumer object
and its `successor()` share the lake and nothing else, if all is well.

What makes each part correct:

- *session*: nothing the cursor has stepped over is missing at a required sink;
  windows committed by any sessions neither overlap nor leave gaps; whoever
  holds the lease has the right batch; a commit is refused only after somebody
  took the lease; nobody is displaced who keeps his lease unless a policy asks
  for it; set-up ends; a running session catches up;
- *object*: what is open has an open connection; the transaction of a batch is
  on the connection its consumer commits through; a connection is closed by the
  object that made it and by no other; nothing is forgotten while it is open;
- *transaction*: each snapshot exactly once in the destination; the connection
  is clean after the block;
- *batch*: it is exactly what its commit steps over, whichever columns the rows
  have;
- *batch loop*: a drain ends, and leaves nothing of what was there when its event
  was set; the window recovers; one batch at most after a stop;
- *app*: a signal ends `run()`; a batch in flight is drained before its sinks
  close; threads end; what was entered is closed.

The hazards behind these, with their lines, are in `PROJECT.json`.

## 2. Modules

| Module | What it is | Proofs in |
|---|---|---|
| `DurableCursor` | abstract: one registration, one cursor, destinations; a cursor advances over a window that the required destinations have acknowledged | `DurableCursorProofs` |
| `ConsumerSession` | the sessions, in detail; `ImplementsDurableCursor` | `ConsumerSessionProofs` |
| `ConsumerLifecycle` | consumer objects, their connections and sinks | `ConsumerLifecycleProofs` |
| `ExactlyOnce` | abstract: the rows and the cursor change in one step | |
| `SinkTransaction` | `BatchTransaction` with its retries, in detail; `ImplementsExactlyOnce` | `SinkTransactionProofs` |
| `BatchWindow` | the window of a batch, from its rows | `BatchWindowProofs` |
| `RunLoop` | abstract: what a run loop promises whoever hosts it | `RunLoopProofs` |
| `BatchLoop` | `batches()` and a caller that commits each batch, on top of `BatchWindow`; `ImplementsRunLoop` | `BatchLoopProofs` |
| `CDCApp` | main thread, signal handlers, worker threads; `ImplementsRunLoop` | `CDCAppProofs` |
| `MC...` | instances for TLC | |

`RunLoop` is where two components meet: `BatchLoop` implements it with one loop,
stream and window in full, and `CDCApp` with one loop per worker, whose batches
it only counts. So what the app assumes of `consumer.run()` is what the loop is
shown to do.

### ConsumerSession

One `Session` is one consumer object inside one `with` block, with a connection
of its own (`PinnedConnection`); a restart is another session. `pc[s]` is the
call the session makes next; every call to the extension is one step. Labels
follow the code: `release`, `drop`, `create` (`_setup_consumer`), `lookup`,
`wait`, `force` (`_apply_lease_policy`), `open_sinks`, then `listen`, `deliver`
(one sink at a time), `commit`; `closed`, `failed`, `crashed` end it. The unit
of retry is the code's: the whole set-up, one listen, one commit. A transient
error comes with or without the effect of the call.

The catalog is external and modelled as the client uses it: create registers
and takes no lease; a listen takes the lease unless another connection holds a
lease that has not expired; a commit succeeds for the lease's connection only;
leaving the block releases nothing; a drop may be refused when somebody has
leased the consumer since it was released. Three ages of a heartbeat stand for
the clock: fresh, expired for the extension but within the grace of
`_lease_is_alive`, stale for both. Every published snapshot changes the
consumer's table (others are skipped by the extension and never reach a batch).

`lost`, `creator`, `base` are history. `Crash` also stands for errors nothing
in the code names. `start_at` is "now" or the beginning of the stream.

### ConsumerLifecycle

A connection is a number: `Caller` is the one passed with `connection=` or bound
to `client=`, which the caller keeps open; the others come from
`lake.connection.cursor()`, in the order they are made. `client`, `connection`,
`derived`, `opened` are the fields of an object; `live` are the open
connections. A connection no field refers to any more is closed by the
interpreter, which is why an entry that overwrites `_derived_connection` leaks
nothing.

`pc[c]` is where the owner's thread is with the object: `unborn` (a successor
not made yet), `outside`, `constructing` (between the connection and its
client), `setup`, `opening` (sink by sink), `unwinding` (the `except` of
`__enter__`), `inside`, `leaving` (`__exit__`, sink by sink). Every step may
raise, and an exception that no handler of the code takes (`KeyboardInterrupt`,
an error of the construction of the client) goes past the rest: `skipped`
remembers it. `open()` and `close()` are the same steps.

`_close_derived_connection` clears `_derived_connection` before it calls
`close()` (`base.py:289, 294`). `ForgetDerived` is that pair: the connection is
closed, or its `close()` raised or was interrupted and it stays open with nobody
left to close it; `stranded` remembers these, until an entry that derives another
connection drops the last reference. `spoiled` remembers an object whose own
failed `__enter__` ran this clean-up while the object was open, until a later
entry succeeds or an exit resets `_opened`.

A successor is made inside the block of its predecessor (`dml.py:106-145`). It
takes over a `connection=` override (`dml.py:143`), and derives a connection of
its own in place of a `client=` one.

### SinkTransaction

`pc[s]`: `listen`, `begin`, `body` (rows written snapshot by snapshot),
`cdc_commit` (with its attempts), `commit`, `rollback`, `raised`. `txn[s]` is
the connection's transaction: what it wrote, where it moved the cursor, whether
a failed statement aborted it. Every call may fail, take effect and still fail,
or be interrupted. The database is external: writes of a transaction are
invisible before COMMIT, and COMMIT is refused when another session has changed
the consumer's row, which is what taking its lease does (snapshot isolation,
first committer wins). That assumption is what exactly-once rests on where a
lease is lost between `cdc_commit` and COMMIT; the destination must be in the
same database, as `batch.transaction()` requires. Every block is that of a fresh
`BatchTransaction`; using one twice raises before BEGIN and changes nothing
(`types.py:96-97`).

### BatchWindow and BatchLoop

A row is its snapshot and, if the result has these columns, the first and last
snapshot of the window it was read from. `BuildBatch` is the minimum and the
maximum the code takes, with its fall-back to the row's own snapshot.

The stream of `BatchLoop` is what lies after the cursor: `backlog` snapshots, of
which those in `touched` have rows for this consumer. A listen returns rows of
one window, no longer than `max_snapshots` and with no row before it, each with
or without its columns (`ListenRows`); that much is assumed of the extension. A
commit takes everything up to the batch's end off the stream. Time is counted in
ticks of one empty listen; a delivery takes any number of them, up to `MaxIdle`,
beyond which they are not told apart. A batch has one of three paces for the
window (the thresholds of `observe_batch`).

The steps of the generator are cut where other threads can get in: `top` (the
look at `stop_event`), `listening`, and after an empty listen `emptied`
(`stop_event` and `infinite`, `base.py:457-460`) and `idling` (the clock, then
`drain_event` or `idle_timeout`, 461-473). The producer and whoever sets the
events take steps between any two of them. `drain_event` is an argument of
`batches()` only; `run()` passes none (`base.py:318-328`), so the caller that
drains is one that iterates over `batches()` and commits each batch itself.
`quiet`, `pace`, `filled`, `late` and `drainSeen` (was `drain_event` set when the
last listen came back?) are history.

### CDCApp

`main` is the main thread, `frames` the signal handlers running on top of it
(Python runs them there, and nests them), `thread[w]` a worker. `LockedLabels`
are the `with self._lock` bodies. `Interruptible` says where a signal may land:
in `app_stop` outside the locked bodies, in `app_signal` anywhere. Without
handlers a signal is a `KeyboardInterrupt`. An entry that fails leaves the
consumers it has entered; the app may be entered again. `stats()` from other
threads holds the lock for a moment and changes nothing; it is modelled on the
main thread. Adjacent statements nothing else can observe are one step.
`count[w]` is the counter of `consumer.run()` (`base.py:317, 331`) and
`delivered[w]` what the app copies from its result when it returns
(`app.py:371`). `PhaseAt` maps the labels of a thread to the phases of `RunLoop`.

## 3. Runs

| Run | Question | Bounds |
|---|---|---|
| `sessions_leases` | is a snapshot ever lost, or one delivered again that was committed already, and is the invariant of the proofs true, under every lease policy, crash and retry? | 2 sessions, 2 sinks (first required), 3 snapshots, windows up to 2, 2 transient errors, 2 attempts |
| `sessions_displaced` | do sessions that take over or replace each other implement the durable cursor? | 3 sessions, 2 snapshots, no transient errors |
| `sessions_live` | does set-up end, and a running session catch up? | 2 sessions, 2 snapshots, 1 transient error, no symmetry |
| `sessions_exists` | finding 1 | 1 session |
| `lifecycle` | is every connection used while it is open and closed by its owner, or known to be stranded, whatever fails? | an object, with each override, and its successor; 2 sinks, 3 connections |
| `lifecycle_reenter` | finding 2 | 1 sink, 1 connection |
| `tx_exactly_once` | exactly-once under every failure of a transaction | 2 sessions, 3 snapshots, 3 faults |
| `tx_left_open` | finding 3 | 1 session, 1 fault |
| `loop_exits` | exits, drains and their progress, batches with any rows, window | 6 argument lists, ceilings 3 and 1, first window 2, 4 snapshots ahead, 2 ticks |
| `loop_drain` | finding 4 | 1 argument list, 3 ticks |
| `app_stop` | shutdown: is every stop heeded, every batch in flight drained, everything closed? | 2 workers with 2 batches each; 3 signals, calls of `run()` and further entries, together |
| `app_signal` | finding 5 | 1 worker, 2 events |

Why this is enough: two sessions show every race over one lease, the third a
displacement while the other two race; two attempts show a retry and its
exhaustion; a window of two with three snapshots shows batches of different
length and a replay that is cut differently; two sinks show a required one
before an optional one, and a clean-up that stops between two. Three connections
let an object be entered again after its successor was. Four snapshots with a
first window of two and a ceiling of three show a window that grows from 1 to its
ceiling and one that is full at it, a batch shorter than its window, and rows on
either side of a gap. Two batches per worker show a stop before,
during and after one; three events show two nested handlers during a run, or a
run after an entry that failed. Every action and every disjunct is taken by some
passing run. Safety runs over sessions use symmetry, the liveness run does not.

Deadlock is checked in all passing runs; `Terminated` is the end of a program.
`app_signal` does not check it, since the deadlock is what it shows.

Fairness. `ConsumerSession`: each session takes its steps, loop calls are made
while it is in the loop, and time passes (`LeaseAges`); no fairness for
publishing, faults, crashes, heartbeats or leaving. Listens and sinks have
timeouts or return, and the wait loop polls against a deadline, so a step that
stays enabled is taken. `CDCApp`: main thread, handler and each worker run.
`BatchLoop`: the generator runs. `ConsumerLifecycle` and `SinkTransaction` have
safety properties only.

## 4. Findings

1. `sessions_exists`: with `on_exists="error"` a transient error after the create
   has registered the consumer makes the retried set-up fail with "already
   exists", for the caller's own consumer (`base.py:226, 508`). Proved: this
   takes a second attempt (`OwnExistsHolds`); with one attempt the error means
   what it says (`WithoutRetriesExistsMeansForeign`).
2. `lifecycle_reenter`: a consumer entered again after an exit or a failed entry
   sets up on the connection it has closed, because `_client` stays
   (`base.py:203`); `retry.py:22-26` counts on entering again. Proved: every
   object without an override is in this state from its first close on
   (`ClosingBreaksClientHolds`), and no sequence of calls leads out of it
   (`BrokenForGoodHolds`).
3. `tx_left_open`: a `KeyboardInterrupt` in the `cdc_commit` or `COMMIT` of
   `BatchTransaction.__exit__` skips the ROLLBACK (`types.py:120`). Exactly-once
   still holds in `tx_exactly_once`, which includes these interrupts, as long as
   nobody commits the transaction that was left. Proved: nothing else leaves one,
   only an interrupt of BEGIN, `cdc_commit`, COMMIT or ROLLBACK and a ROLLBACK
   that fails (`LeftOpenByItsEndHolds`); no error of the caller's block, of
   `cdc_commit` or of COMMIT does.
4. `loop_drain`: the idle time of a drain includes the time of the last
   delivery (`base.py:461`).
5. `app_signal`: a signal that lands inside a `with self._lock` body of the main
   thread blocks it for good (`app.py:279`). Proved: the main thread and its
   handlers never move again (`MainStuckHolds`), and as long as signals land
   anywhere else none of them ever waits for the lock (`LockFreeHolds`).

Further disagreements of text and code. The models follow the code in each, and
no run of its own shows them:

- A drain can leave rows. `base.py:412-417` says that `drain_event` lets the
  cursor catch up once the producer has stopped, but the event is read
  (`base.py:465`) after the listen has returned (449-452). A loop that has been
  idle for `drain_idle_timeout` already returns at once if, in between, the
  producer commits its last snapshot, stops, and the event is set: with `reason =
  "drain" => touched = {}` in place of `DrainCatchesUp`, TLC shows this in twelve
  states. `DrainCatchesUp` is what does hold: nothing is left if the event was
  set before the last listen returned.
- A derived connection may stay open. `base.py:147-150` says that it is closed on
  `__exit__`; if its `close()` raises, the error is swallowed (295), and if it is
  interrupted, the interrupt passes, and in both cases `_derived_connection` is
  already None (289), so calling `close()` on the consumer again does nothing.
  `NothingLeaks` says that this is the only way a connection is lost.
- An object entered while it is open looks open after its second set-up failed,
  although its connection is closed (`base.py:229-232` leaves `_opened` set).
  `OpenMeansConnected` says that nothing else does this.
- A refused entry of `CDCApp` leaves the consumers it has entered open
  (`app.py:146-153`). `LeftClosesAll` says that if the app is entered again, the
  exit of that block closes them; if it never is, nothing does, and no property
  claims otherwise.
- `delivered_batches` is written when `run()` returns (`app.py:371`), not after
  each commit as `app.py:66-67` says.
- A second `run()` of an app launches nothing (`app.py:330`) and returns, which
  `OneShotReturns` includes.
- `base.py:407-411` says that a stop returns right after the listen under way; the
  batch that listen returns is still yielded, and `OneBatchAfterStop` bounds it.

`CaughtUp` is about a session that keeps running: one whose listen is refused by
the lease of another ends, in the code and in the model, and is not meant.

## 5. Proofs

Every theorem is for all values of the constants, under the assumptions the
modules state about them.

`ConsumerSessionProofs`: `IInv` and with it `TypeOK`, `NoLoss` and
`HolderDeliversNext`; the action properties `CursorAdvancesContiguously`,
`CommitRefusedOnlyIfDisplaced` and `OnlyTakeoverDisplacesLive`; and
`ImplementsDurableCursor`. `NoLoss` is not inductive: a commit moves the cursor
to the end of a batch delivered earlier, so one must know that this batch begins
right after the cursor (`HolderDeliversNext`) and is acknowledged
(`HolderHasDelivered`). Both speak of the session that *now* holds the lease, so
a session that lost it may hold any stale batch; `LossIsKnown` says that a
lease, once lost in the middle of a batch, does not come back before the next
listen. `SessionPhase` ties the counter of sinks to the label,
`LeaseNeedsConsumer` that a dropped consumer has no holder, and
`SetupFollowsOptions` that destructive calls belong to their options. The proof
has a lemma per action; `RestPreserves` and its companions carry the conjuncts a
step leaves alone. Who loses a lease takes one more invariant, `Life`: a session
has no lease before its first listen and no reason to have ended before its end.
`LivesOn` is what any step may do to it.

On top of these: `RedeliversHolds`, that a session which was not displaced only
delivers what lies after the cursor, so the price of at-least-once is paid for
displacement alone, not for retries or unacknowledged commits; `OwnExistsHolds`,
by `OwnCreate`, that in its first attempt a session has registered nothing until
its create is through; `SetupCountsDownHolds`, that each step of the set-up
leaves it, comes nearer the end of the attempt or uses an attempt up. The sessions
implement `DurableCursor`, so what `DurableCursorProofs` shows of it is theirs:
`Cursor == INSTANCE DurableCursorProofs` and `CursorNeverGoesBack`.

`SinkTransactionProofs`: its `IInv`, `TypeOK`, `OneCopy`, `CommitIsComplete` and
`ImplementsExactlyOnce`. `OneCopy` is not inductive: a COMMIT adds whatever the
transaction wrote. The strengthening says of a session about to begin, or in its
block (`HolderReady`, `TransactionFollows`): its batch is not empty and, while
it holds the lease, begins right after the cursor; its transaction has written
only snapshots of that batch, all of them from `cdc_commit` on, and has moved
the cursor nowhere or, at COMMIT, to the end of the batch. A session without the
lease may hold a stale batch; its COMMIT is refused. Steps that leave the
database alone share `OwnStepPreserves`; the two that do not are
`ListenPreserves` and `DurablePreserves`. `BlockProgressesHolds` says that the
steps of a block lead through its labels in order, which bounds them;
`LeftOpenByItsEndHolds` says what can leave a transaction behind; and
`NothingUndoneHolds`, from the refinement, that no durable row is taken back.

`ConsumerLifecycleProofs`: all six properties of the run. Connections are
numbered as they are derived, so a new one is in no field of any object
(`Numbered`), and what an object that derives has in its fields is in no field of
another (`Exclusive`); so closing or forgetting never takes a connection from
under another object. `Bound` says which connection the fields are on: the client
of an object without an override is on what the object will close, or on what it
has closed or failed to close. With the numbering, by which a closed connection
stays closed, it gives the two theorems of finding 2; `ClosingBreaksClient` leaves
out a connection whose `close()` failed, on which the client still works.
`Object` says what an object's fields say of each other at each label, `Closed`
what is left outside the block, `Kept` that an open connection has an owner or is
stranded. `Forgets` is what either outcome of `_close_derived_connection` does to
all of these.

`BatchWindowProofs`: `WindowHoldsRows`. For any rows of a window, the batch lies
in the window, holds the rows' snapshots and no others, and the fall-back for
missing columns never makes it end before its last row or begin after its first.
`BatchLoopProofs` uses it: a batch is a prefix of the stream, and stays one
while the producer adds behind it (`InHand`); nothing is produced after
`drain_event` (`Ends`), so if a listen came back empty with the event set, the
stream stays empty up to the exit (`Emptied`), and an event set later claims
nothing; a stop is seen before the next listen (`LateOnce`). From these `TypeOK`,
`DrainCatchesUp`, `BatchIsPrefix` and `ImplementsRunLoop`. `DrainProgressesHolds` is a measure of
what a draining loop has left (snapshots, the batch in hand, idle time, the way
from the top of the loop to its clock), which
every step of the loop lessens; `WindowClimbsHolds` the same for a window that is too small.

`CDCAppProofs`: all four invariants of the run and `ImplementsRunLoop`, wherever
signals may land, so also in the case of finding 5. In the block every consumer
is entered, and an exit closes one only after its join returned, because the
thread had ended or the deadline had passed, while no thread can start
(`Block`). A worker asked to stop returns at the top of its loop (`Loops`). The
lock is held by the main thread or by one handler (`Held`, `OneHolder`).
`StopIsHeededHolds` and `OneShotAdvancesHolds` are the measures of a worker that
was asked to stop or runs once: no more than four steps are left to it, and nobody
takes the request back, although `start()` clears `stop_event`, because `__exit__`
passes every worker before it joins one (`ExitStopsAllHolds`) and no thread starts
after that. `LockFreeHolds` assumes `SignalsSpareLock`, that no signal lands where
the lock is held; the assumption of `app_stop`, and the one the code would need.

`RunLoopProofs` and `DurableCursorProofs` prove what the abstract specifications
promise: one late batch after a stop (`late` counts every batch taken after the
stop; that it stays at one follows from `Stopping`, that a loop with a late batch
takes no more), a cursor that moves by the batch in hand, an
end that is not taken back; at-least-once and a cursor that never goes back.
`BatchLoopProofs` and `CDCAppProofs` inherit the second and the third through
`Kept == INSTANCE RunLoopProofs` and `ImplementsRunLoopHolds`, with no argument
about their own steps.

Only model-checked: liveness (`SetupEnds`, `CaughtUp`, `DrainReturns`,
`WindowRecovers`, `SignalEndsRun`, `WorkersEnd`, `OneShotReturns`). It takes
fairness and ENABLED, which are out of the prover's reach, as is the induction over
a measure. What is proved of each is its safety half, that every step makes
progress and none undoes it: `SetupCountsDown` for `SetupEnds`, `DrainProgresses`
for `DrainReturns`, `WindowClimbs` for `WindowRecovers`, `StopIsHeeded` for
`WorkersEnd`, `OneShotAdvances` for `OneShotReturns`, `LockFree` for
`SignalEndsRun`. `CaughtUp` has none: other sessions and crashes set it back.
What TLC adds is that the steps are taken.

`SetupCountsDown`, `OneShotAdvances`, `ExitStopsAll`, `LockFree`, `MainStuck`,
`WindowClimbs`, `NothingUndone`, `BlockProgresses`, `LeftOpenByItsEnd`,
`ClosingBreaksClient` and `BrokenForGood` are stated in or beside the proofs and are no property of a run:
the theorems hold for the runs' constants, too.

## 6. Plan

All modules of the plan stand, and every safety property of a passing run is
proved. Next: further measures where a run has liveness but only a part is proved
(`CaughtUp` for one undisturbed session; `SignalEndsRun` from the handler to the
end of the exit). A composition of `CDCApp` with `ConsumerSession`, for a worker
left behind by the join deadline while a new process takes its lease, is covered
by its halves: `DrainsBeforeClosing` with the deadline, and
`CommitRefusedOnlyIfDisplaced` with a session that was displaced.

## 7. Not modelled

SQL rendering and row parsing beyond the optional columns, installing the
extension, output sinks, JSON and value types: conversions and I/O without state
of their own. `read(start, end)`, `window()`, `schema_diff()`: they change
nothing in the client. `reset()` and the `*_query` methods of `CDCClient` pass
one call through. The inspection of callables passed as sinks, and the
registration of duplicate names in `CDCApp`: pure checks of arguments. The
extension and DuckDB themselves: external, as described above. Demo, packaging
and workflows.
