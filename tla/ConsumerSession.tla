---------------------------- MODULE ConsumerSession ----------------------------
(***************************************************************************)
(* Several consumer objects of one durable consumer name, each inside its  *)
(* own `with` block: DMLConsumer / DDLConsumer (consumers/base.py) from    *)
(* __enter__ (set-up, lease policy, sinks) through the run() loop (listen, *)
(* deliver, commit) to __exit__, an exception or a crash of the process.   *)
(*                                                                         *)
(* A session is one consumer object and the connection it pins every call  *)
(* to; a restart is another session of the same name.  Each call to the    *)
(* ducklake_cdc extension is one step: it succeeds, raises, or raises a    *)
(* transient error with or without having taken effect.                    *)
(*                                                                         *)
(* The catalog is external: its operations are modelled as the client uses *)
(* them.  A listen acquires the consumer's lease for the calling           *)
(* connection unless a live lease of another connection refuses it         *)
(* (CDC_BUSY), and returns the window after the cursor; only the lease     *)
(* holder's cdc_commit moves the cursor.                                   *)
(***************************************************************************)
EXTENDS Integers, FiniteSets

CONSTANTS
  Session,        \* consumer objects; each is entered once
  LakeConnection, \* the connection of the lake the consumers are derived from
  Nobody,         \* owner of a lease that is not held
  NumSinks,       \* sinks of every session, delivered to in order 1..NumSinks
  Required,       \* the sinks with required=True
  Options,        \* constructor arguments a session may have
  MaxAttempts,    \* attempts of the retry policy (_DEFAULT_MAX_ATTEMPTS)
  MaxWindow,      \* max_snapshots of a listen call
  MaxHead,        \* bound: snapshots published in a behaviour
  MaxFaults       \* bound: transient errors in a behaviour

Sink == 1..NumSinks
Now == -1         \* start_at="now"

OptionType ==
  [ onExists    : {"error", "use", "replace"},
    leasePolicy : {"wait", "takeover", "error"},
    startAt     : {Now, 0} ]

ASSUME SessionAssumption == Nobody \notin Session /\ LakeConnection \notin Session
                            /\ Nobody # LakeConnection
ASSUME SinkAssumption == NumSinks \in Nat \ {0} /\ Required \subseteq Sink
ASSUME OptionAssumption == Options \subseteq OptionType /\ Options # {}
ASSUME BoundAssumption ==
  /\ MaxAttempts \in Nat \ {0}
  /\ MaxWindow \in Nat \ {0}
  /\ MaxHead \in Nat
  /\ MaxFaults \in Nat

VARIABLES
  \* the catalog
  head,       \* newest snapshot of the lake
  exists,     \* whether the consumer is registered
  base,       \* position it was registered at
  cursor,     \* newest committed snapshot
  owner,      \* connection that holds the lease, or Nobody
  heartbeat,  \* age of the lease: see HeartbeatAge
  creator,    \* history: the session whose call registered the consumer
  \* the destinations
  acked,      \* acked[k]: snapshots whose write to sink k returned
  \* the sessions
  opt,        \* constructor arguments
  pc,         \* the call the session makes next
  attempt,    \* attempt number of the retried operation
  batch,      \* the batch being delivered or committed
  nextSink,   \* the sink _deliver writes to next
  why,        \* what ended the session
  lost,       \* history: another session ended this one's lease
  \* the environment
  faults      \* transient errors so far

catalogVars == <<head, exists, base, cursor, owner, heartbeat, creator>>
sessionVars == <<opt, pc, attempt, batch, nextSink, why, lost>>
vars == <<catalogVars, acked, sessionVars, faults>>

(***************************************************************************)
(* "fresh": younger than the lease interval; "grace": expired for the      *)
(* extension, not yet for _lease_is_alive, which adds a grace period;      *)
(* "stale": older than both.                                               *)
(***************************************************************************)
HeartbeatAge == {"fresh", "grace", "stale"}

ReplaceLabels == {"release", "drop"}
SetupLabels == ReplaceLabels \cup {"create", "lookup", "force", "wait"}
EndLabels == {"closed", "failed", "crashed"}
Labels ==
  {"new", "open_sinks", "listen", "deliver", "commit"} \cup SetupLabels \cup EndLabels
Reasons == {"none", "exists", "leased", "timeout", "missing", "busy", "transient", "sink"}

\* _build_batch of the rows of a window: its first and last snapshot.
BatchOf(first, last) == [start |-> first, end |-> last]
NoBatch == BatchOf(1, 0)
Snapshots(b) == b.start..b.end

Init ==
  /\ head = 0 /\ exists = FALSE /\ base = 0 /\ cursor = 0
  /\ owner = Nobody /\ heartbeat = "stale" /\ creator = Nobody
  /\ acked = [k \in Sink |-> {}]
  /\ opt \in [Session -> Options]
  /\ pc = [s \in Session |-> "new"]
  /\ attempt = [s \in Session |-> 1]
  /\ batch = [s \in Session |-> NoBatch]
  /\ nextSink = [s \in Session |-> 1]
  /\ why = [s \in Session |-> "none"]
  /\ lost = [s \in Session |-> FALSE]
  /\ faults = 0
-----------------------------------------------------------------------------
(* Connections and leases. *)

\* The connection a session's client is bound to: one of its own.
PinnedConnection(s) == s

\* cdc_commit on the connection of the lake: what pinning is there to avoid.
SharedConnection(s) == LakeConnection
CommitConnection(s) == PinnedConnection(s)

\* _lease_is_alive of the listed entry.
LeaseIsAlive == owner # Nobody /\ heartbeat # "stale"

\* The extension grants the lease to this connection.
Grants(s) == owner \in {Nobody, PinnedConnection(s)} \/ heartbeat # "fresh"

\* The owner changes to c; a session that held the lease until now loses it.
SetOwner(c) ==
  /\ owner' = c
  /\ lost' = [x \in Session |-> x # c /\ (lost[x] \/ owner = x)]

AcquireLease(s) == SetOwner(PinnedConnection(s)) /\ heartbeat' = "fresh"
-----------------------------------------------------------------------------
(* Control: moving on, raising out of the `with` block, retrying. *)

Goto(s, label) == pc' = [pc EXCEPT ![s] = label]

\* The session leaves: sinks and derived connection are closed, the lease is
\* not released.
Finish(s, label, reason) ==
  /\ Goto(s, label)
  /\ why' = [why EXCEPT ![s] = reason]
  /\ attempt' = [attempt EXCEPT ![s] = 1]
  /\ batch' = [batch EXCEPT ![s] = NoBatch]
  /\ nextSink' = [nextSink EXCEPT ![s] = 1]

Raise(s, reason) == Finish(s, "failed", reason)

\* A bug the code does not have: attempts are not counted.
RetryUncounted(s, label) ==
  /\ faults < MaxFaults
  /\ faults' = faults + 1
  /\ Goto(s, label)
  /\ UNCHANGED <<attempt, batch, nextSink, why>>

\* retry_on_transient after a transient error: the operation starts again at
\* `label`, or the last attempt's error propagates.
RetryFrom(s, label) ==
  /\ faults < MaxFaults
  /\ faults' = faults + 1
  /\ \/ /\ attempt[s] < MaxAttempts
        /\ attempt' = [attempt EXCEPT ![s] = @ + 1]
        /\ Goto(s, label)
        /\ UNCHANGED <<batch, nextSink, why>>
     \/ /\ attempt[s] >= MaxAttempts
        /\ Raise(s, "transient")

\* The next label of an operation that goes on.
Continue(s, label) ==
  /\ Goto(s, label)
  /\ UNCHANGED <<attempt, batch, nextSink, why>>

\* A new retried operation begins.
Begin(s, label) ==
  /\ Goto(s, label)
  /\ attempt' = [attempt EXCEPT ![s] = 1]
  /\ UNCHANGED <<batch, nextSink, why>>
-----------------------------------------------------------------------------
(* The extension's consumer table, as the set-up code calls it. *)

ForceReleaseConsumer ==
  /\ exists
  /\ SetOwner(Nobody)
  /\ heartbeat' = "stale"
  /\ UNCHANGED <<head, exists, base, cursor, creator, acked>>

DropConsumer ==
  /\ exists
  /\ exists' = FALSE
  /\ SetOwner(Nobody)
  /\ heartbeat' = "stale"
  /\ UNCHANGED <<head, base, cursor, creator, acked>>

CreateConsumer(s) ==
  /\ ~exists
  /\ exists' = TRUE
  /\ base' = IF opt[s].startAt = Now THEN head ELSE opt[s].startAt
  /\ cursor' = base'
  /\ creator' = s
  /\ acked' = [k \in Sink |-> {}]
  /\ UNCHANGED <<head, owner, heartbeat, lost>>

\* The effect of the call the session makes at its label in the set-up.
SetupEffect(s) ==
  \/ pc[s] \in {"release", "force"} /\ ForceReleaseConsumer
  \/ pc[s] = "drop" /\ DropConsumer
  \/ pc[s] = "create" /\ CreateConsumer(s)
-----------------------------------------------------------------------------
(* __enter__: _setup_and_apply_lease_policy under the retry policy. *)

SetupLabel(s) == IF opt[s].onExists = "replace" THEN "release" ELSE "create"

Enter(s) ==
  /\ pc[s] = "new"
  /\ Begin(s, SetupLabel(s))
  /\ UNCHANGED <<catalogVars, acked, opt, lost, faults>>

\* on_exists="replace": release, then drop; a missing consumer is ignored.
ReplaceStep(s) ==
  /\ pc[s] \in ReplaceLabels
  /\ \/ SetupEffect(s)
     \/ ~exists /\ UNCHANGED <<catalogVars, acked, lost>>
  /\ Continue(s, IF pc[s] = "release" THEN "drop" ELSE "create")
  /\ UNCHANGED <<opt, faults>>

\* The extension may refuse to drop a consumer leased again since the release.
DropRefused(s) ==
  /\ pc[s] = "drop"
  /\ exists /\ owner # Nobody /\ heartbeat = "fresh"
  /\ Raise(s, "busy")
  /\ UNCHANGED <<catalogVars, acked, opt, lost, faults>>

CreateSucceeds(s) ==
  /\ pc[s] = "create"
  /\ SetupEffect(s)
  /\ Continue(s, IF opt[s].onExists = "replace" THEN "open_sinks" ELSE "lookup")
  /\ UNCHANGED <<opt, faults>>

\* _is_duplicate_consumer_error: only on_exists="use" goes on.
CreateDuplicate(s) ==
  /\ pc[s] = "create"
  /\ exists
  /\ IF opt[s].onExists = "use" THEN Continue(s, "lookup") ELSE Raise(s, "exists")
  /\ UNCHANGED <<catalogVars, acked, opt, lost, faults>>

\* _apply_lease_policy, and the polls of its wait loop: no live lease in the way.
LeaseIsFree(s) ==
  /\ pc[s] \in {"lookup", "wait"}
  /\ ~LeaseIsAlive
  /\ Continue(s, "open_sinks")
  /\ UNCHANGED <<catalogVars, acked, opt, lost, faults>>

\* A bug the code does not have: waiting ends in a takeover.
WaitThenTakeOver(s) ==
  /\ pc[s] = "lookup"
  /\ LeaseIsAlive
  /\ IF opt[s].leasePolicy = "error" THEN Raise(s, "leased") ELSE Continue(s, "force")
  /\ UNCHANGED <<catalogVars, acked, opt, lost, faults>>

LeaseIsHeld(s) ==
  /\ pc[s] = "lookup"
  /\ LeaseIsAlive
  /\ CASE opt[s].leasePolicy = "error"    -> Raise(s, "leased")
       [] opt[s].leasePolicy = "takeover" -> Continue(s, "force")
       [] opt[s].leasePolicy = "wait"     -> Continue(s, "wait")
  /\ UNCHANGED <<catalogVars, acked, opt, lost, faults>>

\* A bug the code does not have: lease_wait_timeout is never looked at.
WaitForever(s) == pc[s] = "wait" /\ FALSE /\ UNCHANGED vars

WaitTimesOut(s) ==
  /\ pc[s] = "wait"
  /\ LeaseIsAlive
  /\ Raise(s, "timeout")
  /\ UNCHANGED <<catalogVars, acked, opt, lost, faults>>

\* lease_policy="takeover": a consumer missing by now is not ignored here.
TakeOver(s) ==
  /\ pc[s] = "force"
  /\ \/ SetupEffect(s) /\ Continue(s, "open_sinks")
     \/ ~exists /\ Raise(s, "missing") /\ UNCHANGED <<catalogVars, acked, lost>>
  /\ UNCHANGED <<opt, faults>>

\* A transient error of any call of the set-up restarts the whole set-up, also
\* when the call did take effect.
SetupTransient(s) ==
  /\ pc[s] \in SetupLabels
  /\ SetupEffect(s) \/ UNCHANGED <<catalogVars, acked, lost>>
  /\ RetryFrom(s, SetupLabel(s))
  /\ UNCHANGED opt

\* _open_sinks: a sink that fails to open closes the ones opened before it.
OpenSinks(s) ==
  /\ pc[s] = "open_sinks"
  /\ Begin(s, "listen") \/ Raise(s, "sink")
  /\ UNCHANGED <<catalogVars, acked, opt, lost, faults>>
-----------------------------------------------------------------------------
(* run(): listen, deliver, commit. *)

\* _listen_op on the pinned connection, and _build_batch of its rows.
Listen(s) ==
  /\ pc[s] = "listen"
  /\ exists /\ Grants(s)
  /\ AcquireLease(s)
  /\ \/ \E e \in (cursor + 1)..head :
          /\ e - cursor <= MaxWindow
          /\ Goto(s, "deliver")
          /\ batch' = [batch EXCEPT ![s] = BatchOf(cursor + 1, e)]
          /\ attempt' = [attempt EXCEPT ![s] = 1]
     \/ /\ cursor = head
        /\ attempt' = [attempt EXCEPT ![s] = 1]
        /\ UNCHANGED <<pc, batch>>
  /\ UNCHANGED <<head, exists, base, cursor, creator, acked, opt, nextSink, why, faults>>

ListenRefused(s) ==
  /\ pc[s] = "listen"
  /\ \/ ~exists /\ Raise(s, "missing")
     \/ exists /\ ~Grants(s) /\ Raise(s, "busy")
  /\ UNCHANGED <<catalogVars, acked, opt, lost, faults>>

ListenTransient(s) ==
  /\ pc[s] = "listen"
  /\ \/ exists /\ Grants(s) /\ AcquireLease(s)
        /\ UNCHANGED <<head, exists, base, cursor, creator>>
     \/ UNCHANGED <<catalogVars, lost>>
  /\ RetryFrom(s, "listen")
  /\ UNCHANGED <<acked, opt>>

\* The generator returns (infinite=False, max_batches, idle, stop) and the
\* `with` block ends.
Leave(s) ==
  /\ pc[s] = "listen"
  /\ Finish(s, "closed", "none")
  /\ UNCHANGED <<catalogVars, acked, opt, lost, faults>>

\* sink_required of a sink whose write raised.
NeverRequired(k) == FALSE
SinkRequired(k) == k \in Required

\* A bug the code does not have: one sink too many.
OneSinkMore(s) ==
  /\ nextSink' = [nextSink EXCEPT ![s] = @ + 1]
  /\ Goto(s, IF nextSink[s] > NumSinks THEN "commit" ELSE "deliver")
  /\ UNCHANGED <<attempt, batch, why>>

\* _deliver goes on with the next sink, or returns to run() for the commit.
NextSink(s) ==
  /\ nextSink' = [nextSink EXCEPT ![s] = @ + 1]
  /\ Goto(s, IF nextSink[s] = NumSinks THEN "commit" ELSE "deliver")
  /\ UNCHANGED <<attempt, batch, why>>

WriteSink(s) ==
  /\ pc[s] = "deliver"
  /\ acked' = [acked EXCEPT ![nextSink[s]] = @ \cup Snapshots(batch[s])]
  /\ NextSink(s)
  /\ UNCHANGED <<catalogVars, opt, lost, faults>>

SinkRaises(s) ==
  /\ pc[s] = "deliver"
  /\ IF SinkRequired(nextSink[s]) THEN Raise(s, "sink") ELSE NextSink(s)
  /\ UNCHANGED <<catalogVars, acked, opt, lost, faults>>

\* SinkContext.heartbeat; one that raises is a sink that raises.
Heartbeat(s) ==
  /\ pc[s] = "deliver"
  /\ exists /\ owner = PinnedConnection(s)
  /\ heartbeat # "fresh"
  /\ heartbeat' = "fresh"
  /\ UNCHANGED <<head, exists, base, cursor, owner, creator, acked, sessionVars, faults>>

\* Bugs the code does not have: the commit names the newest snapshot, or stops
\* short of the batch.
CommitNewest(s) ==
  /\ exists /\ owner = CommitConnection(s)
  /\ cursor' = head
  /\ UNCHANGED <<head, exists, base, owner, heartbeat, creator>>

CommitStart(s) ==
  /\ exists /\ owner = CommitConnection(s)
  /\ cursor' = batch[s].start - 1
  /\ UNCHANGED <<head, exists, base, owner, heartbeat, creator>>

\* cdc_commit(name, batch.end_snapshot) by the lease holder.
CommitEffect(s) ==
  /\ exists /\ owner = CommitConnection(s)
  /\ cursor' = batch[s].end
  /\ UNCHANGED <<head, exists, base, owner, heartbeat, creator>>

Commit(s) ==
  /\ pc[s] = "commit"
  /\ CommitEffect(s)
  /\ Finish(s, "listen", "none")
  /\ UNCHANGED <<acked, opt, lost, faults>>

\* A bug the code does not have: after CDC_BUSY, listen again to get the lease
\* back and repeat the refused commit.
ReacquireAndRepeat(s) ==
  /\ pc[s] = "commit"
  /\ exists /\ owner # CommitConnection(s) /\ Grants(s)
  /\ AcquireLease(s)
  /\ UNCHANGED <<head, exists, base, cursor, creator, acked, opt, pc, attempt, batch,
                 nextSink, why, faults>>

CommitRefused(s) ==
  /\ pc[s] = "commit"
  /\ \/ ~exists /\ Raise(s, "missing")
     \/ exists /\ owner # CommitConnection(s) /\ Raise(s, "busy")
  /\ UNCHANGED <<catalogVars, acked, opt, lost, faults>>

\* A bug the code does not have: a commit that failed is repeated from the last
\* sink on.
DeliverAgain(s) ==
  /\ pc[s] = "commit"
  /\ CommitEffect(s) \/ UNCHANGED catalogVars
  /\ faults < MaxFaults /\ faults' = faults + 1
  /\ Goto(s, "deliver")
  /\ nextSink' = [nextSink EXCEPT ![s] = NumSinks]
  /\ UNCHANGED <<acked, opt, lost, attempt, batch, why>>

CommitTransient(s) ==
  /\ pc[s] = "commit"
  /\ CommitEffect(s) \/ UNCHANGED catalogVars
  /\ RetryFrom(s, "commit")
  /\ UNCHANGED <<acked, opt, lost>>
-----------------------------------------------------------------------------
(* The environment. *)

\* The producer commits a snapshot that changes the consumer's table.
Publish ==
  /\ head < MaxHead
  /\ head' = head + 1
  /\ UNCHANGED <<exists, base, cursor, owner, heartbeat, creator, acked, sessionVars, faults>>

\* Time passes without a heartbeat.
LeaseAges ==
  /\ owner # Nobody
  /\ \/ heartbeat = "fresh" /\ heartbeat' = "grace"
     \/ heartbeat = "grace" /\ heartbeat' = "stale"
  /\ UNCHANGED <<head, exists, base, cursor, owner, creator, acked, sessionVars, faults>>

\* The process of a session dies, or an error nothing above names escapes it.
Crash(s) ==
  /\ pc[s] \notin EndLabels \cup {"new"}
  /\ Finish(s, "crashed", "none")
  /\ UNCHANGED <<catalogVars, acked, opt, lost, faults>>

\* Every session is over: the program stops.
Terminated ==
  /\ \A s \in Session : pc[s] \in EndLabels
  /\ UNCHANGED vars
-----------------------------------------------------------------------------
EnterStep(s) ==
  \/ Enter(s) \/ ReplaceStep(s) \/ DropRefused(s) \/ CreateSucceeds(s)
  \/ CreateDuplicate(s) \/ LeaseIsFree(s) \/ LeaseIsHeld(s) \/ WaitTimesOut(s)
  \/ TakeOver(s) \/ OpenSinks(s)

RunStep(s) ==
  \/ Listen(s) \/ ListenRefused(s) \/ Leave(s)
  \/ WriteSink(s) \/ SinkRaises(s) \/ Commit(s) \/ CommitRefused(s)

TransientError(s) == SetupTransient(s) \/ ListenTransient(s) \/ CommitTransient(s)

Next ==
  \/ \E s \in Session :
       EnterStep(s) \/ RunStep(s) \/ TransientError(s) \/ Heartbeat(s) \/ Crash(s)
  \/ Publish
  \/ LeaseAges
  \/ Terminated

Spec == Init /\ [][Next]_vars

\* A session takes its steps, and time passes.  Nothing forces a producer to
\* publish, a fault, a crash, or a caller to leave the block; a listen loop
\* that has begun is only known to make its calls.
LoopStep(s) ==
  Listen(s) \/ ListenRefused(s) \/ WriteSink(s) \/ SinkRaises(s) \/ Commit(s)
  \/ CommitRefused(s)

FairSpec ==
  /\ Spec
  /\ \A s \in Session : WF_vars(EnterStep(s)) /\ WF_vars(LoopStep(s))
  /\ WF_vars(LeaseAges)
-----------------------------------------------------------------------------
(* Properties. *)

\* The catalog, the destinations and the environment have their types; positions
\* of the stream are ordered: base <= cursor <= head, and only published
\* snapshots are acknowledged.
CatalogType ==
  /\ head \in Nat /\ exists \in BOOLEAN
  /\ cursor \in 0..head /\ base \in 0..cursor
  /\ owner \in Session \cup {Nobody}
  /\ heartbeat \in HeartbeatAge
  /\ creator \in Session \cup {Nobody}
  /\ acked \in [Sink -> SUBSET (1..head)]
  /\ faults \in 0..MaxFaults

\* The control state of a session has its type.
ControlType ==
  /\ pc \in [Session -> Labels]
  /\ attempt \in [Session -> 1..MaxAttempts]
  /\ batch \in [Session -> [start : 1..(head + 1), end : 0..head]]
  /\ nextSink \in [Session -> 1..(NumSinks + 1)]
  /\ why \in [Session -> Reasons]

\* Every variable has its type.
TypeOK ==
  /\ CatalogType
  /\ ControlType
  /\ opt \in [Session -> Options]
  /\ lost \in [Session -> BOOLEAN]

\* At-least-once: whatever sessions fail, retry, crash or displace each other,
\* every snapshot the cursor of the current registration has stepped over was
\* acknowledged by every required sink (run(): _deliver before commit).
NoLoss == exists => \A k \in Required : (base + 1)..cursor \subseteq acked[k]

InFlight(s) == pc[s] \in {"deliver", "commit"}

\* The session that holds the lease and has a batch in hand has exactly the
\* snapshots after the cursor, or repeats a commit that already took effect: a
\* stale batch is never in the hands of a session whose commit would succeed.
HolderDeliversNext ==
  \A s \in Session : InFlight(s) /\ owner = PinnedConnection(s) =>
    /\ exists
    /\ \/ batch[s].start = cursor + 1
       \/ pc[s] = "commit" /\ batch[s].end = cursor

\* At-least-once costs no more than it must: a session delivers what the cursor
\* has passed only after another one ended its lease; its own retries, replayed
\* listens and unacknowledged commits never hand a sink a committed snapshot.
RedeliversOnlyIfDisplaced ==
  \A s \in Session : pc[s] = "deliver" /\ ~lost[s] => batch[s].start = cursor + 1

\* While one registration lasts the cursor moves only forward, over the whole
\* window of a session that began right after it and has finished delivering
\* it: no two sessions ever commit overlapping windows or leave a gap.
CursorAdvancesContiguously ==
  [][exists /\ exists' /\ cursor' # cursor =>
       \E s \in Session :
         /\ pc[s] = "commit" /\ ~lost[s]
         /\ batch[s] = BatchOf(cursor + 1, cursor')
         /\ cursor' > cursor]_vars

\* A commit is refused only when another session ended this one's lease since
\* its listen, never because of the connection it was sent on or of a retry of
\* its own (base.py pins listen and commit to one connection).
CommitRefusedOnlyIfDisplaced ==
  [][\A s \in Session :
       pc[s] = "commit" /\ why'[s] \in {"busy", "missing"} => lost[s]]_vars

\* A session that keeps its lease fresh is displaced only by one that asked
\* for it: lease_policy="takeover" or on_exists="replace".
OnlyTakeoverDisplacesLive ==
  [][\A s \in Session :
       owner = s /\ owner' # s /\ heartbeat = "fresh" =>
         \E t \in Session \ {s} :
           \/ pc[t] = "force" /\ opt[t].leasePolicy = "takeover"
           \/ pc[t] \in ReplaceLabels /\ opt[t].onExists = "replace"]_vars

\* The client implements the durable cursor of DurableCursor.tla.
Abstract == INSTANCE DurableCursor
ImplementsDurableCursor == Abstract!Spec

\* __enter__ returns or raises: no lease policy, retry or race between sessions
\* keeps the set-up going forever.
SetupEnds ==
  \A s \in Session : pc[s] \in SetupLabels ~> pc[s] \notin SetupLabels

\* A session that stays in its run() loop forever brings the cursor to the head
\* of the stream, whatever leases, crashed sessions and retries it meets.
CaughtUp ==
  (\E s \in Session : <>[](pc[s] \in {"listen", "deliver", "commit"}))
    => []<>(cursor = head)

\* "a transient burst does not leak to callers" (base.py:155-157), with
\* on_exists="error": `consumer already exists` is raised only for a consumer
\* somebody else registered.
ExistsErrorMeansForeign ==
  [][\A s \in Session : why'[s] = "exists" /\ why[s] # "exists" => creator # s]_vars

\* What does hold of it: only an attempt after the first meets a registration of
\* its own session.
OwnExistsOnlyAfterRetry ==
  [][\A s \in Session :
       why'[s] = "exists" /\ why[s] # "exists" => creator # s \/ attempt[s] > 1]_vars

\* The order of the calls in one attempt at the set-up.
CallsLeft ==
  [release |-> 6, drop |-> 5, create |-> 4, lookup |-> 3, wait |-> 2, force |-> 2]

\* The set-up only counts down: each of its steps leaves it, comes closer to the
\* end of the attempt or uses one of MaxAttempts up, and no step of any other
\* session sets it back.  So whatever is raced and retried, it goes through no
\* more than 6 * MaxAttempts labels (the wait loop polls within one of them).
SetupCountsDown ==
  [][\A s \in Session :
       pc[s] \in SetupLabels /\ pc'[s] \in SetupLabels =>
         \/ attempt[s] < attempt'[s] /\ attempt'[s] <= MaxAttempts
         \/ /\ attempt'[s] = attempt[s]
            /\ pc'[s] = pc[s] \/ CallsLeft[pc'[s]] < CallsLeft[pc[s]]]_vars
-----------------------------------------------------------------------------
(* The inductive invariant: what makes the properties above hold. *)

\* A lease needs a registration, and dropping the consumer ends it.
LeaseNeedsConsumer == ~exists => owner = Nobody

\* Between two batches _deliver starts over with the first sink; a commit comes
\* after the last one.  A batch is never empty.
SessionPhase ==
  \A s \in Session :
    /\ IF InFlight(s) THEN batch[s].start <= batch[s].end
                      ELSE nextSink[s] = 1
    /\ pc[s] = "deliver" => nextSink[s] \in Sink
    /\ pc[s] = "commit" => nextSink[s] = NumSinks + 1

\* A session in the middle of a batch still has its lease unless it was taken.
LossIsKnown ==
  \A s \in Session :
    /\ owner = PinnedConnection(s) => ~lost[s]
    /\ InFlight(s) /\ ~lost[s] => owner = PinnedConnection(s)

\* What the lease holder has delivered so far is acknowledged.
HolderHasDelivered ==
  \A s \in Session : InFlight(s) /\ owner = PinnedConnection(s) =>
    \A k \in Required : k < nextSink[s] => Snapshots(batch[s]) \subseteq acked[k]

\* The destructive labels of the set-up belong to the options that ask for them.
SetupFollowsOptions ==
  \A s \in Session :
    /\ pc[s] = "force" => opt[s].leasePolicy = "takeover"
    /\ pc[s] \in ReplaceLabels => opt[s].onExists = "replace"

\* The conjunction the proofs carry through every step.
IInv ==
  /\ TypeOK
  /\ LeaseNeedsConsumer
  /\ SessionPhase
  /\ LossIsKnown
  /\ HolderDeliversNext
  /\ HolderHasDelivered
  /\ SetupFollowsOptions
  /\ NoLoss
=============================================================================
