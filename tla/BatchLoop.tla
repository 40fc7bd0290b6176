------------------------------- MODULE BatchLoop -------------------------------
(***************************************************************************)
(* The generator batches() of consumers/base.py: its exits (stop_event,    *)
(* drain_event, idle_timeout, infinite, max_batches), the time it          *)
(* measures, and _AdaptiveSnapshotWindow.  The caller delivers and commits *)
(* each batch before it asks for the next, as run() does; run() passes no  *)
(* drain_event, only another caller of batches() drains.                   *)
(*                                                                         *)
(* Other threads go on between the return of an empty listen and the looks *)
(* at the events that follow it.                                           *)
(*                                                                         *)
(* Time is counted in listens: an empty one waits for timeout_ms, one      *)
(* tick; a batch that is there comes back at once; the caller takes any    *)
(* number of ticks.  The clock is read after an empty listen, and only     *)
(* there its tick is added.                                                *)
(*                                                                         *)
(* The stream is what lies after the cursor: its snapshots, numbered from  *)
(* the cursor, and which of them have rows for this consumer.              *)
(***************************************************************************)
EXTENDS Integers, BatchWindow

CONSTANTS
  Arguments,     \* arguments a call of batches() may have
  Initial,       \* _ADAPTIVE_INITIAL_MAX_SNAPSHOTS
  MaxBacklog,    \* bound: snapshots the producer is ahead
  MaxIdle        \* bound: ticks that are told apart

\* max_batches and idle_timeout are off at 0; drain_idle_timeout is its idle time.
ArgumentType ==
  [ adaptive     : BOOLEAN,   \* _kind = "dml"
    maxSnapshots : Nat,
    infinite     : BOOLEAN,
    maxBatches   : Nat,
    idleTimeout  : 0..MaxIdle,
    drainIdle    : 0..MaxIdle ]

ASSUME ArgumentAssumption == Arguments \subseteq ArgumentType /\ Arguments # {}
ASSUME BoundAssumption ==
  /\ Initial \in Nat \ {0}
  /\ MaxBacklog \in Nat \ {0}
  /\ MaxIdle \in Nat \ {0}

VARIABLES
  arg,       \* arguments of the call
  pc,        \* where the generator is
  window,    \* _AdaptiveSnapshotWindow.current
  idle,      \* time since last_activity
  yielded,   \* batches resumed after
  batch,     \* the batch in the caller's hands
  stop,      \* stop_event
  drain,     \* drain_event
  producing, \* the producer still commits
  backlog,   \* snapshots after the cursor
  touched,   \* those with rows for this consumer
  quiet,     \* history: time spent in empty listens since the last batch
  pace,      \* history: what the last batch was for the window
  filled,    \* history: the last listen returned a batch as long as the window
  late,      \* history: batches returned by listens after stop_event was set
  drainSeen, \* history: drain_event was set when the last listen returned
  reason     \* why the generator returned

control == <<pc, window, idle, yielded, batch>>
events == <<stop, drain, producing>>
stream == <<backlog, touched>>
history == <<quiet, pace, filled, late, drainSeen>>
vars == <<arg, control, events, stream, history, reason>>

Labels == {"top", "listening", "emptied", "idling", "yielded", "returned"}
Reasons == {"none", "stop", "once", "drain", "idle", "max_batches"}

\* What a batch is for the window: at or above the target time or the large row
\* count, at most the fast time and half the target rows, or between.
Paces == {"slow", "fast", "middling"}

NoBatch == [start |-> 0, end |-> 0, snapshots |-> {}]

Larger(a, b) == IF a > b THEN a ELSE b
Smaller(a, b) == IF a < b THEN a ELSE b

Ceiling == Larger(1, arg.maxSnapshots)
\* The max_snapshots of the next listen, as the extension takes it.
ListenMax == IF arg.adaptive THEN window ELSE Ceiling

Tick(t, n) == Smaller(MaxIdle, t + n)

Init ==
  /\ arg \in Arguments
  /\ pc = "top" /\ idle = 0 /\ yielded = 0 /\ batch = NoBatch
  /\ window = Smaller(Ceiling, Initial)
  /\ stop = FALSE /\ drain = FALSE /\ producing = TRUE
  /\ backlog = 0 /\ touched = {}
  /\ quiet = 0 /\ pace = "middling" /\ filled = FALSE /\ late = 0
  /\ drainSeen = FALSE
  /\ reason = "none"
-----------------------------------------------------------------------------
(* _AdaptiveSnapshotWindow. *)

Halved == Larger(1, window \div 2)

\* A bug the code does not have: a full window must be more than full.
GrowsNever(n, p) == p = "fast" /\ n > window

\* observe_batch: a full window that was fast and light.
Grows(n, p) == p = "fast" /\ n >= window

\* A bug the code does not have: the ceiling is checked before the doubling.
DoubledAnyway(n, p) ==
  IF p = "slow" THEN Halved
  ELSE IF Grows(n, p) /\ window < Ceiling THEN Larger(window + 1, window * 2) ELSE window

ObserveBatch(n, p) ==
  IF p = "slow" THEN Halved
  ELSE IF Grows(n, p) THEN Smaller(Ceiling, Larger(window + 1, window * 2)) ELSE window
-----------------------------------------------------------------------------
(* The generator. *)

Return(why) == pc' = "returned" /\ reason' = why
Goto(label) == pc' = label /\ UNCHANGED reason

\* A bug the code does not have: stop_event is looked at only when a listen was
\* empty.
ListenFirst ==
  /\ pc = "top"
  /\ Goto("listening")
  /\ UNCHANGED <<arg, window, idle, yielded, batch, events, stream, history>>

CheckStop ==
  /\ pc = "top"
  /\ IF stop THEN Return("stop") ELSE Goto("listening")
  /\ UNCHANGED <<arg, window, idle, yielded, batch, events, stream, history>>

\* What a listen may return: the rows of a window of at most ListenMax snapshots
\* with no rows before it, its columns there or not.
ListenRows ==
  { {[ snapshot |-> k,
       start |-> IF "start" \in columns THEN w[1] ELSE NoColumn,
       end |-> IF "end" \in columns THEN w[2] ELSE NoColumn ] : k \in touched \cap w[1]..w[2]} :
    w \in { v \in (1..backlog) \X (1..backlog) :
            /\ v[2] - v[1] < ListenMax
            /\ touched \cap 1..(v[1] - 1) = {} /\ touched \cap v[1]..v[2] # {} },
    columns \in SUBSET {"start", "end"} }

\* A bug the code does not have: drain_event is looked at after every listen, as
\* stop_event is after an empty one.
DrainAfterListen ==
  /\ pc = "listening"
  /\ touched # {}
  /\ drain
  /\ drainSeen' = drain
  /\ Return("drain")
  /\ UNCHANGED <<arg, window, idle, yielded, batch, events, stream, quiet, pace, filled, late>>

\* A batch: last_activity is now, the window learns from it, and it is yielded
\* whatever the events say.
ListenReturnsRows ==
  /\ pc = "listening"
  /\ \E rows \in ListenRows, p \in Paces :
       /\ batch' = BuildBatch(rows) /\ pace' = p
       /\ filled' = (Span(batch') >= ListenMax)
       /\ window' = IF arg.adaptive THEN ObserveBatch(Span(batch'), p) ELSE window
  /\ idle' = 0 /\ quiet' = 0
  /\ late' = IF stop THEN late + 1 ELSE late
  /\ drainSeen' = drain
  /\ Goto("yielded")
  /\ UNCHANGED <<arg, yielded, events, stream>>

\* No rows: the window shrinks.
ListenIsEmpty ==
  /\ pc = "listening"
  /\ touched = {}
  /\ quiet' = Tick(quiet, 1) /\ filled' = FALSE
  /\ window' = IF arg.adaptive THEN Halved ELSE window
  /\ drainSeen' = drain
  /\ Goto("emptied")
  /\ UNCHANGED <<arg, idle, yielded, batch, events, stream, pace, late>>

\* After an empty listen: stop_event, then infinite.
CheckEmptied ==
  /\ pc = "emptied"
  /\ CASE stop -> Return("stop")
       [] ~stop /\ ~arg.infinite -> Return("once")
       [] OTHER -> Goto("idling")
  /\ UNCHANGED <<arg, window, idle, yielded, batch, events, stream, history>>

\* The exits of a loop that has been idle for a time of t.
IdleExit(t) ==
  IF drain /\ t >= arg.drainIdle THEN "drain"
  ELSE IF ~drain /\ arg.idleTimeout > 0 /\ t >= arg.idleTimeout THEN "idle"
  ELSE "none"

\* A bug the code does not have: an empty listen counts as activity.
EmptyIsActivity ==
  /\ pc = "idling"
  /\ idle' = 0
  /\ LET why == IdleExit(idle') IN
       IF why = "none" THEN Goto("top") ELSE Return(why)
  /\ UNCHANGED <<arg, window, yielded, batch, events, stream, history>>

\* The clock, then drain_event or else idle_timeout.
CheckIdle ==
  /\ pc = "idling"
  /\ idle' = Tick(idle, 1)
  /\ LET why == IdleExit(idle') IN
       IF why = "none" THEN Goto("top") ELSE Return(why)
  /\ UNCHANGED <<arg, window, yielded, batch, events, stream, history>>

\* The caller delivers, which takes its time, commits, and asks for the next batch,
\* as run() does.
Resume ==
  /\ pc = "yielded"
  /\ \E d \in 0..MaxIdle : idle' = Tick(idle, d)
  /\ backlog' = backlog - batch.end
  /\ touched' = {k - batch.end : k \in {t \in touched : t > batch.end}}
  /\ batch' = NoBatch
  /\ yielded' = IF arg.maxBatches = 0 THEN 0 ELSE yielded + 1
  /\ CASE ~arg.infinite -> Return("once")
       [] arg.infinite /\ arg.maxBatches > 0 /\ yielded' >= arg.maxBatches -> Return("max_batches")
       [] OTHER -> Goto("top")
  /\ UNCHANGED <<arg, window, events, history>>
-----------------------------------------------------------------------------
(* The environment. *)

Publish ==
  /\ producing /\ backlog < MaxBacklog
  /\ backlog' = backlog + 1
  /\ touched' \in {touched, touched \cup {backlog + 1}}
  /\ UNCHANGED <<arg, control, events, history, reason>>

ProducerStops ==
  /\ producing
  /\ producing' = FALSE
  /\ UNCHANGED <<arg, control, stop, drain, stream, history, reason>>

\* Another thread sets stop_event, or drain_event once the producer has stopped.
SetEvent ==
  /\ \/ ~stop /\ stop' = TRUE /\ UNCHANGED drain
     \/ ~drain /\ ~producing /\ drain' = TRUE /\ UNCHANGED stop
  /\ UNCHANGED <<arg, control, producing, stream, history, reason>>

Terminated == pc = "returned" /\ UNCHANGED vars
-----------------------------------------------------------------------------
GeneratorStep ==
  \/ CheckStop \/ ListenReturnsRows \/ ListenIsEmpty
  \/ CheckEmptied \/ CheckIdle \/ Resume

Next == GeneratorStep \/ Publish \/ ProducerStops \/ SetEvent \/ Terminated

Spec == Init /\ [][Next]_vars

\* The thread of the loop runs, every listen returns and every sink too; nothing
\* forces the producer or the events.
FairSpec == Spec /\ WF_vars(GeneratorStep)
-----------------------------------------------------------------------------
(* Properties. *)

\* Every variable has its type; the window stays between 1 and its ceiling.
TypeOK ==
  /\ arg \in Arguments
  /\ pc \in Labels /\ reason \in Reasons
  /\ window \in 1..Ceiling
  /\ idle \in 0..MaxIdle /\ quiet \in 0..MaxIdle
  /\ yielded \in 0..arg.maxBatches
  /\ backlog \in 0..MaxBacklog /\ touched \subseteq 1..backlog
  /\ batch \in [start : 0..backlog, end : 0..backlog, snapshots : SUBSET (1..backlog)]
  /\ late \in Nat /\ filled \in BOOLEAN
  /\ <<stop, drain, producing>> \in BOOLEAN \X BOOLEAN \X BOOLEAN
  /\ drainSeen \in BOOLEAN
  /\ pace \in Paces

\* A loop that ends because it was drained has left nothing behind, if drain_event
\* was set before its last listen returned ("the producer has stopped, let the
\* cursor catch up", base.py:412-417).  Of an event set between that return and the
\* look at it, it is not true: what was published there is left.
DrainCatchesUp == reason = "drain" /\ drainSeen => touched = {}

\* The batch in the caller's hands is what lies between the cursor and the end its
\* commit moves the cursor to, whichever columns the rows had: nothing there is
\* missing (it would be lost), and nothing in it lies beyond (it would come twice).
BatchIsPrefix ==
  pc = "yielded" =>
    /\ batch.snapshots # {} /\ batch.snapshots = touched \cap 1..batch.end
    /\ batch.end <= backlog
    /\ \A k \in batch.snapshots : 1 <= batch.start /\ batch.start <= k

\* The loop keeps the promises of RunLoop.tla, as the workers of CDCApp.tla do.
Promise == INSTANCE RunLoop WITH
  Loop <- {1},
  phase <- [l \in {1} |-> CASE pc \in {"top", "listening", "emptied", "idling"} -> "looping"
                            [] pc = "yielded" -> "holding"
                            [] pc = "returned" -> "ended"],
  stop <- [l \in {1} |-> stop],
  behind <- [l \in {1} |-> backlog],
  late <- [l \in {1} |-> late]

ImplementsRunLoop == Promise!Spec

\* drain_event ends the loop by itself, without stop_event.
DrainReturns == drain ~> pc = "returned"

\* What a draining loop has left: snapshots not yet in a batch, the batch in hand,
\* the idle time it still waits for, and its way from the top to the clock.
Remaining == IF pc = "yielded" THEN backlog - batch.end ELSE backlog
IdleLeft == Larger(0, arg.drainIdle - idle)
StepsLeft ==
  CASE pc = "top" -> 3 [] pc = "listening" -> 2 [] pc = "emptied" -> 1 [] OTHER -> 0

\* Once drain_event is set it stays set, and each step of the loop returns or leaves
\* less to do, the earlier of these counting more: slow sinks, batches of any length
\* and a stop_event in between never put the end off.
DrainProgresses ==
  [][drain /\ pc # "returned" =>
       /\ drain'
       /\ \/ pc' = "returned"
          \/ UNCHANGED <<pc, Remaining, IdleLeft>>
          \/ Remaining' < Remaining
          \/ /\ Remaining' = Remaining
             /\ \/ pc = "yielded" /\ pc' # "yielded"
                \/ pc' # "yielded" /\ IdleLeft' < IdleLeft
                \/ IdleLeft' = IdleLeft /\ StepsLeft' < StepsLeft]_vars

\* The window recovers: once every batch is fast, light and fills it, it comes to the
\* ceiling and stays there, from wherever slow batches and empty listens left it.
WindowRecovers ==
  <>[](arg.adaptive /\ pc # "returned" /\ pace = "fast" /\ filled) => <>[](window = Ceiling)

\* "returns when listen has been idle for drain_idle_timeout seconds"
\* (base.py:412-417): for that long its listens have come back empty.
DrainSawIdleListens == reason = "drain" => quiet >= arg.drainIdle
=============================================================================
