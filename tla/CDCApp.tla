--------------------------------- MODULE CDCApp ---------------------------------
(***************************************************************************)
(* The multi-consumer host (app.py): the main thread in CDCApp.__enter__,  *)
(* run(), _wait_for_workers and __exit__; the signal handler, which Python *)
(* runs on the main thread between two of its steps; and one worker thread *)
(* per consumer in its run() loop.                                         *)
(*                                                                         *)
(* self._lock is a threading.Lock: it is not reentrant, so a handler that  *)
(* needs it waits for the very thread it has interrupted.                  *)
(*                                                                         *)
(* A worker's batches are counted, not built: what a batch is and how its  *)
(* commit meets other sessions is ConsumerSession.tla.                     *)
(***************************************************************************)
EXTENDS Integers, Sequences

CONSTANTS
  NumWorkers,     \* consumers of the app, in registration order
  Interruptible,  \* the labels of the main thread and of the handler that a
                  \* signal may land on
  MaxEvents,      \* bound: signals, calls of run() and further entries in a
                  \* behaviour, together
  MaxBatches      \* bound: batches published for each consumer

Worker == 1..NumWorkers

\* Where the main thread holds self._lock, for the `with` bodies of the code.
LockedLabels == {"starting", "copying", "reading", "collecting"}
RunLabels == {"run", "starting", "waiting", "polling", "copying"}
ExitLabels == {"exit", "locking", "collecting", "stopping", "joining", "closing"}
Waiting == {"waiting", "polling", "copying"}
EndLabels == {"left", "refused", "aborted"}
MainLabels ==
  {"entering", "inside", "stats", "interrupted"} \cup LockedLabels
    \cup RunLabels \cup ExitLabels \cup EndLabels
FrameLabels == {"acquire", "locked", "stop"}
ThreadLabels == {"none", "top", "listening", "deliver", "commit", "ended"}

ASSUME WorkerAssumption == NumWorkers \in Nat \ {0}
ASSUME InterruptibleAssumption == Interruptible \subseteq MainLabels \cup FrameLabels
ASSUME BoundAssumption ==
  MaxEvents \in Nat /\ MaxBatches \in Nat

VARIABLES
  \* CDCApp
  lock,        \* whether self._lock is held
  stopping,    \* self._stopping
  handlers,    \* whether the signal handlers are installed
  infinite,    \* argument of run()
  \* the main thread
  main,        \* what it does next, below any signal handler
  index,       \* the worker its present loop has come to
  frames,      \* signal handlers running on it, the newest first
  \* _Worker
  entered,     \* entered[w]: _entered
  stopEvent,   \* stopEvent[w]
  thread,      \* thread[w]: what the worker thread does next
  delivered,   \* delivered[w]: _delivered, as stats() shows it
  failed,      \* failed[w]: _last_error is set
  \* the consumers, their stream and history
  supply,      \* supply[w]: batches its listens may still return
  count,       \* count[w]: the local `delivered` of consumer.run()
  afterStop,   \* history: batches handed to the sinks after the stop was requested
  timedOut,    \* history: the join of this worker ran into the deadline
  events       \* signals, calls of run() and further entries so far

appVars == <<lock, stopping, handlers, infinite>>
mainVars == <<main, index, frames>>
workerVars == <<entered, stopEvent, thread, delivered, failed>>
streamVars == <<supply, count, afterStop>>
historyVars == <<timedOut, events>>
vars == <<appVars, mainVars, workerVars, streamVars, historyVars>>

Init ==
  /\ lock = FALSE /\ stopping = FALSE /\ handlers = FALSE /\ infinite \in BOOLEAN
  /\ main = "entering" /\ index = 1 /\ frames = <<>>
  /\ entered = [w \in Worker |-> FALSE]
  /\ stopEvent = [w \in Worker |-> FALSE]
  /\ thread = [w \in Worker |-> "none"]
  /\ delivered = [w \in Worker |-> 0]
  /\ failed = [w \in Worker |-> FALSE]
  /\ supply = [w \in Worker |-> MaxBatches]
  /\ count = [w \in Worker |-> 0]
  /\ afterStop = [w \in Worker |-> 0]
  /\ timedOut = [w \in Worker |-> FALSE]
  /\ events = 0

IsAlive(w) == thread[w] \notin {"none", "ended"}

RequestStopAll == stopEvent' = [w \in Worker |-> TRUE]
-----------------------------------------------------------------------------
(* The main thread.  It runs only when no signal handler runs on top of it. *)

MainAt(label) == main = label /\ frames = <<>>

\* What only the bound on events may prevent.
Happens == events < MaxEvents /\ events' = events + 1

Goto(label) == main' = label /\ UNCHANGED <<index, frames>>

\* A loop over the workers begins.
LoopAt(label) == main' = label /\ index' = 1 /\ UNCHANGED frames

\* The next worker of the loop, or the label that follows the loop.
LoopNext(label) ==
  /\ UNCHANGED frames
  /\ IF index < NumWorkers THEN index' = index + 1 /\ main' = main
                           ELSE index' = 1 /\ main' = label

Acquire == ~lock /\ lock' = TRUE /\ UNCHANGED <<stopping, handlers, infinite>>
Release == lock' = FALSE /\ UNCHANGED <<stopping, handlers, infinite>>

\* __enter__ of the consumers that are not entered, then the handlers
\* (install_signals decides).
EnterWorker ==
  /\ MainAt("entering")
  /\ entered' = [entered EXCEPT ![index] = TRUE]
  /\ LoopNext("inside")
  /\ IF index = NumWorkers THEN handlers' \in BOOLEAN ELSE handlers' = handlers
  /\ UNCHANGED <<lock, stopping, infinite, stopEvent, thread, delivered, failed, streamVars,
                 historyVars>>

\* A consumer's __enter__ raises: __enter__ of the app does too, and __exit__ is
\* never called for the consumers entered before.
EnterFails ==
  /\ MainAt("entering")
  /\ ~entered[index]
  /\ Goto("refused")
  /\ UNCHANGED <<appVars, workerVars, streamVars, historyVars>>

\* The same app in another `with` block, also after an entry that was refused.
EnterAgain ==
  /\ main \in EndLabels /\ frames = <<>>
  /\ LoopAt("entering")
  /\ Happens
  /\ UNCHANGED <<appVars, workerVars, streamVars, timedOut>>

Run ==
  /\ MainAt("inside")
  /\ Goto("run")
  /\ Happens
  /\ UNCHANGED <<appVars, workerVars, streamVars, timedOut>>

\* The blocks that need the lock: run(), _wait_for_workers, stats(), __exit__.
TakeLock ==
  /\ Acquire
  /\ \/ MainAt("run") /\ LoopAt("starting")
     \/ MainAt("polling") /\ Goto("copying")
     \/ MainAt("stats") /\ Goto("reading")
     \/ MainAt("locking") /\ Goto("collecting")
  /\ UNCHANGED <<workerVars, streamVars, historyVars>>

\* _Worker.start: a worker that has had a thread gets no other one.
StartWorker ==
  /\ MainAt("starting")
  /\ IF thread[index] = "none"
     THEN /\ thread' = [thread EXCEPT ![index] = "top"]
          /\ stopEvent' = [stopEvent EXCEPT ![index] = FALSE]
     ELSE UNCHANGED <<thread, stopEvent>>
  /\ LoopNext("waiting")
  /\ IF index = NumWorkers THEN Release ELSE UNCHANGED appVars
  /\ UNCHANGED <<entered, delivered, failed, streamVars, historyVars>>

\* _wait_for_workers: a stop was requested, run() returns.
SeesStopping ==
  /\ MainAt("waiting")
  /\ Goto(IF stopping THEN "inside" ELSE "polling")
  /\ UNCHANGED <<appVars, workerVars, streamVars, historyVars>>

\* A bug the code does not have: the lock is not released on the way out.
KeepsLock ==
  /\ MainAt("copying")
  /\ UNCHANGED appVars
  /\ Goto(IF \E w \in Worker : IsAlive(w) THEN "waiting" ELSE "inside")
  /\ UNCHANGED <<workerVars, streamVars, historyVars>>

\* ... or every worker is done; or it sleeps and looks again.
SeesWorkers ==
  /\ MainAt("copying")
  /\ Release
  /\ Goto(IF \E w \in Worker : IsAlive(w) THEN "waiting" ELSE "inside")
  /\ UNCHANGED <<workerVars, streamVars, historyVars>>

Stats ==
  /\ \/ MainAt("inside") /\ Goto("stats") /\ UNCHANGED appVars
     \/ MainAt("reading") /\ Release /\ Goto("inside")
  /\ UNCHANGED <<workerVars, streamVars, historyVars>>

\* The caller's block ends and __exit__ begins.
Exit ==
  /\ \/ MainAt("inside") /\ Goto("exit") /\ UNCHANGED appVars
     \/ /\ MainAt("exit") /\ Goto("locking")
        /\ stopping' = TRUE /\ UNCHANGED <<lock, handlers, infinite>>
  /\ UNCHANGED <<workerVars, streamVars, historyVars>>

CollectWorkers ==
  /\ MainAt("collecting")
  /\ Release
  /\ LoopAt("stopping")
  /\ UNCHANGED <<workerVars, streamVars, historyVars>>

\* A bug the code does not have: __exit__ counts on the handler's request.
StopNobody ==
  /\ MainAt("stopping")
  /\ LoopNext("joining")
  /\ UNCHANGED <<appVars, workerVars, streamVars, historyVars>>

StopWorker ==
  /\ MainAt("stopping")
  /\ stopEvent' = [stopEvent EXCEPT ![index] = TRUE]
  /\ LoopNext("joining")
  /\ UNCHANGED <<appVars, entered, thread, delivered, failed, streamVars, historyVars>>

\* A bug the code does not have: only the first worker is waited for.
JoinFirst ==
  /\ MainAt("joining")
  /\ index = 1 => ~IsAlive(index)
  /\ LoopNext("closing")
  /\ UNCHANGED <<appVars, workerVars, streamVars, historyVars>>

\* join(remaining): the thread has ended, or the deadline has passed.
JoinWorker ==
  /\ MainAt("joining")
  /\ \/ ~IsAlive(index) /\ UNCHANGED timedOut
     \/ IsAlive(index) /\ timedOut' = [timedOut EXCEPT ![index] = TRUE]
  /\ LoopNext("closing")
  /\ UNCHANGED <<appVars, workerVars, streamVars, events>>

\* A bug the code does not have: a worker without a thread has nothing to close.
CloseStarted ==
  /\ MainAt("closing")
  /\ entered' = [entered EXCEPT ![index] = @ /\ thread[index] = "none"]
  /\ LoopNext("left")
  /\ IF index = NumWorkers
     THEN stopping' = FALSE /\ handlers' = FALSE /\ UNCHANGED <<lock, infinite>>
     ELSE UNCHANGED appVars
  /\ UNCHANGED <<stopEvent, thread, delivered, failed, streamVars, historyVars>>

\* _Worker.exit: the consumer closes its sinks and connection; then the handlers
\* are restored.
CloseWorker ==
  /\ MainAt("closing")
  /\ entered' = [entered EXCEPT ![index] = FALSE]
  /\ LoopNext("left")
  /\ IF index = NumWorkers
     THEN stopping' = FALSE /\ handlers' = FALSE /\ UNCHANGED <<lock, infinite>>
     ELSE UNCHANGED appVars
  /\ UNCHANGED <<stopEvent, thread, delivered, failed, streamVars, historyVars>>
-----------------------------------------------------------------------------
(* Signals. *)

\* The step of the main thread, or of the handler on top of it, a signal meets.
Interrupted == IF frames = <<>> THEN main ELSE Head(frames)

\* A bug the code does not have: the handler sets the events, not the flag.
SignalWithoutFlag ==
  /\ handlers /\ Happens
  /\ Interrupted \in Interruptible
  /\ frames' = <<"acquire">> \o frames
  /\ UNCHANGED <<appVars, main, index, workerVars, streamVars, timedOut>>

\* _handle_signal starts on top of whatever the main thread does, another
\* handler included.
Signal ==
  /\ handlers /\ Happens
  /\ Interrupted \in Interruptible
  /\ frames' = <<"acquire">> \o frames
  /\ stopping' = TRUE
  /\ UNCHANGED <<lock, handlers, infinite, main, index, workerVars, streamVars,
                 timedOut>>

\* `with self._lock` in the handler: never passed when the step the handler
\* interrupted holds the lock.
HandlerTakesLock ==
  /\ frames # <<>> /\ Head(frames) = "acquire"
  /\ Acquire
  /\ frames' = <<"locked">> \o Tail(frames)
  /\ UNCHANGED <<main, index, workerVars, streamVars, historyVars>>

HandlerReleases ==
  /\ frames # <<>> /\ Head(frames) = "locked"
  /\ Release
  /\ frames' = <<"stop">> \o Tail(frames)
  /\ UNCHANGED <<main, index, workerVars, streamVars, historyVars>>

HandlerStops ==
  /\ frames # <<>> /\ Head(frames) = "stop"
  /\ RequestStopAll
  /\ frames' = Tail(frames)
  /\ UNCHANGED <<appVars, main, index, entered, thread, delivered, failed, streamVars,
                 historyVars>>

\* Without the handlers a signal raises KeyboardInterrupt where the main thread
\* is: in __enter__ nothing is undone, in the wait of run() the workers are asked
\* to stop first, from the rest of the block __exit__ is next, and from __exit__
\* the exception escapes.
KeyboardInterrupt ==
  /\ ~handlers /\ Happens
  /\ frames = <<>> /\ main \notin EndLabels
  /\ \/ main = "entering" /\ Goto("refused")
     \/ main \in Waiting /\ Goto("interrupted")
     \/ main \in ExitLabels /\ Goto("aborted")
     \/ main \notin {"entering"} \cup Waiting \cup ExitLabels /\ Goto("exit")
  /\ lock' = FALSE /\ UNCHANGED <<stopping, handlers, infinite>>
  /\ UNCHANGED <<workerVars, streamVars, timedOut>>

\* run(): except KeyboardInterrupt.
StopInterrupted ==
  /\ MainAt("interrupted")
  /\ ~lock
  /\ RequestStopAll
  /\ Goto("exit")
  /\ UNCHANGED <<appVars, entered, thread, delivered, failed, streamVars, historyVars>>
-----------------------------------------------------------------------------
(* The worker threads: consumer.run() inside _run_loop. *)

\* run() returns its count, and only now it becomes the worker's.
RunReturns(w) ==
  /\ thread' = [thread EXCEPT ![w] = "ended"]
  /\ delivered' = [delivered EXCEPT ![w] = count'[w]]
  /\ UNCHANGED <<entered, stopEvent, failed>>

RunRaises(w) ==
  /\ thread' = [thread EXCEPT ![w] = "ended"]
  /\ failed' = [failed EXCEPT ![w] = TRUE]
  /\ UNCHANGED <<entered, stopEvent, delivered>>

ThreadAt(w, label) ==
  /\ thread' = [thread EXCEPT ![w] = label]
  /\ UNCHANGED <<entered, stopEvent, delivered, failed>>

\* A bug the code does not have: stop_event is looked at only when a listen was
\* empty.
ListenFirst(w) ==
  /\ thread[w] = "top"
  /\ ThreadAt(w, "listening")
  /\ UNCHANGED <<appVars, mainVars, streamVars, historyVars>>

\* The top of the loop in batches().
CheckStop(w) ==
  /\ thread[w] = "top"
  /\ UNCHANGED streamVars
  /\ IF stopEvent[w] THEN RunReturns(w) ELSE ThreadAt(w, "listening")
  /\ UNCHANGED <<appVars, mainVars, historyVars>>

\* The listen returns rows: the batch is yielded whatever stop_event says.
ListenReturnsRows(w) ==
  /\ thread[w] = "listening"
  /\ supply[w] > 0
  /\ ThreadAt(w, "deliver")
  /\ afterStop' = [afterStop EXCEPT ![w] = IF stopEvent[w] THEN @ + 1 ELSE @]
  /\ UNCHANGED <<appVars, mainVars, supply, count, historyVars>>

\* A bug the code does not have: a one-shot run waits for its first batch.
ListenAgain(w) ==
  /\ thread[w] = "listening"
  /\ UNCHANGED streamVars
  /\ IF stopEvent[w] THEN RunReturns(w) ELSE ThreadAt(w, "top")
  /\ UNCHANGED <<appVars, mainVars, historyVars>>

\* It returns none, because the producer has committed nothing in the meantime.
ListenTimesOut(w) ==
  /\ thread[w] = "listening"
  /\ UNCHANGED streamVars
  /\ IF stopEvent[w] \/ ~infinite THEN RunReturns(w) ELSE ThreadAt(w, "top")
  /\ UNCHANGED <<appVars, mainVars, historyVars>>

Deliver(w) ==
  /\ thread[w] = "deliver"
  /\ ThreadAt(w, "commit")
  /\ UNCHANGED <<appVars, mainVars, streamVars, historyVars>>

\* The commit returns and run() counts the batch; a one-shot run ends after its first.
Commit(w) ==
  /\ thread[w] = "commit"
  /\ count' = [count EXCEPT ![w] = @ + 1]
  /\ supply' = [supply EXCEPT ![w] = @ - 1]
  /\ IF infinite THEN ThreadAt(w, "top") ELSE RunReturns(w)
  /\ UNCHANGED <<afterStop, appVars, mainVars, historyVars>>

\* A call on the extension or a required sink raises: an error of its own, or
\* because __exit__ has closed the sinks and the connection under the thread.
WorkerFails(w) ==
  /\ thread[w] \in {"listening", "deliver", "commit"}
  /\ RunRaises(w)
  /\ UNCHANGED <<appVars, mainVars, streamVars, historyVars>>

\* The main thread is through and no worker thread is left.
Terminated ==
  /\ main \in EndLabels /\ \A w \in Worker : ~IsAlive(w)
  /\ UNCHANGED vars
-----------------------------------------------------------------------------
MainStep ==
  \/ EnterWorker \/ EnterFails \/ EnterAgain \/ Run \/ TakeLock \/ StartWorker \/ SeesStopping
  \/ SeesWorkers \/ Stats \/ Exit \/ CollectWorkers \/ StopWorker \/ JoinWorker
  \/ CloseWorker \/ StopInterrupted

HandlerStep == HandlerTakesLock \/ HandlerReleases \/ HandlerStops

WorkerStep(w) ==
  \/ CheckStop(w) \/ ListenReturnsRows(w) \/ ListenTimesOut(w) \/ Deliver(w)
  \/ Commit(w) \/ WorkerFails(w)

Next ==
  \/ MainStep \/ HandlerStep \/ Signal \/ KeyboardInterrupt
  \/ \E w \in Worker : WorkerStep(w)
  \/ Terminated

Spec == Init /\ [][Next]_vars

\* Every thread that can take a step does; the listen has a timeout and the sinks
\* return.  No signal, no call of run() and no failure has to happen.
FairSpec ==
  /\ Spec
  /\ WF_vars(MainStep)
  /\ WF_vars(HandlerStep)
  /\ \A w \in Worker : WF_vars(WorkerStep(w))
-----------------------------------------------------------------------------
(* Properties. *)

\* Every variable has its type, and self._lock is held by the main thread or by
\* a handler on top of it.
TypeOK ==
  /\ lock \in BOOLEAN /\ stopping \in BOOLEAN /\ handlers \in BOOLEAN /\ infinite \in BOOLEAN
  /\ main \in MainLabels /\ index \in Worker /\ frames \in Seq(FrameLabels)
  /\ events \in 0..MaxEvents
  /\ entered \in [Worker -> BOOLEAN] /\ stopEvent \in [Worker -> BOOLEAN]
  /\ thread \in [Worker -> ThreadLabels] /\ failed \in [Worker -> BOOLEAN]
  /\ delivered \in [Worker -> 0..MaxBatches] /\ count \in [Worker -> 0..MaxBatches]
  /\ supply \in [Worker -> 0..MaxBatches]
  /\ afterStop \in [Worker -> Nat]
  /\ timedOut \in [Worker -> BOOLEAN]
  /\ lock <=> main \in LockedLabels \/ \E i \in DOMAIN frames : frames[i] = "locked"

\* A consumer's sinks and connection are closed under its running thread only
\* when that thread overstayed shutdown_timeout: a batch in flight is drained
\* first, whatever signals, failures and other workers do.
DrainsBeforeClosing ==
  \A w \in Worker : IsAlive(w) /\ ~entered[w] => timedOut[w]

\* Once its stop is requested a worker delivers at most one more batch: the one
\* its listen was already waiting for.
OneBatchAfterStop == \A w \in Worker : afterStop[w] <= 1

\* A signal makes run() return, wherever it lands (app.py:19-21: "a Ctrl+C or
\* container shutdown drains the in-flight batch and returns from run cleanly").
SignalEndsRun == (frames # <<>> /\ main \in RunLabels) ~> main \notin RunLabels

\* After the `with` block no worker thread keeps consuming, also those that
\* overstayed the join or were started after the signal.
WorkersEnd == \A w \in Worker : main = "left" ~> ~IsAlive(w)

\* "infinite=False ... The call returns when every worker has finished"
\* (app.py:193-195): each has a batch, an empty listen or an error; also a second
\* run() returns, which starts nothing.
OneShotReturns == (main \in RunLabels /\ ~infinite) ~> main \notin RunLabels

\* A `with` block that was left has closed every consumer, those included that an
\* entry refused or interrupted earlier had left open.
LeftClosesAll == main = "left" => \A w \in Worker : ~entered[w]

\* The most steps of its own a worker whose stop was requested may still take.
StepsLeft ==
  [listening |-> 4, deliver |-> 3, commit |-> 2, top |-> 1, ended |-> 0, none |-> 0]

\* A request to stop is never withdrawn from a running worker, each step of the
\* worker's loop then brings it nearer its end, and __exit__ has asked every worker,
\* those started after a signal included, before it joins the first.
StopIsHeeded ==
  [][\A w \in Worker :
       IsAlive(w) /\ (stopEvent[w] \/ main \in {"joining", "closing", "left"}) =>
         /\ stopEvent'[w]
         /\ \/ thread'[w] = thread[w]
            \/ StepsLeft[thread'[w]] < StepsLeft[thread[w]]]_vars

\* The phase of a loop at each label of its thread.
PhaseAt ==
  [none |-> "idle", top |-> "looping", listening |-> "looping", deliver |-> "holding",
   commit |-> "holding", ended |-> "ended"]

\* Each worker keeps the promises of RunLoop.tla, as batches() in BatchLoop.tla
\* does, whatever the main thread and the signals do.
Promise == INSTANCE RunLoop WITH
  Loop <- Worker,
  phase <- [w \in Worker |-> PhaseAt[thread[w]]],
  stop <- stopEvent,
  behind <- supply,
  late <- afterStop

ImplementsRunLoop == Promise!Spec
=============================================================================
