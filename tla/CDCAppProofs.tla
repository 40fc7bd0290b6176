------------------------------ MODULE CDCAppProofs ------------------------------
(***************************************************************************)
(* Proofs about CDCApp.tla, for any number of workers, batches and         *)
(* signals, and wherever signals may land.                                 *)
(*                                                                         *)
(* The argument: in the block every consumer is entered, and __exit__      *)
(* closes one only after its join returned, because its thread had ended   *)
(* or the deadline had passed, while no thread can start (Block).  A       *)
(* worker that was asked to stop returns at the top of its loop, so only   *)
(* the listen that was under way can give it one more batch (Loops).  The  *)
(* lock has one holder (OneHolder).                                        *)
(***************************************************************************)
EXTENDS CDCApp, TLAPS

\* self._lock is held once: by the main thread, or by one of the handlers on it.
OneHolder ==
  /\ main \in LockedLabels => \A i \in DOMAIN frames : frames[i] # "locked"
  /\ \A i, j \in DOMAIN frames : frames[i] = "locked" /\ frames[j] = "locked" => i = j

\* Which consumers are entered, and which threads were waited for.
Block ==
  /\ main \notin {"entering", "closing"} \cup EndLabels => \A w \in Worker : entered[w]
  /\ main = "entering" => \A w \in Worker : w < index => entered[w]
  /\ main = "closing" => \A w \in Worker : entered[w] <=> w >= index
  /\ main = "left" => \A w \in Worker : ~entered[w]
  /\ main = "joining" => \A w \in Worker : w < index /\ IsAlive(w) => timedOut[w]
  /\ main = "closing" => \A w \in Worker : IsAlive(w) => timedOut[w]

\* What the loop of a worker has left to do, and what it did after its stop.
Loops ==
  \A w \in Worker :
    /\ count[w] + supply[w] = MaxBatches
    /\ thread[w] \in {"deliver", "commit"} => supply[w] > 0
    /\ afterStop[w] = 0 \/ (/\ afterStop[w] = 1 /\ stopEvent[w]
                            /\ thread[w] \notin {"none", "listening"})

\* TypeOK in three parts.
AppTypes ==
  /\ lock \in BOOLEAN /\ stopping \in BOOLEAN /\ handlers \in BOOLEAN /\ infinite \in BOOLEAN
  /\ main \in MainLabels /\ index \in Worker /\ frames \in Seq(FrameLabels)
  /\ events \in 0..MaxEvents
WorkerTypes ==
  /\ entered \in [Worker -> BOOLEAN] /\ stopEvent \in [Worker -> BOOLEAN]
  /\ thread \in [Worker -> ThreadLabels] /\ failed \in [Worker -> BOOLEAN]
  /\ delivered \in [Worker -> 0..MaxBatches] /\ count \in [Worker -> 0..MaxBatches]
  /\ supply \in [Worker -> 0..MaxBatches]
  /\ afterStop \in [Worker -> Nat]
  /\ timedOut \in [Worker -> BOOLEAN]
Held == lock <=> main \in LockedLabels \/ \E i \in DOMAIN frames : frames[i] = "locked"

IInv ==
  /\ AppTypes /\ WorkerTypes
  /\ Held /\ OneHolder
  /\ Block /\ DrainsBeforeClosing
  /\ Loops
-----------------------------------------------------------------------------
(* Sequences of frames. *)

LEMMA Pushed ==
  ASSUME NEW s \in Seq(FrameLabels), NEW x \in FrameLabels, NEW t, t = <<x>> \o s
  PROVE  /\ t \in Seq(FrameLabels) /\ DOMAIN t = 1..(Len(s) + 1)
         /\ t[1] = x /\ \A i \in DOMAIN s : t[i + 1] = s[i]
OBVIOUS

LEMMA Popped ==
  ASSUME NEW s \in Seq(FrameLabels), s # <<>>, NEW t, t = Tail(s)
  PROVE  /\ t \in Seq(FrameLabels) /\ DOMAIN s = 1..(Len(t) + 1)
         /\ Head(s) = s[1] /\ \A i \in DOMAIN t : t[i] = s[i + 1]
OBVIOUS

LEMMA HeadReplaced ==
  ASSUME NEW s \in Seq(FrameLabels), s # <<>>, NEW x \in FrameLabels,
         NEW t, t = <<x>> \o Tail(s)
  PROVE  /\ t \in Seq(FrameLabels) /\ DOMAIN t = DOMAIN s /\ 1 \in DOMAIN s
         /\ Head(s) = s[1] /\ t[1] = x
         /\ \A i \in DOMAIN s : i # 1 => t[i] = s[i]
OBVIOUS

\* A step of a loop over the workers.
LEMMA LoopStep ==
  ASSUME WorkerAssumption, index \in Worker, NEW label, LoopNext(label)
  PROVE  /\ index' \in Worker /\ frames' = frames
         /\ \/ index < NumWorkers /\ index' = index + 1 /\ main' = main
            \/ index = NumWorkers /\ index' = 1 /\ main' = label
BY DEF WorkerAssumption, Worker, LoopNext

LEMMA OneWorker == WorkerAssumption => 1 \in Worker
BY DEF WorkerAssumption, Worker

-----------------------------------------------------------------------------
(* One lemma per action: the types of the app and of the workers, the lock, *)
(* what the block of the app is about, and the loops of the workers.          *)

LEMMA EnterWorkerStep ==
  ASSUME WorkerAssumption, BoundAssumption, IInv, EnterWorker
  PROVE  IInv'
<1>1. AppTypes'
  BY DEF IInv, AppTypes, EnterWorker, MainAt, LoopNext, MainLabels, Waiting, LockedLabels,
    RunLabels, ExitLabels, EndLabels, Worker, streamVars, historyVars, WorkerAssumption,
    BoundAssumption
<1>2. WorkerTypes'
  BY DEF IInv, AppTypes, WorkerTypes, Loops, EnterWorker, MainAt, LoopNext, streamVars,
    historyVars, Worker, BoundAssumption
<1>3. (Held /\ OneHolder)'
  BY DEF IInv, Held, OneHolder, EnterWorker, MainAt, LoopNext, LockedLabels, streamVars,
    historyVars
<1>4. Block' /\ DrainsBeforeClosing'
  <2>1. /\ main = "entering"
        /\ \/ index < NumWorkers /\ index' = index + 1 /\ main' = "entering"
           \/ index = NumWorkers /\ index' = 1 /\ main' = "inside"
    BY LoopStep DEF IInv, AppTypes, EnterWorker, MainAt
  <2>2. CASE index < NumWorkers /\ index' = index + 1 /\ main' = "entering"
    <3>1. \A w \in Worker : w < index' => w < index \/ w = index
      BY <2>2 DEF IInv, AppTypes, Worker
    <3>2. \A w \in Worker : entered'[w] <=> entered[w] \/ w = index
      BY DEF IInv, AppTypes, WorkerTypes, EnterWorker
    <3>3. thread' = thread /\ timedOut' = timedOut
      BY DEF EnterWorker, historyVars
    <3> QED BY <2>1, <2>2, <3>1, <3>2, <3>3 DEF EnterWorker, IInv, AppTypes, WorkerTypes,
      Block, DrainsBeforeClosing, IsAlive, MainLabels, Waiting, LockedLabels, RunLabels,
      ExitLabels, EndLabels, ThreadLabels, Worker, WorkerAssumption, appVars, mainVars,
      workerVars, streamVars, historyVars
  <2>3. CASE index = NumWorkers /\ index' = 1 /\ main' = "inside"
    BY <2>1, <2>3 DEF EnterWorker, IInv, AppTypes, WorkerTypes, Block,
      DrainsBeforeClosing, IsAlive, MainLabels, Waiting, LockedLabels, RunLabels,
      ExitLabels, EndLabels, ThreadLabels, Worker, WorkerAssumption, appVars, mainVars,
      workerVars, streamVars, historyVars
  <2> QED BY <2>1, <2>2, <2>3
<1>5. Loops'
  BY DEF IInv, WorkerTypes, Loops, IsAlive, EnterWorker, MainAt, LoopNext,
    streamVars, historyVars, Worker, BoundAssumption
<1> QED BY <1>1, <1>2, <1>3, <1>4, <1>5 DEF IInv

LEMMA EnterFailsStep ==
  ASSUME WorkerAssumption, BoundAssumption, IInv, EnterFails
  PROVE  IInv'
<1>1. AppTypes'
  BY DEF IInv, AppTypes, EnterFails, MainAt, Goto, MainLabels, Waiting, LockedLabels,
    RunLabels, ExitLabels, EndLabels, Worker, appVars, workerVars, streamVars, historyVars,
    WorkerAssumption, BoundAssumption
<1>2. WorkerTypes'
  BY DEF IInv, AppTypes, WorkerTypes, Loops, EnterFails, MainAt, Goto, appVars, workerVars,
    streamVars, historyVars, Worker, BoundAssumption
<1>3. (Held /\ OneHolder)'
  BY DEF IInv, Held, OneHolder, EnterFails, MainAt, Goto, LockedLabels, appVars, workerVars,
    streamVars, historyVars
<1>4. Block' /\ DrainsBeforeClosing'
  BY DEF IInv, AppTypes, WorkerTypes, Block, DrainsBeforeClosing, IsAlive, EnterFails,
    MainAt, Goto, EndLabels, Worker, appVars, workerVars, streamVars, historyVars,
    WorkerAssumption
<1>5. Loops'
  BY DEF IInv, WorkerTypes, Loops, IsAlive, EnterFails, MainAt, Goto, appVars,
    workerVars, streamVars, historyVars, Worker, BoundAssumption
<1> QED BY <1>1, <1>2, <1>3, <1>4, <1>5 DEF IInv

LEMMA EnterAgainStep ==
  ASSUME WorkerAssumption, BoundAssumption, IInv, EnterAgain
  PROVE  IInv'
<1>1. AppTypes'
  BY DEF IInv, AppTypes, EnterAgain, LoopAt, Happens, MainLabels, Waiting, LockedLabels,
    RunLabels, ExitLabels, EndLabels, Worker, appVars, workerVars, streamVars,
    WorkerAssumption, BoundAssumption
<1>2. WorkerTypes'
  BY DEF IInv, AppTypes, WorkerTypes, Loops, EnterAgain, LoopAt, Happens, appVars,
    workerVars, streamVars, Worker, BoundAssumption
<1>3. (Held /\ OneHolder)'
  BY DEF IInv, Held, OneHolder, EnterAgain, LoopAt, Happens, LockedLabels, EndLabels,
    appVars, workerVars, streamVars
<1>4. Block' /\ DrainsBeforeClosing'
  BY DEF IInv, AppTypes, WorkerTypes, Block, DrainsBeforeClosing, IsAlive, EnterAgain,
    LoopAt, Happens, EndLabels, Worker, appVars, workerVars, streamVars, WorkerAssumption
<1>5. Loops'
  BY DEF IInv, WorkerTypes, Loops, IsAlive, EnterAgain, LoopAt, Happens,
    appVars, workerVars, streamVars, Worker, BoundAssumption
<1> QED BY <1>1, <1>2, <1>3, <1>4, <1>5 DEF IInv

LEMMA RunStep ==
  ASSUME WorkerAssumption, BoundAssumption, IInv, Run
  PROVE  IInv'
<1>1. AppTypes'
  BY DEF IInv, AppTypes, Run, MainAt, Goto, Happens, MainLabels, Waiting, LockedLabels,
    RunLabels, ExitLabels, EndLabels, Worker, appVars, workerVars, streamVars,
    WorkerAssumption, BoundAssumption
<1>2. WorkerTypes'
  BY DEF IInv, AppTypes, WorkerTypes, Loops, Run, MainAt, Goto, Happens, appVars,
    workerVars, streamVars, Worker, BoundAssumption
<1>3. (Held /\ OneHolder)'
  BY DEF IInv, Held, OneHolder, Run, MainAt, Goto, Happens, LockedLabels, appVars,
    workerVars, streamVars
<1>4. Block' /\ DrainsBeforeClosing'
  BY DEF IInv, AppTypes, WorkerTypes, Block, DrainsBeforeClosing, IsAlive, Run, MainAt,
    Goto, Happens, EndLabels, Worker, appVars, workerVars, streamVars, WorkerAssumption
<1>5. Loops'
  BY DEF IInv, WorkerTypes, Loops, IsAlive, Run, MainAt, Goto, Happens,
    appVars, workerVars, streamVars, Worker, BoundAssumption
<1> QED BY <1>1, <1>2, <1>3, <1>4, <1>5 DEF IInv

LEMMA TakeLockStep ==
  ASSUME WorkerAssumption, BoundAssumption, IInv, TakeLock
  PROVE  IInv'
<1>1. AppTypes'
  BY DEF IInv, AppTypes, TakeLock, Acquire, MainAt, LoopAt, Goto, MainLabels, Waiting,
    LockedLabels, RunLabels, ExitLabels, EndLabels, Worker, workerVars, streamVars,
    historyVars, WorkerAssumption, BoundAssumption
<1>2. WorkerTypes'
  BY DEF IInv, AppTypes, WorkerTypes, Loops, TakeLock, Acquire, MainAt, LoopAt, Goto,
    workerVars, streamVars, historyVars, Worker, BoundAssumption
<1>3. (Held /\ OneHolder)'
  BY DEF IInv, Held, OneHolder, TakeLock, Acquire, MainAt, LoopAt, Goto, LockedLabels,
    workerVars, streamVars, historyVars
<1>4. Block' /\ DrainsBeforeClosing'
  BY DEF IInv, AppTypes, WorkerTypes, Block, DrainsBeforeClosing, IsAlive, TakeLock,
    Acquire, MainAt, LoopAt, Goto, EndLabels, Worker, workerVars, streamVars, historyVars,
    WorkerAssumption
<1>5. Loops'
  BY DEF IInv, WorkerTypes, Loops, IsAlive, TakeLock, Acquire, MainAt, LoopAt,
    Goto, workerVars, streamVars, historyVars, Worker, BoundAssumption
<1> QED BY <1>1, <1>2, <1>3, <1>4, <1>5 DEF IInv

LEMMA StartWorkerStep ==
  ASSUME WorkerAssumption, BoundAssumption, IInv, StartWorker
  PROVE  IInv'
<1>1. AppTypes'
  <2>1. index' \in Worker /\ frames' = frames /\ main' \in {"starting", "waiting"}
    BY LoopStep DEF IInv, AppTypes, StartWorker, MainAt
  <2> QED BY <2>1 DEF IInv, AppTypes, StartWorker, Release, MainLabels, Waiting,
    LockedLabels, RunLabels, ExitLabels, EndLabels, ThreadLabels, appVars, mainVars,
    workerVars, streamVars, historyVars
<1>2. WorkerTypes'
  BY DEF IInv, AppTypes, WorkerTypes, Loops, StartWorker, MainAt, LoopNext, Release,
    ThreadLabels, appVars, streamVars, historyVars, Worker, BoundAssumption
<1>3. (Held /\ OneHolder)'
  <2>1. /\ main = "starting" /\ frames = <<>> /\ frames' = <<>>
        /\ \/ index < NumWorkers /\ main' = "starting"
           \/ index = NumWorkers /\ main' = "waiting"
    BY LoopStep DEF IInv, AppTypes, StartWorker, MainAt
  <2>2. CASE index < NumWorkers /\ main' = "starting"
    <3>1. lock' = lock
      BY <2>2 DEF IInv, AppTypes, StartWorker, appVars, Worker
    <3> QED BY <2>1, <2>2, <3>1 DEF IInv, Held, OneHolder, LockedLabels
  <2>3. CASE index = NumWorkers /\ main' = "waiting"
    BY <2>1, <2>3 DEF IInv, Held, OneHolder, StartWorker, Release, LockedLabels
  <2> QED BY <2>1, <2>2, <2>3
<1>4. Block' /\ DrainsBeforeClosing'
  BY DEF IInv, AppTypes, WorkerTypes, Block, DrainsBeforeClosing, IsAlive, StartWorker,
    MainAt, LoopNext, Release, EndLabels, ThreadLabels, Worker, appVars, streamVars,
    historyVars, WorkerAssumption
<1>5. Loops'
  BY DEF IInv, WorkerTypes, Loops, IsAlive, StartWorker, MainAt, LoopNext,
    Release, appVars, streamVars, historyVars, Worker, ThreadLabels, BoundAssumption
<1> QED BY <1>1, <1>2, <1>3, <1>4, <1>5 DEF IInv

LEMMA SeesStoppingStep ==
  ASSUME WorkerAssumption, BoundAssumption, IInv, SeesStopping
  PROVE  IInv'
<1>1. AppTypes'
  BY DEF IInv, AppTypes, SeesStopping, MainAt, Goto, MainLabels, Waiting, LockedLabels,
    RunLabels, ExitLabels, EndLabels, Worker, appVars, workerVars, streamVars, historyVars,
    WorkerAssumption, BoundAssumption
<1>2. WorkerTypes'
  BY DEF IInv, AppTypes, WorkerTypes, Loops, SeesStopping, MainAt, Goto, appVars,
    workerVars, streamVars, historyVars, Worker, BoundAssumption
<1>3. (Held /\ OneHolder)'
  BY DEF IInv, Held, OneHolder, SeesStopping, MainAt, Goto, LockedLabels, appVars,
    workerVars, streamVars, historyVars
<1>4. Block' /\ DrainsBeforeClosing'
  BY DEF IInv, AppTypes, WorkerTypes, Block, DrainsBeforeClosing, IsAlive, SeesStopping,
    MainAt, Goto, EndLabels, Worker, appVars, workerVars, streamVars, historyVars,
    WorkerAssumption
<1>5. Loops'
  BY DEF IInv, WorkerTypes, Loops, IsAlive, SeesStopping, MainAt, Goto,
    appVars, workerVars, streamVars, historyVars, Worker, BoundAssumption
<1> QED BY <1>1, <1>2, <1>3, <1>4, <1>5 DEF IInv

LEMMA SeesWorkersStep ==
  ASSUME WorkerAssumption, BoundAssumption, IInv, SeesWorkers
  PROVE  IInv'
<1>1. AppTypes'
  BY DEF IInv, AppTypes, SeesWorkers, MainAt, Release, Goto, MainLabels, Waiting,
    LockedLabels, RunLabels, ExitLabels, EndLabels, Worker, workerVars, streamVars,
    historyVars, WorkerAssumption, BoundAssumption
<1>2. WorkerTypes'
  BY DEF IInv, AppTypes, WorkerTypes, Loops, SeesWorkers, MainAt, Release, Goto, workerVars,
    streamVars, historyVars, Worker, BoundAssumption
<1>3. (Held /\ OneHolder)'
  BY DEF IInv, Held, OneHolder, SeesWorkers, MainAt, Release, Goto, LockedLabels,
    workerVars, streamVars, historyVars
<1>4. Block' /\ DrainsBeforeClosing'
  BY DEF IInv, AppTypes, WorkerTypes, Block, DrainsBeforeClosing, IsAlive, SeesWorkers,
    MainAt, Release, Goto, EndLabels, Worker, workerVars, streamVars, historyVars,
    WorkerAssumption
<1>5. Loops'
  BY DEF IInv, WorkerTypes, Loops, IsAlive, SeesWorkers, MainAt, Release, Goto,
    workerVars, streamVars, historyVars, Worker, BoundAssumption
<1> QED BY <1>1, <1>2, <1>3, <1>4, <1>5 DEF IInv

LEMMA StatsStep ==
  ASSUME WorkerAssumption, BoundAssumption, IInv, Stats
  PROVE  IInv'
<1>1. AppTypes'
  BY DEF IInv, AppTypes, Stats, MainAt, Release, Goto, MainLabels, Waiting, LockedLabels,
    RunLabels, ExitLabels, EndLabels, Worker, appVars, workerVars, streamVars, historyVars,
    WorkerAssumption, BoundAssumption
<1>2. WorkerTypes'
  BY DEF IInv, AppTypes, WorkerTypes, Loops, Stats, MainAt, Release, Goto, appVars,
    workerVars, streamVars, historyVars, Worker, BoundAssumption
<1>3. (Held /\ OneHolder)'
  BY DEF IInv, Held, OneHolder, Stats, MainAt, Release, Goto, LockedLabels, appVars,
    workerVars, streamVars, historyVars
<1>4. Block' /\ DrainsBeforeClosing'
  BY DEF IInv, AppTypes, WorkerTypes, Block, DrainsBeforeClosing, IsAlive, Stats, MainAt,
    Release, Goto, EndLabels, Worker, appVars, workerVars, streamVars, historyVars,
    WorkerAssumption
<1>5. Loops'
  BY DEF IInv, WorkerTypes, Loops, IsAlive, Stats, MainAt, Release, Goto,
    appVars, workerVars, streamVars, historyVars, Worker, BoundAssumption
<1> QED BY <1>1, <1>2, <1>3, <1>4, <1>5 DEF IInv

LEMMA ExitStep ==
  ASSUME WorkerAssumption, BoundAssumption, IInv, Exit
  PROVE  IInv'
<1>1. AppTypes'
  BY DEF IInv, AppTypes, Exit, MainAt, Goto, MainLabels, Waiting, LockedLabels, RunLabels,
    ExitLabels, EndLabels, Worker, appVars, workerVars, streamVars, historyVars,
    WorkerAssumption, BoundAssumption
<1>2. WorkerTypes'
  BY DEF IInv, AppTypes, WorkerTypes, Loops, Exit, MainAt, Goto, appVars, workerVars,
    streamVars, historyVars, Worker, BoundAssumption
<1>3. (Held /\ OneHolder)'
  BY DEF IInv, Held, OneHolder, Exit, MainAt, Goto, LockedLabels, appVars, workerVars,
    streamVars, historyVars
<1>4. Block' /\ DrainsBeforeClosing'
  BY DEF IInv, AppTypes, WorkerTypes, Block, DrainsBeforeClosing, IsAlive, Exit, MainAt,
    Goto, EndLabels, Worker, appVars, workerVars, streamVars, historyVars, WorkerAssumption
<1>5. Loops'
  BY DEF IInv, WorkerTypes, Loops, IsAlive, Exit, MainAt, Goto, appVars,
    workerVars, streamVars, historyVars, Worker, BoundAssumption
<1> QED BY <1>1, <1>2, <1>3, <1>4, <1>5 DEF IInv

LEMMA CollectWorkersStep ==
  ASSUME WorkerAssumption, BoundAssumption, IInv, CollectWorkers
  PROVE  IInv'
<1>1. AppTypes'
  BY OneWorker DEF IInv, AppTypes, CollectWorkers, LoopAt, Release, MainLabels, Waiting,
    LockedLabels, RunLabels, ExitLabels, EndLabels, ThreadLabels, appVars, mainVars,
    workerVars, streamVars, historyVars
<1>2. WorkerTypes'
  BY DEF IInv, AppTypes, WorkerTypes, Loops, CollectWorkers, MainAt, Release, LoopAt,
    workerVars, streamVars, historyVars, Worker, BoundAssumption
<1>3. (Held /\ OneHolder)'
  BY DEF IInv, Held, OneHolder, CollectWorkers, MainAt, Release, LoopAt, LockedLabels,
    workerVars, streamVars, historyVars
<1>4. Block' /\ DrainsBeforeClosing'
  BY DEF IInv, AppTypes, WorkerTypes, Block, DrainsBeforeClosing, IsAlive, CollectWorkers,
    MainAt, Release, LoopAt, EndLabels, Worker, workerVars, streamVars, historyVars,
    WorkerAssumption
<1>5. Loops'
  BY DEF IInv, WorkerTypes, Loops, IsAlive, CollectWorkers, MainAt, Release,
    LoopAt, workerVars, streamVars, historyVars, Worker, BoundAssumption
<1> QED BY <1>1, <1>2, <1>3, <1>4, <1>5 DEF IInv

LEMMA StopWorkerStep ==
  ASSUME WorkerAssumption, BoundAssumption, IInv, StopWorker
  PROVE  IInv'
<1>1. AppTypes'
  BY DEF IInv, AppTypes, StopWorker, MainAt, LoopNext, MainLabels, Waiting, LockedLabels,
    RunLabels, ExitLabels, EndLabels, Worker, appVars, streamVars, historyVars,
    WorkerAssumption, BoundAssumption
<1>2. WorkerTypes'
  BY DEF IInv, AppTypes, WorkerTypes, Loops, StopWorker, MainAt, LoopNext, appVars,
    streamVars, historyVars, Worker, BoundAssumption
<1>3. (Held /\ OneHolder)'
  BY DEF IInv, Held, OneHolder, StopWorker, MainAt, LoopNext, LockedLabels, appVars,
    streamVars, historyVars
<1>4. Block' /\ DrainsBeforeClosing'
  <2>1. /\ main = "stopping"
        /\ \/ index < NumWorkers /\ index' = index + 1 /\ main' = "stopping"
           \/ index = NumWorkers /\ index' = 1 /\ main' = "joining"
    BY LoopStep DEF IInv, AppTypes, StopWorker, MainAt
  <2>2. CASE index < NumWorkers /\ index' = index + 1 /\ main' = "stopping"
    BY <2>1, <2>2 DEF StopWorker, IInv, AppTypes, WorkerTypes, Block, DrainsBeforeClosing,
      IsAlive, MainLabels, Waiting, LockedLabels, RunLabels, ExitLabels, EndLabels,
      ThreadLabels, Worker, WorkerAssumption, appVars, mainVars, workerVars, streamVars,
      historyVars
  <2>3. CASE index = NumWorkers /\ index' = 1 /\ main' = "joining"
    BY <2>1, <2>3 DEF StopWorker, IInv, AppTypes, WorkerTypes, Block, DrainsBeforeClosing,
      IsAlive, MainLabels, Waiting, LockedLabels, RunLabels, ExitLabels, EndLabels,
      ThreadLabels, Worker, WorkerAssumption, appVars, mainVars, workerVars, streamVars,
      historyVars
  <2> QED BY <2>1, <2>2, <2>3
<1>5. Loops'
  BY DEF IInv, WorkerTypes, Loops, IsAlive, StopWorker, MainAt, LoopNext,
    appVars, streamVars, historyVars, Worker, BoundAssumption
<1> QED BY <1>1, <1>2, <1>3, <1>4, <1>5 DEF IInv

LEMMA JoinWorkerStep ==
  ASSUME WorkerAssumption, BoundAssumption, IInv, JoinWorker
  PROVE  IInv'
<1>1. AppTypes'
  BY DEF IInv, AppTypes, JoinWorker, MainAt, LoopNext, MainLabels, Waiting, LockedLabels,
    RunLabels, ExitLabels, EndLabels, Worker, appVars, workerVars, streamVars,
    WorkerAssumption, BoundAssumption
<1>2. WorkerTypes'
  BY DEF IInv, AppTypes, WorkerTypes, Loops, JoinWorker, MainAt, LoopNext, appVars,
    workerVars, streamVars, Worker, BoundAssumption
<1>3. (Held /\ OneHolder)'
  BY DEF IInv, Held, OneHolder, JoinWorker, MainAt, LoopNext, LockedLabels, appVars,
    workerVars, streamVars
<1>4. Block' /\ DrainsBeforeClosing'
  <2>1. /\ main = "joining"
        /\ \/ index < NumWorkers /\ index' = index + 1 /\ main' = "joining"
           \/ index = NumWorkers /\ index' = 1 /\ main' = "closing"
    BY LoopStep DEF IInv, AppTypes, JoinWorker, MainAt
  <2>2. CASE index < NumWorkers /\ index' = index + 1 /\ main' = "joining"
    <3>1. \A w \in Worker : w < index' => w < index \/ w = index
      BY <2>2 DEF IInv, AppTypes, Worker
    <3>2. ~IsAlive(index) \/ timedOut'[index]
      BY DEF IInv, AppTypes, WorkerTypes, JoinWorker
    <3>3. \A w \in Worker : /\ timedOut[w] => timedOut'[w]
                          /\ entered'[w] = entered[w] /\ thread'[w] = thread[w]
      BY DEF IInv, WorkerTypes, JoinWorker, workerVars
    <3> QED BY <2>1, <2>2, <3>1, <3>2, <3>3 DEF JoinWorker, IInv, AppTypes, WorkerTypes,
      Block, DrainsBeforeClosing, IsAlive, MainLabels, Waiting, LockedLabels, RunLabels,
      ExitLabels, EndLabels, ThreadLabels, Worker, WorkerAssumption, appVars, mainVars,
      workerVars, streamVars, historyVars
  <2>3. CASE index = NumWorkers /\ index' = 1 /\ main' = "closing"
    <3>1. \A w \in Worker : w >= 1 /\ (w < index \/ w = index)
      BY <2>3 DEF Worker, WorkerAssumption
    <3>2. ~IsAlive(index) \/ timedOut'[index]
      BY DEF IInv, AppTypes, WorkerTypes, JoinWorker
    <3>3. \A w \in Worker : /\ timedOut[w] => timedOut'[w]
                          /\ entered'[w] = entered[w] /\ IsAlive(w)' = IsAlive(w)
      BY DEF IInv, WorkerTypes, JoinWorker, workerVars, IsAlive
    <3>4. \A w \in Worker : entered[w] /\ (w < index /\ IsAlive(w) => timedOut[w])
      BY <2>1 DEF IInv, Block, EndLabels
    <3>5. \A w \in Worker : IsAlive(w)' => timedOut'[w]
      BY <3>1, <3>2, <3>3, <3>4
    <3>6. \A w \in Worker : entered'[w] /\ w >= index'
      BY <2>3, <3>1, <3>3, <3>4
    <3> QED BY <2>3, <3>5, <3>6 DEF Block, DrainsBeforeClosing, EndLabels
  <2> QED BY <2>1, <2>2, <2>3
<1>5. Loops'
  BY DEF IInv, WorkerTypes, Loops, IsAlive, JoinWorker, MainAt, LoopNext,
    appVars, workerVars, streamVars, Worker, BoundAssumption
<1> QED BY <1>1, <1>2, <1>3, <1>4, <1>5 DEF IInv

LEMMA CloseWorkerStep ==
  ASSUME WorkerAssumption, BoundAssumption, IInv, CloseWorker
  PROVE  IInv'
<1>1. AppTypes'
  <2>1. index' \in Worker /\ frames' = frames /\ main' \in {"closing", "left"}
    BY LoopStep DEF IInv, AppTypes, CloseWorker, MainAt
  <2> QED BY <2>1 DEF IInv, AppTypes, CloseWorker, MainLabels, Waiting, LockedLabels,
    RunLabels, ExitLabels, EndLabels, ThreadLabels, appVars, mainVars, workerVars,
    streamVars, historyVars
<1>2. WorkerTypes'
  BY DEF IInv, AppTypes, WorkerTypes, Loops, CloseWorker, MainAt, LoopNext, appVars,
    streamVars, historyVars, Worker, BoundAssumption
<1>3. (Held /\ OneHolder)'
  BY DEF IInv, Held, OneHolder, CloseWorker, MainAt, LoopNext, LockedLabels, appVars,
    streamVars, historyVars
<1>4. Block' /\ DrainsBeforeClosing'
  <2>1. /\ main = "closing"
        /\ \/ index < NumWorkers /\ index' = index + 1 /\ main' = "closing"
           \/ index = NumWorkers /\ index' = 1 /\ main' = "left"
    BY LoopStep DEF IInv, AppTypes, CloseWorker, MainAt
  <2>2. CASE index < NumWorkers /\ index' = index + 1 /\ main' = "closing"
    BY SMTT(30), <2>1, <2>2 DEF CloseWorker, IInv, AppTypes, WorkerTypes, Block,
      DrainsBeforeClosing, IsAlive, MainLabels, Waiting, LockedLabels, RunLabels,
      ExitLabels, EndLabels, ThreadLabels, Worker, WorkerAssumption, appVars, mainVars,
      workerVars, streamVars, historyVars
  <2>3. CASE index = NumWorkers /\ index' = 1 /\ main' = "left"
    BY <2>1, <2>3 DEF CloseWorker, IInv, AppTypes, WorkerTypes, Block,
      DrainsBeforeClosing, IsAlive, MainLabels, Waiting, LockedLabels, RunLabels,
      ExitLabels, EndLabels, ThreadLabels, Worker, WorkerAssumption, appVars, mainVars,
      workerVars, streamVars, historyVars
  <2> QED BY <2>1, <2>2, <2>3
<1>5. Loops'
  BY DEF IInv, WorkerTypes, Loops, IsAlive, CloseWorker, MainAt, LoopNext,
    appVars, streamVars, historyVars, Worker, BoundAssumption
<1> QED BY <1>1, <1>2, <1>3, <1>4, <1>5 DEF IInv

LEMMA StopInterruptedStep ==
  ASSUME WorkerAssumption, BoundAssumption, IInv, StopInterrupted
  PROVE  IInv'
<1>1. AppTypes'
  BY DEF IInv, AppTypes, StopInterrupted, MainAt, Goto, RequestStopAll, MainLabels, Waiting,
    LockedLabels, RunLabels, ExitLabels, EndLabels, Worker, appVars, streamVars,
    historyVars, WorkerAssumption, BoundAssumption
<1>2. WorkerTypes'
  BY DEF IInv, AppTypes, WorkerTypes, Loops, StopInterrupted, MainAt, Goto, RequestStopAll,
    appVars, streamVars, historyVars, Worker, BoundAssumption
<1>3. (Held /\ OneHolder)'
  BY DEF IInv, Held, OneHolder, StopInterrupted, MainAt, Goto, RequestStopAll, LockedLabels,
    appVars, streamVars, historyVars
<1>4. Block' /\ DrainsBeforeClosing'
  BY DEF IInv, AppTypes, WorkerTypes, Block, DrainsBeforeClosing, IsAlive, StopInterrupted,
    MainAt, Goto, RequestStopAll, EndLabels, Worker, appVars, streamVars, historyVars,
    WorkerAssumption
<1>5. Loops'
  BY DEF IInv, WorkerTypes, Loops, IsAlive, StopInterrupted, MainAt, Goto,
    RequestStopAll, appVars, streamVars, historyVars, Worker, BoundAssumption
<1> QED BY <1>1, <1>2, <1>3, <1>4, <1>5 DEF IInv

LEMMA HandlerTakesLockStep ==
  ASSUME WorkerAssumption, BoundAssumption, IInv, HandlerTakesLock
  PROVE  IInv'
<1>1. AppTypes'
  <2>1. frames' \in Seq(FrameLabels)
    BY HeadReplaced DEF IInv, AppTypes, HandlerTakesLock, FrameLabels
  <2> QED BY <2>1 DEF IInv, AppTypes, HandlerTakesLock, Acquire, appVars, mainVars,
    workerVars, streamVars, historyVars
<1>2. WorkerTypes'
  BY DEF IInv, AppTypes, WorkerTypes, Loops, HandlerTakesLock, Acquire, workerVars,
    streamVars, historyVars, Worker, BoundAssumption
<1>3. (Held /\ OneHolder)'
  BY DEF IInv, Held, OneHolder, HandlerTakesLock, Acquire, workerVars, streamVars,
    historyVars
<1>4. Block' /\ DrainsBeforeClosing'
  BY DEF IInv, AppTypes, WorkerTypes, Block, DrainsBeforeClosing, IsAlive, HandlerTakesLock,
    Acquire, Worker, workerVars, streamVars, historyVars, WorkerAssumption
<1>5. Loops'
  BY DEF IInv, WorkerTypes, Loops, IsAlive, HandlerTakesLock, Acquire,
    workerVars, streamVars, historyVars, Worker, BoundAssumption
<1> QED BY <1>1, <1>2, <1>3, <1>4, <1>5 DEF IInv

LEMMA HandlerReleasesStep ==
  ASSUME WorkerAssumption, BoundAssumption, IInv, HandlerReleases
  PROVE  IInv'
<1>1. AppTypes'
  <2>1. frames' \in Seq(FrameLabels)
    BY HeadReplaced DEF IInv, AppTypes, HandlerReleases, FrameLabels
  <2> QED BY <2>1 DEF IInv, AppTypes, HandlerReleases, Release, appVars, mainVars,
    workerVars, streamVars, historyVars
<1>2. WorkerTypes'
  BY DEF IInv, AppTypes, WorkerTypes, Loops, HandlerReleases, Release, workerVars,
    streamVars, historyVars, Worker, BoundAssumption
<1>3. (Held /\ OneHolder)'
  BY DEF IInv, Held, OneHolder, HandlerReleases, Release, workerVars, streamVars,
    historyVars
<1>4. Block' /\ DrainsBeforeClosing'
  BY DEF IInv, AppTypes, WorkerTypes, Block, DrainsBeforeClosing, IsAlive, HandlerReleases,
    Release, Worker, workerVars, streamVars, historyVars, WorkerAssumption
<1>5. Loops'
  BY DEF IInv, WorkerTypes, Loops, IsAlive, HandlerReleases, Release,
    workerVars, streamVars, historyVars, Worker, BoundAssumption
<1> QED BY <1>1, <1>2, <1>3, <1>4, <1>5 DEF IInv

LEMMA HandlerStopsStep ==
  ASSUME WorkerAssumption, BoundAssumption, IInv, HandlerStops
  PROVE  IInv'
<1>1. AppTypes'
  BY DEF IInv, AppTypes, HandlerStops, RequestStopAll, Worker, appVars, streamVars,
    historyVars, WorkerAssumption, BoundAssumption
<1>2. WorkerTypes'
  BY DEF IInv, AppTypes, WorkerTypes, Loops, HandlerStops, RequestStopAll, appVars,
    streamVars, historyVars, Worker, BoundAssumption
<1>3. (Held /\ OneHolder)'
  <2>1. /\ frames' \in Seq(FrameLabels) /\ DOMAIN frames = 1..(Len(frames') + 1)
        /\ frames[1] = "stop" /\ \A i \in DOMAIN frames' : frames'[i] = frames[i + 1]
    BY Popped DEF IInv, AppTypes, HandlerStops
  <2>2. \A i \in DOMAIN frames :
          frames[i] = "locked" => i - 1 \in DOMAIN frames' /\ frames'[i - 1] = "locked"
    BY <2>1
  <2>3. \A i \in DOMAIN frames' : i + 1 \in DOMAIN frames
    BY <2>1
  <2>4. lock' = lock /\ main' = main
    BY DEF HandlerStops, appVars
  <2>5. Held'
    BY <2>1, <2>2, <2>3, <2>4 DEF IInv, Held
  <2>6. \A i, j \in DOMAIN frames' : frames'[i] = "locked" /\ frames'[j] = "locked" => i = j
    <3> SUFFICES ASSUME NEW i \in DOMAIN frames', NEW j \in DOMAIN frames',
                        frames'[i] = "locked", frames'[j] = "locked"
                 PROVE  i = j
      OBVIOUS
    <3>1. i + 1 = j + 1
      BY <2>1, <2>3 DEF IInv, OneHolder
    <3> QED BY <2>1, <3>1
  <2> QED BY <2>1, <2>3, <2>4, <2>5, <2>6 DEF IInv, OneHolder
<1>4. Block' /\ DrainsBeforeClosing'
  BY DEF IInv, AppTypes, WorkerTypes, Block, DrainsBeforeClosing, IsAlive, HandlerStops,
    RequestStopAll, Worker, appVars, streamVars, historyVars, WorkerAssumption
<1>5. Loops'
  BY DEF IInv, WorkerTypes, Loops, IsAlive, HandlerStops, RequestStopAll,
    appVars, streamVars, historyVars, Worker, BoundAssumption
<1> QED BY <1>1, <1>2, <1>3, <1>4, <1>5 DEF IInv

LEMMA SignalStep ==
  ASSUME WorkerAssumption, BoundAssumption, IInv, Signal
  PROVE  IInv'
<1>1. AppTypes'
  <2>1. frames' \in Seq(FrameLabels)
    BY Pushed DEF IInv, AppTypes, Signal, FrameLabels
  <2> QED BY <2>1, BoundAssumption DEF IInv, AppTypes, Signal, Happens, appVars, mainVars,
    workerVars, streamVars, historyVars
<1>2. WorkerTypes'
  BY DEF IInv, AppTypes, WorkerTypes, Loops, Signal, Happens, workerVars, streamVars,
    Worker, BoundAssumption
<1>3. (Held /\ OneHolder)'
  <2>1. /\ DOMAIN frames' = 1..(Len(frames) + 1) /\ frames'[1] = "acquire"
        /\ \A i \in DOMAIN frames : frames'[i + 1] = frames[i]
        /\ frames \in Seq(FrameLabels)
    BY Pushed DEF IInv, AppTypes, Signal, FrameLabels
  <2>2. \A i \in DOMAIN frames' :
          frames'[i] = "locked" => i - 1 \in DOMAIN frames /\ frames[i - 1] = "locked"
    BY <2>1
  <2>3. (\E i \in DOMAIN frames' : frames'[i] = "locked")
          <=> \E i \in DOMAIN frames : frames[i] = "locked"
    <3>1. \A i \in DOMAIN frames : i + 1 \in DOMAIN frames'
      BY <2>1
    <3> QED BY <2>1, <2>2, <3>1
  <2>4. lock' = lock /\ main' = main
    BY DEF Signal
  <2>5. Held'
    BY <2>3, <2>4 DEF IInv, Held
  <2>6. \A i, j \in DOMAIN frames' : frames'[i] = "locked" /\ frames'[j] = "locked" => i = j
    <3> SUFFICES ASSUME NEW i \in DOMAIN frames', NEW j \in DOMAIN frames',
                        frames'[i] = "locked", frames'[j] = "locked"
                 PROVE  i = j
      OBVIOUS
    <3>1. i - 1 = j - 1
      BY <2>2 DEF IInv, OneHolder
    <3> QED BY <2>1, <3>1
  <2> QED BY <2>2, <2>4, <2>5, <2>6 DEF IInv, OneHolder
<1>4. Block' /\ DrainsBeforeClosing'
  BY DEF IInv, AppTypes, WorkerTypes, Block, DrainsBeforeClosing, IsAlive, Signal, Happens,
    Worker, workerVars, streamVars, WorkerAssumption
<1>5. Loops'
  BY DEF IInv, WorkerTypes, Loops, IsAlive, Signal, Happens, workerVars,
    streamVars, Worker, BoundAssumption
<1> QED BY <1>1, <1>2, <1>3, <1>4, <1>5 DEF IInv

LEMMA KeyboardInterruptStep ==
  ASSUME WorkerAssumption, BoundAssumption, IInv, KeyboardInterrupt
  PROVE  IInv'
<1>1. AppTypes'
  <2>1. main' \in {"refused", "interrupted", "aborted", "exit"}
    BY DEF KeyboardInterrupt, Goto
  <2>2. UNCHANGED <<index, frames, stopping, handlers, infinite>>
    BY DEF KeyboardInterrupt, Goto
  <2>3. lock' = FALSE
    BY DEF KeyboardInterrupt
  <2>4. events < MaxEvents /\ events' = events + 1
    BY DEF KeyboardInterrupt, Happens
  <2>5. events' \in 0..MaxEvents
    BY <2>4, BoundAssumption DEF IInv, AppTypes
  <2>6. main' \in MainLabels
    BY <2>1 DEF MainLabels, ExitLabels, EndLabels
  <2> QED BY <2>2, <2>3, <2>5, <2>6 DEF IInv, AppTypes
<1>2. WorkerTypes'
  BY DEF IInv, AppTypes, WorkerTypes, Loops, KeyboardInterrupt, Happens, Goto, workerVars,
    streamVars, Worker, BoundAssumption
<1>3. (Held /\ OneHolder)'
  BY DEF IInv, Held, OneHolder, KeyboardInterrupt, Happens, Goto, Waiting, LockedLabels,
    ExitLabels, EndLabels, workerVars, streamVars
<1>4. Block' /\ DrainsBeforeClosing'
  BY DEF IInv, AppTypes, WorkerTypes, Block, DrainsBeforeClosing, IsAlive,
    KeyboardInterrupt, Happens, Goto, Waiting, ExitLabels, EndLabels, Worker, workerVars,
    streamVars, WorkerAssumption
<1>5. Loops'
  BY DEF IInv, WorkerTypes, Loops, IsAlive, KeyboardInterrupt, Happens, Goto,
    workerVars, streamVars, Worker, BoundAssumption
<1> QED BY <1>1, <1>2, <1>3, <1>4, <1>5 DEF IInv

\* A step of a worker that is running disturbs neither the block nor what its
\* exit has closed: no thread starts by it.
LEMMA ThreadRunsOn ==
  ASSUME IInv, UNCHANGED <<main, index, entered, timedOut>>,
         \A x \in Worker : IsAlive(x)' => IsAlive(x)
  PROVE  Block' /\ DrainsBeforeClosing'
BY DEF IInv, Block, DrainsBeforeClosing

LEMMA CheckStopStep ==
  ASSUME WorkerAssumption, BoundAssumption, IInv, NEW w \in Worker, CheckStop(w)
  PROVE  IInv'
<1>1. AppTypes'
  BY DEF IInv, AppTypes, CheckStop, RunReturns, ThreadAt, ThreadLabels, Worker, appVars,
    mainVars, streamVars, historyVars, WorkerAssumption, BoundAssumption
<1>2. WorkerTypes'
  <2>1. CASE RunReturns(w)
    <3>1. count'[w] \in 0..MaxBatches
      BY DEF IInv, WorkerTypes, CheckStop, streamVars
    <3> QED BY <2>1, <3>1 DEF IInv, WorkerTypes, CheckStop, RunReturns, streamVars,
      historyVars, ThreadLabels
  <2>2. CASE ThreadAt(w, "listening")
    BY <2>2 DEF IInv, WorkerTypes, CheckStop, ThreadAt, streamVars, historyVars, ThreadLabels
  <2> QED BY <2>1, <2>2 DEF CheckStop
<1>3. (Held /\ OneHolder)'
  BY DEF IInv, Held, OneHolder, CheckStop, RunReturns, ThreadAt, ThreadLabels, appVars,
    mainVars, streamVars, historyVars
<1>4. Block' /\ DrainsBeforeClosing'
  <2>1. UNCHANGED <<main, index, entered, timedOut>>
    BY DEF CheckStop, RunReturns, ThreadAt, appVars, mainVars, historyVars
  <2>2. \A x \in Worker : IsAlive(x)' => IsAlive(x)
    BY DEF IInv, WorkerTypes, IsAlive, CheckStop, RunReturns, ThreadAt
  <2> QED BY <2>1, <2>2, ThreadRunsOn
<1>5. Loops'
  <2>1. CASE RunReturns(w)
    BY <2>1 DEF IInv, WorkerTypes, Loops, IsAlive, Worker, ThreadLabels,
      CheckStop, RunReturns, streamVars
  <2>2. CASE ThreadAt(w, "listening") /\ ~(thread[w] = "top" /\ stopEvent[w])
    BY <2>2 DEF IInv, WorkerTypes, Loops, IsAlive, Worker, ThreadLabels,
      CheckStop, ThreadAt, streamVars
  <2> QED BY <2>1, <2>2 DEF CheckStop
<1> QED BY <1>1, <1>2, <1>3, <1>4, <1>5 DEF IInv

LEMMA ListenReturnsRowsStep ==
  ASSUME WorkerAssumption, BoundAssumption, IInv, NEW w \in Worker, ListenReturnsRows(w)
  PROVE  IInv'
<1>1. AppTypes'
  BY DEF IInv, AppTypes, ListenReturnsRows, ThreadAt, ThreadLabels, Worker, appVars,
    mainVars, historyVars, WorkerAssumption, BoundAssumption
<1>2. WorkerTypes'
  <2>1. afterStop' \in [Worker -> Nat]
    BY DEF IInv, WorkerTypes, ListenReturnsRows
  <2> QED BY <2>1 DEF IInv, WorkerTypes, ListenReturnsRows, ThreadAt, historyVars, ThreadLabels
<1>3. (Held /\ OneHolder)'
  BY DEF IInv, Held, OneHolder, ListenReturnsRows, ThreadAt, ThreadLabels, appVars,
    mainVars, historyVars
<1>4. Block' /\ DrainsBeforeClosing'
  <2>1. UNCHANGED <<main, index, entered, timedOut>>
    BY DEF ListenReturnsRows, ThreadAt, appVars, mainVars, historyVars
  <2>2. \A x \in Worker : IsAlive(x)' => IsAlive(x)
    BY DEF IInv, WorkerTypes, IsAlive, ListenReturnsRows, ThreadAt
  <2> QED BY <2>1, <2>2, ThreadRunsOn
<1>5. Loops'
  BY SMTT(30) DEF IInv, WorkerTypes, Loops, IsAlive, ListenReturnsRows, ThreadAt,
    appVars, mainVars, historyVars, Worker, ThreadLabels, BoundAssumption
<1> QED BY <1>1, <1>2, <1>3, <1>4, <1>5 DEF IInv

LEMMA ListenTimesOutStep ==
  ASSUME WorkerAssumption, BoundAssumption, IInv, NEW w \in Worker, ListenTimesOut(w)
  PROVE  IInv'
<1>1. AppTypes'
  BY DEF IInv, AppTypes, ListenTimesOut, RunReturns, ThreadAt, ThreadLabels, Worker,
    appVars, mainVars, streamVars, historyVars, WorkerAssumption, BoundAssumption
<1>2. WorkerTypes'
  <2>1. CASE RunReturns(w)
    <3>1. count'[w] \in 0..MaxBatches
      BY DEF IInv, WorkerTypes, ListenTimesOut, streamVars
    <3> QED BY <2>1, <3>1 DEF IInv, WorkerTypes, ListenTimesOut, RunReturns, streamVars,
      historyVars, ThreadLabels
  <2>2. CASE ThreadAt(w, "top")
    BY <2>2 DEF IInv, WorkerTypes, ListenTimesOut, ThreadAt, streamVars, historyVars,
      ThreadLabels
  <2> QED BY <2>1, <2>2 DEF ListenTimesOut
<1>3. (Held /\ OneHolder)'
  BY DEF IInv, Held, OneHolder, ListenTimesOut, RunReturns, ThreadAt, ThreadLabels, appVars,
    mainVars, streamVars, historyVars
<1>4. Block' /\ DrainsBeforeClosing'
  <2>1. UNCHANGED <<main, index, entered, timedOut>>
    BY DEF ListenTimesOut, RunReturns, ThreadAt, appVars, mainVars, historyVars
  <2>2. \A x \in Worker : IsAlive(x)' => IsAlive(x)
    BY DEF IInv, WorkerTypes, IsAlive, ListenTimesOut, RunReturns, ThreadAt
  <2> QED BY <2>1, <2>2, ThreadRunsOn
<1>5. Loops'
  <2>1. CASE RunReturns(w)
    BY <2>1 DEF IInv, WorkerTypes, Loops, IsAlive, Worker, ThreadLabels,
      ListenTimesOut, RunReturns, streamVars
  <2>2. CASE ThreadAt(w, "top") /\ ~(thread[w] = "top" /\ stopEvent[w])
    BY <2>2 DEF IInv, WorkerTypes, Loops, IsAlive, Worker, ThreadLabels,
      ListenTimesOut, ThreadAt, streamVars
  <2> QED BY <2>1, <2>2 DEF ListenTimesOut
<1> QED BY <1>1, <1>2, <1>3, <1>4, <1>5 DEF IInv

LEMMA DeliverStep ==
  ASSUME WorkerAssumption, BoundAssumption, IInv, NEW w \in Worker, Deliver(w)
  PROVE  IInv'
<1>1. AppTypes'
  BY DEF IInv, AppTypes, Deliver, ThreadAt, ThreadLabels, Worker, appVars, mainVars,
    streamVars, historyVars, WorkerAssumption, BoundAssumption
<1>2. WorkerTypes'
  BY DEF IInv, AppTypes, WorkerTypes, Loops, Deliver, ThreadAt, ThreadLabels, appVars,
    mainVars, streamVars, historyVars, Worker, BoundAssumption
<1>3. (Held /\ OneHolder)'
  BY DEF IInv, Held, OneHolder, Deliver, ThreadAt, ThreadLabels, appVars, mainVars,
    streamVars, historyVars
<1>4. Block' /\ DrainsBeforeClosing'
  <2>1. UNCHANGED <<main, index, entered, timedOut>>
    BY DEF Deliver, ThreadAt, appVars, mainVars, historyVars
  <2>2. \A x \in Worker : IsAlive(x)' => IsAlive(x)
    BY DEF IInv, WorkerTypes, IsAlive, Deliver, ThreadAt
  <2> QED BY <2>1, <2>2, ThreadRunsOn
<1>5. Loops'
  BY DEF IInv, WorkerTypes, Loops, IsAlive, Deliver, ThreadAt, appVars,
    mainVars, streamVars, historyVars, Worker, ThreadLabels, BoundAssumption
<1> QED BY <1>1, <1>2, <1>3, <1>4, <1>5 DEF IInv

LEMMA CommitStep ==
  ASSUME WorkerAssumption, BoundAssumption, IInv, NEW w \in Worker, Commit(w)
  PROVE  IInv'
<1>1. AppTypes'
  BY DEF IInv, AppTypes, Commit, RunReturns, ThreadAt, ThreadLabels, Worker, appVars,
    mainVars, historyVars, WorkerAssumption, BoundAssumption
<1>2. WorkerTypes'
  <2>1. count[w] + 1 \in 0..MaxBatches /\ supply[w] - 1 \in 0..MaxBatches
    BY BoundAssumption DEF IInv, WorkerTypes, Loops, Commit
  <2>2. count' \in [Worker -> 0..MaxBatches] /\ supply' \in [Worker -> 0..MaxBatches]
    BY <2>1 DEF IInv, WorkerTypes, Commit
  <2>3. CASE RunReturns(w)
    <3>1. count'[w] \in 0..MaxBatches
      BY <2>2
    <3> QED
      BY <2>2, <2>3, <3>1 DEF IInv, WorkerTypes, Commit, RunReturns, historyVars, ThreadLabels
  <2>4. CASE ThreadAt(w, "top")
    BY <2>2, <2>4 DEF IInv, WorkerTypes, Commit, ThreadAt, historyVars, ThreadLabels
  <2> QED BY <2>3, <2>4 DEF Commit
<1>3. (Held /\ OneHolder)'
  BY DEF IInv, Held, OneHolder, Commit, RunReturns, ThreadAt, ThreadLabels, appVars,
    mainVars, historyVars
<1>4. Block' /\ DrainsBeforeClosing'
  <2>1. UNCHANGED <<main, index, entered, timedOut>>
    BY DEF Commit, RunReturns, ThreadAt, appVars, mainVars, historyVars
  <2>2. \A x \in Worker : IsAlive(x)' => IsAlive(x)
    BY DEF IInv, WorkerTypes, IsAlive, Commit, RunReturns, ThreadAt
  <2> QED BY <2>1, <2>2, ThreadRunsOn
<1>5. Loops'
  <2>1. count'[w] = count[w] + 1 /\ supply'[w] = supply[w] - 1
        /\ afterStop' = afterStop /\ stopEvent' = stopEvent /\ failed' = failed
    BY DEF IInv, WorkerTypes, Commit, RunReturns, ThreadAt, historyVars
  <2>2. \A x \in Worker \ {w} :
          /\ count'[x] = count[x] /\ supply'[x] = supply[x]
          /\ thread'[x] = thread[x]
    BY DEF IInv, WorkerTypes, Commit, RunReturns, ThreadAt
  <2>3. thread'[w] \in {"ended", "top"}
    <3>1. CASE RunReturns(w)
      BY <3>1 DEF IInv, WorkerTypes, RunReturns
    <3>2. CASE ThreadAt(w, "top")
      BY <3>2 DEF IInv, WorkerTypes, ThreadAt
    <3> QED BY <3>1, <3>2 DEF Commit
  <2>4. thread[w] = "commit"
    BY DEF Commit
  <2>5. count'[w] + supply'[w] = MaxBatches
    BY <2>1, BoundAssumption DEF IInv, WorkerTypes, Loops
  <2> QED BY <2>1, <2>2, <2>3, <2>4, <2>5 DEF IInv, Loops
<1> QED BY <1>1, <1>2, <1>3, <1>4, <1>5 DEF IInv

LEMMA WorkerFailsStep ==
  ASSUME WorkerAssumption, BoundAssumption, IInv, NEW w \in Worker, WorkerFails(w)
  PROVE  IInv'
<1>1. AppTypes'
  BY DEF IInv, AppTypes, WorkerFails, RunRaises, ThreadLabels, Worker, appVars, mainVars,
    streamVars, historyVars, WorkerAssumption, BoundAssumption
<1>2. WorkerTypes'
  BY DEF IInv, AppTypes, WorkerTypes, Loops, WorkerFails, RunRaises, ThreadLabels, appVars,
    mainVars, streamVars, historyVars, Worker, BoundAssumption
<1>3. (Held /\ OneHolder)'
  BY DEF IInv, Held, OneHolder, WorkerFails, RunRaises, ThreadLabels, appVars, mainVars,
    streamVars, historyVars
<1>4. Block' /\ DrainsBeforeClosing'
  <2>1. UNCHANGED <<main, index, entered, timedOut>>
    BY DEF WorkerFails, RunRaises, appVars, mainVars, historyVars
  <2>2. \A x \in Worker : IsAlive(x)' => IsAlive(x)
    BY DEF IInv, WorkerTypes, IsAlive, WorkerFails, RunRaises
  <2> QED BY <2>1, <2>2, ThreadRunsOn
<1>5. Loops'
  BY DEF IInv, WorkerTypes, Loops, IsAlive, WorkerFails, RunRaises, appVars,
    mainVars, streamVars, historyVars, Worker, ThreadLabels, BoundAssumption
<1> QED BY <1>1, <1>2, <1>3, <1>4, <1>5 DEF IInv

-----------------------------------------------------------------------------
LEMMA StutterStep == ASSUME IInv, UNCHANGED vars PROVE IInv'
BY DEF IInv, AppTypes, WorkerTypes, Held, OneHolder, Block, DrainsBeforeClosing, Loops,
       IsAlive, vars, appVars, mainVars, workerVars, streamVars, historyVars

LEMMA Initially == ASSUME WorkerAssumption, BoundAssumption, Init PROVE IInv
<1>1. AppTypes
  <2>1. index \in Worker
    BY OneWorker DEF Init
  <2>2. frames \in Seq(FrameLabels)
    BY DEF Init
  <2>3. events \in 0..MaxEvents
    BY BoundAssumption DEF Init
  <2> QED BY <2>1, <2>2, <2>3 DEF Init, AppTypes, MainLabels
<1>2. WorkerTypes
  <2>1. 0 \in 0..MaxBatches /\ MaxBatches \in 0..MaxBatches
    BY BoundAssumption
  <2> QED BY <2>1 DEF Init, WorkerTypes, ThreadLabels
<1>3. Held /\ OneHolder
  BY DEF Init, Held, OneHolder, LockedLabels
<1>4. Block
  BY DEF Init, Block, Worker, EndLabels
<1>5. DrainsBeforeClosing /\ Loops
  BY BoundAssumption DEF Init, DrainsBeforeClosing, Loops, IsAlive
<1> QED BY <1>1, <1>2, <1>3, <1>4, <1>5 DEF IInv

LEMMA Inductive == ASSUME WorkerAssumption, BoundAssumption, IInv, [Next]_vars PROVE IInv'
<1>1. ASSUME MainStep PROVE IInv'
  BY <1>1, EnterWorkerStep, EnterFailsStep, EnterAgainStep, RunStep, TakeLockStep,
     StartWorkerStep, SeesStoppingStep, SeesWorkersStep, StatsStep, ExitStep,
     CollectWorkersStep, StopWorkerStep, JoinWorkerStep, CloseWorkerStep, StopInterruptedStep
     DEF MainStep
<1>2. ASSUME HandlerStep PROVE IInv'
  BY <1>2, HandlerTakesLockStep, HandlerReleasesStep, HandlerStopsStep DEF HandlerStep
<1>3. ASSUME NEW w \in Worker, WorkerStep(w) PROVE IInv'
  BY <1>3, CheckStopStep, ListenReturnsRowsStep, ListenTimesOutStep, DeliverStep, CommitStep,
     WorkerFailsStep DEF WorkerStep
<1> QED
  BY <1>1, <1>2, <1>3, SignalStep, KeyboardInterruptStep, StutterStep DEF Next, Terminated

\* The inductive invariant holds in every reachable state.
THEOREM InvariantHolds == Spec => []IInv
<1>1. Init => IInv
  BY Initially, WorkerAssumption, BoundAssumption
<1>2. IInv /\ [Next]_vars => IInv'
  BY Inductive, WorkerAssumption, BoundAssumption
<1> QED BY <1>1, <1>2, PTL DEF Spec

\* Every variable keeps its type, and the lock is held by the main thread or by a
\* handler on top of it.
THEOREM TypeCorrect == Spec => []TypeOK
<1>1. IInv => TypeOK BY DEF IInv, AppTypes, WorkerTypes, Held, TypeOK
<1> QED BY <1>1, InvariantHolds, PTL

\* A consumer is closed under its running thread only after its join ran into the
\* deadline.
THEOREM DrainsBeforeClosingHolds == Spec => []DrainsBeforeClosing
<1>1. IInv => DrainsBeforeClosing BY DEF IInv
<1> QED BY <1>1, InvariantHolds, PTL

\* A worker delivers at most one batch after its stop was requested.
THEOREM OneBatchAfterStopHolds == Spec => []OneBatchAfterStop
<1>1. IInv => OneBatchAfterStop BY DEF IInv, Loops, OneBatchAfterStop
<1> QED BY <1>1, InvariantHolds, PTL

\* A block that was left has closed every consumer, whatever earlier entries left.
THEOREM LeftClosesAllHolds == Spec => []LeftClosesAll
<1>1. IInv => LeftClosesAll BY DEF IInv, Block, LeftClosesAll
<1> QED BY <1>1, InvariantHolds, PTL
-----------------------------------------------------------------------------
(* Each worker implements the loop of RunLoop.tla: a step of it takes, settles or *)
(* ends, a start or a stop is the host's, and all else is a stutter.              *)

LEMMA Unpromised ==
  ASSUME UNCHANGED <<thread, stopEvent, supply, afterStop>>
  PROVE  UNCHANGED Promise!vars
BY DEF Promise!vars

LEMMA PhaseMoves ==
  ASSUME IInv, NEW w \in Worker, NEW label \in ThreadLabels,
         thread' = [thread EXCEPT ![w] = label]
  PROVE  [x \in Worker |-> PhaseAt[thread'[x]]]
           = [[x \in Worker |-> PhaseAt[thread[x]]] EXCEPT ![w] = PhaseAt[label]]
<1>1. ASSUME NEW x \in Worker
      PROVE  PhaseAt[thread'[x]] = IF x = w THEN PhaseAt[label] ELSE PhaseAt[thread[x]]
  BY DEF IInv, WorkerTypes
<1> QED BY <1>1

LEMMA SamePhase ==
  ASSUME IInv, NEW w \in Worker, NEW label \in ThreadLabels,
         thread' = [thread EXCEPT ![w] = label],
         PhaseAt[label] = PhaseAt[thread[w]],
         UNCHANGED <<stopEvent, supply, afterStop>>
  PROVE  UNCHANGED Promise!vars
<1>1. ASSUME NEW x \in Worker PROVE PhaseAt[thread'[x]] = PhaseAt[thread[x]]
  BY DEF IInv, WorkerTypes
<1> QED BY <1>1 DEF Promise!vars

LEMMA Asked ==
  ASSUME stopEvent' \in [Worker -> BOOLEAN],
         \A w \in Worker : stopEvent[w] => stopEvent'[w],
         UNCHANGED <<thread, supply, afterStop>>
  PROVE  Promise!Next
<1>1. Promise!RequestStop
  BY DEF Promise!RequestStop
<1> QED BY <1>1 DEF Promise!Next

LEMMA Ended ==
  ASSUME IInv, NEW w \in Worker, thread[w] \notin {"none", "ended"},
         thread' = [thread EXCEPT ![w] = "ended"],
         UNCHANGED <<stopEvent, supply, afterStop>>
  PROVE  Promise!Next
<1>1. thread[w] \in {"top", "listening", "deliver", "commit"}
  BY DEF IInv, WorkerTypes, ThreadLabels
<1>2. Promise!End(w)
  <2>1. PhaseAt[thread[w]] \in {"looping", "holding"} /\ PhaseAt["ended"] = "ended"
    BY <1>1 DEF PhaseAt
  <2>2. "ended" \in ThreadLabels
    BY DEF ThreadLabels
  <2> QED BY <2>1, <2>2, PhaseMoves DEF Promise!End, Promise!Goto
<1> QED BY <1>2 DEF Promise!Next

LEMMA StartedOne ==
  ASSUME IInv, NEW w \in Worker, thread[w] = "none",
         thread' = [thread EXCEPT ![w] = "top"], stopEvent' = [stopEvent EXCEPT ![w] = FALSE],
         UNCHANGED <<supply, afterStop>>
  PROVE  Promise!Next
<1>1. PhaseAt[thread[w]] = "idle" /\ PhaseAt["top"] = "looping"
  BY DEF PhaseAt
<1>2. "top" \in ThreadLabels
  BY DEF ThreadLabels
<1>3. Promise!Start(w)
  BY <1>1, <1>2, PhaseMoves DEF Promise!Start, Promise!Goto
<1> QED BY <1>3 DEF Promise!Next

LEMMA Started == ASSUME WorkerAssumption, IInv, StartWorker PROVE [Promise!Next]_(Promise!vars)
<1>1. CASE thread[index] = "none"
  <2>1. PICK w \in Worker : w = index
    BY DEF IInv, AppTypes
  <2>2. /\ thread[w] = "none" /\ thread' = [thread EXCEPT ![w] = "top"]
        /\ stopEvent' = [stopEvent EXCEPT ![w] = FALSE]
        /\ UNCHANGED <<supply, afterStop>>
    BY <1>1, <2>1 DEF StartWorker, streamVars
  <2> QED BY <2>2, StartedOne
<1>2. CASE thread[index] # "none"
  BY <1>2, Unpromised DEF StartWorker, streamVars
<1> QED BY <1>1, <1>2

LEMMA Taken ==
  ASSUME IInv, NEW w \in Worker, ListenReturnsRows(w)
  PROVE  Promise!Next
<1>1. /\ thread[w] = "listening" /\ thread' = [thread EXCEPT ![w] = "deliver"]
      /\ UNCHANGED <<stopEvent, supply>>
  BY DEF ListenReturnsRows, ThreadAt
<1>2. afterStop[w] = 0
  BY <1>1 DEF IInv, Loops
<1>3. afterStop' = [afterStop EXCEPT ![w] = IF stopEvent[w] THEN @ + 1 ELSE @]
  BY DEF ListenReturnsRows
<1>4. Promise!Take(w)
  <2>1. PhaseAt[thread[w]] = "looping" /\ PhaseAt["deliver"] = "holding"
    BY <1>1 DEF PhaseAt
  <2>2. "deliver" \in ThreadLabels
    BY DEF ThreadLabels
  <2> QED BY <1>1, <1>2, <1>3, <2>1, <2>2, PhaseMoves DEF Promise!Take, Promise!Goto
<1> QED BY <1>4 DEF Promise!Next

LEMMA Settled ==
  ASSUME BoundAssumption, IInv, NEW w \in Worker, Commit(w)
  PROVE  Promise!Next
<1>1. PICK label \in {"top", "ended"} : thread' = [thread EXCEPT ![w] = label]
  BY DEF Commit, ThreadAt, RunReturns
<1>2. thread[w] = "commit" /\ UNCHANGED <<stopEvent, afterStop>>
  BY DEF Commit, ThreadAt, RunReturns
<1>3. /\ supply' = [supply EXCEPT ![w] = supply[w] - 1]
      /\ supply'[w] \in Nat /\ supply'[w] < supply[w]
  BY <1>2 DEF IInv, WorkerTypes, Loops, Commit
<1>4. Promise!Settle(w)
  <2>1. /\ PhaseAt[thread[w]] = "holding"
        /\ PhaseAt["top"] = "looping" /\ PhaseAt["ended"] = "ended"
    BY <1>2 DEF PhaseAt
  <2>2. label \in ThreadLabels
    BY DEF ThreadLabels
  <2>3. CASE label = "top"
    BY <1>1, <1>2, <1>3, <2>1, <2>2, <2>3, PhaseMoves DEF Promise!Settle, Promise!Goto
  <2>4. CASE label = "ended"
    BY <1>1, <1>2, <1>3, <2>1, <2>2, <2>4, PhaseMoves DEF Promise!Settle, Promise!Goto
  <2> QED BY <2>3, <2>4
<1> QED BY <1>4 DEF Promise!Next

LEMMA WorkerPromised ==
  ASSUME BoundAssumption, IInv, NEW w \in Worker, WorkerStep(w)
  PROVE  [Promise!Next]_(Promise!vars)
<1>1. ASSUME CheckStop(w) PROVE [Promise!Next]_(Promise!vars)
  <2>1. thread[w] = "top" /\ UNCHANGED <<stopEvent, supply, afterStop>>
    BY <1>1 DEF CheckStop, RunReturns, ThreadAt, streamVars
  <2>2. CASE RunReturns(w)
    BY <2>1, <2>2, Ended DEF RunReturns
  <2>3. CASE ThreadAt(w, "listening")
    <3>1. "listening" \in ThreadLabels /\ PhaseAt["listening"] = PhaseAt[thread[w]]
      BY <2>1 DEF PhaseAt, ThreadLabels
    <3> QED BY <2>1, <2>3, <3>1, SamePhase DEF ThreadAt
  <2> QED BY <1>1, <2>2, <2>3 DEF CheckStop
<1>2. ASSUME ListenTimesOut(w) PROVE [Promise!Next]_(Promise!vars)
  <2>1. thread[w] = "listening" /\ UNCHANGED <<stopEvent, supply, afterStop>>
    BY <1>2 DEF ListenTimesOut, RunReturns, ThreadAt, streamVars
  <2>2. CASE RunReturns(w)
    BY <2>1, <2>2, Ended DEF RunReturns
  <2>3. CASE ThreadAt(w, "top")
    <3>1. "top" \in ThreadLabels /\ PhaseAt["top"] = PhaseAt[thread[w]]
      BY <2>1 DEF PhaseAt, ThreadLabels
    <3> QED BY <2>1, <2>3, <3>1, SamePhase DEF ThreadAt
  <2> QED BY <1>2, <2>2, <2>3 DEF ListenTimesOut
<1>3. ASSUME Deliver(w) PROVE [Promise!Next]_(Promise!vars)
  <2>1. /\ thread[w] = "deliver" /\ thread' = [thread EXCEPT ![w] = "commit"]
        /\ UNCHANGED <<stopEvent, supply, afterStop>>
    BY <1>3 DEF Deliver, ThreadAt, streamVars
  <2>2. "commit" \in ThreadLabels /\ PhaseAt["commit"] = PhaseAt[thread[w]]
    BY <2>1 DEF PhaseAt, ThreadLabels
  <2> QED BY <2>1, <2>2, SamePhase
<1>4. ASSUME WorkerFails(w) PROVE [Promise!Next]_(Promise!vars)
  BY <1>4, Ended DEF WorkerFails, RunRaises, streamVars
<1> QED BY <1>1, <1>2, <1>3, <1>4, Taken, Settled DEF WorkerStep

LEMMA MainPromised ==
  ASSUME WorkerAssumption, IInv, MainStep
  PROVE  [Promise!Next]_(Promise!vars)
<1>1. ASSUME StopWorker PROVE Promise!Next
  <2>1. stopEvent' \in [Worker -> BOOLEAN] /\ \A w \in Worker : stopEvent[w] => stopEvent'[w]
    BY <1>1 DEF IInv, WorkerTypes, StopWorker
  <2> QED BY <1>1, <2>1, Asked DEF StopWorker, streamVars
<1>2. ASSUME StopInterrupted PROVE Promise!Next
  BY <1>2, Asked DEF StopInterrupted, RequestStopAll, streamVars
<1>3. ASSUME EnterWorker \/ EnterFails \/ EnterAgain \/ Run \/ TakeLock
      PROVE  UNCHANGED Promise!vars
  BY <1>3, Unpromised DEF EnterWorker, EnterFails, EnterAgain, Run, TakeLock, workerVars,
     streamVars
<1>4. ASSUME SeesStopping \/ SeesWorkers \/ Stats \/ Exit \/ CollectWorkers
      PROVE  UNCHANGED Promise!vars
  BY <1>4, Unpromised DEF SeesStopping, SeesWorkers, Stats, Exit, CollectWorkers, workerVars,
     streamVars
<1>5. ASSUME JoinWorker \/ CloseWorker PROVE UNCHANGED Promise!vars
  BY <1>5, Unpromised DEF JoinWorker, CloseWorker, workerVars, streamVars
<1> QED BY <1>1, <1>2, <1>3, <1>4, <1>5, Started DEF MainStep

LEMMA SignalPromised ==
  ASSUME HandlerStep \/ Signal \/ KeyboardInterrupt
  PROVE  [Promise!Next]_(Promise!vars)
<1>1. ASSUME HandlerStops PROVE Promise!Next
  BY <1>1, Asked DEF HandlerStops, RequestStopAll, streamVars
<1>2. ASSUME HandlerTakesLock \/ HandlerReleases \/ Signal \/ KeyboardInterrupt
      PROVE  UNCHANGED Promise!vars
  BY <1>2, Unpromised DEF HandlerTakesLock, HandlerReleases, Signal, KeyboardInterrupt,
     workerVars, streamVars
<1> QED BY <1>1, <1>2 DEF HandlerStep

LEMMA PromisedInitially == ASSUME BoundAssumption, Init PROVE Promise!Init
BY DEF BoundAssumption, Init, PhaseAt, Promise!Init

\* The workers keep the promises of RunLoop.tla.
THEOREM ImplementsRunLoopHolds == Spec => ImplementsRunLoop
<1>1. Init => Promise!Init
  BY PromisedInitially, BoundAssumption
<1>2. IInv /\ [Next]_vars => [Promise!Next]_(Promise!vars)
  <2>1. ASSUME UNCHANGED vars PROVE UNCHANGED Promise!vars
    BY <2>1, Unpromised DEF vars, workerVars, streamVars
  <2> QED
    BY <2>1, MainPromised, SignalPromised, WorkerPromised, WorkerAssumption, BoundAssumption
       DEF Next, Terminated
<1> QED BY <1>1, <1>2, InvariantHolds, PTL DEF Spec, ImplementsRunLoop, Promise!Spec
-----------------------------------------------------------------------------
(* The stop of the workers, step by step.  That a worker takes its steps is the *)
(* fairness TLC assumes; that finitely many of them are left is proved here.    *)

\* __exit__ has asked the workers its loop has passed.
ExitStopsAll ==
  /\ main = "stopping" => \A w \in Worker : w < index => stopEvent[w]
  /\ main \in {"joining", "closing", "left"} =>
       \A w \in Worker : IsAlive(w) => stopEvent[w]

\* What a worker still does when no stop is asked for and run() is one-shot.
OneShotStepsLeft ==
  [top |-> 4, listening |-> 3, deliver |-> 2, commit |-> 1, ended |-> 0, none |-> 0]

\* A worker of a one-shot run never goes back to the top of its loop.
OneShotAdvances ==
  [][\A w \in Worker :
       ~infinite /\ IsAlive(w) =>
         \/ thread'[w] = thread[w]
         \/ OneShotStepsLeft[thread'[w]] < OneShotStepsLeft[thread[w]]]_vars

LEMMA ExitStopsAllInitially == Init => ExitStopsAll
BY DEF Init, ExitStopsAll

\* No step but the start of its thread withdraws the stop of a worker.
LEMMA StopWithdrawn ==
  ASSUME IInv, [Next]_vars, NEW w \in Worker, stopEvent[w], ~stopEvent'[w]
  PROVE  main = "starting" /\ thread[w] = "none"
<1>1. CASE StartWorker
  <2>1. thread[index] = "none" /\ stopEvent' = [stopEvent EXCEPT ![index] = FALSE]
    BY <1>1 DEF StartWorker
  <2>2. w = index
    BY <2>1 DEF IInv, WorkerTypes, AppTypes
  <2> QED BY <1>1, <2>1, <2>2 DEF StartWorker, MainAt
<1>2. CASE StopWorker
  BY <1>2 DEF StopWorker, IInv, WorkerTypes
<1>3. CASE StopInterrupted \/ HandlerStops
  BY <1>3 DEF StopInterrupted, HandlerStops, RequestStopAll
<1>4. ASSUME EnterWorker \/ EnterFails \/ EnterAgain \/ Run \/ TakeLock PROVE FALSE
  BY <1>4 DEF EnterWorker, EnterFails, EnterAgain, Run, TakeLock, workerVars
<1>5. ASSUME SeesStopping \/ SeesWorkers \/ Stats \/ Exit \/ CollectWorkers PROVE FALSE
  BY <1>5 DEF SeesStopping, SeesWorkers, Stats, Exit, CollectWorkers, workerVars
<1>6. ASSUME JoinWorker \/ CloseWorker PROVE FALSE
  BY <1>6 DEF JoinWorker, CloseWorker, workerVars
<1>7. ASSUME HandlerTakesLock \/ HandlerReleases \/ Signal \/ KeyboardInterrupt PROVE FALSE
  BY <1>7 DEF HandlerTakesLock, HandlerReleases, Signal, KeyboardInterrupt, workerVars
<1>8. ASSUME NEW x \in Worker, WorkerStep(x) PROVE FALSE
  BY <1>8 DEF WorkerStep, CheckStop, ListenReturnsRows, ListenTimesOut, Deliver, Commit,
     WorkerFails, RunReturns, RunRaises, ThreadAt
<1>9. ASSUME UNCHANGED vars PROVE FALSE
  BY <1>9 DEF vars, workerVars
<1> QED
  BY <1>1, <1>2, <1>3, <1>4, <1>5, <1>6, <1>7, <1>8, <1>9
     DEF Next, MainStep, HandlerStep, Terminated

\* A worker thread starts in the block of run() and nowhere else.
LEMMA ThreadStarts ==
  ASSUME IInv, [Next]_vars, NEW w \in Worker, ~IsAlive(w), IsAlive(w)'
  PROVE  main = "starting"
<1>1. CASE StartWorker
  BY <1>1 DEF StartWorker, MainAt
<1>2. ASSUME StopWorker \/ StopInterrupted \/ HandlerStops PROVE FALSE
  BY <1>2 DEF StopWorker, StopInterrupted, HandlerStops, IsAlive
<1>4. ASSUME EnterWorker \/ EnterFails \/ EnterAgain \/ Run \/ TakeLock PROVE FALSE
  BY <1>4 DEF EnterWorker, EnterFails, EnterAgain, Run, TakeLock, workerVars, IsAlive
<1>5. ASSUME SeesStopping \/ SeesWorkers \/ Stats \/ Exit \/ CollectWorkers PROVE FALSE
  BY <1>5 DEF SeesStopping, SeesWorkers, Stats, Exit, CollectWorkers, workerVars, IsAlive
<1>6. ASSUME JoinWorker \/ CloseWorker PROVE FALSE
  BY <1>6 DEF JoinWorker, CloseWorker, workerVars, IsAlive
<1>7. ASSUME HandlerTakesLock \/ HandlerReleases \/ Signal \/ KeyboardInterrupt PROVE FALSE
  BY <1>7 DEF HandlerTakesLock, HandlerReleases, Signal, KeyboardInterrupt, workerVars,
     IsAlive
<1>8. ASSUME NEW x \in Worker, WorkerStep(x) PROVE FALSE
  <2>1. thread[x] \notin {"none", "ended"} /\ \A y \in Worker : y # x => thread'[y] = thread[y]
    BY <1>8 DEF IInv, WorkerTypes, WorkerStep, CheckStop, ListenReturnsRows,
       ListenTimesOut, Deliver, Commit, WorkerFails, RunReturns, RunRaises, ThreadAt
  <2> QED BY <2>1 DEF IsAlive
<1>9. ASSUME UNCHANGED vars PROVE FALSE
  BY <1>9 DEF vars, workerVars, IsAlive
<1> QED
  BY <1>1, <1>2, <1>4, <1>5, <1>6, <1>7, <1>8, <1>9
     DEF Next, MainStep, HandlerStep, Terminated

\* The loops of __exit__ go from one worker to the next, and no other step enters them.
LEMMA ExitMoves ==
  ASSUME WorkerAssumption, IInv, [Next]_vars
  PROVE  \/ main' = main /\ index' = index
         \/ main' \notin {"stopping", "joining", "closing", "left"}
         \/ main = "collecting" /\ main' = "stopping" /\ index' = 1
         \/ StopWorker
         \/ JoinWorker \/ CloseWorker
<1>1. ASSUME EnterWorker \/ StartWorker
      PROVE  main' \notin {"stopping", "joining", "closing", "left"}
  <2>1. main \in {"entering", "starting"} /\ (main' = main \/ main' \in {"inside", "waiting"})
    BY <1>1 DEF EnterWorker, StartWorker, MainAt, LoopNext
  <2> QED BY <2>1
<1>2. ASSUME EnterFails \/ EnterAgain \/ Run \/ TakeLock
      PROVE  main' \notin {"stopping", "joining", "closing", "left"}
  BY <1>2 DEF EnterFails, EnterAgain, Run, TakeLock, Goto, LoopAt
<1>3. ASSUME SeesStopping \/ SeesWorkers \/ Stats \/ Exit \/ StopInterrupted
      PROVE  main' \notin {"stopping", "joining", "closing", "left"}
  BY <1>3 DEF SeesStopping, SeesWorkers, Stats, Exit, StopInterrupted, Goto
<1>4. ASSUME CollectWorkers
      PROVE  main = "collecting" /\ main' = "stopping" /\ index' = 1
  BY <1>4 DEF CollectWorkers, LoopAt, MainAt
<1>5. ASSUME HandlerStep \/ Signal PROVE main' = main /\ index' = index
  BY <1>5 DEF HandlerStep, HandlerTakesLock, HandlerReleases, HandlerStops, Signal
<1>6. ASSUME KeyboardInterrupt PROVE main' \notin {"stopping", "joining", "closing", "left"}
  BY <1>6 DEF KeyboardInterrupt, Goto
<1>7. ASSUME NEW x \in Worker, WorkerStep(x) PROVE main' = main /\ index' = index
  BY <1>7 DEF WorkerStep, CheckStop, ListenReturnsRows, ListenTimesOut, Deliver, Commit,
     WorkerFails, mainVars
<1>8. ASSUME UNCHANGED vars PROVE main' = main /\ index' = index
  BY <1>8 DEF vars, mainVars
<1> QED BY <1>1, <1>2, <1>3, <1>4, <1>5, <1>6, <1>7, <1>8 DEF Next, MainStep, Terminated

LEMMA ExitStopsAllStep ==
  ASSUME WorkerAssumption, IInv, ExitStopsAll, [Next]_vars
  PROVE  ExitStopsAll'
<1>1. CASE main' \in {"stopping", "joining", "closing", "left"}
  <2>1. main # "starting"
    BY <1>1, ExitMoves DEF StopWorker, JoinWorker, CloseWorker, MainAt
  <2>2. /\ \A w \in Worker : stopEvent[w] => stopEvent'[w]
        /\ \A w \in Worker : IsAlive(w)' => IsAlive(w)
    BY <2>1, StopWithdrawn, ThreadStarts
  <2>3. CASE main' = "stopping" /\ index' = 1
    BY <2>3 DEF ExitStopsAll, Worker
  <2>4. CASE StopWorker
    <3>1. \A w \in Worker : stopEvent'[w] <=> stopEvent[w] \/ w = index
      BY <2>4 DEF StopWorker, IInv, WorkerTypes, AppTypes
    <3>2. /\ main = "stopping"
          /\ \/ index < NumWorkers /\ index' = index + 1 /\ main' = main
             \/ index = NumWorkers /\ index' = 1 /\ main' = "joining"
      BY <2>4, LoopStep DEF StopWorker, MainAt, IInv, AppTypes
    <3>3. CASE index < NumWorkers /\ index' = index + 1 /\ main' = main
      <4>1. \A w \in Worker : w < index' => w < index \/ w = index
        BY <3>3 DEF Worker, IInv, AppTypes
      <4> QED BY <3>1, <3>2, <3>3, <4>1 DEF ExitStopsAll
    <3>4. CASE index = NumWorkers /\ index' = 1 /\ main' = "joining"
      <4>1. \A w \in Worker : w < index \/ w = index
        BY <3>4 DEF Worker, WorkerAssumption
      <4> QED BY <3>1, <3>2, <3>4, <4>1 DEF ExitStopsAll
    <3> QED BY <3>2, <3>3, <3>4
  <2>5. CASE JoinWorker \/ CloseWorker
    <3>1. main \in {"joining", "closing"} /\ main' \in {"joining", "closing", "left"}
      BY <2>5 DEF JoinWorker, CloseWorker, MainAt, LoopNext
    <3> QED BY <2>2, <3>1 DEF ExitStopsAll
  <2>6. CASE main' = main /\ index' = index
    BY <2>2, <2>6 DEF ExitStopsAll
  <2> QED BY <1>1, <2>3, <2>4, <2>5, <2>6, ExitMoves
<1>2. CASE main' \notin {"stopping", "joining", "closing", "left"}
  BY <1>2 DEF ExitStopsAll
<1> QED BY <1>1, <1>2

\* __exit__ asks every running worker before it joins the first, and no worker it
\* has asked is started again.
THEOREM ExitStopsAllHolds == Spec => []ExitStopsAll
<1>1. IInv /\ ExitStopsAll /\ [Next]_vars => ExitStopsAll'
  BY ExitStopsAllStep, WorkerAssumption
<1> QED BY <1>1, ExitStopsAllInitially, InvariantHolds, PTL DEF Spec

\* What a step does to the thread of a worker that runs.
LEMMA ThreadSteps ==
  ASSUME IInv, [Next]_vars, NEW w \in Worker, IsAlive(w)
  PROVE  \/ thread'[w] = thread[w]
         \/ thread'[w] = "ended"
         \/ thread[w] = "top" /\ thread'[w] = "listening" /\ ~stopEvent[w]
         \/ thread[w] = "listening" /\ thread'[w] = "deliver"
         \/ thread[w] = "listening" /\ thread'[w] = "top" /\ ~stopEvent[w] /\ infinite
         \/ thread[w] = "deliver" /\ thread'[w] = "commit"
         \/ thread[w] = "commit" /\ thread'[w] = "top" /\ infinite
<1>1. CASE StartWorker
  BY <1>1 DEF StartWorker, IInv, WorkerTypes, AppTypes, IsAlive
<1>2. ASSUME StopWorker \/ StopInterrupted \/ HandlerStops PROVE thread' = thread
  BY <1>2 DEF StopWorker, StopInterrupted, HandlerStops
<1>4. ASSUME EnterWorker \/ EnterFails \/ EnterAgain \/ Run \/ TakeLock PROVE thread' = thread
  BY <1>4 DEF EnterWorker, EnterFails, EnterAgain, Run, TakeLock, workerVars
<1>5. ASSUME SeesStopping \/ SeesWorkers \/ Stats \/ Exit \/ CollectWorkers
      PROVE  thread' = thread
  BY <1>5 DEF SeesStopping, SeesWorkers, Stats, Exit, CollectWorkers, workerVars
<1>6. ASSUME JoinWorker \/ CloseWorker PROVE thread' = thread
  BY <1>6 DEF JoinWorker, CloseWorker, workerVars
<1>7. ASSUME HandlerTakesLock \/ HandlerReleases \/ Signal \/ KeyboardInterrupt
      PROVE  thread' = thread
  BY <1>7 DEF HandlerTakesLock, HandlerReleases, Signal, KeyboardInterrupt, workerVars
<1>8. CASE \E x \in Worker : WorkerStep(x) /\ x # w
  BY <1>8 DEF IInv, WorkerTypes, WorkerStep, CheckStop, ListenReturnsRows,
     ListenTimesOut, Deliver, Commit, WorkerFails, RunReturns, RunRaises, ThreadAt
<1>9. CASE WorkerStep(w)
  BY <1>9 DEF IInv, WorkerTypes, WorkerStep, CheckStop, ListenReturnsRows,
     ListenTimesOut, Deliver, Commit, WorkerFails, RunReturns, RunRaises, ThreadAt
<1>10. ASSUME UNCHANGED vars PROVE thread' = thread
  BY <1>10 DEF vars, workerVars
<1> QED
  BY <1>1, <1>2, <1>4, <1>5, <1>6, <1>7, <1>8, <1>9, <1>10
     DEF Next, MainStep, HandlerStep, Terminated

\* A worker that was asked to stop is never let off, and at most four steps of its
\* loop are left to it, one batch among them.
THEOREM StopIsHeededHolds == Spec => StopIsHeeded
<1>1. ASSUME IInv, ExitStopsAll, [Next]_vars, NEW w \in Worker, IsAlive(w),
             stopEvent[w] \/ main \in {"joining", "closing", "left"}
      PROVE  /\ stopEvent'[w]
             /\ \/ thread'[w] = thread[w]
                \/ StepsLeft[thread'[w]] < StepsLeft[thread[w]]
  <2>1. stopEvent[w]
    BY <1>1 DEF ExitStopsAll
  <2>2. stopEvent'[w]
    <3>1. thread[w] # "none"
      BY <1>1 DEF IsAlive
    <3> QED BY <1>1, <2>1, <3>1, StopWithdrawn
  <2>3. \/ thread'[w] = thread[w]
        \/ thread[w] \in {"top", "listening", "deliver", "commit"} /\ thread'[w] = "ended"
        \/ thread[w] = "listening" /\ thread'[w] = "deliver"
        \/ thread[w] = "deliver" /\ thread'[w] = "commit"
        \/ thread[w] = "commit" /\ thread'[w] = "top"
    <3>1. thread[w] \in {"top", "listening", "deliver", "commit"}
      BY <1>1 DEF IInv, WorkerTypes, ThreadLabels, IsAlive
    <3> QED BY <1>1, <2>1, <3>1, ThreadSteps
  <2>4. /\ StepsLeft["listening"] = 4 /\ StepsLeft["deliver"] = 3 /\ StepsLeft["commit"] = 2
        /\ StepsLeft["top"] = 1 /\ StepsLeft["ended"] = 0
    BY DEF StepsLeft
  <2> QED BY <2>2, <2>3, <2>4
<1>2. IInv /\ ExitStopsAll /\ [Next]_vars =>
        [\A w \in Worker :
           IsAlive(w) /\ (stopEvent[w] \/ main \in {"joining", "closing", "left"}) =>
             /\ stopEvent'[w]
             /\ \/ thread'[w] = thread[w]
                \/ StepsLeft[thread'[w]] < StepsLeft[thread[w]]]_vars
  BY <1>1
<1> QED BY <1>2, InvariantHolds, ExitStopsAllHolds, PTL DEF Spec, StopIsHeeded

\* A worker of a one-shot run takes at most four steps of its loop, whether it is
\* asked to stop or not.
THEOREM OneShotAdvancesHolds == Spec => OneShotAdvances
<1>1. ASSUME IInv, [Next]_vars, NEW w \in Worker, ~infinite, IsAlive(w)
      PROVE  \/ thread'[w] = thread[w]
             \/ OneShotStepsLeft[thread'[w]] < OneShotStepsLeft[thread[w]]
  <2>1. \/ thread'[w] = thread[w]
        \/ thread[w] \in {"top", "listening", "deliver", "commit"} /\ thread'[w] = "ended"
        \/ thread[w] = "top" /\ thread'[w] = "listening"
        \/ thread[w] = "listening" /\ thread'[w] = "deliver"
        \/ thread[w] = "deliver" /\ thread'[w] = "commit"
    <3>1. thread[w] \in {"top", "listening", "deliver", "commit"}
      BY <1>1 DEF IInv, WorkerTypes, ThreadLabels, IsAlive
    <3> QED BY <1>1, <3>1, ThreadSteps
  <2>2. /\ OneShotStepsLeft["top"] = 4 /\ OneShotStepsLeft["listening"] = 3
        /\ OneShotStepsLeft["deliver"] = 2 /\ OneShotStepsLeft["commit"] = 1
        /\ OneShotStepsLeft["ended"] = 0
    BY DEF OneShotStepsLeft
  <2> QED BY <2>1, <2>2
<1>2. IInv /\ [Next]_vars =>
        [\A w \in Worker :
           ~infinite /\ IsAlive(w) =>
             \/ thread'[w] = thread[w]
             \/ OneShotStepsLeft[thread'[w]] < OneShotStepsLeft[thread[w]]]_vars
  BY <1>1
<1> QED BY <1>2, InvariantHolds, PTL DEF Spec, OneShotAdvances
-----------------------------------------------------------------------------
(* The lock and the signals.  Only a handler can wait for the lock for ever: when *)
(* it lands on a step that holds it.                                              *)

\* No signal lands where self._lock is held.
SignalsSpareLock == Interruptible \cap (LockedLabels \cup {"locked"}) = {}

\* A handler waits for the lock that a step below it on the same thread holds.
SelfDeadlock ==
  \E i \in DOMAIN frames :
    /\ frames[i] = "acquire"
    /\ \/ main \in LockedLabels
       \/ \E j \in DOMAIN frames : i < j /\ frames[j] = "locked"

\* What a handler interrupts does not hold the lock, and only the one on top takes it.
InterruptedFree ==
  /\ frames # <<>> => main \notin LockedLabels
  /\ \A i \in DOMAIN frames : frames[i] = "locked" => i = 1

\* Every step of the main thread or of a handler that needs the lock finds it free.
LockFree ==
  /\ frames = <<>> /\ main \in {"run", "polling", "stats", "locking", "interrupted"} => ~lock
  /\ frames # <<>> /\ Head(frames) = "acquire" => ~lock

\* The main thread stands still for ever.
MainStuck == [][SelfDeadlock => SelfDeadlock' /\ main' = main /\ index' = index]_vars

\* What a step does to the frames.
LEMMA FrameSteps ==
  ASSUME [Next]_vars
  PROVE  \/ frames' = frames /\ main' = main /\ index' = index
         \/ frames = <<>> /\ frames' = <<>>
         \/ Signal \/ HandlerTakesLock \/ HandlerReleases \/ HandlerStops
<1>1. ASSUME EnterWorker \/ EnterFails \/ EnterAgain \/ Run \/ TakeLock \/ StartWorker
      PROVE  frames = <<>> /\ frames' = <<>>
  BY <1>1 DEF EnterWorker, EnterFails, EnterAgain, Run, TakeLock, StartWorker, MainAt, Goto,
     LoopAt, LoopNext
<1>2. ASSUME SeesStopping \/ SeesWorkers \/ Stats \/ Exit \/ StopInterrupted
      PROVE  frames = <<>> /\ frames' = <<>>
  BY <1>2 DEF SeesStopping, SeesWorkers, Stats, Exit, StopInterrupted, MainAt, Goto
<1>3. ASSUME CollectWorkers \/ StopWorker \/ JoinWorker \/ CloseWorker \/ KeyboardInterrupt
      PROVE  frames = <<>> /\ frames' = <<>>
  BY <1>3 DEF CollectWorkers, StopWorker, JoinWorker, CloseWorker, KeyboardInterrupt, MainAt,
     Goto, LoopAt, LoopNext
<1>4. ASSUME NEW x \in Worker, WorkerStep(x)
      PROVE  frames' = frames /\ main' = main /\ index' = index
  BY <1>4 DEF WorkerStep, CheckStop, ListenReturnsRows, ListenTimesOut, Deliver, Commit,
     WorkerFails, mainVars
<1>5. ASSUME UNCHANGED vars PROVE frames' = frames /\ main' = main /\ index' = index
  BY <1>5 DEF vars, mainVars
<1> QED BY <1>1, <1>2, <1>3, <1>4, <1>5 DEF Next, MainStep, HandlerStep, Terminated

\* The frames of a handler's own step, cell by cell.
LEMMA FrameCells ==
  ASSUME IInv
  PROVE  /\ Signal =>
              /\ main' = main /\ DOMAIN frames' = 1..(Len(frames) + 1) /\ frames'[1] = "acquire"
              /\ \A i \in DOMAIN frames : frames'[i + 1] = frames[i]
         /\ HandlerTakesLock \/ HandlerReleases =>
              /\ main' = main /\ DOMAIN frames' = DOMAIN frames /\ 1 \in DOMAIN frames
              /\ frames'[1] = IF HandlerTakesLock THEN "locked" ELSE "stop"
              /\ \A i \in DOMAIN frames : i # 1 => frames'[i] = frames[i]
         /\ HandlerStops =>
              /\ main' = main /\ DOMAIN frames = 1..(Len(frames') + 1)
              /\ frames' \in Seq(FrameLabels) /\ frames[1] = "stop"
              /\ \A i \in DOMAIN frames' : frames'[i] = frames[i + 1]
<1> USE DEF IInv, AppTypes
<1>1. ASSUME Signal
      PROVE  /\ main' = main /\ DOMAIN frames' = 1..(Len(frames) + 1) /\ frames'[1] = "acquire"
             /\ \A i \in DOMAIN frames : frames'[i + 1] = frames[i]
  BY <1>1, Pushed DEF Signal, FrameLabels
<1>2. ASSUME HandlerTakesLock \/ HandlerReleases
      PROVE  /\ main' = main /\ DOMAIN frames' = DOMAIN frames /\ 1 \in DOMAIN frames
             /\ frames'[1] = IF HandlerTakesLock THEN "locked" ELSE "stop"
             /\ \A i \in DOMAIN frames : i # 1 => frames'[i] = frames[i]
  <2>1. CASE HandlerTakesLock
    BY <2>1, HeadReplaced DEF HandlerTakesLock, FrameLabels
  <2>2. CASE HandlerReleases
    <3>1. ~HandlerTakesLock
      BY <2>2 DEF HandlerTakesLock, HandlerReleases
    <3> QED BY <2>2, <3>1, HeadReplaced DEF HandlerReleases, FrameLabels
  <2> QED BY <1>2, <2>1, <2>2
<1>3. ASSUME HandlerStops
      PROVE  /\ main' = main /\ DOMAIN frames = 1..(Len(frames') + 1)
             /\ frames' \in Seq(FrameLabels) /\ frames[1] = "stop"
             /\ \A i \in DOMAIN frames' : frames'[i] = frames[i + 1]
  BY <1>3, Popped DEF HandlerStops
<1> QED BY <1>1, <1>2, <1>3

LEMMA InterruptedFreeStep ==
  ASSUME IInv, SignalsSpareLock, InterruptedFree, [Next]_vars
  PROVE  InterruptedFree'
<1>1. CASE frames' = frames /\ main' = main
  BY <1>1 DEF InterruptedFree
<1>2. CASE frames' = <<>>
  BY <1>2 DEF InterruptedFree
<1>3. CASE Signal
  <2>1. main \notin LockedLabels
    BY <1>3 DEF Signal, Interrupted, SignalsSpareLock, InterruptedFree
  <2>2. ASSUME NEW i \in DOMAIN frames PROVE frames[i] # "locked"
    <3>1. frames # <<>> /\ Head(frames) = frames[1]
      BY <2>2 DEF IInv, AppTypes
    <3>2. frames[1] # "locked"
      BY <1>3, <3>1 DEF Signal, Interrupted, SignalsSpareLock
    <3> QED BY <3>2 DEF InterruptedFree
  <2>3. ASSUME NEW i \in DOMAIN frames' PROVE frames'[i] # "locked"
    <3>1. i = 1 \/ (i - 1 \in DOMAIN frames /\ i = (i - 1) + 1)
      BY <1>3, <2>3, FrameCells DEF IInv, AppTypes
    <3> QED BY <1>3, <2>2, <3>1, FrameCells
  <2> QED BY <1>3, <2>1, <2>3, FrameCells DEF InterruptedFree
<1>4. CASE HandlerTakesLock \/ HandlerReleases
  <2>1. frames # <<>>
    BY <1>4 DEF HandlerTakesLock, HandlerReleases
  <2> QED BY <1>4, <2>1, FrameCells DEF InterruptedFree
<1>5. CASE HandlerStops
  <2>1. frames # <<>>
    BY <1>5 DEF HandlerStops
  <2>2. ASSUME NEW i \in DOMAIN frames' PROVE frames'[i] # "locked"
    <3>1. i + 1 \in DOMAIN frames /\ i + 1 # 1 /\ frames'[i] = frames[i + 1]
      BY <1>5, <2>2, FrameCells
    <3> QED BY <3>1 DEF InterruptedFree
  <2> QED BY <1>5, <2>1, <2>2, FrameCells DEF InterruptedFree
<1> QED BY <1>1, <1>2, <1>3, <1>4, <1>5, FrameSteps

\* If no signal lands where the lock is held, every step that takes it can: neither
\* the main thread nor a handler ever waits for the lock.
THEOREM LockFreeHolds ==
  ASSUME SignalsSpareLock
  PROVE  Spec => []LockFree
<1>1. Init => InterruptedFree
  BY DEF Init, InterruptedFree
<1>2. IInv /\ InterruptedFree /\ [Next]_vars => InterruptedFree'
  BY SignalsSpareLock, InterruptedFreeStep
<1>3. IInv /\ InterruptedFree => LockFree
  <2> SUFFICES ASSUME IInv, InterruptedFree PROVE LockFree
    OBVIOUS
  <2>1. CASE frames = <<>>
    BY <2>1 DEF LockFree, IInv, Held, LockedLabels
  <2>2. CASE frames # <<>> /\ Head(frames) = "acquire"
    <3>1. \A i \in DOMAIN frames : frames[i] # "locked"
      BY <2>2 DEF InterruptedFree, IInv, AppTypes
    <3> QED BY <2>2, <3>1 DEF LockFree, InterruptedFree, IInv, Held
  <2> QED BY <2>1, <2>2 DEF LockFree
<1> QED BY <1>1, <1>2, <1>3, InvariantHolds, PTL DEF Spec

\* A handler that waits for a lock its own thread holds waits for ever, and the main
\* thread under it with it: run() never returns.
THEOREM MainStuckHolds == Spec => MainStuck
<1>1. ASSUME IInv, [Next]_vars, SelfDeadlock
      PROVE  SelfDeadlock' /\ main' = main /\ index' = index
  <2>1. PICK i \in DOMAIN frames :
          /\ frames[i] = "acquire"
          /\ \/ main \in LockedLabels
             \/ \E j \in DOMAIN frames : i < j /\ frames[j] = "locked"
    BY <1>1 DEF SelfDeadlock
  <2>2. lock /\ frames # <<>>
    BY <1>1, <2>1 DEF IInv, Held
  <2>3. ~HandlerTakesLock
    BY <2>2 DEF HandlerTakesLock, Acquire
  <2>4. CASE frames' = frames /\ main' = main /\ index' = index
    BY <1>1, <2>4 DEF SelfDeadlock
  <2>5. CASE Signal
    <3>1. i + 1 \in DOMAIN frames' /\ frames'[i + 1] = "acquire"
      BY <1>1, <2>1, <2>5, FrameCells DEF IInv, AppTypes
    <3>2. ASSUME NEW j \in DOMAIN frames, i < j, frames[j] = "locked"
          PROVE  j + 1 \in DOMAIN frames' /\ i + 1 < j + 1 /\ frames'[j + 1] = "locked"
      BY <1>1, <2>5, <3>2, FrameCells DEF IInv, AppTypes
    <3> QED BY <1>1, <2>1, <2>5, <3>1, <3>2, FrameCells DEF SelfDeadlock, Signal
  <2>6. CASE HandlerReleases
    <3>1. frames[1] = "locked"
      BY <1>1, <2>6 DEF HandlerReleases, IInv, AppTypes
    <3>2. 1 \in DOMAIN frames
      BY <1>1, <2>6, FrameCells
    <3> QED BY <1>1, <2>1, <3>1, <3>2 DEF IInv, OneHolder, AppTypes
  <2>7. CASE HandlerStops
    <3>1. i # 1 /\ i - 1 \in DOMAIN frames' /\ frames'[i - 1] = "acquire"
      BY <1>1, <2>1, <2>7, FrameCells DEF IInv, AppTypes
    <3>2. ASSUME NEW j \in DOMAIN frames, i < j, frames[j] = "locked"
          PROVE  j - 1 \in DOMAIN frames' /\ i - 1 < j - 1 /\ frames'[j - 1] = "locked"
      BY <1>1, <2>1, <2>7, <3>2, FrameCells DEF IInv, AppTypes
    <3> QED BY <1>1, <2>1, <2>7, <3>1, <3>2, FrameCells DEF SelfDeadlock, HandlerStops
  <2> QED BY <1>1, <2>2, <2>3, <2>4, <2>5, <2>6, <2>7, FrameSteps
<1>2. IInv /\ [Next]_vars =>
        [SelfDeadlock => SelfDeadlock' /\ main' = main /\ index' = index]_vars
  BY <1>1
<1> QED BY <1>2, InvariantHolds, PTL DEF Spec, MainStuck
-----------------------------------------------------------------------------
(* What RunLoop.tla promises is kept by its implementation. *)

Kept == INSTANCE RunLoopProofs WITH
  Loop <- Worker,
  phase <- [w \in Worker |-> PhaseAt[thread[w]]],
  stop <- stopEvent,
  behind <- supply,
  late <- afterStop

\* The workers implement RunLoop.tla, so all that follows from it holds of them.
LEMMA KeptHolds == Spec => Kept!Spec
BY ImplementsRunLoopHolds, PTL
   DEF ImplementsRunLoop, Promise!Spec, Kept!Spec, Promise!Init, Kept!Init, Promise!Next,
      Kept!Next, Promise!vars, Kept!vars, Promise!Goto, Kept!Goto, Promise!Start,
      Kept!Start, Promise!Take, Kept!Take, Promise!Settle, Kept!Settle, Promise!End,
      Kept!End, Promise!RequestStop, Kept!RequestStop, Promise!Grow, Kept!Grow

\* A worker's cursor moves by the batch it holds and by nothing else: inherited from
\* RunLoop.tla.
THEOREM MovesBySettlingHolds == Spec => Kept!MovesBySettling
BY KeptHolds, Kept!MovesBySettlingHolds, PTL

\* After its late batch a worker only ends, and no worker starts twice: inherited
\* from RunLoop.tla.
THEOREM StopsForGoodHolds == Spec => Kept!StopsForGood
BY KeptHolds, Kept!StopsForGoodHolds, PTL
=============================================================================
