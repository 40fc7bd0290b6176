---------------------------- MODULE BatchLoopProofs ----------------------------
(***************************************************************************)
(* Proofs about BatchLoop.tla, for any calls of batches(), any first       *)
(* window and any length of the stream.                                    *)
(*                                                                         *)
(* The argument: a listen returns the rows of a window with no row before  *)
(* it, and WindowHoldsRows keeps the batch within that window, so the      *)
(* batch is a prefix of what lies after the cursor; later snapshots lie    *)
(* beyond it.  A drain returns after an empty listen, and nothing is       *)
(* produced after drain_event: one that was set when that listen came back *)
(* leaves nothing, one set later says nothing of it.  A stop is seen       *)
(* before the next listen, so only the listen it interrupted can still     *)
(* return a batch.                                                         *)
(***************************************************************************)
EXTENDS BatchLoop, BatchWindowProofs

\* The batch in hand is a prefix of the stream, and leaves none when there is none.
InHand ==
  /\ BatchIsPrefix
  /\ pc # "yielded" => batch = NoBatch

\* How the loop ends.
Ends ==
  /\ pc = "returned" <=> reason # "none"
  /\ pc # "returned" =>
       yielded = 0 \/ yielded < arg.maxBatches
  /\ drain => ~producing
  /\ reason = "drain" => drain

\* Between an empty listen and the exit it leads to: a drain_event that was set when
\* the listen came back found the stream without rows, and none came since.
Emptied == pc \in {"emptied", "idling"} /\ drainSeen => drain /\ touched = {}

\* A batch after the stop was the listen's that the stop met.
LateOnce ==
  late = 0 \/ (late = 1 /\ stop /\ pc \in {"top", "yielded", "returned"})

IInv == TypeOK /\ InHand /\ Ends /\ Emptied /\ DrainCatchesUp /\ LateOnce
-----------------------------------------------------------------------------

LEMMA Argument ==
  ASSUME ArgumentAssumption, arg \in Arguments
  PROVE  /\ arg.maxSnapshots \in Nat /\ arg.maxBatches \in Nat
         /\ arg.adaptive \in BOOLEAN /\ arg.infinite \in BOOLEAN
         /\ Ceiling \in Nat \ {0}
BY DEF ArgumentAssumption, ArgumentType, Ceiling, Larger

\* What a listen returns makes a batch that is a prefix of the stream.
LEMMA ListenedPrefix ==
  ASSUME IInv, NEW rows \in ListenRows
  PROVE  LET b == BuildBatch(rows) IN
           /\ b \in [start : 1..backlog, end : 1..backlog, snapshots : SUBSET (1..backlog)]
           /\ b.snapshots # {} /\ b.snapshots = touched \cap 1..b.end
           /\ \A k \in b.snapshots : b.start <= k
<1> DEFINE b == BuildBatch(rows)
<1>1. backlog \in Nat /\ touched \subseteq 1..backlog
  BY DEF IInv, TypeOK
<1>2. PICK first \in 1..backlog, last \in 1..backlog, columns \in SUBSET {"start", "end"} :
        /\ touched \cap 1..(first - 1) = {} /\ touched \cap first..last # {}
        /\ rows = { [ snapshot |-> k,
                      start |-> IF "start" \in columns THEN first ELSE NoColumn,
                      end |-> IF "end" \in columns THEN last ELSE NoColumn ] :
                    k \in touched \cap first..last }
  BY DEF ListenRows
<1> DEFINE RowAt(k) == [ snapshot |-> k,
                         start |-> IF "start" \in columns THEN first ELSE NoColumn,
                         end |-> IF "end" \in columns THEN last ELSE NoColumn ]
<1>3. \A k \in touched \cap first..last :
        /\ RowAt(k) \in Row /\ RowAt(k).snapshot = k
        /\ RowAt(k).start \in {NoColumn, first} /\ RowAt(k).end \in {NoColumn, last}
  BY <1>1 DEF Row, NoColumn
<1>4. rows = {RowAt(k) : k \in touched \cap first..last}
  BY <1>2
<1> HIDE DEF RowAt
<1>5. b.snapshots = touched \cap first..last
  <2>1. b.snapshots = {row.snapshot : row \in rows}
    BY DEF BuildBatch
  <2> QED BY <1>3, <1>4, <2>1
<1>6. RowsOfWindow(rows, first, last)
  <2>1. rows \subseteq Row /\ rows # {}
    BY <1>2, <1>3, <1>4
  <2>2. \A row \in rows : /\ row.snapshot \in first..last
                          /\ row.start \in {NoColumn, first}
                          /\ row.end \in {NoColumn, last}
    BY <1>3, <1>4
  <2> QED BY <2>1, <2>2 DEF RowsOfWindow
<1>7. /\ b.start \in first..last /\ b.end \in first..last
       /\ b.snapshots # {}
       /\ \A k \in b.snapshots : b.start <= k /\ k <= b.end
  <2>1. first \in Nat /\ last \in Nat
    BY <1>1
  <2> QED BY <1>6, <2>1, WindowHoldsRows
<1>8. b = [start |-> b.start, end |-> b.end, snapshots |-> b.snapshots]
  BY DEF BuildBatch
<1> HIDE DEF b
<1>9. ASSUME NEW k \in touched
      PROVE  k \in first..last <=> k \in 1..b.end
  <2>1. k \in 1..backlog /\ k \notin 1..(first - 1)
    BY <1>1, <1>2
  <2>2. k \in first..last => k <= b.end
    BY <1>7, <1>5
  <2> QED BY <1>1, <1>7, <2>1, <2>2
<1>10. b.snapshots = touched \cap 1..b.end
  BY <1>5, <1>9
<1>11. b.start \in 1..backlog /\ b.end \in 1..backlog /\ b.snapshots \subseteq 1..backlog
  BY <1>1, <1>7, <1>5
<1> QED BY <1>7, <1>8, <1>10, <1>11 DEF b

LEMMA WindowStays ==
  ASSUME ArgumentAssumption, BoundAssumption, IInv, NEW n \in Int, NEW p \in Paces
  PROVE  ObserveBatch(n, p) \in 1..Ceiling /\ Halved \in 1..Ceiling
<1>1. Ceiling \in Nat \ {0} /\ window \in 1..Ceiling
  BY Argument DEF IInv, TypeOK
<1> HIDE DEF Ceiling
<1>2. Halved \in 1..Ceiling
  BY <1>1 DEF Halved, Larger
<1>3. Smaller(Ceiling, Larger(window + 1, window * 2)) \in 1..Ceiling
  BY <1>1 DEF Smaller, Larger
<1> QED BY <1>1, <1>2, <1>3 DEF ObserveBatch
-----------------------------------------------------------------------------
(* One lemma per action. *)

LEMMA CheckStopStep == ASSUME IInv, CheckStop PROVE IInv'
BY DEF IInv, TypeOK, InHand, BatchIsPrefix, Ends, Emptied, DrainCatchesUp, LateOnce, CheckStop, Return,
       Goto, Labels, Reasons, events, stream, history, Ceiling

LEMMA ListenReturnsRowsStep ==
  ASSUME ArgumentAssumption, BoundAssumption, IInv, ListenReturnsRows
  PROVE  IInv'
<1>1. PICK rows \in ListenRows, p \in Paces :
        /\ batch' = BuildBatch(rows) /\ pace' = p
        /\ filled' = (Span(batch') >= ListenMax)
        /\ window' = IF arg.adaptive THEN ObserveBatch(Span(batch'), p) ELSE window
  BY DEF ListenReturnsRows
<1>2. /\ batch' \in [start : 1..backlog, end : 1..backlog, snapshots : SUBSET (1..backlog)]
      /\ batch'.snapshots # {} /\ batch'.snapshots = touched \cap 1..batch'.end
      /\ \A k \in batch'.snapshots : batch'.start <= k
  BY <1>1, ListenedPrefix
<1>3. Span(batch') \in Int
  <2>1. batch'.end - batch'.start + 1 \in Int
    BY <1>2
  <2> QED BY <2>1 DEF Span, Max
<1>4. window' \in 1..Ceiling
  BY <1>1, <1>3, WindowStays DEF IInv, TypeOK
<1>5. TypeOK'
  BY <1>1, <1>2, <1>4, BoundAssumption DEF IInv, TypeOK, ListenReturnsRows, Goto, Labels,
     events, stream, Ceiling
<1>6. InHand'
  BY <1>2 DEF InHand, BatchIsPrefix, ListenReturnsRows, Goto, stream
<1>7. (Ends /\ Emptied /\ DrainCatchesUp /\ LateOnce)'
  BY DEF IInv, Ends, Emptied, DrainCatchesUp, LateOnce, ListenReturnsRows, Goto, events, stream
<1> QED BY <1>5, <1>6, <1>7 DEF IInv

LEMMA ListenIsEmptyStep ==
  ASSUME ArgumentAssumption, BoundAssumption, IInv, ListenIsEmpty
  PROVE  IInv'
<1>1. Tick(quiet, 1) \in 0..MaxIdle
  BY BoundAssumption DEF IInv, TypeOK, Tick, Smaller
<1>2. window' \in 1..Ceiling
  BY WindowStays DEF IInv, TypeOK, ListenIsEmpty, Paces
<1>3. TypeOK'
  BY <1>1, <1>2 DEF IInv, TypeOK, ListenIsEmpty, Goto, Labels, events, stream, Ceiling
<1>4. InHand'
  BY DEF IInv, InHand, BatchIsPrefix, ListenIsEmpty, Goto, stream
<1>5. Emptied'
  BY DEF Emptied, ListenIsEmpty, events, stream
<1>6. (Ends /\ DrainCatchesUp)'
  BY DEF IInv, Ends, DrainCatchesUp, ListenIsEmpty, Goto, events, stream
<1>7. LateOnce'
  BY DEF IInv, LateOnce, ListenIsEmpty, events
<1> QED BY <1>3, <1>4, <1>5, <1>6, <1>7 DEF IInv

LEMMA CheckEmptiedStep == ASSUME IInv, CheckEmptied PROVE IInv'
<1>1. PICK why \in {"none", "stop", "once"} :
        IF why = "none" THEN Goto("idling") ELSE Return(why)
  BY DEF CheckEmptied
<1>2. TypeOK'
  BY <1>1 DEF IInv, TypeOK, CheckEmptied, Goto, Return, Labels, Reasons, events, stream,
     history, Ceiling
<1>3. InHand'
  BY <1>1 DEF IInv, InHand, BatchIsPrefix, CheckEmptied, Goto, Return, stream
<1>4. (Ends /\ Emptied /\ DrainCatchesUp /\ LateOnce)'
  BY <1>1 DEF IInv, Ends, Emptied, DrainCatchesUp, LateOnce, CheckEmptied, Goto, Return,
     events, stream, history
<1> QED BY <1>2, <1>3, <1>4 DEF IInv

LEMMA CheckIdleStep ==
  ASSUME BoundAssumption, IInv, CheckIdle
  PROVE  IInv'
<1>1. idle' \in 0..MaxIdle
  BY BoundAssumption DEF IInv, TypeOK, CheckIdle, Tick, Smaller
<1>2. PICK why \in {"none", "drain", "idle"} :
        /\ why = IdleExit(idle')
        /\ IF why = "none" THEN Goto("top") ELSE Return(why)
  BY DEF CheckIdle, IdleExit
<1>3. TypeOK'
  BY <1>1, <1>2 DEF IInv, TypeOK, CheckIdle, Goto, Return, Labels, Reasons, events, stream,
     history, Ceiling
<1>4. InHand'
  BY <1>2 DEF IInv, InHand, BatchIsPrefix, CheckIdle, Goto, Return, stream
<1>5. why = "drain" => drain
  BY <1>2 DEF IdleExit
<1>6. (Ends /\ Emptied /\ DrainCatchesUp /\ LateOnce)'
  BY <1>2, <1>5 DEF IInv, Ends, Emptied, DrainCatchesUp, LateOnce, CheckIdle, Goto, Return,
     events, stream, history
<1> QED BY <1>3, <1>4, <1>6 DEF IInv

LEMMA ResumeStep ==
  ASSUME ArgumentAssumption, BoundAssumption, IInv, Resume
  PROVE  /\ IInv'
         /\ backlog' < backlog
         /\ pc' \in {"top", "returned"}
<1>1. /\ batch.start \in 0..backlog /\ batch.end \in 1..backlog /\ batch.snapshots # {}
      /\ backlog \in 0..MaxBacklog /\ touched \subseteq 1..backlog
  BY DEF IInv, TypeOK, InHand, BatchIsPrefix, Resume
<1>2. backlog' \in 0..MaxBacklog /\ backlog' < backlog
  BY <1>1, BoundAssumption DEF Resume
<1>3. touched' \subseteq 1..backlog'
  <2>1. ASSUME NEW t \in touched, t > batch.end PROVE t - batch.end \in 1..backlog'
    BY <1>1, <2>1 DEF Resume
  <2> QED BY <2>1 DEF Resume
<1>4. idle' \in 0..MaxIdle
  BY BoundAssumption DEF IInv, TypeOK, Resume, Tick, Smaller
<1>5. /\ yielded' \in 0..arg.maxBatches
      /\ pc' # "returned" => yielded' = 0 \/ yielded' < arg.maxBatches
      /\ pc' \in {"top", "returned"}
      /\ reason' \in {"none", "once", "max_batches"}
      /\ pc' = "returned" <=> reason' # "none"
  <2>1. arg.maxBatches \in Nat /\ arg.infinite \in BOOLEAN
    BY Argument DEF IInv, TypeOK
  <2>2. /\ yielded' \in 0..arg.maxBatches /\ yielded \in 0..arg.maxBatches
        /\ reason = "none"
    BY <2>1 DEF IInv, TypeOK, Ends, Resume
  <2>3. CASE ~arg.infinite
    BY <2>2, <2>3 DEF Resume, Return
  <2>4. CASE arg.infinite /\ arg.maxBatches > 0 /\ yielded' >= arg.maxBatches
    BY <2>2, <2>4 DEF Resume, Return
  <2>5. CASE arg.infinite /\ ~(arg.maxBatches > 0 /\ yielded' >= arg.maxBatches)
    BY <2>1, <2>2, <2>5 DEF Resume, Goto
  <2> QED BY <2>1, <2>3, <2>4, <2>5
<1>6. TypeOK'
  <2>1. NoBatch \in [start : 0..backlog', end : 0..backlog', snapshots : SUBSET (1..backlog')]
    BY <1>2 DEF NoBatch
  <2> QED
    BY <1>2, <1>3, <1>4, <1>5, <2>1 DEF IInv, TypeOK, Resume, events, history, Labels, Reasons,
       Ceiling
<1>7. InHand'
  BY <1>5 DEF InHand, BatchIsPrefix, Resume
<1>8. (Ends /\ Emptied /\ DrainCatchesUp /\ LateOnce)'
  BY <1>5 DEF IInv, Ends, Emptied, DrainCatchesUp, LateOnce, Resume, events, history
<1> QED BY <1>2, <1>5, <1>6, <1>7, <1>8 DEF IInv

LEMMA PublishStep == ASSUME BoundAssumption, IInv, Publish PROVE IInv'
<1>1. backlog \in Nat /\ backlog' = backlog + 1 /\ touched \subseteq 1..backlog
  BY DEF IInv, TypeOK, Publish
<1>2. 1..backlog \subseteq 1..backlog' /\ 0..backlog \subseteq 0..backlog'
  BY <1>1
<1>3. touched' \subseteq 1..backlog'
  BY <1>1, <1>2 DEF Publish
<1>4. batch' \in [start : 0..backlog', end : 0..backlog', snapshots : SUBSET (1..backlog')]
  <2>1. batch \in [start : 0..backlog, end : 0..backlog, snapshots : SUBSET (1..backlog)]
    BY DEF IInv, TypeOK
  <2> QED BY <1>1, <1>2, <2>1 DEF Publish, control
<1>5. TypeOK'
  BY <1>1, <1>3, <1>4, BoundAssumption DEF IInv, TypeOK, Publish, control, events, history,
     Ceiling
<1>6. InHand'
  <2>1. pc # "yielded" => batch' = NoBatch
    BY DEF IInv, InHand, Publish, control
  <2>2. CASE pc = "yielded"
    <3>1. batch.end \in 0..backlog /\ batch.snapshots = touched \cap 1..batch.end
      BY <2>2 DEF IInv, TypeOK, InHand, BatchIsPrefix
    <3>2. touched' \cap 1..batch.end = touched \cap 1..batch.end
      BY <1>1, <3>1 DEF Publish
    <3> QED BY <1>1, <2>2, <3>1, <3>2 DEF IInv, InHand, BatchIsPrefix, Publish, control
  <2> QED BY <2>1, <2>2 DEF InHand, BatchIsPrefix, Publish, control
<1>7. (Ends /\ Emptied /\ DrainCatchesUp /\ LateOnce)'
  BY DEF IInv, Ends, Emptied, DrainCatchesUp, LateOnce, Publish, control, events, history
<1> QED BY <1>5, <1>6, <1>7 DEF IInv

LEMMA ProducerStopsStep == ASSUME IInv, ProducerStops PROVE IInv'
BY DEF IInv, TypeOK, InHand, BatchIsPrefix, Ends, Emptied, DrainCatchesUp, LateOnce, ProducerStops,
       control, stream, history, Ceiling

LEMMA SetEventStep == ASSUME IInv, SetEvent PROVE IInv'
BY DEF IInv, TypeOK, InHand, BatchIsPrefix, Ends, Emptied, DrainCatchesUp, LateOnce, SetEvent,
       control, stream, history, Ceiling

LEMMA StutterStep == ASSUME IInv, UNCHANGED vars PROVE IInv'
BY DEF IInv, TypeOK, InHand, BatchIsPrefix, Ends, Emptied, DrainCatchesUp, LateOnce, vars, control,
       events, stream, history, Ceiling
-----------------------------------------------------------------------------
LEMMA Initially == ASSUME ArgumentAssumption, BoundAssumption, Init PROVE IInv
<1>1. /\ arg \in Arguments /\ Ceiling \in Nat \ {0} /\ arg.maxBatches \in Nat
  BY Argument DEF Init
<1>2. window \in 1..Ceiling
  BY <1>1, BoundAssumption DEF Init, Smaller
<1>3. TypeOK
  <2>1. NoBatch \in [start : 0..0, end : 0..0, snapshots : SUBSET (1..0)]
    BY DEF NoBatch
  <2>2. batch \in [start : 0..backlog, end : 0..backlog, snapshots : SUBSET (1..backlog)]
    BY <2>1 DEF Init
  <2>3. /\ idle \in 0..MaxIdle /\ quiet \in 0..MaxIdle /\ backlog \in 0..MaxBacklog
        /\ yielded \in 0..arg.maxBatches /\ touched \subseteq 1..backlog
    BY <1>1, BoundAssumption DEF Init
  <2> QED BY <1>1, <1>2, <2>2, <2>3 DEF Init, TypeOK, Labels, Reasons, Paces
<1>4. InHand /\ Ends /\ Emptied /\ DrainCatchesUp /\ LateOnce
  BY DEF Init, InHand, BatchIsPrefix, Ends, Emptied, DrainCatchesUp, LateOnce
<1> QED BY <1>3, <1>4 DEF IInv

LEMMA Inductive ==
  ASSUME ArgumentAssumption, BoundAssumption, IInv, [Next]_vars
  PROVE  IInv'
BY CheckStopStep, ListenReturnsRowsStep, ListenIsEmptyStep, CheckEmptiedStep, CheckIdleStep,
   ResumeStep, PublishStep, ProducerStopsStep, SetEventStep, StutterStep DEF Next, GeneratorStep, Terminated

\* The inductive invariant holds in every reachable state.
THEOREM InvariantHolds == Spec => []IInv
<1>1. Init => IInv
  BY Initially, ArgumentAssumption, BoundAssumption
<1>2. IInv /\ [Next]_vars => IInv'
  BY Inductive, ArgumentAssumption, BoundAssumption
<1> QED BY <1>1, <1>2, PTL DEF Spec

\* Every variable keeps its type; the window stays between 1 and its ceiling.
THEOREM TypeCorrect == Spec => []TypeOK
<1>1. IInv => TypeOK BY DEF IInv
<1> QED BY <1>1, InvariantHolds, PTL

\* A loop drained after a drain_event that its last listen had met has left nothing of
\* what was published.
THEOREM DrainCatchesUpHolds == Spec => []DrainCatchesUp
<1>1. IInv => DrainCatchesUp BY DEF IInv
<1> QED BY <1>1, InvariantHolds, PTL

\* A batch is exactly what lies between the cursor and its end.
THEOREM BatchIsPrefixHolds == Spec => []BatchIsPrefix
<1>1. IInv => BatchIsPrefix BY DEF IInv, InHand
<1> QED BY <1>1, InvariantHolds, PTL
-----------------------------------------------------------------------------
(* The loop implements RunLoop.tla: each step takes, settles, ends, asks to stop, *)
(* grows the stream, or is a stutter of the promise.                              *)

LEMMA PromisedInitially == ASSUME IInv, Init PROVE Promise!Init
BY DEF Init, Promise!Init

LEMMA CheckStopPromised ==
  ASSUME IInv, CheckStop
  PROVE  [Promise!Next]_(Promise!vars)
<1>1. CASE stop
  <2>1. pc = "top" /\ pc' = "returned"
    BY <1>1 DEF CheckStop, Return
  <2>2. Promise!End(1)
    BY <2>1 DEF CheckStop, events, stream, history, Promise!End, Promise!Goto
  <2> QED BY <2>2 DEF Promise!Next
<1>2. CASE ~stop
  <2>1. UNCHANGED Promise!vars
    BY <1>2 DEF CheckStop, Goto, events, stream, history, Promise!vars
  <2> QED BY <2>1
<1> QED BY <1>1, <1>2

LEMMA ListenReturnsRowsPromised ==
  ASSUME IInv, ListenReturnsRows
  PROVE  [Promise!Next]_(Promise!vars)
<1>1. pc = "listening" /\ pc' = "yielded" /\ (stop => late = 0)
  BY DEF IInv, LateOnce, ListenReturnsRows, Goto
<1>2. late' = IF stop THEN late + 1 ELSE late
  BY <1>1 DEF ListenReturnsRows
<1>3. Promise!Take(1)
  BY <1>1, <1>2 DEF ListenReturnsRows, events, stream, Promise!Take, Promise!Goto
<1> QED BY <1>3 DEF Promise!Next

\* What follows an empty listen goes on or ends.
LEMMA EmptyPromised ==
  ASSUME ListenIsEmpty \/ CheckEmptied \/ CheckIdle
  PROVE  [Promise!Next]_(Promise!vars)
<1>1. /\ pc \in {"listening", "emptied", "idling"}
      /\ pc' \in {"emptied", "idling", "top", "returned"}
      /\ UNCHANGED <<stop, backlog, late>>
  <2>1. CASE ListenIsEmpty
    BY <2>1 DEF ListenIsEmpty, Goto, events, stream
  <2>2. CASE CheckEmptied
    BY <2>2 DEF CheckEmptied, Goto, Return, events, stream, history
  <2>3. CASE CheckIdle
    BY <2>3 DEF CheckIdle, Goto, Return, events, stream, history
  <2> QED BY <2>1, <2>2, <2>3
<1>2. CASE pc' # "returned"
  <2>1. UNCHANGED Promise!vars
    BY <1>1, <1>2 DEF Promise!vars
  <2> QED BY <2>1
<1>3. CASE pc' = "returned"
  <2>1. Promise!End(1)
    BY <1>1, <1>3 DEF Promise!End, Promise!Goto
  <2> QED BY <2>1 DEF Promise!Next
<1> QED BY <1>2, <1>3

LEMMA ResumePromised ==
  ASSUME ArgumentAssumption, BoundAssumption, IInv, Resume
  PROVE  [Promise!Next]_(Promise!vars)
<1>1. pc = "yielded" /\ pc' \in {"top", "returned"} /\ UNCHANGED <<stop, late>>
  BY ResumeStep DEF Resume, events, history
<1>2. backlog' \in Nat /\ backlog' < backlog
  BY ResumeStep DEF IInv, TypeOK
<1>3. Promise!Settle(1)
  BY <1>1, <1>2 DEF Promise!Settle, Promise!Goto
<1> QED BY <1>3 DEF Promise!Next

LEMMA PublishPromised ==
  ASSUME IInv, Publish
  PROVE  [Promise!Next]_(Promise!vars)
<1>1. backlog \in Nat /\ backlog' = backlog + 1 /\ UNCHANGED <<pc, stop, late>>
  BY DEF IInv, TypeOK, Publish, control, events, history
<1>2. Promise!Grow(1)
  BY <1>1 DEF Promise!Grow
<1> QED BY <1>2 DEF Promise!Next

LEMMA SetEventPromised ==
  ASSUME IInv, SetEvent
  PROVE  [Promise!Next]_(Promise!vars)
<1>1. /\ UNCHANGED <<pc, backlog, late>>
      /\ stop' \in BOOLEAN /\ (stop => stop')
  <2>1. UNCHANGED <<pc, backlog, late>>
    BY DEF SetEvent, control, stream, history
  <2>2. stop \in BOOLEAN
    BY DEF IInv, TypeOK
  <2>3. stop' = TRUE \/ stop' = stop
    BY DEF SetEvent
  <2> QED BY <2>1, <2>2, <2>3
<1>2. Promise!RequestStop
  BY <1>1 DEF Promise!RequestStop
<1> QED BY <1>2 DEF Promise!Next

\* batches() keeps the promises of RunLoop.tla.
THEOREM ImplementsRunLoopHolds == Spec => ImplementsRunLoop
<1>1. IInv /\ Init => Promise!Init
  BY PromisedInitially
<1>2. IInv /\ [Next]_vars => [Promise!Next]_(Promise!vars)
  <2>1. ASSUME UNCHANGED vars PROVE UNCHANGED Promise!vars
    BY <2>1 DEF vars, control, events, stream, history, Promise!vars
  <2>2. ASSUME ProducerStops PROVE UNCHANGED Promise!vars
    BY <2>2 DEF ProducerStops, control, stream, history, Promise!vars
  <2> QED
    BY <2>1, <2>2, CheckStopPromised, ListenReturnsRowsPromised, EmptyPromised,
       ResumePromised, PublishPromised, SetEventPromised, ArgumentAssumption, BoundAssumption
       DEF Next, GeneratorStep, Terminated
<1> QED BY <1>1, <1>2, InvariantHolds, PTL DEF Spec, ImplementsRunLoop, Promise!Spec
-----------------------------------------------------------------------------
(* What TLC's liveness checks rest on: the loop has finitely many steps left. *)

\* While fast batches fill the window it never shrinks, and each of them brings it
\* nearer its ceiling.
WindowClimbs ==
  [][arg.adaptive /\ pace' = "fast" /\ filled' =>
       /\ window' >= window
       /\ pc = "listening" /\ pc' = "yielded" => window' > window \/ window' = Ceiling]_vars

\* A loop that was asked to drain has finitely many steps left, and nothing but its
\* end takes it back.
THEOREM DrainProgressesHolds == Spec => DrainProgresses
<1> DEFINE Progress ==
      drain /\ pc # "returned" =>
        /\ drain'
        /\ \/ pc' = "returned"
           \/ UNCHANGED <<pc, Remaining, IdleLeft>>
           \/ Remaining' < Remaining
           \/ /\ Remaining' = Remaining
              /\ \/ pc = "yielded" /\ pc' # "yielded"
                 \/ pc' # "yielded" /\ IdleLeft' < IdleLeft
                 \/ IdleLeft' = IdleLeft /\ StepsLeft' < StepsLeft
<1>1. ASSUME IInv, [Next]_vars, drain, pc # "returned" PROVE Progress
  <2>1. CASE CheckStop
    <3>1. pc = "top" /\ pc' \in {"listening", "returned"}
      BY <2>1 DEF CheckStop, Goto, Return
    <3>2. UNCHANGED <<drain, arg, backlog, idle>>
      BY <2>1 DEF CheckStop, events, stream
    <3>3. Remaining' = Remaining /\ IdleLeft' = IdleLeft
      BY <3>1, <3>2 DEF Remaining, IdleLeft
    <3>4. StepsLeft = 3 /\ (pc' = "listening" => StepsLeft' = 2)
      BY <3>1 DEF StepsLeft
    <3> QED BY <1>1, <3>1, <3>2, <3>3, <3>4
  <2>2. CASE ListenReturnsRows
    <3>1. /\ pc = "listening" /\ pc' = "yielded"
          /\ UNCHANGED <<drain, backlog>>
      BY <2>2 DEF ListenReturnsRows, Goto, events, stream
    <3>2. batch'.end \in 1..backlog /\ backlog \in Nat
      BY <2>2, <1>1, ListenedPrefix DEF ListenReturnsRows, IInv, TypeOK
    <3>3. Remaining' < Remaining
      BY <3>1, <3>2 DEF Remaining
    <3> QED BY <1>1, <3>1, <3>3
  <2>3. CASE ListenIsEmpty
    <3>1. pc = "listening" /\ pc' = "emptied" /\ UNCHANGED <<drain, arg, backlog, idle>>
      BY <2>3 DEF ListenIsEmpty, Goto, events, stream
    <3>2. Remaining' = Remaining /\ IdleLeft' = IdleLeft
      BY <3>1 DEF Remaining, IdleLeft
    <3>3. StepsLeft = 2 /\ StepsLeft' = 1
      BY <3>1 DEF StepsLeft
    <3> QED BY <1>1, <3>1, <3>2, <3>3
  <2>4. CASE CheckEmptied
    <3>1. /\ pc = "emptied" /\ pc' \in {"idling", "returned"}
          /\ UNCHANGED <<drain, arg, backlog, idle>>
      BY <2>4 DEF CheckEmptied, Goto, Return, events, stream
    <3>2. Remaining' = Remaining /\ IdleLeft' = IdleLeft
      BY <3>1 DEF Remaining, IdleLeft
    <3>3. StepsLeft = 1 /\ (pc' = "idling" => StepsLeft' = 0)
      BY <3>1 DEF StepsLeft
    <3> QED BY <1>1, <3>1, <3>2, <3>3
  <2>5. CASE CheckIdle
    <3>1. pc = "idling" /\ UNCHANGED <<drain, arg, backlog>>
      BY <2>5 DEF CheckIdle, events, stream
    <3>2. CASE Return(IdleExit(idle'))
      BY <1>1, <3>1, <3>2 DEF Return
    <3>3. CASE Goto("top") /\ IdleExit(idle') = "none"
      <4>1. idle' < arg.drainIdle
        <5>1. idle' \in Int /\ arg.drainIdle \in Int
          BY <1>1, <2>5, BoundAssumption, ArgumentAssumption
             DEF CheckIdle, Tick, Smaller, IInv, TypeOK, ArgumentType
        <5>2. ~(idle' >= arg.drainIdle)
          BY <1>1, <3>3 DEF IdleExit
        <5> QED BY <5>1, <5>2
      <4>2. idle' = idle + 1
        BY <1>1, <2>5, <4>1, BoundAssumption, ArgumentAssumption
           DEF CheckIdle, Tick, Smaller, IInv, TypeOK, ArgumentType
      <4>3. IdleLeft' < IdleLeft
        <5>1. idle \in Int /\ arg.drainIdle \in Int
          BY <1>1, BoundAssumption, ArgumentAssumption DEF IInv, TypeOK, ArgumentType
        <5> QED BY <3>1, <4>1, <4>2, <5>1 DEF IdleLeft, Larger
      <4>4. Remaining' = Remaining /\ pc' = "top"
        BY <3>1, <3>3 DEF Remaining, Goto
      <4> QED BY <1>1, <3>1, <4>3, <4>4
    <3> QED BY <2>5, <3>2, <3>3 DEF CheckIdle
  <2>6. CASE Resume
    <3>1. pc = "yielded" /\ pc' \in {"top", "returned"} /\ UNCHANGED drain
      BY <1>1, <2>6, ResumeStep, ArgumentAssumption, BoundAssumption DEF Resume, events
    <3>2. Remaining' = Remaining
      BY <2>6, <3>1 DEF Remaining, Resume
    <3> QED BY <1>1, <3>1, <3>2
  <2>7. CASE SetEvent
    <3>1. drain' /\ UNCHANGED <<arg, pc, batch, backlog, idle>>
      BY <1>1, <2>7 DEF SetEvent, control, stream
    <3> QED BY <3>1 DEF Remaining, IdleLeft
  <2>8. ASSUME Publish \/ ProducerStops PROVE FALSE
    BY <1>1, <2>8 DEF Publish, ProducerStops, IInv, Ends
  <2>9. CASE UNCHANGED vars
    BY <1>1, <2>9 DEF vars, control, events, stream, Remaining, IdleLeft
  <2> QED
    BY <1>1, <2>1, <2>2, <2>3, <2>4, <2>5, <2>6, <2>7, <2>8, <2>9 DEF Next, GeneratorStep, Terminated
<1>2. IInv /\ [Next]_vars => [Progress]_vars
  BY <1>1
<1> QED BY <1>2, InvariantHolds, PTL DEF Spec, DrainProgresses

\* The window climbs to its ceiling while it is too small.
THEOREM WindowClimbsHolds == Spec => WindowClimbs
<1> DEFINE Climbs ==
      arg.adaptive /\ pace' = "fast" /\ filled' =>
        /\ window' >= window
        /\ pc = "listening" /\ pc' = "yielded" => window' > window \/ window' = Ceiling
<1>1. ASSUME IInv, [Next]_vars, arg.adaptive, pace' = "fast", filled'
      PROVE  /\ window' >= window
             /\ pc = "listening" /\ pc' = "yielded" => window' > window \/ window' = Ceiling
  <2>1. window \in 1..Ceiling /\ Ceiling \in Nat \ {0}
    BY <1>1, Argument, ArgumentAssumption DEF IInv, TypeOK
  <2>2. CASE ListenReturnsRows
    <3>1. /\ Span(batch') >= window
          /\ window' = ObserveBatch(Span(batch'), "fast")
      BY <1>1, <2>2 DEF ListenReturnsRows, ListenMax
    <3>2. window' = Smaller(Ceiling, Larger(window + 1, window * 2))
      BY <3>1 DEF ObserveBatch, Grows
    <3> QED BY <2>1, <3>2 DEF Smaller, Larger
  <2>3. CASE ListenIsEmpty
    BY <1>1, <2>3 DEF ListenIsEmpty
  <2>4. CASE Resume \/ CheckStop \/ CheckEmptied \/ CheckIdle
    <3>1. window' = window /\ pc # "listening"
      BY <2>4 DEF Resume, CheckStop, CheckEmptied, CheckIdle
    <3> QED BY <2>1, <3>1
  <2>5. CASE Publish \/ ProducerStops \/ SetEvent \/ UNCHANGED vars
    <3>1. window' = window /\ pc' = pc
      BY <2>5 DEF Publish, ProducerStops, SetEvent, vars, control
    <3> QED BY <2>1, <3>1
  <2> QED BY <1>1, <2>2, <2>3, <2>4, <2>5 DEF Next, GeneratorStep, Terminated
<1>2. IInv /\ [Next]_vars => [Climbs]_vars
  BY <1>1
<1> QED BY <1>2, InvariantHolds, PTL DEF Spec, WindowClimbs
-----------------------------------------------------------------------------
(* What RunLoop.tla promises is kept by its implementation. *)

Kept == INSTANCE RunLoopProofs WITH
  Loop <- {1},
  phase <- [l \in {1} |-> CASE pc \in {"top", "listening", "emptied", "idling"} -> "looping"
                            [] pc = "yielded" -> "holding"
                            [] pc = "returned" -> "ended"],
  stop <- [l \in {1} |-> stop],
  behind <- [l \in {1} |-> backlog],
  late <- [l \in {1} |-> late]

\* The loop implements RunLoop.tla, so all that follows from it holds of the loop.
LEMMA KeptHolds == Spec => Kept!Spec
BY ImplementsRunLoopHolds, PTL
   DEF ImplementsRunLoop, Promise!Spec, Kept!Spec, Promise!Init, Kept!Init, Promise!Next,
      Kept!Next, Promise!vars, Kept!vars, Promise!Goto, Kept!Goto, Promise!Start,
      Kept!Start, Promise!Take, Kept!Take, Promise!Settle, Kept!Settle, Promise!End,
      Kept!End, Promise!RequestStop, Kept!RequestStop, Promise!Grow, Kept!Grow

\* The cursor moves by the batch in the caller's hands and by nothing else: inherited
\* from RunLoop.tla.
THEOREM MovesBySettlingHolds == Spec => Kept!MovesBySettling
BY KeptHolds, Kept!MovesBySettlingHolds, PTL

\* After its late batch the loop only returns: inherited from RunLoop.tla.
THEOREM StopsForGoodHolds == Spec => Kept!StopsForGood
BY KeptHolds, Kept!StopsForGoodHolds, PTL
=============================================================================
