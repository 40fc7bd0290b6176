------------------------- MODULE ConsumerSessionProofs -------------------------
(***************************************************************************)
(* Proofs about ConsumerSession.tla for any set of sessions and options,   *)
(* any number of sinks, and any bounds: the inductive invariant IInv and   *)
(* the properties it implies.                                              *)
(***************************************************************************)
EXTENDS ConsumerSession, TLAPS

\* The initial states satisfy the inductive invariant.
THEOREM InitEstablishes == Init => IInv
<1> SUFFICES ASSUME Init PROVE IInv
  OBVIOUS
<1>1. CatalogType
  <2>1. acked \in [Sink -> SUBSET (1..head)]
    BY DEF Init
  <2>2. head \in Nat /\ cursor \in 0..head /\ base \in 0..cursor /\ faults \in 0..MaxFaults
    BY BoundAssumption DEF Init
  <2>3. /\ exists \in BOOLEAN /\ heartbeat \in HeartbeatAge
        /\ owner \in Session \cup {Nobody} /\ creator \in Session \cup {Nobody}
    BY DEF Init, HeartbeatAge
  <2> QED BY <2>1, <2>2, <2>3 DEF CatalogType
<1>2. ControlType
  BY SinkAssumption, BoundAssumption
  DEF Init, ControlType, Labels, Reasons, NoBatch, BatchOf
<1>3. opt \in [Session -> Options] /\ lost \in [Session -> BOOLEAN]
  BY DEF Init
<1>4. SessionPhase /\ SetupFollowsOptions
  BY DEF Init, SessionPhase, InFlight, SetupFollowsOptions, ReplaceLabels
<1>5. LeaseNeedsConsumer /\ LossIsKnown /\ HolderDeliversNext /\ HolderHasDelivered /\ NoLoss
  BY SessionAssumption
  DEF Init, LeaseNeedsConsumer, LossIsKnown, HolderDeliversNext, HolderHasDelivered,
      NoLoss, InFlight, PinnedConnection
<1> QED BY <1>1, <1>2, <1>3, <1>4, <1>5 DEF IInv, TypeOK
-----------------------------------------------------------------------------
(* Control: a session that is not delivering moves on, is retried or leaves. *)

Resting == Labels \ {"deliver", "commit"}

\* Session s is between two batches after the step; the others do not move.
MovesToRest(s) ==
  /\ pc'[s] \in Resting /\ nextSink'[s] = 1
  /\ \A x \in Session \ {s} :
       pc'[x] = pc[x] /\ nextSink'[x] = nextSink[x] /\ batch'[x] = batch[x]

\* Leaving the block, or going back to listen after a commit.
LEMMA FinishRests ==
  ASSUME ControlType, CatalogType, head' = head, NEW s \in Session,
         NEW l \in Resting, NEW r \in Reasons, Finish(s, l, r)
  PROVE ControlType' /\ MovesToRest(s) /\ pc'[s] = l
<1>1. NoBatch \in [start : 1..(head + 1), end : 0..head]
  BY DEF NoBatch, BatchOf, CatalogType
<1>2. ControlType'
  BY <1>1, SinkAssumption, BoundAssumption DEF ControlType, Finish, Goto, Resting
<1>3. MovesToRest(s) /\ pc'[s] = l
  BY DEF ControlType, Finish, Goto, MovesToRest
<1> QED BY <1>2, <1>3

\* Going on with the next call of an operation, or with a new operation.
LEMMA ContinueRests ==
  ASSUME ControlType, SessionPhase, head' = head, NEW s \in Session, ~InFlight(s),
         NEW l \in Resting, Continue(s, l) \/ Begin(s, l)
  PROVE ControlType' /\ MovesToRest(s) /\ pc'[s] = l
<1>1. ControlType'
  BY BoundAssumption DEF ControlType, Continue, Begin, Goto, Resting
<1>2. MovesToRest(s) /\ pc'[s] = l
  BY DEF ControlType, Continue, Begin, Goto, MovesToRest, SessionPhase
<1> QED BY <1>1, <1>2

\* A transient error outside delivery: the operation starts again or gives up.
LEMMA RetryRests ==
  ASSUME ControlType, CatalogType, SessionPhase, head' = head, NEW s \in Session,
         ~InFlight(s), NEW l \in Resting, RetryFrom(s, l)
  PROVE ControlType' /\ MovesToRest(s) /\ pc'[s] \in {l, "failed"} /\ faults' \in 0..MaxFaults
<1>1. faults' \in 0..MaxFaults
  BY BoundAssumption DEF RetryFrom, CatalogType
<1>2. CASE attempt[s] >= MaxAttempts /\ Raise(s, "transient")
  <2>1. Finish(s, "failed", "transient") /\ "failed" \in Resting /\ "transient" \in Reasons
    BY <1>2 DEF Raise, Resting, Labels, EndLabels, Reasons
  <2> QED BY <1>1, <2>1, FinishRests
<1>3. CASE /\ attempt[s] < MaxAttempts
           /\ attempt' = [attempt EXCEPT ![s] = @ + 1]
           /\ Goto(s, l)
           /\ UNCHANGED <<batch, nextSink, why>>
  <2>1. ControlType'
    BY <1>3, BoundAssumption DEF ControlType, Goto, Resting
  <2>2. MovesToRest(s) /\ pc'[s] = l
    BY <1>3 DEF ControlType, Goto, MovesToRest, SessionPhase
  <2> QED BY <1>1, <2>1, <2>2
<1> QED BY <1>2, <1>3 DEF RetryFrom
-----------------------------------------------------------------------------
(* The catalog: the steps of a session at rest preserve the invariant. *)

\* The catalog stays as it is.
CatalogRests == UNCHANGED <<catalogVars, acked, lost>>

\* A listen that only takes the lease.
LeaseTaken(s) ==
  exists /\ AcquireLease(s) /\ UNCHANGED <<head, exists, base, cursor, creator, acked>>

\* What a call of a session at rest may do to the catalog.
RestEffect(s) ==
  \/ CatalogRests
  \/ ForceReleaseConsumer
  \/ DropConsumer
  \/ CreateConsumer(s)
  \/ LeaseTaken(s)

\* Every effect of a call keeps the types of the catalog.
LEMMA RestEffectTypes ==
  ASSUME TypeOK, NEW s \in Session, RestEffect(s), faults' \in 0..MaxFaults
  PROVE CatalogType' /\ lost' \in [Session -> BOOLEAN]
<1>1. CASE CatalogRests
  BY <1>1 DEF CatalogRests, TypeOK, CatalogType, catalogVars
<1>2. CASE ForceReleaseConsumer \/ DropConsumer
  BY <1>2 DEF ForceReleaseConsumer, DropConsumer, SetOwner, TypeOK, CatalogType, HeartbeatAge
<1>3. CASE CreateConsumer(s)
  <2>1. opt[s].startAt \in {-1, 0}
    BY OptionAssumption DEF TypeOK, OptionType, Now
  <2>2. cursor' \in 0..head' /\ base' \in 0..cursor'
    BY <1>3, <2>1 DEF CreateConsumer, TypeOK, CatalogType, Now
  <2>3. acked' \in [Sink -> SUBSET (1..head')]
    BY <1>3 DEF CreateConsumer
  <2> QED BY <1>3, <2>2, <2>3 DEF CreateConsumer, TypeOK, CatalogType
<1>4. CASE LeaseTaken(s)
  BY <1>4 DEF LeaseTaken, AcquireLease, SetOwner, PinnedConnection, TypeOK, CatalogType,
    HeartbeatAge
<1> QED BY <1>1, <1>2, <1>3, <1>4 DEF RestEffect

\* A session at rest can do no harm: whatever its call does to the catalog, the
\* invariant holds afterwards.
LEMMA RestPreserves ==
  ASSUME IInv, NEW s \in Session, ControlType', MovesToRest(s), opt' = opt,
         faults' \in 0..MaxFaults, RestEffect(s),
         pc'[s] = "force" => opt[s].leasePolicy = "takeover",
         pc'[s] \in ReplaceLabels => opt[s].onExists = "replace"
  PROVE IInv'
<1> USE DEF IInv, Resting
<1> DEFINE Harmless == CatalogRests \/ ForceReleaseConsumer \/ DropConsumer \/ LeaseTaken(s)
<1>1. TypeOK'
  BY RestEffectTypes DEF TypeOK
<1>2. SetupFollowsOptions'
  BY DEF SetupFollowsOptions, MovesToRest
<1>3. SessionPhase'
  BY DEF SessionPhase, MovesToRest, InFlight
<1>4. LeaseNeedsConsumer'
  BY DEF LeaseNeedsConsumer, RestEffect, CatalogRests, ForceReleaseConsumer, DropConsumer,
         CreateConsumer, LeaseTaken, catalogVars, SetOwner
<1>5. LossIsKnown'
  <2> SUFFICES ASSUME NEW x \in Session
               PROVE /\ owner' = x => ~lost'[x]
                     /\ InFlight(x)' /\ ~lost'[x] => owner' = x
    BY DEF LossIsKnown, PinnedConnection
  <2>1. InFlight(x)' => x # s /\ InFlight(x)
    BY DEF MovesToRest, InFlight
  <2>2. (owner = x => ~lost[x]) /\ (InFlight(x) /\ ~lost[x] => owner = x)
    BY DEF LossIsKnown, PinnedConnection
  <2>3. CASE CatalogRests \/ CreateConsumer(s)
    BY <2>1, <2>2, <2>3 DEF CatalogRests, CreateConsumer, catalogVars
  <2>4. CASE ForceReleaseConsumer \/ DropConsumer
    BY <2>1, <2>2, <2>4, SessionAssumption
    DEF ForceReleaseConsumer, DropConsumer, SetOwner
  <2>5. CASE LeaseTaken(s)
    BY <2>1, <2>2, <2>5, SessionAssumption
    DEF LeaseTaken, AcquireLease, SetOwner, PinnedConnection
  <2> QED BY <2>3, <2>4, <2>5 DEF RestEffect
<1>6. ASSUME NEW x \in Session, InFlight(x)', owner' = x
      PROVE /\ InFlight(x) /\ owner = x
            /\ pc'[x] = pc[x] /\ batch'[x] = batch[x] /\ nextSink'[x] = nextSink[x]
            /\ CatalogRests
  <2>1. x # s /\ InFlight(x)
    BY <1>6 DEF MovesToRest, InFlight
  <2>2. owner' \notin {Nobody, s}
    BY <1>6, <2>1, SessionAssumption
  <2>3. ~ForceReleaseConsumer /\ ~DropConsumer /\ ~LeaseTaken(s)
    BY <2>2
    DEF ForceReleaseConsumer, DropConsumer, LeaseTaken, AcquireLease, SetOwner, PinnedConnection
  <2>4. ~CreateConsumer(s)
    BY <2>2 DEF CreateConsumer, LeaseNeedsConsumer
  <2>5. CatalogRests
    BY <2>3, <2>4 DEF RestEffect
  <2> QED BY <1>6, <2>1, <2>5 DEF MovesToRest, CatalogRests, catalogVars
<1>7. HolderDeliversNext'
  BY <1>6 DEF HolderDeliversNext, PinnedConnection, CatalogRests, catalogVars
<1>8. HolderHasDelivered'
  BY <1>6 DEF HolderHasDelivered, PinnedConnection, CatalogRests, catalogVars, Snapshots
<1>9. NoLoss'
  <2>1. CASE CreateConsumer(s)
    <3>1. (base' + 1)..cursor' = {}
      BY <1>1, <2>1 DEF CreateConsumer, TypeOK, CatalogType
    <3> QED BY <3>1 DEF NoLoss
  <2>2. CASE Harmless
    BY <2>2 DEF NoLoss, CatalogRests, ForceReleaseConsumer, DropConsumer, LeaseTaken,
      catalogVars
  <2> QED BY <2>1, <2>2 DEF RestEffect
<1> QED BY <1>1, <1>2, <1>3, <1>4, <1>5, <1>7, <1>8, <1>9
-----------------------------------------------------------------------------
(* __enter__. *)

\* The set-up keeps the invariant.
LEMMA EnterPreserves ==
  ASSUME IInv, NEW s \in Session, EnterStep(s)
  PROVE IInv'
<1> USE DEF Resting, Labels, SetupLabels, ReplaceLabels, EndLabels, Reasons, InFlight
<1> DEFINE OptionOf == /\ pc'[s] = "force" => opt[s].leasePolicy = "takeover"
                       /\ pc'[s] \in ReplaceLabels => opt[s].onExists = "replace"
<1>0. /\ ControlType /\ CatalogType /\ SessionPhase /\ SetupFollowsOptions
      /\ opt[s] \in OptionType /\ faults \in 0..MaxFaults
  BY OptionAssumption DEF IInv, TypeOK, CatalogType
<1>1. CASE Enter(s)
  <2>1. ControlType' /\ MovesToRest(s) /\ pc'[s] = SetupLabel(s)
    <3>1. SetupLabel(s) \in Resting /\ ~InFlight(s) /\ Begin(s, SetupLabel(s)) /\ head' = head
      BY <1>1 DEF Enter, SetupLabel, catalogVars
    <3> QED BY <1>0, <3>1, ContinueRests
  <2>2. RestEffect(s) /\ faults' = faults /\ opt' = opt
    BY <1>1 DEF Enter, RestEffect, CatalogRests
  <2> QED BY <1>0, <2>1, <2>2, RestPreserves DEF SetupLabel
<1>2. CASE ReplaceStep(s)
  <2>1. RestEffect(s) /\ faults' = faults /\ opt' = opt /\ head' = head
    BY <1>2 DEF ReplaceStep, SetupEffect, RestEffect, CatalogRests, catalogVars,
                ForceReleaseConsumer, DropConsumer, CreateConsumer
  <2>2. ControlType' /\ MovesToRest(s) /\ pc'[s] \in {"drop", "create"}
    BY <1>0, <1>2, <2>1, ContinueRests DEF ReplaceStep
  <2>3. opt[s].onExists = "replace"
    BY <1>0, <1>2 DEF ReplaceStep, SetupFollowsOptions
  <2> QED BY <1>0, <2>1, <2>2, <2>3, RestPreserves
<1>3. CASE DropRefused(s) \/ WaitTimesOut(s)
  <2>1. RestEffect(s) /\ faults' = faults /\ opt' = opt /\ head' = head
    BY <1>3 DEF DropRefused, WaitTimesOut, RestEffect, CatalogRests, catalogVars
  <2>2. ControlType' /\ MovesToRest(s) /\ pc'[s] = "failed"
    BY <1>0, <1>3, <2>1, FinishRests DEF DropRefused, WaitTimesOut, Raise
  <2> QED BY <1>0, <2>1, <2>2, RestPreserves
<1>4. CASE CreateSucceeds(s)
  <2>1. RestEffect(s) /\ faults' = faults /\ opt' = opt /\ head' = head
    BY <1>4 DEF CreateSucceeds, SetupEffect, RestEffect, CreateConsumer
  <2>2. ControlType' /\ MovesToRest(s) /\ pc'[s] \in {"open_sinks", "lookup"}
    BY <1>0, <1>4, <2>1, ContinueRests DEF CreateSucceeds
  <2> QED BY <1>0, <2>1, <2>2, RestPreserves
<1>5. CASE CreateDuplicate(s)
  <2>1. RestEffect(s) /\ faults' = faults /\ opt' = opt /\ head' = head
    BY <1>5 DEF CreateDuplicate, RestEffect, CatalogRests, catalogVars
  <2>2. pc[s] = "create" /\ (Continue(s, "lookup") \/ Finish(s, "failed", "exists"))
    BY <1>5 DEF CreateDuplicate, Raise
  <2>3. ControlType' /\ MovesToRest(s) /\ pc'[s] \in {"lookup", "failed"}
    BY <1>0, <2>1, <2>2, ContinueRests, FinishRests
  <2> QED BY <1>0, <2>1, <2>3, RestPreserves
<1>6. CASE LeaseIsFree(s)
  <2>1. RestEffect(s) /\ faults' = faults /\ opt' = opt /\ head' = head
    BY <1>6 DEF LeaseIsFree, RestEffect, CatalogRests, catalogVars
  <2>2. ControlType' /\ MovesToRest(s) /\ pc'[s] = "open_sinks"
    BY <1>0, <1>6, <2>1, ContinueRests DEF LeaseIsFree
  <2> QED BY <1>0, <2>1, <2>2, RestPreserves
<1>7. CASE LeaseIsHeld(s)
  <2>1. RestEffect(s) /\ faults' = faults /\ opt' = opt /\ head' = head
    BY <1>7 DEF LeaseIsHeld, RestEffect, CatalogRests, catalogVars
  <2>2. CASE opt[s].leasePolicy = "error"
    <3>1. ControlType' /\ MovesToRest(s) /\ pc'[s] = "failed"
      BY <1>0, <1>7, <2>1, <2>2, FinishRests DEF LeaseIsHeld, Raise
    <3> QED BY <1>0, <2>1, <3>1, RestPreserves
  <2>3. CASE opt[s].leasePolicy = "takeover"
    <3>1. ControlType' /\ MovesToRest(s) /\ pc'[s] = "force"
      BY <1>0, <1>7, <2>1, <2>3, ContinueRests DEF LeaseIsHeld
    <3> QED BY <1>0, <2>1, <2>3, <3>1, RestPreserves
  <2>4. CASE opt[s].leasePolicy = "wait"
    <3>1. ControlType' /\ MovesToRest(s) /\ pc'[s] = "wait"
      BY <1>0, <1>7, <2>1, <2>4, ContinueRests DEF LeaseIsHeld
    <3> QED BY <1>0, <2>1, <3>1, RestPreserves
  <2> QED BY <1>0, <2>2, <2>3, <2>4 DEF OptionType
<1>8. CASE TakeOver(s)
  <2>1. RestEffect(s) /\ faults' = faults /\ opt' = opt /\ head' = head
    BY <1>8 DEF TakeOver, SetupEffect, ForceReleaseConsumer, RestEffect, CatalogRests,
      catalogVars
  <2>2. pc[s] = "force" /\ (Continue(s, "open_sinks") \/ Finish(s, "failed", "missing"))
    BY <1>8 DEF TakeOver, Raise
  <2>3. ControlType' /\ MovesToRest(s) /\ pc'[s] \in {"open_sinks", "failed"}
    BY <1>0, <2>1, <2>2, ContinueRests, FinishRests
  <2> QED BY <1>0, <2>1, <2>3, RestPreserves
<1>9. CASE OpenSinks(s)
  <2>1. RestEffect(s) /\ faults' = faults /\ opt' = opt /\ head' = head
    BY <1>9 DEF OpenSinks, RestEffect, CatalogRests, catalogVars
  <2>2. pc[s] = "open_sinks" /\ (Begin(s, "listen") \/ Finish(s, "failed", "sink"))
    BY <1>9 DEF OpenSinks, Raise
  <2>3. ControlType' /\ MovesToRest(s) /\ pc'[s] \in {"listen", "failed"}
    BY <1>0, <2>1, <2>2, ContinueRests, FinishRests
  <2> QED BY <1>0, <2>1, <2>3, RestPreserves
<1> QED BY <1>1, <1>2, <1>3, <1>4, <1>5, <1>6, <1>7, <1>8, <1>9 DEF EnterStep
-----------------------------------------------------------------------------
(* Errors, and the listen loop outside a batch. *)

\* Transient errors outside a commit keep the invariant.
LEMMA TransientPreserves ==
  ASSUME IInv, NEW s \in Session, SetupTransient(s) \/ ListenTransient(s)
  PROVE IInv'
<1> USE DEF Resting, Labels, SetupLabels, ReplaceLabels, EndLabels, Reasons, InFlight
<1>0. ControlType /\ CatalogType /\ SessionPhase
  BY DEF IInv, TypeOK
<1>1. CASE SetupTransient(s)
  <2>1. RestEffect(s) /\ opt' = opt /\ head' = head
    BY <1>1 DEF SetupTransient, SetupEffect, ForceReleaseConsumer, DropConsumer, CreateConsumer,
                RestEffect, CatalogRests, catalogVars
  <2>2. SetupLabel(s) \in Resting /\ ~InFlight(s) /\ RetryFrom(s, SetupLabel(s))
    BY <1>1 DEF SetupTransient, SetupLabel
  <2>3. /\ ControlType' /\ MovesToRest(s) /\ pc'[s] \in {SetupLabel(s), "failed"}
        /\ faults' \in 0..MaxFaults
    BY <1>0, <2>1, <2>2, RetryRests
  <2> QED BY <2>1, <2>3, RestPreserves DEF SetupLabel
<1>2. CASE ListenTransient(s)
  <2>1. RestEffect(s) /\ opt' = opt /\ head' = head
    BY <1>2 DEF ListenTransient, RestEffect, LeaseTaken, CatalogRests, catalogVars
  <2>2. pc[s] = "listen" /\ RetryFrom(s, "listen")
    BY <1>2 DEF ListenTransient
  <2>3. /\ ControlType' /\ MovesToRest(s) /\ pc'[s] \in {"listen", "failed"}
        /\ faults' \in 0..MaxFaults
    BY <1>0, <2>1, <2>2, RetryRests
  <2> QED BY <2>1, <2>3, RestPreserves
<1> QED BY <1>1, <1>2

\* Leaving the loop, refused calls and crashes keep the invariant.
LEMMA LeavePreserves ==
  ASSUME IInv, NEW s \in Session,
         ListenRefused(s) \/ Leave(s) \/ CommitRefused(s) \/ Crash(s)
  PROVE IInv'
<1> USE DEF Resting, Labels, SetupLabels, ReplaceLabels, EndLabels, Reasons
<1>1. RestEffect(s) /\ faults' = faults /\ opt' = opt /\ head' = head
  BY DEF ListenRefused, Leave, CommitRefused, Crash, RestEffect, CatalogRests, catalogVars
<1>2. \E l \in EndLabels, r \in Reasons : Finish(s, l, r)
  BY DEF ListenRefused, Leave, CommitRefused, Crash, Raise
<1>3. ControlType' /\ MovesToRest(s) /\ pc'[s] \in EndLabels
  BY <1>1, <1>2, FinishRests DEF IInv, TypeOK
<1> QED BY <1>1, <1>3, RestPreserves DEF IInv, TypeOK, CatalogType

\* A listen keeps the invariant: with rows, it hands the session that now holds
\* the lease the snapshots after the cursor.
LEMMA ListenPreserves ==
  ASSUME IInv, NEW s \in Session, Listen(s)
  PROVE IInv'
<1> USE DEF Resting, Labels, SetupLabels, ReplaceLabels, EndLabels
<1>0. LeaseTaken(s) /\ pc[s] = "listen" /\ opt' = opt /\ faults' = faults
  BY DEF Listen, LeaseTaken
<1>1. ControlType /\ CatalogType /\ SessionPhase
  BY DEF IInv, TypeOK
<1>2. CASE pc' = pc /\ batch' = batch /\ attempt' = [attempt EXCEPT ![s] = 1]
  <2>1. MovesToRest(s)
    BY <1>0, <1>1, <1>2 DEF Listen, MovesToRest, SessionPhase, InFlight
  <2>2. ControlType'
    BY <1>0, <1>1, <1>2, BoundAssumption DEF Listen, ControlType, LeaseTaken
  <2> QED BY <1>0, <1>1, <1>2, <2>1, <2>2, RestPreserves DEF RestEffect, CatalogType
<1>3. ASSUME NEW e \in (cursor + 1)..head, Goto(s, "deliver"),
             batch' = [batch EXCEPT ![s] = [start |-> cursor + 1, end |-> e]],
             attempt' = [attempt EXCEPT ![s] = 1]
      PROVE IInv'
  <2>1. CatalogType' /\ lost' \in [Session -> BOOLEAN]
    BY <1>0, RestEffectTypes DEF RestEffect, IInv, TypeOK, CatalogType
  <2>2. ControlType'
    <3>1. [start |-> cursor + 1, end |-> e] \in [start : 1..(head + 1), end : 0..head]
      BY <1>1 DEF CatalogType
    <3> QED BY <1>0, <1>1, <1>3, <3>1, BoundAssumption DEF Listen, ControlType, LeaseTaken, Goto
  <2>3. batch'[s].start = cursor + 1 /\ batch'[s].end = e /\ pc'[s] = "deliver" /\ nextSink'[s] = 1
    BY <1>0, <1>1, <1>3 DEF Listen, ControlType, Goto, SessionPhase, InFlight
  <2>4. ASSUME NEW x \in Session \ {s}
        PROVE /\ pc'[x] = pc[x] /\ batch'[x] = batch[x] /\ nextSink'[x] = nextSink[x]
              /\ owner' # x
    BY <1>0, <1>1, <1>3, SessionAssumption
    DEF Listen, ControlType, Goto, LeaseTaken, AcquireLease, SetOwner, PinnedConnection
  <2>5. SessionPhase' /\ SetupFollowsOptions'
    BY <1>0, <1>1, <1>3, <2>3, <2>4, SinkAssumption
    DEF SessionPhase, SetupFollowsOptions, InFlight, IInv, CatalogType, Sink
  <2>6. LossIsKnown' /\ LeaseNeedsConsumer'
    BY <1>0, <2>3, <2>4
    DEF LossIsKnown, LeaseNeedsConsumer, InFlight, IInv, LeaseTaken, AcquireLease, SetOwner,
        PinnedConnection
  <2>7. HolderDeliversNext' /\ HolderHasDelivered'
    BY <1>0, <2>3, <2>4, SinkAssumption
    DEF HolderDeliversNext, HolderHasDelivered, PinnedConnection, LeaseTaken, Sink
  <2>8. NoLoss'
    BY <1>0 DEF LeaseTaken, NoLoss, IInv
  <2> QED BY <1>0, <2>1, <2>2, <2>5, <2>6, <2>7, <2>8 DEF IInv, TypeOK
<1> QED BY <1>2, <1>3 DEF Listen, BatchOf
-----------------------------------------------------------------------------
(* A batch in flight. *)

\* Going on to the next sink is sound when the sink just left has the batch, or
\* is not required.
LEMMA NextSinkPreserves ==
  ASSUME IInv, NEW s \in Session, pc[s] = "deliver", NextSink(s),
         UNCHANGED <<catalogVars, opt, lost, faults>>,
         acked' \in [Sink -> SUBSET (1..head)],
         \A k \in Sink : acked[k] \subseteq acked'[k],
         nextSink[s] \in Required => Snapshots(batch[s]) \subseteq acked'[nextSink[s]]
  PROVE IInv'
<1> USE DEF IInv
<1>1. CatalogType' /\ ControlType /\ nextSink[s] \in Sink
  BY DEF TypeOK, CatalogType, catalogVars, SessionPhase
<1>2. ControlType'
  BY <1>1, SinkAssumption DEF ControlType, NextSink, Goto, Labels, Sink, catalogVars
<1>3. /\ nextSink'[s] = nextSink[s] + 1 /\ batch'[s] = batch[s]
      /\ pc'[s] = IF nextSink[s] = NumSinks THEN "commit" ELSE "deliver"
  BY <1>1 DEF NextSink, Goto, ControlType
<1>4. ASSUME NEW x \in Session \ {s}
      PROVE pc'[x] = pc[x] /\ batch'[x] = batch[x] /\ nextSink'[x] = nextSink[x]
  BY <1>1 DEF NextSink, Goto, ControlType
<1>5. SessionPhase'
  BY <1>1, <1>3, <1>4, SinkAssumption DEF SessionPhase, InFlight, Sink
<1>6. SetupFollowsOptions'
  BY <1>3, <1>4 DEF SetupFollowsOptions, ReplaceLabels
<1>7. LossIsKnown' /\ LeaseNeedsConsumer'
  BY <1>3, <1>4 DEF LossIsKnown, LeaseNeedsConsumer, InFlight, PinnedConnection, catalogVars
<1>8. HolderDeliversNext'
  BY <1>3, <1>4 DEF HolderDeliversNext, InFlight, PinnedConnection, catalogVars
<1>9. HolderHasDelivered'
  <2> SUFFICES ASSUME NEW x \in Session, InFlight(x)', owner = x, NEW k \in Required,
                      k < nextSink'[x]
               PROVE Snapshots(batch[x]) \subseteq acked'[k]
    BY <1>3, <1>4 DEF HolderHasDelivered, PinnedConnection, catalogVars, Snapshots
  <2>1. k \in Sink /\ k \in Int /\ nextSink[x] \in Int
    BY <1>1, SinkAssumption DEF Sink, ControlType
  <2>2. InFlight(x)
    BY <1>4 DEF InFlight
  <2>3. CASE k < nextSink[x]
    BY <2>1, <2>2, <2>3 DEF HolderHasDelivered, PinnedConnection
  <2>4. CASE ~(k < nextSink[x])
    <3>1. x = s /\ k = nextSink[s]
      BY <1>3, <1>4, <2>1, <2>4
    <3> QED BY <3>1
  <2> QED BY <2>3, <2>4
<1>10. NoLoss'
  BY SinkAssumption DEF NoLoss, catalogVars
<1> QED BY <1>1, <1>2, <1>5, <1>6, <1>7, <1>8, <1>9, <1>10 DEF TypeOK

\* Deliveries keep the invariant, whether the sink takes the batch or raises.
LEMMA DeliverPreserves ==
  ASSUME IInv, NEW s \in Session, WriteSink(s) \/ SinkRaises(s)
  PROVE IInv'
<1>0. CatalogType /\ ControlType /\ (pc[s] = "deliver" => nextSink[s] \in Sink)
  BY DEF IInv, TypeOK, SessionPhase
<1>1. CASE WriteSink(s)
  <2>1. Snapshots(batch[s]) \subseteq 1..head
    BY <1>0 DEF Snapshots, ControlType, CatalogType
  <2>2. /\ acked' \in [Sink -> SUBSET (1..head)]
        /\ \A k \in Sink : acked[k] \subseteq acked'[k]
        /\ Snapshots(batch[s]) \subseteq acked'[nextSink[s]]
    BY <1>0, <1>1, <2>1 DEF WriteSink, CatalogType
  <2> QED BY <1>1, <2>2, NextSinkPreserves DEF WriteSink
<1>2. CASE SinkRaises(s) /\ SinkRequired(nextSink[s])
  <2>1. RestEffect(s) /\ faults' = faults /\ opt' = opt /\ head' = head
    BY <1>2 DEF SinkRaises, RestEffect, CatalogRests, catalogVars
  <2>2. "failed" \in Resting /\ "sink" \in Reasons /\ Finish(s, "failed", "sink")
    BY <1>2 DEF SinkRaises, Raise, Resting, Labels, EndLabels, Reasons
  <2>3. ControlType' /\ MovesToRest(s) /\ pc'[s] = "failed"
    BY <1>0, <2>1, <2>2, FinishRests
  <2> QED BY <1>0, <2>1, <2>3, RestPreserves DEF ReplaceLabels, CatalogType
<1>3. CASE SinkRaises(s) /\ ~SinkRequired(nextSink[s])
  <2>1. acked' = acked /\ nextSink[s] \notin Required
    BY <1>3 DEF SinkRaises, SinkRequired
  <2> QED BY <1>0, <1>3, <2>1, NextSinkPreserves DEF SinkRaises, CatalogType
<1> QED BY <1>1, <1>2, <1>3

\* What the holder of the lease commits: the window after the cursor, delivered
\* to every required sink, or the cursor itself.
LEMMA CommitMovesOverDelivered ==
  ASSUME IInv, NEW s \in Session, pc[s] = "commit", CommitEffect(s)
  PROVE /\ cursor' \in cursor..head /\ cursor' = batch[s].end
        /\ batch[s].start = cursor + 1 \/ cursor' = cursor
        /\ \A k \in Required : (cursor + 1)..cursor' \subseteq acked[k]
<1>1. InFlight(s) /\ owner = PinnedConnection(s) /\ cursor' = batch[s].end
  BY DEF InFlight, CommitEffect, CommitConnection
<1>2. /\ batch[s].start <= batch[s].end /\ nextSink[s] = NumSinks + 1
      /\ batch[s].start = cursor + 1 \/ batch[s].end = cursor
      /\ batch[s].start \in 1..(head + 1) /\ batch[s].end \in 0..head
      /\ head \in Nat /\ cursor \in 0..head
  BY <1>1 DEF IInv, SessionPhase, HolderDeliversNext, TypeOK, ControlType, CatalogType
<1>3. ASSUME NEW k \in Required PROVE Snapshots(batch[s]) \subseteq acked[k]
  BY <1>1, <1>2, <1>3, SinkAssumption DEF IInv, HolderHasDelivered, Sink
<1>4. ASSUME NEW k \in Required PROVE (cursor + 1)..cursor' \subseteq acked[k]
  BY <1>1, <1>2, <1>3 DEF Snapshots
<1> QED BY <1>1, <1>2, <1>4

\* Every conjunct but the phases, after a commit took effect.
LEMMA CommitEffectPreserves ==
  ASSUME IInv, NEW s \in Session, pc[s] = "commit", CommitEffect(s), acked' = acked,
         faults' \in 0..MaxFaults
  PROVE /\ CatalogType' /\ NoLoss' /\ LeaseNeedsConsumer'
        /\ exists /\ exists' /\ owner = s /\ owner' = s /\ head' = head
<1>1. /\ exists /\ exists' = exists /\ owner = s /\ owner' = s
      /\ UNCHANGED <<head, base, heartbeat, creator>>
  BY DEF CommitEffect, CommitConnection, PinnedConnection
<1>2. cursor' \in cursor..head /\ \A k \in Required : (cursor + 1)..cursor' \subseteq acked[k]
  BY CommitMovesOverDelivered
<1>3. CatalogType'
  BY <1>1, <1>2 DEF IInv, TypeOK, CatalogType
<1>4. NoLoss'
  <2>1. ASSUME NEW k \in Required PROVE (base + 1)..cursor' \subseteq acked[k]
    BY <1>1, <1>2 DEF IInv, TypeOK, CatalogType, NoLoss
  <2> QED BY <1>1, <2>1 DEF NoLoss
<1> QED BY <1>1, <1>3, <1>4 DEF LeaseNeedsConsumer

\* A commit keeps the invariant, and so does one whose reply is lost.
LEMMA CommitPreserves ==
  ASSUME IInv, NEW s \in Session, Commit(s) \/ CommitTransient(s)
  PROVE IInv'
<1> USE DEF Resting, Labels, SetupLabels, ReplaceLabels, EndLabels, Reasons
<1>0. /\ ControlType /\ CatalogType /\ SessionPhase /\ pc[s] = "commit"
      /\ acked' = acked /\ opt' = opt /\ lost' = lost
      /\ opt \in [Session -> Options] /\ lost \in [Session -> BOOLEAN]
  BY DEF IInv, TypeOK, Commit, CommitTransient
<1>1. faults' \in 0..MaxFaults
  BY <1>0, BoundAssumption DEF Commit, CommitTransient, RetryFrom, CatalogType
<1>2. CASE CommitEffect(s)
  <2>1. /\ CatalogType' /\ NoLoss' /\ LeaseNeedsConsumer' /\ cursor' = batch[s].end
        /\ exists /\ exists' /\ owner = s /\ owner' = s /\ head' = head
    BY <1>0, <1>1, <1>2, CommitEffectPreserves DEF CommitEffect
  <2>2. CASE /\ ControlType' /\ MovesToRest(s) /\ pc'[s] \in {"listen", "failed"}
    <3>1. SessionPhase' /\ SetupFollowsOptions'
      BY <1>0, <2>2
      DEF IInv, SessionPhase, SetupFollowsOptions, MovesToRest, InFlight, ReplaceLabels
    <3>2. LossIsKnown'
      BY <1>0, <2>1, <2>2 DEF IInv, LossIsKnown, MovesToRest, InFlight, PinnedConnection
    <3>3. HolderDeliversNext' /\ HolderHasDelivered'
      BY <2>1, <2>2, SessionAssumption
      DEF HolderDeliversNext, HolderHasDelivered, MovesToRest, InFlight, PinnedConnection
    <3> QED BY <1>0, <2>1, <2>2, <3>1, <3>2, <3>3 DEF IInv, TypeOK
  <2>3. CASE /\ CommitTransient(s) /\ attempt[s] < MaxAttempts
             /\ attempt' = [attempt EXCEPT ![s] = @ + 1]
             /\ Goto(s, "commit") /\ UNCHANGED <<batch, nextSink, why>>
    <3>1. pc' = pc
      BY <1>0, <2>3 DEF Goto, ControlType
    <3>2. ControlType'
      BY <1>0, <2>1, <2>3, <3>1, BoundAssumption DEF ControlType
    <3>3. SessionPhase' /\ SetupFollowsOptions' /\ LossIsKnown'
      BY <1>0, <2>1, <2>3, <3>1
      DEF IInv, SessionPhase, SetupFollowsOptions, LossIsKnown, InFlight, PinnedConnection
    <3>4. HolderDeliversNext'
      BY <1>0, <2>1, <2>3, <3>1, SessionAssumption
      DEF HolderDeliversNext, InFlight, PinnedConnection
    <3>5. HolderHasDelivered'
      BY <1>0, <2>1, <2>3, <3>1 DEF IInv, HolderHasDelivered, InFlight,
        PinnedConnection, Snapshots
    <3> QED BY <1>0, <2>1, <3>2, <3>3, <3>4, <3>5 DEF IInv, TypeOK
  <2>4. ASSUME NEW l \in {"listen", "failed"}, NEW r \in Reasons, Finish(s, l, r)
        PROVE ControlType' /\ MovesToRest(s) /\ pc'[s] \in {"listen", "failed"}
    BY <1>0, <2>1, <2>4, FinishRests
  <2> QED BY <2>2, <2>3, <2>4 DEF Commit, CommitTransient, RetryFrom, Raise
<1>3. CASE UNCHANGED catalogVars
  <2>1. RestEffect(s) /\ head' = head
    BY <1>0, <1>3 DEF RestEffect, CatalogRests, catalogVars
  <2>2. ASSUME NEW l \in {"listen", "failed"}, NEW r \in Reasons, Finish(s, l, r)
        PROVE IInv'
    <3>1. ControlType' /\ MovesToRest(s) /\ pc'[s] = l
      BY <1>0, <2>1, <2>2, FinishRests
    <3> QED BY <1>0, <1>1, <2>1, <2>2, <3>1, RestPreserves DEF ReplaceLabels
  <2>3. CASE /\ attempt[s] < MaxAttempts /\ attempt' = [attempt EXCEPT ![s] = @ + 1]
             /\ Goto(s, "commit") /\ UNCHANGED <<batch, nextSink, why>>
    <3>1. pc' = pc
      BY <1>0, <2>3 DEF Goto, ControlType
    <3>2. ControlType' /\ CatalogType'
      BY <1>0, <1>1, <1>3, <2>3, <3>1, BoundAssumption DEF ControlType, CatalogType, catalogVars
    <3>3. /\ SessionPhase' /\ SetupFollowsOptions' /\ LossIsKnown' /\ LeaseNeedsConsumer'
          /\ HolderDeliversNext' /\ NoLoss'
      BY <1>0, <1>3, <2>3, <3>1
      DEF IInv, SessionPhase, SetupFollowsOptions, LossIsKnown, LeaseNeedsConsumer,
          HolderDeliversNext, NoLoss, InFlight, PinnedConnection, catalogVars
    <3>4. HolderHasDelivered'
      BY <1>0, <1>3, <2>3, <3>1
      DEF IInv, HolderHasDelivered, InFlight, PinnedConnection, Snapshots, catalogVars
    <3> QED BY <1>0, <3>2, <3>3, <3>4 DEF IInv, TypeOK
  <2> QED BY <1>3, <2>2, <2>3 DEF Commit, CommitTransient, RetryFrom, Raise
<1> QED BY <1>2, <1>3 DEF Commit, CommitTransient
-----------------------------------------------------------------------------
(* The environment. *)

\* Heartbeats, the passing of time and the producer keep the invariant.
LEMMA EnvironmentPreserves ==
  ASSUME IInv, (\E s \in Session : Heartbeat(s)) \/ Publish \/ LeaseAges
  PROVE IInv'
<1>1. /\ UNCHANGED <<exists, base, cursor, owner, creator, acked, sessionVars, faults>>
      /\ head' = head \/ (head' = head + 1)
      /\ heartbeat' \in HeartbeatAge
  BY DEF Heartbeat, Publish, LeaseAges, HeartbeatAge, IInv, TypeOK, CatalogType
<1>2. CatalogType'
  <2>1. head \in Nat /\ acked \in [Sink -> SUBSET (1..head)]
    BY DEF IInv, TypeOK, CatalogType
  <2>2. acked \in [Sink -> SUBSET (1..head')] /\ head' \in Nat
    BY <1>1, <2>1
  <2> QED BY <1>1, <2>2 DEF IInv, TypeOK, CatalogType
<1>3. ControlType'
  <2>1. [start : 1..(head + 1), end : 0..head] \subseteq [start : 1..(head' + 1), end : 0..head']
    BY <1>1 DEF IInv, TypeOK, CatalogType
  <2> QED BY <1>1, <2>1 DEF IInv, TypeOK, ControlType, sessionVars
<1>4. SessionPhase' /\ SetupFollowsOptions' /\ LossIsKnown' /\ LeaseNeedsConsumer'
  BY <1>1
  DEF IInv, SessionPhase, SetupFollowsOptions, LossIsKnown, LeaseNeedsConsumer, InFlight,
      PinnedConnection, sessionVars
<1>5. HolderDeliversNext' /\ HolderHasDelivered' /\ NoLoss'
  BY <1>1
  DEF IInv, HolderDeliversNext, HolderHasDelivered, NoLoss, InFlight, PinnedConnection,
      Snapshots, sessionVars
<1> QED BY <1>1, <1>2, <1>3, <1>4, <1>5 DEF IInv, TypeOK, sessionVars

\* Stuttering keeps the invariant.
LEMMA StutterPreserves == IInv /\ UNCHANGED vars => IInv'
  BY DEF vars, catalogVars, sessionVars, IInv, TypeOK, CatalogType, ControlType,
         SessionPhase, SetupFollowsOptions, LossIsKnown, LeaseNeedsConsumer,
         HolderDeliversNext, HolderHasDelivered, NoLoss, InFlight, PinnedConnection, Snapshots

\* Every step keeps the invariant.
THEOREM StepPreserves == IInv /\ [Next]_vars => IInv'
<1> SUFFICES ASSUME IInv, [Next]_vars PROVE IInv'
  OBVIOUS
<1>1. ASSUME NEW s \in Session,
             EnterStep(s) \/ RunStep(s) \/ TransientError(s) \/ Heartbeat(s) \/ Crash(s)
      PROVE IInv'
  BY <1>1, EnterPreserves, ListenPreserves, LeavePreserves, DeliverPreserves, CommitPreserves,
     TransientPreserves, EnvironmentPreserves
  DEF RunStep, TransientError
<1>2. CASE Publish \/ LeaseAges
  BY <1>2, EnvironmentPreserves
<1>3. CASE Terminated \/ UNCHANGED vars
  BY <1>3, StutterPreserves DEF Terminated
<1> QED BY <1>1, <1>2, <1>3 DEF Next

\* The inductive invariant holds in every reachable state.
THEOREM InvariantHolds == Spec => []IInv
  BY InitEstablishes, StepPreserves, PTL DEF Spec
-----------------------------------------------------------------------------
(* What follows. *)

\* Every variable keeps its type, the positions of the stream stay ordered, and
\* nothing is acknowledged that was not published.
THEOREM TypeCorrect == Spec => []TypeOK
<1>1. IInv => TypeOK
  BY DEF IInv
<1> QED BY <1>1, InvariantHolds, PTL

\* At-least-once delivery to every required sink, for any number of sessions
\* failing, retrying, crashing and displacing each other (run(): _deliver before
\* commit, on one connection).
THEOREM NoLossHolds == Spec => []NoLoss
<1>1. IInv => NoLoss
  BY DEF IInv
<1> QED BY <1>1, InvariantHolds, PTL

\* The session whose commit would succeed never holds a stale batch.
THEOREM HolderDeliversNextHolds == Spec => []HolderDeliversNext
<1>1. IInv => HolderDeliversNext
  BY DEF IInv
<1> QED BY <1>1, InvariantHolds, PTL

\* In one registration only a session that holds the lease moves the cursor.
LEMMA OnlyCommitMovesCursor ==
  ASSUME IInv, [Next]_vars, exists, cursor' # cursor
  PROVE \E s \in Session : pc[s] = "commit" /\ CommitEffect(s)
<1>1. ASSUME NEW s \in Session, EnterStep(s) \/ SetupTransient(s) PROVE cursor' = cursor
  BY <1>1
  DEF EnterStep, Enter, ReplaceStep, DropRefused, CreateSucceeds, CreateDuplicate, LeaseIsFree,
      LeaseIsHeld, WaitTimesOut, TakeOver, OpenSinks, SetupTransient, SetupEffect,
      ForceReleaseConsumer, DropConsumer, CreateConsumer, catalogVars
<1>2. ASSUME NEW s \in Session,
             \/ Listen(s) \/ ListenRefused(s) \/ ListenTransient(s) \/ Leave(s)
             \/ WriteSink(s) \/ SinkRaises(s) \/ CommitRefused(s) \/ Heartbeat(s) \/ Crash(s)
      PROVE cursor' = cursor
  BY <1>2 DEF Listen, ListenRefused, ListenTransient, Leave, WriteSink, SinkRaises,
              CommitRefused, Heartbeat, Crash, catalogVars
<1>3. ASSUME NEW s \in Session, Commit(s) \/ CommitTransient(s)
      PROVE pc[s] = "commit" /\ CommitEffect(s)
  BY <1>3 DEF Commit, CommitTransient, catalogVars
<1>4. ASSUME Publish \/ LeaseAges \/ Terminated \/ UNCHANGED vars PROVE cursor' = cursor
  BY <1>4 DEF Publish, LeaseAges, Terminated, vars, catalogVars
<1> QED BY <1>1, <1>2, <1>3, <1>4 DEF Next, RunStep, TransientError

\* The cursor moves only forward, over the window of a session that started right
\* after it, has delivered it and still has the lease: no gap and no overlap
\* between the commits of any sessions.
THEOREM CursorAdvancesHolds == Spec => CursorAdvancesContiguously
<1> DEFINE Contiguous ==
      exists /\ exists' /\ cursor' # cursor =>
        \E s \in Session :
          /\ pc[s] = "commit" /\ ~lost[s]
          /\ batch[s] = BatchOf(cursor + 1, cursor')
          /\ cursor' > cursor
<1>1. ASSUME IInv, [Next]_vars PROVE Contiguous
  <2> SUFFICES ASSUME exists, cursor' # cursor
               PROVE \E s \in Session :
                       /\ pc[s] = "commit" /\ ~lost[s]
                       /\ batch[s] = BatchOf(cursor + 1, cursor')
                       /\ cursor' > cursor
    OBVIOUS
  <2>1. PICK s \in Session : pc[s] = "commit" /\ CommitEffect(s)
    BY <1>1, OnlyCommitMovesCursor
  <2>2. /\ cursor' \in cursor..head /\ cursor' = batch[s].end
        /\ batch[s].start = cursor + 1
    BY <1>1, <2>1, CommitMovesOverDelivered
  <2>3. batch[s] \in [start : 1..(head + 1), end : 0..head] /\ cursor \in Int
    BY <1>1 DEF IInv, TypeOK, ControlType, CatalogType
  <2>4. batch[s] = BatchOf(cursor + 1, cursor')
    BY <2>2, <2>3 DEF BatchOf
  <2>5. cursor' > cursor
    BY <1>1, <2>2, <2>3 DEF IInv, TypeOK, CatalogType
  <2>6. ~lost[s]
    BY <1>1, <2>1 DEF CommitEffect, CommitConnection, IInv, LossIsKnown
  <2> QED BY <2>1, <2>4, <2>5, <2>6
<1> QED BY <1>1, InvariantHolds, PTL DEF Spec, CursorAdvancesContiguously
-----------------------------------------------------------------------------
(* The client implements the durable cursor. *)

\* A call of the set-up registers or removes the consumer, or changes nothing
\* the durable cursor knows.
LEMMA SetupRefines ==
  ASSUME TypeOK, NEW s \in Session, RestEffect(s)
  PROVE [Abstract!Next]_(Abstract!vars)
<1>1. CASE CreateConsumer(s)
  <2>1. opt[s].startAt \in {-1, 0} /\ head \in Nat
    BY OptionAssumption DEF TypeOK, OptionType, Now, CatalogType
  <2>2. base' \in 0..head /\ cursor' = base'
    BY <1>1, <2>1 DEF CreateConsumer, Now
  <2>3. Abstract!Register
    BY <1>1, <2>2 DEF CreateConsumer, Abstract!Register
  <2> QED BY <2>3 DEF Abstract!Next
<1>2. CASE DropConsumer
  BY <1>2 DEF DropConsumer, Abstract!Next, Abstract!Unregister
<1>3. CASE CatalogRests \/ ForceReleaseConsumer \/ LeaseTaken(s)
  BY <1>3 DEF CatalogRests, ForceReleaseConsumer, LeaseTaken, catalogVars, Abstract!vars
<1> QED BY <1>1, <1>2, <1>3 DEF RestEffect

\* A commit that takes effect advances the durable cursor, or repeats itself.
LEMMA CommitRefines ==
  ASSUME IInv, NEW s \in Session, pc[s] = "commit", CommitEffect(s), acked' = acked
  PROVE [Abstract!Next]_(Abstract!vars)
<1>1. /\ cursor' \in cursor..head
      /\ \A k \in Required : (cursor + 1)..cursor' \subseteq acked[k]
  BY CommitMovesOverDelivered
<1>2. exists /\ UNCHANGED <<head, exists, base, acked>> /\ cursor \in Int /\ head \in Int
  BY DEF CommitEffect, IInv, TypeOK, CatalogType
<1>3. CASE cursor' = cursor
  BY <1>2, <1>3 DEF Abstract!vars
<1>4. CASE cursor' # cursor
  <2>1. cursor' \in (cursor + 1)..head
    BY <1>1, <1>2, <1>4
  <2>2. Abstract!Advance
    BY <1>1, <1>2, <2>1 DEF Abstract!Advance
  <2> QED BY <2>2 DEF Abstract!Next
<1> QED BY <1>3, <1>4

\* Every step of the client is a step of the durable cursor or leaves it alone.
LEMMA StepRefines == IInv /\ [Next]_vars => [Abstract!Next]_(Abstract!vars)
<1> SUFFICES ASSUME IInv, [Next]_vars PROVE [Abstract!Next]_(Abstract!vars)
  OBVIOUS
<1>1. ASSUME NEW s \in Session, EnterStep(s) \/ SetupTransient(s)
      PROVE RestEffect(s)
  BY <1>1
  DEF EnterStep, Enter, ReplaceStep, DropRefused, CreateSucceeds, CreateDuplicate, LeaseIsFree,
      LeaseIsHeld, WaitTimesOut, TakeOver, OpenSinks, SetupTransient, SetupEffect, RestEffect,
      CatalogRests, ForceReleaseConsumer, DropConsumer, CreateConsumer, catalogVars
<1>2. ASSUME NEW s \in Session,
             \/ Listen(s) \/ ListenRefused(s) \/ ListenTransient(s) \/ Leave(s)
             \/ SinkRaises(s) \/ CommitRefused(s) \/ Heartbeat(s) \/ Crash(s)
      PROVE UNCHANGED Abstract!vars
  BY <1>2 DEF Listen, ListenRefused, ListenTransient, Leave, SinkRaises, CommitRefused,
              Heartbeat, Crash, catalogVars, Abstract!vars
<1>3. ASSUME NEW s \in Session, WriteSink(s) PROVE Abstract!Next
  <2>1. nextSink[s] \in Sink /\ batch[s].start <= batch[s].end
    BY <1>3 DEF WriteSink, IInv, SessionPhase, InFlight
  <2>2. batch[s].start \in 1..head /\ batch[s].end \in 1..head
    BY <2>1 DEF IInv, TypeOK, ControlType, CatalogType
  <2>3. /\ acked' = [acked EXCEPT ![nextSink[s]] = @ \cup (batch[s].start..batch[s].end)]
        /\ UNCHANGED <<head, exists, base, cursor>>
    BY <1>3 DEF WriteSink, Snapshots, catalogVars
  <2>4. Abstract!Acknowledge(nextSink[s])
    BY <2>2, <2>3 DEF Abstract!Acknowledge
  <2> QED BY <2>1, <2>4 DEF Abstract!Next
<1>4. ASSUME NEW s \in Session, Commit(s) \/ CommitTransient(s)
      PROVE [Abstract!Next]_(Abstract!vars)
  <2>1. pc[s] = "commit" /\ acked' = acked /\ (CommitEffect(s) \/ UNCHANGED catalogVars)
    BY <1>4 DEF Commit, CommitTransient
  <2> QED BY <2>1, CommitRefines DEF catalogVars, Abstract!vars
<1>5. CASE Publish
  BY <1>5 DEF Publish, Abstract!Next, Abstract!Publish
<1>6. CASE LeaseAges \/ Terminated \/ UNCHANGED vars
  BY <1>6 DEF LeaseAges, Terminated, vars, catalogVars, Abstract!vars
<1> QED BY <1>1, <1>2, <1>3, <1>4, <1>5, <1>6, SetupRefines
        DEF Next, RunStep, TransientError, IInv

\* Sessions, leases, retries and crashes together implement the durable cursor:
\* a cursor that only steps over snapshots every required sink acknowledged.
THEOREM ImplementsDurableCursorHolds == Spec => ImplementsDurableCursor
<1>1. Init => Abstract!Init
  BY DEF Init, Abstract!Init
<1> QED
  BY <1>1, StepRefines, InvariantHolds, PTL
  DEF Spec, ImplementsDurableCursor, Abstract!Spec
-----------------------------------------------------------------------------
(* Who loses a lease, and why a commit is refused.  Beside IInv this takes two  *)
(* facts about the life of a session: it has no lease before its first listen,  *)
(* and no reason to have ended before it has.                                   *)

Preparing == {"new", "open_sinks"} \cup SetupLabels

Life ==
  \A s \in Session :
    /\ pc[s] \in Preparing => owner # PinnedConnection(s)
    /\ pc[s] \notin EndLabels => why[s] = "none"

\* What a step of session s may do to the lives of all.
LivesOn(s) ==
  /\ \A x \in Session \ {s} : pc'[x] = pc[x] /\ why'[x] = why[x]
  /\ pc[s] \notin EndLabels
  /\ pc'[s] \in Preparing => pc[s] \in Preparing
  /\ pc'[s] \notin EndLabels => why'[s] \in {why[s], "none"}
  /\ owner' \in {owner, Nobody} \/ (owner' = s /\ pc'[s] \notin Preparing)

LEMMA Moved ==
  ASSUME ControlType, NEW s \in Session, NEW l
  PROVE  /\ Goto(s, l) => pc'[s] = l /\ \A x \in Session \ {s} : pc'[x] = pc[x]
         /\ \A r : Finish(s, l, r) =>
              /\ pc'[s] = l /\ why'[s] = r
              /\ \A x \in Session \ {s} : pc'[x] = pc[x] /\ why'[x] = why[x]
BY DEF ControlType, Goto, Finish

LEMMA Retried ==
  ASSUME ControlType, NEW s \in Session, NEW l, RetryFrom(s, l)
  PROVE  /\ \A x \in Session \ {s} : pc'[x] = pc[x] /\ why'[x] = why[x]
         /\ \/ pc'[s] = l /\ why'[s] = why[s]
            \/ pc'[s] = "failed" /\ why'[s] = "transient"
BY Moved DEF RetryFrom, Raise

LEMMA SetupLives ==
  ASSUME IInv, NEW s \in Session, EnterStep(s) \/ SetupTransient(s)
  PROVE  LivesOn(s)
<1> USE DEF IInv, TypeOK
<1>1. owner' \in {owner, Nobody}
  BY DEF EnterStep, Enter, ReplaceStep, DropRefused, CreateSucceeds, CreateDuplicate,
         LeaseIsFree, LeaseIsHeld, WaitTimesOut, TakeOver, OpenSinks, SetupTransient,
         SetupEffect, ForceReleaseConsumer, DropConsumer, CreateConsumer, SetOwner,
         catalogVars
<1>2. pc[s] \in Preparing /\ pc[s] \notin EndLabels
  BY DEF EnterStep, Enter, ReplaceStep, DropRefused, CreateSucceeds, CreateDuplicate,
         LeaseIsFree, LeaseIsHeld, WaitTimesOut, TakeOver, OpenSinks, SetupTransient,
         Preparing, SetupLabels, ReplaceLabels, EndLabels
<1>3. \/ \E l : Continue(s, l) \/ Begin(s, l)
      \/ \E r : Raise(s, r)
      \/ RetryFrom(s, SetupLabel(s))
  <2>1. CASE Enter(s) \/ ReplaceStep(s) \/ CreateSucceeds(s) \/ LeaseIsFree(s)
    BY <2>1 DEF Enter, ReplaceStep, CreateSucceeds, LeaseIsFree
  <2>2. CASE DropRefused(s) \/ WaitTimesOut(s)
    BY <2>2 DEF DropRefused, WaitTimesOut
  <2>3. CASE CreateDuplicate(s)
    BY <2>3 DEF CreateDuplicate
  <2>4. CASE LeaseIsHeld(s)
    <3>1. opt[s].leasePolicy \in {"error", "takeover", "wait"}
      BY OptionAssumption DEF OptionType
    <3> QED BY <2>4, <3>1 DEF LeaseIsHeld
  <2>5. CASE TakeOver(s)
    BY <2>5 DEF TakeOver
  <2>6. CASE OpenSinks(s)
    BY <2>6 DEF OpenSinks
  <2>7. CASE SetupTransient(s)
    BY <2>7 DEF SetupTransient
  <2> QED BY <2>1, <2>2, <2>3, <2>4, <2>5, <2>6, <2>7 DEF EnterStep
<1>4. CASE \E l : Continue(s, l) \/ Begin(s, l)
  BY <1>1, <1>2, <1>4, Moved DEF Continue, Begin, LivesOn
<1>5. CASE \E r : Raise(s, r)
  BY <1>1, <1>2, <1>5, Moved DEF Raise, LivesOn, EndLabels
<1>6. CASE RetryFrom(s, SetupLabel(s))
  BY <1>1, <1>2, <1>6, Retried DEF LivesOn, EndLabels
<1> QED BY <1>3, <1>4, <1>5, <1>6

LEMMA RunLives ==
  ASSUME IInv, NEW s \in Session,
         RunStep(s) \/ ListenTransient(s) \/ CommitTransient(s) \/ Crash(s)
  PROVE  LivesOn(s)
<1> USE DEF IInv, TypeOK
<1>1. CASE Listen(s)
  <2>1. owner' = s /\ why' = why /\ pc[s] = "listen" /\ (pc' = pc \/ Goto(s, "deliver"))
    BY <1>1 DEF Listen, AcquireLease, SetOwner, PinnedConnection
  <2> QED BY <2>1, Moved DEF LivesOn, Preparing, SetupLabels, ReplaceLabels, EndLabels
<1>2. CASE ListenTransient(s)
  <2>1. owner' \in {owner, s} /\ pc[s] = "listen" /\ RetryFrom(s, "listen")
    BY <1>2 DEF ListenTransient, AcquireLease, SetOwner, PinnedConnection, catalogVars
  <2> QED BY <2>1, Retried DEF LivesOn, Preparing, SetupLabels, ReplaceLabels, EndLabels
<1>3. CASE ListenRefused(s) \/ Leave(s) \/ CommitRefused(s) \/ Commit(s) \/ Crash(s)
  <2>1. owner' = owner
    BY <1>3 DEF ListenRefused, Leave, CommitRefused, Commit, CommitEffect, Crash, catalogVars
  <2>2. pc[s] \notin EndLabels
    BY <1>3 DEF ListenRefused, Leave, CommitRefused, Commit, Crash, EndLabels
  <2>3. \/ \E r : Finish(s, "failed", r)
        \/ \E l \in {"closed", "crashed", "listen"} : Finish(s, l, "none")
    <3>1. CASE ListenRefused(s) \/ CommitRefused(s)
      BY <3>1 DEF ListenRefused, CommitRefused, Raise
    <3>2. CASE Leave(s) \/ Commit(s) \/ Crash(s)
      BY <3>2 DEF Leave, Commit, Crash
    <3> QED BY <1>3, <3>1, <3>2
  <2>4. PICK l \in {"failed", "closed", "crashed", "listen"}, r \in {why'[s]} :
          Finish(s, l, r) /\ (l = "listen" => r = "none")
    <3>1. CASE \E r : Finish(s, "failed", r)
      <4>1. PICK r : Finish(s, "failed", r)
        BY <3>1
      <4>2. r = why'[s]
        BY <4>1, Moved
      <4> QED BY <4>1, <4>2
    <3>2. ASSUME NEW l \in {"closed", "crashed", "listen"}, Finish(s, l, "none")
          PROVE  \E m \in {"failed", "closed", "crashed", "listen"}, r \in {why'[s]} :
                   Finish(s, m, r) /\ (m = "listen" => r = "none")
      <4>1. why'[s] = "none"
        BY <3>2, Moved
      <4> QED BY <3>2, <4>1
    <3> QED BY <2>3, <3>1, <3>2
  <2>5. /\ pc'[s] = l /\ why'[s] = r
        /\ \A x \in Session \ {s} : pc'[x] = pc[x] /\ why'[x] = why[x]
    BY <2>4, Moved
  <2>6. l \notin Preparing /\ (l \notin EndLabels => l = "listen")
    BY DEF Preparing, SetupLabels, ReplaceLabels, EndLabels
  <2> QED BY <2>1, <2>2, <2>4, <2>5, <2>6 DEF LivesOn
<1>4. CASE WriteSink(s) \/ SinkRaises(s)
  <2>1. owner' = owner /\ pc[s] = "deliver"
    BY <1>4 DEF WriteSink, SinkRaises, catalogVars
  <2>2. \/ why' = why /\ (Goto(s, "commit") \/ Goto(s, "deliver"))
        \/ Finish(s, "failed", "sink")
    <3>1. NextSink(s) \/ Raise(s, "sink")
      BY <1>4 DEF WriteSink, SinkRaises
    <3>2. CASE NextSink(s)
      BY <3>2 DEF NextSink
    <3> QED BY <3>1, <3>2 DEF Raise
  <2>3. "commit" \notin Preparing /\ "deliver" \notin Preparing /\ "failed" \in EndLabels
        /\ "failed" \notin Preparing /\ "deliver" \notin EndLabels
    BY DEF Preparing, SetupLabels, ReplaceLabels, EndLabels
  <2>4. CASE Finish(s, "failed", "sink")
    BY <2>1, <2>3, <2>4, Moved DEF LivesOn
  <2>5. CASE why' = why /\ (Goto(s, "commit") \/ Goto(s, "deliver"))
    BY <2>1, <2>3, <2>5, Moved DEF LivesOn
  <2> QED BY <2>2, <2>4, <2>5
<1>5. CASE CommitTransient(s)
  <2>1. owner' = owner /\ pc[s] = "commit" /\ RetryFrom(s, "commit")
    BY <1>5 DEF CommitTransient, CommitEffect, catalogVars
  <2> QED BY <2>1, Retried DEF LivesOn, Preparing, SetupLabels, ReplaceLabels, EndLabels
<1> QED BY <1>1, <1>2, <1>3, <1>4, <1>5 DEF RunStep

\* The steps of no session, and heartbeats.
LEMMA NobodyLives ==
  ASSUME \/ \E s \in Session : Heartbeat(s)
         \/ Publish \/ LeaseAges \/ Terminated \/ UNCHANGED vars
  PROVE  UNCHANGED <<pc, why, owner>>
BY DEF Heartbeat, Publish, LeaseAges, Terminated, vars, catalogVars, sessionVars

LEMMA LifePreserves == IInv /\ Life /\ [Next]_vars => Life'
<1> SUFFICES ASSUME IInv, Life, [Next]_vars PROVE Life'
  OBVIOUS
<1>1. ASSUME NEW s \in Session, LivesOn(s) PROVE Life'
  BY <1>1, SessionAssumption DEF Life, LivesOn, PinnedConnection
<1>2. ASSUME UNCHANGED <<pc, why, owner>> PROVE Life'
  BY <1>2 DEF Life, PinnedConnection
<1> QED BY <1>1, <1>2, SetupLives, RunLives, NobodyLives DEF Next, TransientError

LEMMA LifeHolds == Spec => []Life
<1>1. Init => Life
  BY SessionAssumption DEF Init, Life, PinnedConnection
<1> QED BY <1>1, LifePreserves, InvariantHolds, PTL DEF Spec

LEMMA RefusedWasDisplaced ==
  ASSUME IInv, Life, [Next]_vars, NEW s \in Session,
         pc[s] = "commit", why'[s] \in {"busy", "missing"}
  PROVE  lost[s]
<1>1. why[s] = "none"
  BY DEF Life, EndLabels
<1>2. ASSUME NEW x \in Session, LivesOn(x) PROVE x = s
  BY <1>1, <1>2 DEF LivesOn
<1>3. CommitRefused(s)
  <2>1. ~ UNCHANGED <<pc, why, owner>>
    BY <1>1
  <2>2. PICK x \in Session :
          EnterStep(x) \/ SetupTransient(x) \/ RunStep(x) \/ ListenTransient(x)
            \/ CommitTransient(x) \/ Crash(x)
    BY <2>1, NobodyLives DEF Next, TransientError
  <2>3. x = s
    BY <1>2, <2>2, SetupLives, RunLives
  <2>4. Commit(s) \/ CommitRefused(s) \/ CommitTransient(s) \/ Crash(s)
    BY <2>2, <2>3
    DEF EnterStep, Enter, ReplaceStep, DropRefused, CreateSucceeds, CreateDuplicate,
        LeaseIsFree, LeaseIsHeld, WaitTimesOut, TakeOver, OpenSinks, SetupTransient,
        RunStep, Listen, ListenRefused, ListenTransient, Leave, WriteSink, SinkRaises,
        SetupLabels, ReplaceLabels
  <2>5. ASSUME Commit(s) \/ Crash(s) PROVE why'[s] = "none"
    BY <2>5, Moved DEF IInv, TypeOK, Commit, Crash
  <2>6. ASSUME CommitTransient(s) PROVE why'[s] \in {why[s], "transient"}
    BY <2>6, Retried DEF IInv, TypeOK, CommitTransient
  <2> QED BY <1>1, <2>4, <2>5, <2>6
<1>4. owner # PinnedConnection(s)
  BY <1>3, SessionAssumption
  DEF CommitRefused, CommitConnection, IInv, LeaseNeedsConsumer, PinnedConnection
<1> QED BY <1>4 DEF IInv, LossIsKnown, InFlight

\* A commit is refused only when another session ended the lease of this one.
THEOREM CommitRefusedHolds == Spec => CommitRefusedOnlyIfDisplaced
<1>1. IInv /\ Life /\ [Next]_vars =>
        [\A s \in Session :
           pc[s] = "commit" /\ why'[s] \in {"busy", "missing"} => lost[s]]_vars
  BY RefusedWasDisplaced
<1> QED BY <1>1, InvariantHolds, LifeHolds, PTL DEF Spec, CommitRefusedOnlyIfDisplaced

LEMMA DisplacedByPolicy ==
  ASSUME IInv, Life, [Next]_vars, NEW s \in Session,
         owner = s, owner' # s, heartbeat = "fresh"
  PROVE  \E t \in Session \ {s} :
           \/ pc[t] = "force" /\ opt[t].leasePolicy = "takeover"
           \/ pc[t] \in ReplaceLabels /\ opt[t].onExists = "replace"
<1>1. PICK t \in Session :
        EnterStep(t) \/ SetupTransient(t) \/ RunStep(t) \/ ListenTransient(t)
          \/ CommitTransient(t) \/ Crash(t)
  BY NobodyLives DEF Next, TransientError
<1>2. CASE EnterStep(t) \/ SetupTransient(t)
  <2>1. SetupEffect(t)
    BY <1>2
    DEF EnterStep, Enter, ReplaceStep, DropRefused, CreateSucceeds, CreateDuplicate,
        LeaseIsFree, LeaseIsHeld, WaitTimesOut, TakeOver, OpenSinks, SetupTransient,
        catalogVars
  <2>2. pc[t] \in {"force"} \cup ReplaceLabels
    BY <2>1 DEF SetupEffect, CreateConsumer, ReplaceLabels
  <2>3. t # s
    BY <2>2 DEF Life, Preparing, SetupLabels, PinnedConnection
  <2> QED BY <2>2, <2>3 DEF IInv, SetupFollowsOptions
<1>3. CASE RunStep(t) \/ ListenTransient(t) \/ CommitTransient(t) \/ Crash(t)
  <2>1. AcquireLease(t) /\ Grants(t)
    BY <1>3
    DEF RunStep, Listen, ListenRefused, ListenTransient, Leave, WriteSink, SinkRaises,
        Commit, CommitRefused, CommitTransient, CommitEffect, Crash, catalogVars
  <2> QED BY <2>1, SessionAssumption DEF AcquireLease, SetOwner, Grants, PinnedConnection
<1> QED BY <1>1, <1>2, <1>3

\* A fresh lease ends only at the hands of a session whose options ask for it.
THEOREM OnlyTakeoverDisplacesLiveHolds == Spec => OnlyTakeoverDisplacesLive
<1>1. IInv /\ Life /\ [Next]_vars =>
        [\A s \in Session :
           owner = s /\ owner' # s /\ heartbeat = "fresh" =>
             \E t \in Session \ {s} :
               \/ pc[t] = "force" /\ opt[t].leasePolicy = "takeover"
               \/ pc[t] \in ReplaceLabels /\ opt[t].onExists = "replace"]_vars
  BY DisplacedByPolicy
<1> QED BY <1>1, InvariantHolds, LifeHolds, PTL DEF Spec, OnlyTakeoverDisplacesLive
-----------------------------------------------------------------------------
(* What at-least-once costs. *)

\* Only a session that was displaced hands a sink what the cursor has passed.
THEOREM RedeliversHolds == Spec => []RedeliversOnlyIfDisplaced
<1>1. IInv => RedeliversOnlyIfDisplaced
  <2> SUFFICES ASSUME IInv, NEW s \in Session, pc[s] = "deliver", ~lost[s]
               PROVE  batch[s].start = cursor + 1
    BY DEF RedeliversOnlyIfDisplaced
  <2>1. owner = PinnedConnection(s)
    BY DEF IInv, LossIsKnown, InFlight
  <2> QED BY <2>1 DEF IInv, HolderDeliversNext, InFlight
<1> QED BY <1>1, InvariantHolds, PTL
-----------------------------------------------------------------------------
(* The set-up counts down.  A step of one session leaves the set-up of the    *)
(* others alone, so it is enough to follow each action of the set-up.         *)

\* Session s is not past the create of its first attempt.
Untried(s) == pc[s] = "new" \/ (pc[s] \in ReplaceLabels \cup {"create"} /\ attempt[s] = 1)

OwnCreate == \A s \in Session : Untried(s) => creator # s

CountsDown(s) ==
  pc[s] \in SetupLabels /\ pc'[s] \in SetupLabels =>
    \/ attempt[s] < attempt'[s] /\ attempt'[s] <= MaxAttempts
    \/ /\ attempt'[s] = attempt[s]
       /\ pc'[s] = pc[s] \/ CallsLeft[pc'[s]] < CallsLeft[pc[s]]

OthersWait(s) == \A x \in Session \ {s} : pc'[x] = pc[x] /\ attempt'[x] = attempt[x]

\* What a step of session s may do to the set-ups.
SetsUp(s) ==
  /\ OthersWait(s)
  /\ CountsDown(s)
  /\ Untried(s)' => Untried(s)
  /\ creator' = creator \/ (creator' = s /\ ~Untried(s)')

LEMMA Advanced ==
  ASSUME ControlType, NEW s \in Session, NEW l
  PROVE  /\ Continue(s, l) => pc'[s] = l /\ attempt'[s] = attempt[s] /\ OthersWait(s)
         /\ Begin(s, l) => pc'[s] = l /\ attempt'[s] = 1 /\ OthersWait(s)
         /\ \A r : Finish(s, l, r) => pc'[s] = l /\ attempt'[s] = 1 /\ OthersWait(s)
BY DEF ControlType, Continue, Begin, Finish, Goto, OthersWait

LEMMA Recounted ==
  ASSUME ControlType, NEW s \in Session, NEW l, RetryFrom(s, l)
  PROVE  /\ OthersWait(s)
         /\ \/ pc'[s] = l /\ attempt'[s] > 1 /\ attempt[s] < attempt'[s]
               /\ attempt'[s] <= MaxAttempts
            \/ pc'[s] = "failed" /\ attempt'[s] = 1
<1>1. attempt[s] \in 1..MaxAttempts /\ MaxAttempts \in Nat
  BY BoundAssumption DEF ControlType
<1>2. CASE attempt[s] < MaxAttempts /\ attempt' = [attempt EXCEPT ![s] = @ + 1] /\ Goto(s, l)
  BY <1>1, <1>2 DEF ControlType, Goto, OthersWait
<1>3. CASE Raise(s, "transient")
  BY <1>3, Advanced DEF Raise
<1> QED BY <1>2, <1>3 DEF RetryFrom

\* A session that goes on with its set-up, from one label to a later one.
LEMMA GoesOn ==
  ASSUME IInv, NEW s \in Session, NEW l, Continue(s, l), pc[s] \in SetupLabels,
         l = "open_sinks" \/ (l \in SetupLabels /\ CallsLeft[l] < CallsLeft[pc[s]]),
         creator' = creator \/ (creator' = s /\ l \in {"lookup", "open_sinks"}),
         l \in ReplaceLabels \cup {"create"} => pc[s] \in ReplaceLabels
  PROVE  SetsUp(s)
<1>1. pc'[s] = l /\ attempt'[s] = attempt[s] /\ OthersWait(s)
  BY Advanced DEF IInv, TypeOK
<1>2. Untried(s)' => Untried(s)
  BY <1>1 DEF Untried, SetupLabels, ReplaceLabels
<1>3. creator' = creator \/ (creator' = s /\ ~Untried(s)')
  BY <1>1 DEF Untried, ReplaceLabels
<1>4. CountsDown(s)
  BY <1>1 DEF CountsDown, SetupLabels, ReplaceLabels
<1> QED BY <1>1, <1>2, <1>3, <1>4 DEF SetsUp

\* A session that is through with the set-up, one way or the other.
LEMMA GoesOut ==
  ASSUME IInv, NEW s \in Session, creator' = creator, OthersWait(s),
         pc'[s] \in {"open_sinks", "listen", "failed", "closed", "crashed", "deliver", "commit"}
  PROVE  SetsUp(s)
BY DEF SetsUp, CountsDown, Untried, SetupLabels, ReplaceLabels

LEMMA EnterSetsUp ==
  ASSUME IInv, NEW s \in Session, EnterStep(s)
  PROVE  SetsUp(s)
<1> USE DEF IInv, TypeOK
<1>1. CASE Enter(s)
  <2>1. pc[s] = "new" /\ OthersWait(s) /\ creator' = creator
    BY <1>1, Advanced DEF Enter, catalogVars
  <2> QED BY <2>1 DEF SetsUp, CountsDown, Untried, SetupLabels, ReplaceLabels
<1>2. CASE ReplaceStep(s)
  <2>1. pc[s] \in ReplaceLabels /\ creator' = creator
        /\ Continue(s, IF pc[s] = "release" THEN "drop" ELSE "create")
    BY <1>2 DEF ReplaceStep, SetupEffect, ForceReleaseConsumer, DropConsumer, ReplaceLabels,
                catalogVars
  <2>2. CASE pc[s] = "release"
    BY <2>1, <2>2, GoesOn DEF SetupLabels, ReplaceLabels, CallsLeft
  <2>3. CASE pc[s] = "drop"
    BY <2>1, <2>3, GoesOn DEF SetupLabels, ReplaceLabels, CallsLeft
  <2> QED BY <2>1, <2>2, <2>3 DEF ReplaceLabels
<1>3. CASE CreateSucceeds(s)
  <2>1. pc[s] = "create" /\ creator' = s
        /\ (Continue(s, "open_sinks") \/ Continue(s, "lookup"))
    BY <1>3 DEF CreateSucceeds, SetupEffect, CreateConsumer
  <2> QED BY <2>1, GoesOn DEF SetupLabels, ReplaceLabels, CallsLeft
<1>4. CASE CreateDuplicate(s)
  <2>1. pc[s] = "create" /\ creator' = creator
        /\ (Continue(s, "lookup") \/ Raise(s, "exists"))
    BY <1>4 DEF CreateDuplicate, catalogVars
  <2>2. CASE Continue(s, "lookup")
    BY <2>1, <2>2, GoesOn DEF SetupLabels, ReplaceLabels, CallsLeft
  <2>3. CASE Raise(s, "exists")
    BY <2>1, <2>3, Advanced, GoesOut DEF Raise
  <2> QED BY <2>1, <2>2, <2>3
<1>5. CASE LeaseIsFree(s)
  <2>1. pc[s] \in {"lookup", "wait"} /\ creator' = creator /\ Continue(s, "open_sinks")
    BY <1>5 DEF LeaseIsFree, catalogVars
  <2> QED BY <2>1, GoesOn DEF SetupLabels, ReplaceLabels
<1>6. CASE LeaseIsHeld(s)
  <2>1. opt[s].leasePolicy \in {"error", "takeover", "wait"}
    BY OptionAssumption DEF OptionType
  <2>2. pc[s] = "lookup" /\ creator' = creator
        /\ (Raise(s, "leased") \/ Continue(s, "force") \/ Continue(s, "wait"))
    BY <1>6, <2>1 DEF LeaseIsHeld, catalogVars
  <2>3. CASE Raise(s, "leased")
    BY <2>2, <2>3, Advanced, GoesOut DEF Raise
  <2>4. CASE Continue(s, "force") \/ Continue(s, "wait")
    BY <2>2, <2>4, GoesOn DEF SetupLabels, ReplaceLabels, CallsLeft
  <2> QED BY <2>2, <2>3, <2>4
<1>7. CASE DropRefused(s) \/ WaitTimesOut(s)
  <2>1. creator' = creator /\ \E r : Raise(s, r)
    BY <1>7 DEF DropRefused, WaitTimesOut, catalogVars
  <2> QED BY <2>1, Advanced, GoesOut DEF Raise
<1>8. CASE TakeOver(s)
  <2>1. pc[s] = "force" /\ creator' = creator
        /\ (Continue(s, "open_sinks") \/ Raise(s, "missing"))
    BY <1>8 DEF TakeOver, SetupEffect, ForceReleaseConsumer, catalogVars
  <2>2. CASE Continue(s, "open_sinks")
    BY <2>1, <2>2, GoesOn DEF SetupLabels, ReplaceLabels
  <2>3. CASE Raise(s, "missing")
    BY <2>1, <2>3, Advanced, GoesOut DEF Raise
  <2> QED BY <2>1, <2>2, <2>3
<1>9. CASE OpenSinks(s)
  <2>1. creator' = creator /\ (Begin(s, "listen") \/ Raise(s, "sink"))
    BY <1>9 DEF OpenSinks, catalogVars
  <2> QED BY <2>1, Advanced, GoesOut DEF Raise
<1> QED BY <1>1, <1>2, <1>3, <1>4, <1>5, <1>6, <1>7, <1>8, <1>9 DEF EnterStep

LEMMA TransientSetsUp ==
  ASSUME IInv, NEW s \in Session, SetupTransient(s)
  PROVE  SetsUp(s)
<1> USE DEF IInv, TypeOK
<1>1. pc[s] \in SetupLabels /\ RetryFrom(s, SetupLabel(s))
  BY DEF SetupTransient
<1>2. creator' = creator \/ creator' = s
  BY DEF SetupTransient, SetupEffect, ForceReleaseConsumer, DropConsumer, CreateConsumer,
         catalogVars
<1>3. SetupLabel(s) \in {"release", "create"}
  BY DEF SetupLabel
<1>4. /\ OthersWait(s)
      /\ \/ pc'[s] = SetupLabel(s) /\ attempt'[s] > 1 /\ attempt[s] < attempt'[s]
            /\ attempt'[s] <= MaxAttempts
         \/ pc'[s] = "failed" /\ attempt'[s] = 1
  BY <1>1, Recounted
<1>5. ~Untried(s)'
  BY <1>3, <1>4 DEF Untried, ReplaceLabels
<1>6. CountsDown(s)
  BY <1>4 DEF CountsDown, SetupLabels, ReplaceLabels
<1> QED BY <1>2, <1>4, <1>5, <1>6 DEF SetsUp

\* Past the set-up.
LEMMA RunSetsUp ==
  ASSUME IInv, NEW s \in Session,
         RunStep(s) \/ ListenTransient(s) \/ CommitTransient(s) \/ Crash(s)
  PROVE  SetsUp(s)
<1> USE DEF IInv, TypeOK
<1>1. creator' = creator
  BY DEF RunStep, Listen, ListenRefused, ListenTransient, Leave, WriteSink, SinkRaises,
         Commit, CommitRefused, CommitTransient, CommitEffect, Crash, AcquireLease, SetOwner,
         catalogVars
<1>2. CASE Listen(s)
  <2>1. pc[s] = "listen" /\ (pc' = pc \/ Goto(s, "deliver"))
        /\ attempt' = [attempt EXCEPT ![s] = 1]
    BY <1>2 DEF Listen
  <2>2. OthersWait(s) /\ pc'[s] \in {"listen", "deliver"}
    BY <2>1 DEF ControlType, Goto, OthersWait
  <2> QED BY <1>1, <2>2, GoesOut
<1>3. CASE ListenRefused(s) \/ Leave(s) \/ CommitRefused(s) \/ Commit(s) \/ Crash(s)
  <2>1. \E l \in {"failed", "closed", "crashed", "listen"} : \E r : Finish(s, l, r)
    BY <1>3 DEF ListenRefused, CommitRefused, Raise, Leave, Commit, Crash
  <2> QED BY <1>1, <2>1, Advanced, GoesOut
<1>4. CASE WriteSink(s) \/ SinkRaises(s)
  <2>1. NextSink(s) \/ Raise(s, "sink")
    BY <1>4 DEF WriteSink, SinkRaises
  <2>2. CASE NextSink(s)
    <3>1. attempt' = attempt /\ (Goto(s, "commit") \/ Goto(s, "deliver"))
      BY <2>2 DEF NextSink
    <3>2. OthersWait(s) /\ pc'[s] \in {"commit", "deliver"}
      BY <3>1 DEF ControlType, Goto, OthersWait
    <3> QED BY <1>1, <3>2, GoesOut
  <2>3. CASE Raise(s, "sink")
    BY <1>1, <2>3, Advanced, GoesOut DEF Raise
  <2> QED BY <2>1, <2>2, <2>3
<1>5. CASE ListenTransient(s) \/ CommitTransient(s)
  <2>1. \E l \in {"listen", "commit"} : RetryFrom(s, l)
    BY <1>5 DEF ListenTransient, CommitTransient
  <2> QED BY <1>1, <2>1, Recounted, GoesOut
<1> QED BY <1>2, <1>3, <1>4, <1>5 DEF RunStep

LEMMA NobodySetsUp ==
  ASSUME \/ \E s \in Session : Heartbeat(s)
         \/ Publish \/ LeaseAges \/ Terminated \/ UNCHANGED vars
  PROVE  UNCHANGED <<pc, attempt, why, creator>>
BY DEF Heartbeat, Publish, LeaseAges, Terminated, vars, catalogVars, sessionVars

LEMMA StepSetsUp ==
  ASSUME IInv, [Next]_vars
  PROVE  (\E s \in Session : SetsUp(s)) \/ UNCHANGED <<pc, attempt, why, creator>>
BY EnterSetsUp, TransientSetsUp, RunSetsUp, NobodySetsUp DEF Next, TransientError

LEMMA OwnCreateHolds == Spec => []OwnCreate
<1>1. Init => OwnCreate
  BY SessionAssumption DEF Init, OwnCreate
<1>2. IInv /\ OwnCreate /\ [Next]_vars => OwnCreate'
  <2> SUFFICES ASSUME IInv, OwnCreate, [Next]_vars PROVE OwnCreate'
    OBVIOUS
  <2>1. ASSUME NEW s \in Session, SetsUp(s) PROVE OwnCreate'
    BY <2>1 DEF OwnCreate, SetsUp, OthersWait, Untried
  <2>2. ASSUME UNCHANGED <<pc, attempt, why, creator>> PROVE OwnCreate'
    BY <2>2 DEF OwnCreate, Untried
  <2> QED BY <2>1, <2>2, StepSetsUp
<1> QED BY <1>1, <1>2, InvariantHolds, PTL DEF Spec

\* Whatever is raced and retried, every step of a set-up brings it closer to its
\* end, and nobody else sets it back.
THEOREM SetupCountsDownHolds == Spec => SetupCountsDown
<1>1. IInv /\ [Next]_vars => [\A s \in Session : CountsDown(s)]_vars
  <2> SUFFICES ASSUME IInv, [Next]_vars, NEW s \in Session PROVE CountsDown(s)
    OBVIOUS
  <2>1. ASSUME NEW x \in Session, SetsUp(x) PROVE CountsDown(s)
    BY <2>1 DEF SetsUp, OthersWait, CountsDown
  <2>2. ASSUME UNCHANGED <<pc, attempt, why, creator>> PROVE CountsDown(s)
    BY <2>2 DEF CountsDown
  <2> QED BY <2>1, <2>2, StepSetsUp
<1> QED BY <1>1, InvariantHolds, PTL DEF Spec, SetupCountsDown, CountsDown

\* A step that raises "exists" is a create that met a registration.
LEMMA ExistsIsDuplicate ==
  ASSUME IInv, [Next]_vars, NEW s \in Session, why'[s] = "exists", why[s] # "exists"
  PROVE  pc[s] = "create"
<1> USE DEF IInv, TypeOK
<1>1. PICK x \in Session :
        EnterStep(x) \/ SetupTransient(x) \/ RunStep(x) \/ ListenTransient(x)
          \/ CommitTransient(x) \/ Crash(x)
  BY NobodySetsUp DEF Next, TransientError
<1>2. CASE CreateDuplicate(x)
  <2>1. pc[x] = "create" /\ (Continue(x, "lookup") \/ Raise(x, "exists"))
    BY <1>2 DEF CreateDuplicate
  <2> QED BY <2>1, Moved DEF Continue, Raise
<1>3. ASSUME \E l, r : r # "exists" /\ Finish(x, l, r) PROVE FALSE
  BY <1>3, Moved
<1>4. ASSUME why' = why PROVE FALSE
  BY <1>4
<1>5. ASSUME \E l : RetryFrom(x, l) PROVE FALSE
  BY <1>5, Retried
<1>6. ASSUME EnterStep(x), ~CreateDuplicate(x) PROVE FALSE
  <2>1. \/ why' = why
        \/ \E r \in {"busy", "leased", "timeout", "missing", "sink"} : Finish(x, "failed", r)
    <3>1. CASE LeaseIsHeld(x)
      <4>1. opt[x].leasePolicy \in {"error", "takeover", "wait"}
        BY OptionAssumption DEF OptionType
      <4> QED BY <3>1, <4>1 DEF LeaseIsHeld, Raise, Continue
    <3> QED
      BY <1>6, <3>1
      DEF EnterStep, Enter, ReplaceStep, DropRefused, CreateSucceeds, LeaseIsFree,
          WaitTimesOut, TakeOver, OpenSinks, Continue, Begin, Raise
  <2> QED BY <2>1, <1>3, <1>4
<1>7. ASSUME RunStep(x) \/ Crash(x) PROVE FALSE
  <2>1. \/ why' = why
        \/ \E l \in {"failed", "closed", "crashed", "listen"} :
             \E r \in {"none", "missing", "busy", "sink"} : Finish(x, l, r)
    BY <1>7
    DEF RunStep, Listen, ListenRefused, Leave, WriteSink, SinkRaises, NextSink, Commit,
        CommitRefused, Crash, Raise
  <2> QED BY <2>1, <1>3, <1>4
<1> QED
  BY <1>1, <1>2, <1>5, <1>6, <1>7 DEF SetupTransient, ListenTransient, CommitTransient

\* A session is told that its own registration exists only by a retry.
THEOREM OwnExistsHolds == Spec => OwnExistsOnlyAfterRetry
<1>1. IInv /\ OwnCreate /\ [Next]_vars =>
        [\A s \in Session :
           why'[s] = "exists" /\ why[s] # "exists" => creator # s \/ attempt[s] > 1]_vars
  <2> SUFFICES ASSUME IInv, OwnCreate, [Next]_vars, NEW s \in Session,
                      why'[s] = "exists", why[s] # "exists", creator = s
               PROVE  attempt[s] > 1
    OBVIOUS
  <2>1. pc[s] = "create"
    BY ExistsIsDuplicate
  <2>2. attempt[s] # 1
    BY <2>1 DEF OwnCreate, Untried
  <2>3. attempt[s] \in 1..MaxAttempts /\ MaxAttempts \in Nat
    BY BoundAssumption DEF IInv, TypeOK, ControlType
  <2> QED BY <2>2, <2>3
<1> QED BY <1>1, OwnCreateHolds, InvariantHolds, PTL DEF Spec, OwnExistsOnlyAfterRetry

\* Without retries on_exists="error" means what it says.
COROLLARY WithoutRetriesExistsMeansForeign ==
  ASSUME MaxAttempts = 1
  PROVE  Spec => ExistsErrorMeansForeign
<1>1. IInv /\ [\A s \in Session :
                 why'[s] = "exists" /\ why[s] # "exists" => creator # s \/ attempt[s] > 1]_vars
      => [\A s \in Session : why'[s] = "exists" /\ why[s] # "exists" => creator # s]_vars
  BY DEF IInv, TypeOK, ControlType
<1> QED
  BY <1>1, OwnExistsHolds, InvariantHolds, PTL
  DEF OwnExistsOnlyAfterRetry, ExistsErrorMeansForeign
-----------------------------------------------------------------------------
(* What DurableCursor.tla promises is kept by its implementation. *)

Cursor == INSTANCE DurableCursorProofs

\* While the consumer is registered no session, retry or lease takes its cursor back,
\* and no acknowledgement of a sink is lost: inherited from DurableCursor.tla.
THEOREM CursorNeverGoesBack == Spec => Cursor!NeverGoesBack
<1>1. Spec => Cursor!Spec
  BY ImplementsDurableCursorHolds, PTL
     DEF ImplementsDurableCursor, Abstract!Spec, Cursor!Spec, Abstract!Init, Cursor!Init,
         Abstract!Next, Cursor!Next, Abstract!vars, Cursor!vars, Abstract!Publish,
         Cursor!Publish, Abstract!Register, Cursor!Register, Abstract!Unregister,
         Cursor!Unregister, Abstract!Acknowledge, Cursor!Acknowledge, Abstract!Advance,
         Cursor!Advance
<1>2. Cursor!Spec => Cursor!NeverGoesBack
  BY SinkAssumption, Cursor!NeverGoesBackHolds
<1> QED BY <1>1, <1>2, PTL
=============================================================================
