------------------------ MODULE ConsumerLifecycleProofs ------------------------
(***************************************************************************)
(* Proofs about ConsumerLifecycle.tla, for any set of consumer objects and *)
(* any number of sinks and connections.                                    *)
(*                                                                         *)
(* The argument: connections are numbered in the order they are derived,   *)
(* so a new one is in no field of any object (Numbered), and an object     *)
(* that derives its connections shares none with another (Exclusive).      *)
(* Closing, or forgetting, therefore never takes a connection from under   *)
(* another object, and an object that is open keeps the client its set-up  *)
(* found open (Object).  The client of an object that derives is on what   *)
(* it will close, or on what it has closed, or failed to close (Bound).    *)
(***************************************************************************)
EXTENDS ConsumerLifecycle, TLAPS

\* What an object's fields say at each place of its owner's thread.
Object(c) ==
  /\ pc[c] = "inside" => opened[c]
  /\ pc[c] \in {"unborn", "outside", "constructing", "leaving"} => ~opened[c]
  /\ pc[c] \in {"setup", "opening"} \/ opened[c] =>
       client[c] # None /\ connection[c] = client[c]
  /\ pc[c] = "opening" => client[c] \in live /\ sink[c] >= 1
  /\ pc[c] = "constructing" => client[c] = None /\ connection[c] # None
  /\ pc[c] = "unborn" => client[c] = None /\ connection[c] = None /\ derived[c] = None
  /\ pc[c] \in {"unwinding", "leaving"} =>
       sink[c] <= NumSinks /\ \A k \in sinkOpen[c] : k <= sink[c]

\* Fields hold only connections that were made.
Numbered ==
  \A c \in Consumer : client[c] <= made /\ connection[c] <= made /\ derived[c] <= made

\* What an object derives is neither the caller's nor another object's.
Exclusive(c) ==
  IF source[c] = "derived"
  THEN \A k \in {client[c], connection[c], derived[c]} :
         k # None =>
           /\ k # Caller
           /\ \A p \in Consumer \ {c} : k \notin {client[p], connection[p], derived[p]}
  ELSE derived[c] = None

\* Which connection the fields of an object are on.
Bound(c) ==
  /\ source[c] = "client" => client[c] = Caller
  /\ source[c] = "connection" => {client[c], connection[c]} \subseteq {None, Caller}
  /\ source[c] = "derived" =>
       /\ client[c] = None => derived[c] \in {None, connection[c]}
       /\ pc[c] = "constructing" => derived[c] = connection[c]
       /\ client[c] # None =>
            \/ client[c] = derived[c]
            \/ derived[c] = None /\ (client[c] \notin live \/ client[c] \in stranded)

Closed(c) ==
  pc[c] \in {"unborn", "outside"} /\ ~skipped[c] => sinkOpen[c] = {} /\ derived[c] = None

Kept == \A k \in live : k = Caller \/ k \in stranded \/ \E c \in Consumer : derived[c] = k

\* Who closes what.
Ownership ==
  /\ Numbered
  /\ Caller \in live
  /\ Kept
  /\ \A c \in Consumer : Exclusive(c) /\ Bound(c)

IInv ==
  /\ TypeOK
  /\ \A c \in Consumer : Object(c)
  /\ Ownership
  /\ OpenMeansConnected
  /\ BatchOnLeaseConnection
  /\ \A c \in Consumer : Closed(c)
-----------------------------------------------------------------------------
(* One lemma per action.  Each has the same parts: types; who closes what;     *)
(* what the fields say of each object; and what the runs check of an object    *)
(* that is open.                                                               *)

\* A step that leaves the connections alone leaves alone who closes them.
LEMMA Untouched ==
  ASSUME IInv, UNCHANGED <<source, client, connection, derived, live, made, stranded>>,
         \A d \in Consumer : pc'[d] = "constructing" => pc[d] = "constructing"
  PROVE  Ownership'
BY DEF IInv, Ownership, Numbered, Kept, Exclusive, Bound

\* Forgetting what an object has derived, closed or not.
LEMMA Forgets ==
  ASSUME IInv, NEW c \in Consumer, ForgetDerived(c), UNCHANGED <<source, client, connection, made>>,
         \A d \in Consumer : pc'[d] = "constructing" => pc[d] = "constructing" /\ d # c
  PROVE  Ownership'
<1>1. /\ derived'[c] = None /\ \A d \in Consumer \ {c} : derived'[d] = derived[d]
      /\ live' \subseteq live /\ stranded \subseteq stranded'
      /\ \A k \in live : k \in live' \/ (k = derived[c] /\ stranded' = stranded)
      /\ \A k \in live' : k = derived[c] => k \in stranded'
      /\ derived[c] \in live' => derived[c] \in stranded'
  BY DEF IInv, TypeOK, ForgetDerived
<1>2. \A d \in Consumer : Exclusive(d) /\ Bound(d)
  BY DEF IInv, Ownership
<1>3. Numbered'
  BY <1>1 DEF IInv, TypeOK, Ownership, Numbered, Connection, None
<1>4. Caller \in live'
  BY <1>1, <1>2 DEF IInv, Ownership, Exclusive, None, Caller
<1>5. Kept'
  BY <1>1 DEF IInv, Ownership, Kept
<1>6. ASSUME NEW d \in Consumer PROVE Exclusive(d)'
  BY <1>1, <1>2 DEF Exclusive
<1>7. ASSUME NEW d \in Consumer PROVE Bound(d)'
  <2>1. CASE d = c
    BY <1>1, <1>2, <2>1 DEF Bound
  <2>2. CASE d # c
    <3>1. derived'[d] = derived[d]
      BY <1>1, <2>2
    <3>2. client[d] \notin live \/ client[d] \in stranded
            => client[d] \notin live' \/ client[d] \in stranded'
      BY <1>1
    <3> QED BY <1>2, <3>1, <3>2 DEF Bound
  <2> QED BY <2>1, <2>2
<1> QED BY <1>3, <1>4, <1>5, <1>6, <1>7 DEF Ownership

LEMMA EnterDerivedStep ==
  ASSUME BoundAssumption, IInv, NEW c \in Consumer, EnterDerived(c)
  PROVE  IInv'
<1>1. TypeOK'
  <2>1. made + 1 \in Connection
    BY DEF IInv, TypeOK, EnterDerived, Connection, BoundAssumption
  <2>2. live' \subseteq Connection /\ stranded' \subseteq Connection
    BY <2>1 DEF IInv, TypeOK, EnterDerived
  <2>3. /\ connection' \in [Consumer -> Connection \cup {None}]
        /\ derived' \in [Consumer -> Connection \cup {None}]
    BY <2>1 DEF IInv, TypeOK, EnterDerived
  <2> QED
    BY <2>1, <2>2, <2>3 DEF IInv, TypeOK, EnterDerived, Entering, Goto, Labels
<1>2. Ownership'
  BY DEF IInv, TypeOK, EnterDerived, Entering, Goto, fields, connections, Ownership,
    Numbered, Kept, Object, Exclusive, Bound, Connection, Sources, None, Caller,
    BoundAssumption
<1>3. \A d \in Consumer \ {c} :
        (client[d] \in live <=> client[d] \in live') \/ client[d] = None
  <2>1. source[c] = "derived" /\ \A d \in Consumer \ {c} : client[d] <= made
    BY DEF IInv, TypeOK, Sources, Ownership, Numbered, Bound, EnterDerived, None, Caller
  <2>2. \A d \in Consumer \ {c} : connection[c] # None => client[d] # connection[c]
    BY <2>1 DEF IInv, Ownership, Exclusive
  <2>3. \A d \in Consumer \ {c} : client[d] # made + 1
    <3> SUFFICES ASSUME NEW d \in Consumer \ {c} PROVE client[d] # made + 1
      OBVIOUS
    <3>1. client[d] \in Int /\ made \in Int /\ client[d] <= made
      BY <2>1 DEF IInv, TypeOK, Connection, None, BoundAssumption
    <3> QED BY <3>1
  <2> QED BY <2>2, <2>3 DEF EnterDerived
<1>4. ASSUME NEW d \in Consumer PROVE Object(d)' /\ Closed(d)'
  <2>1. CASE d = c
    BY <2>1 DEF IInv, TypeOK, EnterDerived, Entering, Goto, Object, Closed, Connection, None,
      BoundAssumption
  <2>2. CASE d # c
    <3>1. Object(d) /\ Closed(d)
      BY DEF IInv
    <3>2. /\ UNCHANGED <<pc[d], client[d], connection[d], derived[d], opened[d], sink[d],
                         sinkOpen[d], skipped[d]>>
      BY <2>2 DEF IInv, TypeOK, EnterDerived, Entering, Goto
    <3>3. client[d] # None /\ client[d] \in live => client[d] \in live'
      BY <1>3, <2>2
    <3> QED BY <3>1, <3>2, <3>3 DEF Object, Closed
  <2> QED BY <2>1, <2>2
<1>5. OpenMeansConnected'
  <2>1. ~opened[c] /\ client' = client /\ opened' = opened /\ spoiled' = spoiled
    BY DEF IInv, Object, EnterDerived, Entering
  <2>2. \A d \in Consumer : opened[d] => client[d] # None
    BY DEF IInv, Object
  <2> QED BY <1>3, <2>1, <2>2 DEF IInv, OpenMeansConnected
<1>6. BatchOnLeaseConnection'
  BY DEF IInv, EnterDerived, Entering, BatchOnLeaseConnection
<1> QED BY <1>1, <1>2, <1>4, <1>5, <1>6 DEF IInv

LEMMA EnterOverrideStep ==
  ASSUME BoundAssumption, IInv, NEW c \in Consumer, EnterOverride(c)
  PROVE  IInv'
<1>1. TypeOK'
  BY DEF IInv, TypeOK, EnterOverride, Entering, Goto, fields, connections, Labels,
    Sources, Connection, None, Caller, BoundAssumption
<1>2. Ownership'
  BY DEF IInv, TypeOK, EnterOverride, Entering, Goto, fields, connections, Ownership,
    Numbered, Kept, Object, Exclusive, Bound, Connection, Sources, None, Caller,
    BoundAssumption
<1>3. \A d \in Consumer : Object(d)' /\ Closed(d)'
  BY DEF IInv, TypeOK, EnterOverride, Entering, Goto, fields, connections, Ownership,
    Object, Closed, Exclusive, Connection, Sink, None, Caller, BoundAssumption
<1>4. OpenMeansConnected' /\ BatchOnLeaseConnection'
  BY DEF IInv, TypeOK, EnterOverride, Entering, Goto, fields, connections, Ownership,
    Object, Exclusive, OpenMeansConnected, BatchOnLeaseConnection, None
<1> QED BY <1>1, <1>2, <1>3, <1>4 DEF IInv

LEMMA EnterWithClientStep ==
  ASSUME BoundAssumption, IInv, NEW c \in Consumer, EnterWithClient(c)
  PROVE  IInv'
<1>1. TypeOK'
  BY DEF IInv, TypeOK, EnterWithClient, Entering, Goto, fields, connections, Labels,
    Sources, Connection, None, Caller, BoundAssumption
<1>2. Ownership'
  BY DEF IInv, TypeOK, EnterWithClient, Entering, Goto, fields, connections, Ownership,
    Numbered, Kept, Object, Exclusive, Bound, Connection, Sources, None, Caller,
    BoundAssumption
<1>3. \A d \in Consumer : Object(d)' /\ Closed(d)'
  BY DEF IInv, TypeOK, EnterWithClient, Entering, Goto, fields, connections, Ownership,
    Object, Closed, Exclusive, Connection, Sink, None, Caller, BoundAssumption
<1>4. OpenMeansConnected' /\ BatchOnLeaseConnection'
  BY DEF IInv, TypeOK, EnterWithClient, Entering, Goto, fields, connections, Ownership,
    Object, Exclusive, OpenMeansConnected, BatchOnLeaseConnection, None
<1> QED BY <1>1, <1>2, <1>3, <1>4 DEF IInv

LEMMA ConstructStep ==
  ASSUME BoundAssumption, IInv, NEW c \in Consumer, Construct(c)
  PROVE  IInv'
<1>1. TypeOK'
  BY DEF IInv, TypeOK, Construct, Goto, fields, connections, Labels, Sources, Connection,
    None, Caller, BoundAssumption
<1>2. Ownership'
  <2>1. /\ UNCHANGED <<source, connection, derived, live, made, stranded>>
        /\ client[c] = None /\ connection[c] # None
        /\ client'[c] = connection[c] /\ \A d \in Consumer \ {c} : client'[d] = client[d]
        /\ pc'[c] = "setup" /\ \A d \in Consumer \ {c} : pc'[d] = pc[d]
    BY DEF IInv, TypeOK, Object, Construct, Goto, connections
  <2>2. \A d \in Consumer : Exclusive(d) /\ Bound(d)
    BY DEF IInv, Ownership
  <2>3. (Numbered /\ Caller \in live /\ Kept)'
    BY <2>1 DEF IInv, Ownership, Numbered, Kept
  <2>4. ASSUME NEW d \in Consumer PROVE Exclusive(d)'
    BY <2>1, <2>2 DEF Exclusive
  <2>5. ASSUME NEW d \in Consumer PROVE Bound(d)'
    <3>1. pc[c] = "constructing"
      BY DEF Construct
    <3>2. CASE d = c
      BY <2>1, <2>2, <3>1, <3>2 DEF Bound, Caller, None
    <3>3. CASE d # c
      BY <2>1, <2>2, <3>3 DEF Bound
    <3> QED BY <3>2, <3>3
  <2> QED BY <2>3, <2>4, <2>5 DEF Ownership
<1>3. \A d \in Consumer : Object(d)' /\ Closed(d)'
  BY DEF IInv, TypeOK, Construct, Goto, fields, connections, Ownership, Object, Closed,
    Exclusive, Connection, Sink, None, Caller, BoundAssumption
<1>4. OpenMeansConnected' /\ BatchOnLeaseConnection'
  BY DEF IInv, TypeOK, Construct, Goto, fields, connections, Ownership, Object, Exclusive,
    OpenMeansConnected, BatchOnLeaseConnection, None
<1> QED BY <1>1, <1>2, <1>3, <1>4 DEF IInv

LEMMA ConstructRaisesStep ==
  ASSUME BoundAssumption, IInv, NEW c \in Consumer, ConstructRaises(c)
  PROVE  IInv'
<1>1. TypeOK'
  BY DEF IInv, TypeOK, ConstructRaises, Return, Goto, fields, connections, Labels,
    Sources, Connection, None, Caller, BoundAssumption
<1>2. Ownership'
  BY Untouched DEF IInv, TypeOK, ConstructRaises, Return, Goto, fields, connections
<1>3. \A d \in Consumer : Object(d)' /\ Closed(d)'
  BY DEF IInv, TypeOK, ConstructRaises, Return, Goto, fields, connections, Ownership,
    Object, Closed, Exclusive, Connection, Sink, None, Caller, BoundAssumption
<1>4. OpenMeansConnected' /\ BatchOnLeaseConnection'
  BY DEF IInv, TypeOK, ConstructRaises, Return, Goto, fields, connections, Ownership,
    Object, Exclusive, OpenMeansConnected, BatchOnLeaseConnection, None
<1> QED BY <1>1, <1>2, <1>3, <1>4 DEF IInv

LEMMA SetUpStep ==
  ASSUME BoundAssumption, IInv, NEW c \in Consumer, SetUp(c)
  PROVE  IInv'
<1>1. TypeOK'
  BY DEF IInv, TypeOK, SetUp, LoopAt, Goto, fields, connections, Labels, Sources,
    Connection, None, Caller, BoundAssumption
<1>2. Ownership'
  BY Untouched DEF IInv, TypeOK, SetUp, LoopAt, Goto, fields, connections
<1>3. \A d \in Consumer : Object(d)' /\ Closed(d)'
  BY DEF IInv, TypeOK, SetUp, LoopAt, Goto, fields, connections, Ownership, Object,
    Closed, Exclusive, Connection, Sink, None, Caller, BoundAssumption
<1>4. OpenMeansConnected' /\ BatchOnLeaseConnection'
  BY DEF IInv, TypeOK, SetUp, LoopAt, Goto, fields, connections, Ownership, Object,
    Exclusive, OpenMeansConnected, BatchOnLeaseConnection, None
<1> QED BY <1>1, <1>2, <1>3, <1>4 DEF IInv

LEMMA SetUpRaisesStep ==
  ASSUME BoundAssumption, IInv, NEW c \in Consumer, SetUpRaises(c)
  PROVE  IInv'
<1>1. TypeOK'
  BY DEF IInv, TypeOK, SetUpRaises, LoopAt, Goto, fields, connections, Labels, Sources,
    Connection, None, Caller, BoundAssumption
<1>2. Ownership'
  BY Untouched DEF IInv, TypeOK, SetUpRaises, LoopAt, Goto, fields, connections
<1>3. \A d \in Consumer : Object(d)' /\ Closed(d)'
  BY DEF IInv, TypeOK, SetUpRaises, LoopAt, Goto, fields, connections, Ownership, Object,
    Closed, Exclusive, Connection, Sink, None, Caller, BoundAssumption
<1>4. OpenMeansConnected' /\ BatchOnLeaseConnection'
  BY DEF IInv, TypeOK, SetUpRaises, LoopAt, Goto, fields, connections, Ownership, Object,
    Exclusive, OpenMeansConnected, BatchOnLeaseConnection, None
<1> QED BY <1>1, <1>2, <1>3, <1>4 DEF IInv

LEMMA OpenSinkStep ==
  ASSUME BoundAssumption, IInv, NEW c \in Consumer, OpenSink(c)
  PROVE  IInv'
<1>1. TypeOK'
  <2>1. sink[c] \in Sink /\ sink[c] + 1 \in 0..(NumSinks + 1)
    BY DEF IInv, TypeOK, Object, OpenSink, Sink, BoundAssumption
  <2>2. sinkOpen' \in [Consumer -> SUBSET Sink]
    BY <2>1 DEF IInv, TypeOK, OpenSink
  <2> QED
    BY <2>1, <2>2 DEF IInv, TypeOK, OpenSink, LoopAt, Goto, Labels, fields, connections
<1>2. Ownership'
  BY Untouched DEF IInv, TypeOK, OpenSink, LoopAt, Goto, fields, connections
<1>3. \A d \in Consumer : Object(d)' /\ Closed(d)'
  BY DEF IInv, TypeOK, OpenSink, LoopAt, Goto, fields, connections, Ownership, Object,
    Closed, Exclusive, Connection, Sink, None, Caller, BoundAssumption
<1>4. OpenMeansConnected' /\ BatchOnLeaseConnection'
  BY DEF IInv, TypeOK, OpenSink, LoopAt, Goto, fields, connections, Ownership, Object,
    Exclusive, OpenMeansConnected, BatchOnLeaseConnection, None
<1> QED BY <1>1, <1>2, <1>3, <1>4 DEF IInv

LEMMA OpenSinkRaisesStep ==
  ASSUME BoundAssumption, IInv, NEW c \in Consumer, OpenSinkRaises(c)
  PROVE  IInv'
<1>1. TypeOK'
  <2>1. sink[c] \in Sink /\ NumSinks \in 0..(NumSinks + 1)
    BY DEF IInv, TypeOK, Object, OpenSinkRaises, Sink, BoundAssumption
  <2>2. PICK half \in {{}, {sink[c]}} :
          sinkOpen' = [sinkOpen EXCEPT ![c] = (@ \ 1..(sink[c] - 1)) \cup half]
    BY DEF OpenSinkRaises
  <2>3. (sinkOpen[c] \ 1..(sink[c] - 1)) \cup half \in SUBSET Sink
    BY <2>1, <2>2 DEF IInv, TypeOK
  <2>4. sinkOpen' \in [Consumer -> SUBSET Sink]
    BY <2>2, <2>3 DEF IInv, TypeOK
  <2> QED
    BY <2>1, <2>4 DEF IInv, TypeOK, OpenSinkRaises, LoopAt, Goto, Labels, fields, connections
<1>2. Ownership'
  BY Untouched DEF IInv, TypeOK, OpenSinkRaises, LoopAt, Goto, fields, connections
<1>3. \A d \in Consumer : Object(d)' /\ Closed(d)'
  BY DEF IInv, TypeOK, OpenSinkRaises, LoopAt, Goto, fields, connections, Ownership,
    Object, Closed, Exclusive, Connection, Sink, None, Caller, BoundAssumption
<1>4. OpenMeansConnected' /\ BatchOnLeaseConnection'
  BY DEF IInv, TypeOK, OpenSinkRaises, LoopAt, Goto, fields, connections, Ownership,
    Object, Exclusive, OpenMeansConnected, BatchOnLeaseConnection, None
<1> QED BY <1>1, <1>2, <1>3, <1>4 DEF IInv

LEMMA EnteredStep ==
  ASSUME BoundAssumption, IInv, NEW c \in Consumer, Entered(c)
  PROVE  IInv'
<1>1. TypeOK'
  BY DEF IInv, TypeOK, Entered, LoopAt, Goto, fields, connections, Labels, Sources,
    Connection, None, Caller, BoundAssumption
<1>2. Ownership'
  BY Untouched DEF IInv, TypeOK, Entered, LoopAt, Goto, fields, connections
<1>3. \A d \in Consumer : Object(d)' /\ Closed(d)'
  BY DEF IInv, TypeOK, Entered, LoopAt, Goto, fields, connections, Ownership, Object,
    Closed, Exclusive, Connection, Sink, None, Caller, BoundAssumption
<1>4. OpenMeansConnected' /\ BatchOnLeaseConnection'
  BY DEF IInv, TypeOK, Entered, LoopAt, Goto, fields, connections, Ownership, Object,
    Exclusive, OpenMeansConnected, BatchOnLeaseConnection, None
<1> QED BY <1>1, <1>2, <1>3, <1>4 DEF IInv

LEMMA ExitStep ==
  ASSUME BoundAssumption, IInv, NEW c \in Consumer, Exit(c)
  PROVE  IInv'
<1>1. TypeOK'
  BY DEF IInv, TypeOK, Exit, LoopAt, Goto, fields, connections, Labels, Sources,
    Connection, None, Caller, BoundAssumption
<1>2. Ownership'
  BY Untouched DEF IInv, TypeOK, Exit, LoopAt, Goto, fields, connections
<1>3. \A d \in Consumer : Object(d)' /\ Closed(d)'
  BY DEF IInv, TypeOK, Exit, LoopAt, Goto, fields, connections, Ownership, Object, Closed,
    Exclusive, Connection, Sink, None, Caller, BoundAssumption
<1>4. OpenMeansConnected' /\ BatchOnLeaseConnection'
  BY DEF IInv, TypeOK, Exit, LoopAt, Goto, fields, connections, Ownership, Object,
    Exclusive, OpenMeansConnected, BatchOnLeaseConnection, None
<1> QED BY <1>1, <1>2, <1>3, <1>4 DEF IInv

LEMMA CloseSinkStep ==
  ASSUME BoundAssumption, IInv, NEW c \in Consumer, CloseSink(c)
  PROVE  IInv'
<1>1. TypeOK'
  BY DEF IInv, TypeOK, CloseSink, fields, connections, Labels, Sources, Connection, None,
    Caller, BoundAssumption
<1>2. Ownership'
  BY Untouched DEF IInv, TypeOK, CloseSink, fields, connections
<1>3. \A d \in Consumer : Object(d)' /\ Closed(d)'
  BY DEF IInv, TypeOK, CloseSink, fields, connections, Ownership, Object, Closed,
    Exclusive, Connection, Sink, None, Caller, BoundAssumption
<1>4. OpenMeansConnected' /\ BatchOnLeaseConnection'
  BY DEF IInv, TypeOK, CloseSink, fields, connections, Ownership, Object, Exclusive,
    OpenMeansConnected, BatchOnLeaseConnection, None
<1> QED BY <1>1, <1>2, <1>3, <1>4 DEF IInv

LEMMA CloseDerivedStep ==
  ASSUME BoundAssumption, IInv, NEW c \in Consumer, CloseDerived(c)
  PROVE  IInv'
<1>1. TypeOK'
  BY DEF IInv, TypeOK, CloseDerived, ForgetDerived, Return, Goto, fields, connections,
    Labels, Sources, Connection, None, Caller, BoundAssumption
<1>2. Ownership'
  <2>1. \A d \in Consumer : pc'[d] = "constructing" => pc[d] = "constructing" /\ d # c
    BY DEF IInv, TypeOK, CloseDerived, Return, Goto
  <2> QED BY <2>1, Forgets DEF CloseDerived
<1>3. \A d \in Consumer : Object(d)' /\ Closed(d)'
  BY DEF IInv, TypeOK, CloseDerived, ForgetDerived, Return, Goto, fields, connections,
    Ownership, Object, Closed, Exclusive, Connection, Sink, None, Caller, BoundAssumption
<1>4. OpenMeansConnected' /\ BatchOnLeaseConnection'
  BY DEF IInv, TypeOK, CloseDerived, ForgetDerived, Return, Goto, fields, connections,
    Ownership, Object, Exclusive, OpenMeansConnected, BatchOnLeaseConnection, None
<1> QED BY <1>1, <1>2, <1>3, <1>4 DEF IInv

LEMMA CleanUpInterruptedStep ==
  ASSUME BoundAssumption, IInv, NEW c \in Consumer, CleanUpInterrupted(c)
  PROVE  IInv'
<1>1. TypeOK'
  BY DEF IInv, TypeOK, CleanUpInterrupted, ForgetDerived, Return, Goto, fields,
    connections, Labels, Sources, Connection, None, Caller, BoundAssumption
<1>2. Ownership'
  <2>1. \A d \in Consumer : pc'[d] = "constructing" => pc[d] = "constructing" /\ d # c
    BY DEF IInv, TypeOK, CleanUpInterrupted, Return, Goto
  <2>2. CASE ForgetDerived(c)
    BY <2>1, <2>2, Forgets DEF CleanUpInterrupted
  <2>3. CASE UNCHANGED <<derived, live, stranded>>
    BY <2>1, <2>3, Untouched DEF CleanUpInterrupted
  <2> QED BY <2>2, <2>3 DEF CleanUpInterrupted
<1>3. \A d \in Consumer : Object(d)' /\ Closed(d)'
  BY DEF IInv, TypeOK, CleanUpInterrupted, ForgetDerived, Return, Goto, fields,
    connections, Ownership, Object, Closed, Exclusive, Connection, Sink, None, Caller,
    BoundAssumption
<1>4. OpenMeansConnected' /\ BatchOnLeaseConnection'
  BY DEF IInv, TypeOK, CleanUpInterrupted, ForgetDerived, Return, Goto, fields,
    connections, Ownership, Object, Exclusive, OpenMeansConnected, BatchOnLeaseConnection,
    None
<1> QED BY <1>1, <1>2, <1>3, <1>4 DEF IInv

LEMMA BuildBatchStep ==
  ASSUME BoundAssumption, IInv, NEW c \in Consumer, BuildBatch(c)
  PROVE  IInv'
<1>1. TypeOK'
  BY DEF IInv, TypeOK, BuildBatch, fields, connections, Labels, Sources, Connection, None,
    Caller, BoundAssumption
<1>2. Ownership'
  BY Untouched DEF IInv, TypeOK, BuildBatch, fields, connections
<1>3. \A d \in Consumer : Object(d)' /\ Closed(d)'
  BY DEF IInv, TypeOK, BuildBatch, fields, connections, Ownership, Object, Closed,
    Exclusive, Connection, Sink, None, Caller, BoundAssumption
<1>4. OpenMeansConnected' /\ BatchOnLeaseConnection'
  BY DEF IInv, TypeOK, BuildBatch, fields, connections, Ownership, Object, Exclusive,
    OpenMeansConnected, BatchOnLeaseConnection, None
<1> QED BY <1>1, <1>2, <1>3, <1>4 DEF IInv

LEMMA SucceedStep ==
  ASSUME BoundAssumption, IInv, NEW p \in Consumer, NEW c \in Consumer, Succeed(p, c)
  PROVE  IInv'
<1>1. TypeOK'
  BY DEF IInv, TypeOK, Succeed, Goto, fields, connections, Labels, Sources, Connection, None,
    Caller, BoundAssumption
<1>2. Ownership'
  BY DEF IInv, TypeOK, Succeed, Goto, connections, Ownership, Numbered, Kept, Object,
    Exclusive, Bound, Connection, None, Caller
<1>3. \A d \in Consumer : Object(d)' /\ Closed(d)'
  BY DEF IInv, TypeOK, Succeed, Goto, connections, Object, Closed, Sink, None, Caller
<1>4. OpenMeansConnected' /\ BatchOnLeaseConnection'
  BY DEF IInv, TypeOK, Succeed, Goto, connections, OpenMeansConnected,
    BatchOnLeaseConnection, None
<1> QED BY <1>1, <1>2, <1>3, <1>4 DEF IInv

-----------------------------------------------------------------------------
LEMMA Initially == ASSUME ConsumerAssumption, BoundAssumption, Init PROVE IInv
<1>1. TypeOK
  BY DEF ConsumerAssumption, BoundAssumption, Init, TypeOK, Sources, Labels, Connection,
         None, Caller
<1>2. \A c \in Consumer : Object(c) /\ Exclusive(c) /\ Bound(c) /\ Closed(c)
  BY DEF Init, Object, Exclusive, Bound, Closed, Sources, None, Caller
<1>3. Numbered /\ Caller \in live /\ Kept /\ OpenMeansConnected /\ BatchOnLeaseConnection
  BY DEF Init, Numbered, Kept, OpenMeansConnected, BatchOnLeaseConnection, Sources, None,
         Caller
<1> QED BY <1>1, <1>2, <1>3 DEF IInv, Ownership

LEMMA Inductive == ASSUME BoundAssumption, IInv, [Next]_vars PROVE IInv'
<1>1. ASSUME NEW c \in Consumer, Step(c) PROVE IInv'
  BY <1>1, EnterDerivedStep, EnterOverrideStep, EnterWithClientStep, ConstructStep,
    ConstructRaisesStep, SetUpStep, SetUpRaisesStep, OpenSinkStep, OpenSinkRaisesStep,
    EnteredStep, ExitStep, CloseSinkStep, CloseDerivedStep, CleanUpInterruptedStep,
    BuildBatchStep DEF Step
<1>2. ASSUME NEW p \in Consumer, NEW c \in Consumer, Succeed(p, c) PROVE IInv'
  BY <1>2, SucceedStep
<1>3. CASE UNCHANGED vars
  <2>1. Ownership'
    BY <1>3, Untouched DEF vars, fields, connections
  <2> QED BY <1>3, <2>1 DEF vars, fields, connections, IInv, TypeOK, Object,
             OpenMeansConnected, BatchOnLeaseConnection, Closed
<1> QED BY <1>1, <1>2, <1>3 DEF Next

\* The inductive invariant holds in every reachable state.
THEOREM InvariantHolds == Spec => []IInv
<1>1. Init => IInv
  BY Initially, ConsumerAssumption, BoundAssumption
<1>2. IInv /\ [Next]_vars => IInv'
  BY Inductive, BoundAssumption
<1> QED BY <1>1, <1>2, PTL DEF Spec

\* Every variable keeps its type.
THEOREM TypeCorrect == Spec => []TypeOK
<1>1. IInv => TypeOK BY DEF IInv
<1> QED BY <1>1, InvariantHolds, PTL

\* An object that is open has an open connection, whatever was entered, refused,
\* interrupted, closed or succeeded before.
THEOREM OpenMeansConnectedHolds == Spec => []OpenMeansConnected
<1>1. IInv => OpenMeansConnected BY DEF IInv
<1> QED BY <1>1, InvariantHolds, PTL

\* A batch's transaction begins on the connection its commit goes through.
THEOREM BatchOnLeaseConnectionHolds == Spec => []BatchOnLeaseConnection
<1>1. IInv => BatchOnLeaseConnection BY DEF IInv
<1> QED BY <1>1, InvariantHolds, PTL

\* No object closes a connection that is the caller's or in use by another.
THEOREM ClosesOnlyItsOwnHolds == Spec => []ClosesOnlyItsOwn
<1>1. IInv => ClosesOnlyItsOwn
  BY DEF IInv, TypeOK, Sources, Ownership, Exclusive, ClosesOnlyItsOwn
<1> QED BY <1>1, InvariantHolds, PTL

\* Outside its block an object holds nothing, unless an exception went past the
\* clean-up, or the close() of its connection failed.
THEOREM ClosedBehindHolds == Spec => []ClosedBehind
<1>1. IInv => ClosedBehind
  <2> SUFFICES ASSUME IInv, NEW c \in Consumer, pc[c] \in {"unborn", "outside"}, ~skipped[c]
               PROVE  /\ sinkOpen[c] = {} /\ derived[c] = None
                      /\ client[c] \in live => client[c] \in {Caller} \cup stranded
    BY DEF ClosedBehind
  <2>1. sinkOpen[c] = {} /\ derived[c] = None
    BY DEF IInv, Closed
  <2>2. client[c] \in live => client[c] \in {Caller} \cup stranded
    BY <2>1 DEF IInv, TypeOK, Sources, Connection, Ownership, Bound, None, Caller
  <2> QED BY <2>1, <2>2
<1> QED BY <1>1, InvariantHolds, PTL

\* No connection is left open that nobody will close, but one whose close() failed.
THEOREM NothingLeaksHolds == Spec => []NothingLeaks
<1>1. IInv => NothingLeaks BY DEF IInv, Ownership, Kept, NothingLeaks
<1> QED BY <1>1, InvariantHolds, PTL
-----------------------------------------------------------------------------
(* Entering again.  The run lifecycle_reenter shows one object that cannot be; *)
(* this is which objects cannot, and for how long.                             *)

\* An object without an override that was closed has a client on a connection that
\* is closed, or that it failed to close and will not close any more.
ClosingBreaksClient ==
  \A c \in Consumer :
    source[c] = "derived" /\ client[c] # None /\ derived[c] = None =>
      client[c] \notin live \/ client[c] \in stranded

\* An object whose client is on a closed connection keeps that client, the connection
\* stays closed, and the object never opens again.
BrokenForGood ==
  [][\A c \in Consumer :
       client[c] # None /\ client[c] \notin live =>
         /\ client'[c] = client[c] /\ client'[c] \notin live'
         /\ opened'[c] => opened[c]]_vars

\* What a step of one object does to the connections that are open.
LEMMA LiveSteps ==
  ASSUME IInv, NEW c \in Consumer, Step(c)
  PROVE  live' \subseteq live \/ (made' = made + 1 /\ live' \subseteq live \cup {made + 1})
<1>1. ASSUME EnterOverride(c) \/ EnterWithClient(c) \/ Construct(c) \/ ConstructRaises(c)
      PROVE  live' = live
  BY <1>1 DEF EnterOverride, EnterWithClient, Construct, ConstructRaises, connections
<1>2. ASSUME SetUp(c) \/ SetUpRaises(c) \/ OpenSink(c) \/ OpenSinkRaises(c) \/ Entered(c)
      PROVE  live' = live
  BY <1>2 DEF SetUp, SetUpRaises, OpenSink, OpenSinkRaises, Entered, connections
<1>3. ASSUME Exit(c) \/ CloseSink(c) \/ BuildBatch(c)
      PROVE  live' = live
  BY <1>3 DEF Exit, CloseSink, BuildBatch, connections
<1>4. ASSUME CloseDerived(c) \/ CleanUpInterrupted(c)
      PROVE  live' \subseteq live
  BY <1>4 DEF CloseDerived, CleanUpInterrupted, ForgetDerived
<1>5. ASSUME EnterDerived(c)
      PROVE  made' = made + 1 /\ live' \subseteq live \cup {made + 1}
  BY <1>5 DEF EnterDerived
<1> QED BY <1>1, <1>2, <1>3, <1>4, <1>5 DEF Step

\* A closed connection stays closed: a new one has a number of its own.
LEMMA StaysClosed ==
  ASSUME BoundAssumption, IInv, [Next]_vars, NEW k \in Connection, k <= made, k \notin live
  PROVE  k \notin live'
<1>1. ASSUME NEW c \in Consumer, Step(c) PROVE k \notin live'
  BY <1>1, LiveSteps DEF IInv, TypeOK, Connection, BoundAssumption
<1>2. ASSUME NEW p \in Consumer, NEW c \in Consumer, Succeed(p, c) PROVE k \notin live'
  BY <1>2 DEF Succeed, connections
<1>3. ASSUME UNCHANGED vars PROVE k \notin live'
  BY <1>3 DEF vars, connections
<1> QED BY <1>1, <1>2, <1>3 DEF Next

\* A client is bound once.
LEMMA ClientStays ==
  ASSUME IInv, [Next]_vars, NEW d \in Consumer, client[d] # None
  PROVE  client'[d] = client[d]
<1>1. ASSUME NEW c \in Consumer, Step(c) PROVE client'[d] = client[d]
  <2>1. CASE Construct(c)
    BY <1>1, <2>1 DEF Construct, IInv, TypeOK, Object
  <2>2. ASSUME EnterDerived(c) \/ EnterOverride(c) \/ EnterWithClient(c) \/ ConstructRaises(c)
        PROVE  client' = client
    BY <2>2 DEF EnterDerived, EnterOverride, EnterWithClient, ConstructRaises, fields
  <2>3. ASSUME SetUp(c) \/ SetUpRaises(c) \/ OpenSink(c) \/ OpenSinkRaises(c) \/ Entered(c)
        PROVE  client' = client
    BY <2>3 DEF SetUp, SetUpRaises, OpenSink, OpenSinkRaises, Entered, fields
  <2>4. ASSUME Exit(c) \/ CloseSink(c) \/ CloseDerived(c) \/ CleanUpInterrupted(c) \/ BuildBatch(c)
        PROVE  client' = client
    BY <2>4 DEF Exit, CloseSink, CloseDerived, CleanUpInterrupted, BuildBatch, fields
  <2> QED BY <1>1, <2>1, <2>2, <2>3, <2>4 DEF Step
<1>2. ASSUME NEW p \in Consumer, NEW c \in Consumer, Succeed(p, c) PROVE client' = client
  BY <1>2 DEF Succeed, fields
<1>3. ASSUME UNCHANGED vars PROVE client' = client
  BY <1>3 DEF vars, fields
<1> QED BY <1>1, <1>2, <1>3 DEF Next

\* An object opens only through a set-up, which needs its connection.
LEMMA OpensConnected ==
  ASSUME IInv, [Next]_vars, NEW d \in Consumer, ~opened[d], opened'[d]
  PROVE  client[d] \in live
<1>1. ASSUME NEW c \in Consumer, Step(c) PROVE client[d] \in live
  <2>1. CASE Entered(c)
    BY <1>1, <2>1 DEF Entered, IInv, TypeOK, Object
  <2>2. CASE Exit(c)
    BY <1>1, <2>2 DEF Exit, IInv, TypeOK
  <2>3. ASSUME EnterDerived(c) \/ EnterOverride(c) \/ EnterWithClient(c) \/ Construct(c)
               \/ ConstructRaises(c)
        PROVE  opened' = opened
    BY <2>3 DEF EnterDerived, EnterOverride, EnterWithClient, Construct, ConstructRaises, Entering,
       fields
  <2>4. ASSUME SetUp(c) \/ SetUpRaises(c) \/ OpenSink(c) \/ OpenSinkRaises(c)
        PROVE  opened' = opened
    BY <2>4 DEF SetUp, SetUpRaises, OpenSink, OpenSinkRaises, fields
  <2>5. ASSUME CloseSink(c) \/ CloseDerived(c) \/ CleanUpInterrupted(c) \/ BuildBatch(c)
        PROVE  opened' = opened
    BY <2>5 DEF CloseSink, CloseDerived, CleanUpInterrupted, BuildBatch, fields
  <2> QED BY <1>1, <2>1, <2>2, <2>3, <2>4, <2>5 DEF Step
<1>2. ASSUME NEW p \in Consumer, NEW c \in Consumer, Succeed(p, c) PROVE opened' = opened
  BY <1>2 DEF Succeed, fields
<1>3. ASSUME UNCHANGED vars PROVE opened' = opened
  BY <1>3 DEF vars, fields
<1> QED BY <1>1, <1>2, <1>3 DEF Next

\* An object that was closed with its connection cannot be entered again, ever.
THEOREM BrokenForGoodHolds == Spec => BrokenForGood
<1>1. ASSUME IInv, [Next]_vars, NEW c \in Consumer, client[c] # None, client[c] \notin live
      PROVE  /\ client'[c] = client[c] /\ client'[c] \notin live'
             /\ opened'[c] => opened[c]
  <2>1. client[c] \in Connection /\ client[c] <= made
    BY <1>1 DEF IInv, TypeOK, Ownership, Numbered
  <2> QED BY <1>1, <2>1, StaysClosed, ClientStays, OpensConnected, BoundAssumption
<1>2. IInv /\ [Next]_vars =>
        [\A c \in Consumer :
           client[c] # None /\ client[c] \notin live =>
             /\ client'[c] = client[c] /\ client'[c] \notin live'
             /\ opened'[c] => opened[c]]_vars
  BY <1>1
<1> QED BY <1>2, InvariantHolds, PTL DEF Spec, BrokenForGood

\* Every object without an override is broken by its first close, and by
\* BrokenForGoodHolds for good; unless close() failed, when its client goes on with
\* a connection the object has forgotten.
THEOREM ClosingBreaksClientHolds == Spec => []ClosingBreaksClient
<1>1. IInv => ClosingBreaksClient
  BY DEF IInv, Ownership, Bound, ClosingBreaksClient
<1> QED BY <1>1, InvariantHolds, PTL
=============================================================================
