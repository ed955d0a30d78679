--------------------------- MODULE ConnManagerProofs ---------------------------
(***************************************************************************)
(* Proofs about ConnManager, for every number of databases, clients and    *)
(* pools, every capacity, and with or without the reaper.                  *)
(***************************************************************************)
EXTENDS ConnManager, FiniteSetTheorems, TLAPS

-------------------------------------------------------------------------------
(* Facts about the constants *)

LEMMA ConnIDFinite == IsFiniteSet(ConnID)
BY CapacityAssumption, FS_Interval DEF ConnID

LEMMA SubsetFinite ==
    ASSUME NEW S \in SUBSET ConnID
    PROVE  IsFiniteSet(S) /\ Cardinality(S) \in Nat
BY ConnIDFinite, FS_Subset, FS_CardinalityType

LEMMA DialingFinite == IsFiniteSet(Dialing) /\ Cardinality(Dialing) \in Nat
BY HandlerAssumption, FS_Subset, FS_CardinalityType DEF Dialing

-------------------------------------------------------------------------------
(* How a step changes the registry *)

\* A step that closes pools, whoever takes it.
Closes == \E ids \in SUBSET conns : CloseLocked(ids)

LEMMA RegistrySteps ==
    ASSUME TypeOK, RegistryConsistent, [Next]_vars
    PROVE  \/ UNCHANGED <<registryVars, Dialing>>
           \/ \E h \in Handler : TakeSlot(h)
           \/ \E h \in Handler : DialFail(h) \/ DropDuplicate(h)
           \/ \E h \in Handler : Register(h)
           \/ Closes /\ UNCHANGED Dialing
<1> USE DEF Dialing, registryVars, poolVars
<1>1. ASSUME NEW h \in Handler, NEW k \in Key, Connect(h, k)
      PROVE  UNCHANGED <<registryVars, Dialing>>
  BY <1>1 DEF Connect, Answer, Goto, HandlerOnly, TypeOK, RequestType
<1>2. ASSUME NEW h \in Handler, NoSlot(h) \/ LookHit(h) \/ LookMiss(h) \/ GiveUp(h)
                                \/ DialLost(h)
      PROVE  UNCHANGED <<registryVars, Dialing>>
  BY <1>2 DEF NoSlot, LookHit, LookMiss, GiveUp, DialLost, Answer, Goto, Adopt,
              HandlerOnly, TypeOK, RequestType
<1>3. ASSUME NEW h \in Handler, NEW c \in Issued, Submit(h, c) \/ Ping(h, c)
      PROVE  UNCHANGED <<registryVars, Dialing>>
  BY <1>3 DEF Submit, Ping, Lookup, Answer, Goto, HandlerOnly, TypeOK, RequestType
<1>4. ASSUME NEW h \in Handler, NEW c \in Issued, CloseConn(h, c)
      PROVE  (Closes \/ UNCHANGED registryVars) /\ UNCHANGED Dialing
  BY <1>4 DEF Closes, CloseConn, Answer, Goto, HandlerOnly, TypeOK, RequestType
<1>5. ASSUME NEW h \in Handler,
             Enqueue(h) \/ TakeResult(h) \/ SeeDone(h) \/ PingEnd(h) \/ WriteReply(h)
      PROVE  UNCHANGED <<registryVars, Dialing>>
  BY <1>5 DEF Enqueue, TakeResult, SeeDone, PingEnd, WriteReply, Answer, Goto,
              HandlerOnly, TypeOK, RequestType
<1>6. ASSUME NEW c \in ConnID, WorkerStep(c) \/ Tick(c)
      PROVE  UNCHANGED <<registryVars, Dialing>>
  BY <1>6 DEF WorkerStep, WorkerExit, WorkerTake, AcquireQuerySem, ExecStart,
              ExecEnd, WorkerOnly, Tick, handlerVars
<1>7. CASE ReaperStep
  <2>1. CASE ReapScan
    <3>. {keys[key[c]] : c \in StalePools} \cap conns \in SUBSET conns
      OBVIOUS
    <3>. QED  BY <2>1 DEF ReapScan, Closes, handlerVars
  <2>2. CASE \E c \in toProbe : ProbeOk(c) \/ ProbeFail(c)
    BY <2>2 DEF ProbeOk, ProbeFail, handlerVars
  <2>3. CASE RetireDead
    BY <2>3, NameAssumption DEF RetireDead, handlerVars, TypeOK, RegistryType, ReaperType
  <2>4. CASE ReaperExit
    BY <2>4 DEF ReaperExit, handlerVars
  <2>. QED  BY <1>7, <2>1, <2>2, <2>3, <2>4 DEF ReaperStep
<1>8. ASSUME NEW s \in Stopper, StopperStep(s)
      PROVE  (Closes \/ UNCHANGED registryVars) /\ UNCHANGED Dialing
  BY <1>8 DEF StopperStep, StopReaper, JoinReaper, CloseAll, Closes, handlerVars
<1>9. CASE UNCHANGED vars
  BY <1>9 DEF vars, handlerVars
<1>. QED
  BY <1>1, <1>2, <1>3, <1>4, <1>5, <1>6, <1>7, <1>8, <1>9 DEF Next, HandlerStep

-------------------------------------------------------------------------------
(* Types *)

LEMMA CloseTypes ==
    ASSUME TypeOK, NEW ids \in SUBSET conns, CloseLocked(ids)
    PROVE  /\ conns' \subseteq ConnID
           /\ closed' \subseteq ConnID
           /\ keys' \in [Key -> ConnID \cup {None}]
           /\ globalSem' \in 0..GlobalMaxOpen
<1>1. Cardinality(ids) \in Nat
  BY SubsetFinite DEF TypeOK, RegistryType
<1>. QED
  BY <1>1, CapacityAssumption DEF CloseLocked, WithoutConns, WithoutKeys, TypeOK, RegistryType

LEMMA RegistryTypeStep ==
    ASSUME TypeOK, RegistryConsistent, RequestConsistent, [Next]_vars
    PROVE  RegistryType'
<1> USE DEF RegistryType
<1> DEFINE Registered == /\ conns' \subseteq ConnID
                         /\ closed' \subseteq ConnID
                         /\ keys' \in [Key -> ConnID \cup {None}]
                         /\ nextID' \in 0..MaxConnID
                         /\ key' \in [ConnID -> Key \cup {None}]
                         /\ globalSem' \in 0..GlobalMaxOpen
           Aged == age' \in [ConnID -> {Fresh, Probable, Stale}]
<1>1. Registered
  <2>1. CASE UNCHANGED registryVars
    BY <2>1 DEF registryVars, poolVars, TypeOK
  <2>2. ASSUME NEW h \in Handler, TakeSlot(h) \/ DialFail(h) \/ DropDuplicate(h)
        PROVE  Registered
    BY <2>2, CapacityAssumption DEF TakeSlot, SlotFree, DialFail, DropDuplicate,
       ReleaseSlot, poolVars, TypeOK
  <2>3. ASSUME NEW h \in Handler, Register(h)
        PROVE  Registered
    BY <2>3, CapacityAssumption DEF Register, TypeOK, ConnID, RequestConsistent
  <2>4. CASE Closes
    BY <2>4, CloseTypes DEF Closes, CloseLocked, TypeOK
  <2>. QED  BY <2>1, <2>2, <2>3, <2>4, RegistrySteps
<1>2. Aged
  <2>. USE DEF Fresh, Probable, Stale
  <2>1. ASSUME NEW h \in Handler, HandlerStep(h)  PROVE Aged
    <3>1. CASE Register(h)
      BY <3>1 DEF Register, TypeOK
    <3>2. CASE ~ Register(h)
      BY <2>1, <3>2 DEF HandlerStep, HandlerOnly, Connect, TakeSlot, NoSlot, LookHit,
         LookMiss, GiveUp, DialFail, DialLost, DropDuplicate, Submit, Ping, Lookup,
         CloseConn, Enqueue, TakeResult, SeeDone, PingEnd, WriteReply, TypeOK
    <3>. QED  BY <3>1, <3>2
  <2>2. ASSUME NEW c \in ConnID, WorkerStep(c)  PROVE Aged
    BY <2>2 DEF WorkerStep, WorkerExit, WorkerTake, AcquireQuerySem, ExecStart, ExecEnd,
       WorkerOnly, TypeOK
  <2>3. ASSUME NEW c \in ConnID, Tick(c)  PROVE Aged
    BY <2>3 DEF Tick, TypeOK
  <2>4. CASE ReaperStep
    BY <2>4 DEF ReaperStep, ReapScan, ProbeOk, ProbeFail, RetireDead, ReaperExit, TypeOK
  <2>5. ASSUME NEW s \in Stopper, StopperStep(s)  PROVE Aged
    BY <2>5 DEF StopperStep, StopReaper, JoinReaper, CloseAll, TypeOK
  <2>6. CASE UNCHANGED vars
    BY <2>6 DEF vars, TypeOK
  <2>. QED  BY <2>1, <2>2, <2>3, <2>4, <2>5, <2>6 DEF Next
<1>. QED  BY <1>1, <1>2

LEMMA QueryTypeStep ==
    ASSUME TypeOK, RequestConsistent, [Next]_vars
    PROVE  QueryType'
<1> USE DEF QueryType
<1>1. ASSUME NEW h \in Handler, HandlerStep(h)  PROVE QueryType'
  <2>1. CASE Register(h)
    BY <2>1 DEF Register, TypeOK
  <2>2. CASE Enqueue(h)
    <3>1. reqConn[h] \in ConnID
      BY <2>2, CapacityAssumption DEF Enqueue, RequestConsistent, TypeOK, RegistryType, ConnID
    <3>2. Append(queue[reqConn[h]], h) \in Seq(Handler)
      BY <3>1 DEF TypeOK
    <3>. QED  BY <2>2, <3>1, <3>2 DEF Enqueue, TypeOK
  <2>3. CASE ~ Register(h) /\ ~ Enqueue(h)
    BY <1>1, <2>3 DEF HandlerStep, HandlerOnly, queryVars, Connect, TakeSlot, NoSlot, LookHit,
       LookMiss, GiveUp, DialFail, DialLost, DropDuplicate, Submit, Ping, Lookup,
       CloseConn, TakeResult, SeeDone, PingEnd, WriteReply, TypeOK
  <2>. QED  BY <2>1, <2>2, <2>3
<1>2. ASSUME NEW c \in ConnID, WorkerStep(c)  PROVE QueryType'
  <2>1. CASE WorkerTake(c)
    BY <2>1 DEF WorkerTake, TypeOK
  <2>2. CASE WorkerExit(c) \/ AcquireQuerySem(c)
    <3>1. querySem' \in 0..MaxConcurrentQuery
      BY <2>2, CapacityAssumption DEF WorkerExit, AcquireQuerySem, TypeOK
    <3>. QED  BY <2>2, <3>1 DEF WorkerExit, AcquireQuerySem, TypeOK
  <2>3. CASE ExecStart(c) \/ \E o \in Outcome : ExecEnd(c, o)
    <3>1. querySem' \in 0..MaxConcurrentQuery
      BY <2>3, CapacityAssumption DEF ExecStart, ExecEnd, Deliver, ReleaseQuerySem, TypeOK
    <3>. QED  BY <2>3, <3>1 DEF ExecStart, ExecEnd, Deliver, TypeOK
  <2>. QED  BY <1>2, <2>1, <2>2, <2>3 DEF WorkerStep
<1>3. ASSUME NEW c \in ConnID, Tick(c)  PROVE QueryType'
  BY <1>3 DEF Tick, queryVars, TypeOK
<1>4. CASE ReaperStep
  BY <1>4 DEF ReaperStep, ReapScan, ProbeOk, ProbeFail, RetireDead, ReaperExit, queryVars, TypeOK
<1>5. ASSUME NEW s \in Stopper, StopperStep(s)  PROVE QueryType'
  BY <1>5 DEF StopperStep, StopReaper, JoinReaper, CloseAll, queryVars, TypeOK
<1>6. CASE UNCHANGED vars
  BY <1>6 DEF vars, queryVars, TypeOK
<1>. QED  BY <1>1, <1>2, <1>3, <1>4, <1>5, <1>6 DEF Next

LEMMA RequestTypeStep ==
    ASSUME TypeOK, RequestConsistent, [Next]_vars
    PROVE  RequestType'
<1> USE DEF RequestType, HandlerState, Reply, Outcome
<1>1. ASSUME NEW h \in Handler, HandlerStep(h)  PROVE RequestType'
  <2> USE DEF Answer, Goto, requestVars, TypeOK
  <2>1. CASE \E k \in Key : Connect(h, k)
    BY <2>1 DEF Connect, RegistryType
  <2>2. CASE TakeSlot(h) \/ NoSlot(h) \/ LookMiss(h) \/ GiveUp(h) \/ DialFail(h)
    BY <2>2 DEF TakeSlot, NoSlot, LookMiss, GiveUp, DialFail
  <2>3. CASE LookHit(h) \/ DialLost(h)
    <3>1. keys[reqKey[h]] \in ConnID \cup {None}
      BY <2>3 DEF LookHit, DialLost, RequestConsistent, RegistryType
    <3>. QED  BY <2>3, <3>1 DEF LookHit, DialLost, Adopt
  <2>4. CASE DropDuplicate(h) \/ Enqueue(h) \/ SeeDone(h) \/ PingEnd(h) \/ WriteReply(h)
    BY <2>4 DEF DropDuplicate, Enqueue, SeeDone, PingEnd, WriteReply
  <2>5. CASE Register(h)
    BY <2>5, CapacityAssumption DEF Register, RegistryType, ConnID
  <2>6. ASSUME NEW c \in Issued, Submit(h, c) \/ CloseConn(h, c) \/ Ping(h, c)
        PROVE  RequestType'
    <3>1. c \in ConnID
      BY CapacityAssumption DEF Issued, RegistryType, ConnID
    <3>. QED  BY <2>6, <3>1 DEF Submit, CloseConn, Ping, Lookup
  <2>7. CASE TakeResult(h)
    BY <2>7 DEF TakeResult
  <2>. QED  BY <1>1, <2>1, <2>2, <2>3, <2>4, <2>5, <2>6, <2>7 DEF HandlerStep
<1>2. ASSUME NEW c \in ConnID, WorkerStep(c) \/ Tick(c)  PROVE RequestType'
  BY <1>2 DEF WorkerStep, WorkerExit, WorkerTake, AcquireQuerySem, ExecStart, ExecEnd,
     Deliver, WorkerOnly, Tick, handlerVars, requestVars, TypeOK
<1>3. CASE ReaperStep
  BY <1>3 DEF ReaperStep, ReapScan, ProbeOk, ProbeFail, RetireDead, ReaperExit,
     handlerVars, requestVars, TypeOK
<1>4. ASSUME NEW s \in Stopper, StopperStep(s)  PROVE RequestType'
  BY <1>4 DEF StopperStep, StopReaper, JoinReaper, CloseAll, handlerVars, requestVars, TypeOK
<1>5. CASE UNCHANGED vars
  BY <1>5 DEF vars, handlerVars, requestVars, TypeOK
<1>. QED  BY <1>1, <1>2, <1>3, <1>4, <1>5 DEF Next

LEMMA ReaperTypeStep ==
    ASSUME TypeOK, [Next]_vars
    PROVE  ReaperType'
<1> USE DEF ReaperType, reaperVars
<1>1. ASSUME NEW h \in Handler, HandlerStep(h)  PROVE ReaperType'
  BY <1>1 DEF HandlerStep, HandlerOnly, Connect, TakeSlot, NoSlot, LookHit,
     LookMiss, GiveUp, DialFail, DialLost, DropDuplicate, Register, Submit, Ping, Lookup,
     CloseConn, Enqueue, TakeResult, SeeDone, PingEnd, WriteReply, TypeOK
<1>2. ASSUME NEW c \in ConnID, WorkerStep(c) \/ Tick(c)  PROVE ReaperType'
  BY <1>2 DEF WorkerStep, WorkerExit, WorkerTake, AcquireQuerySem, ExecStart, ExecEnd,
     WorkerOnly, Tick, TypeOK
<1>3. CASE ReaperStep
  BY <1>3 DEF ReaperStep, ReapScan, ProbeOk, ProbeFail, RetireDead, ReaperExit, AfterProbe,
     TypeOK, RegistryType
<1>4. ASSUME NEW s \in Stopper, StopperStep(s)  PROVE ReaperType'
  BY <1>4, CapacityAssumption DEF StopperStep, StopReaper, JoinReaper, CloseAll, TypeOK
<1>5. CASE UNCHANGED vars
  BY <1>5 DEF vars, TypeOK
<1>. QED  BY <1>1, <1>2, <1>3, <1>4, <1>5 DEF Next

-------------------------------------------------------------------------------
(* The registry: slots, the two indexes, and what becomes of a pool *)

LEMMA SlotAccountingStep ==
    ASSUME IInv, [Next]_vars
    PROVE  SlotAccounting'
<1> USE DEF IInv, SlotAccounting
<1>0. /\ IsFiniteSet(conns) /\ Cardinality(conns) \in Nat
      /\ IsFiniteSet(Dialing) /\ Cardinality(Dialing) \in Nat
  BY SubsetFinite, DialingFinite DEF TypeOK, RegistryType
<1>1. CASE UNCHANGED <<registryVars, Dialing>>
  BY <1>1 DEF registryVars, poolVars
<1>2. ASSUME NEW h \in Handler, TakeSlot(h)  PROVE SlotAccounting'
  <2>1. h \notin Dialing /\ Dialing' = Dialing \cup {h}
    BY <1>2 DEF TakeSlot, Goto, Dialing, TypeOK, RequestType
  <2>2. Cardinality(Dialing') = Cardinality(Dialing) + 1
    BY <1>0, <2>1, FS_AddElement
  <2>. QED  BY <1>0, <1>2, <2>2 DEF TakeSlot, poolVars
<1>3. ASSUME NEW h \in Handler, DialFail(h) \/ DropDuplicate(h)  PROVE SlotAccounting'
  <2>1. h \in Dialing /\ Dialing' = Dialing \ {h}
    BY <1>3 DEF DialFail, DropDuplicate, Answer, Dialing, TypeOK, RequestType
  <2>2. Cardinality(Dialing') = Cardinality(Dialing) - 1
    BY <1>0, <2>1, FS_RemoveElement
  <2>. QED  BY <1>0, <1>3, <2>2 DEF DialFail, DropDuplicate, ReleaseSlot, poolVars
<1>4. ASSUME NEW h \in Handler, Register(h)  PROVE SlotAccounting'
  <2>1. h \in Dialing /\ Dialing' = Dialing \ {h}
    BY <1>4 DEF Register, Answer, Dialing, TypeOK, RequestType
  <2>2. Cardinality(Dialing') = Cardinality(Dialing) - 1
    BY <1>0, <2>1, FS_RemoveElement
  <2>3. nextID + 1 \notin conns
    BY DEF LiveOrClosed, TypeOK, RegistryType
  <2>4. Cardinality(conns') = Cardinality(conns) + 1
    BY <1>0, <1>4, <2>3, FS_AddElement DEF Register
  <2>. QED  BY <1>0, <1>4, <2>2, <2>4 DEF Register
<1>5. ASSUME NEW ids \in SUBSET conns, CloseLocked(ids), UNCHANGED Dialing
      PROVE  SlotAccounting'
  <2>1. Cardinality(conns \ ids) = Cardinality(conns) - Cardinality(ids)
    <3>1. conns \cap ids = ids
      OBVIOUS
    <3>. QED  BY <1>0, <3>1, FS_Difference
  <2>2. Cardinality(ids) \in Nat
    BY SubsetFinite DEF TypeOK, RegistryType
  <2>. QED  BY <1>0, <1>5, <2>1, <2>2 DEF CloseLocked, WithoutConns
<1>. QED  BY <1>1, <1>2, <1>3, <1>4, <1>5, RegistrySteps DEF Closes

LEMMA RegistryConsistentStep ==
    ASSUME IInv, [Next]_vars
    PROVE  RegistryConsistent'
<1> USE DEF IInv, RegistryConsistent, TypeOK, RegistryType
<1>1. CASE UNCHANGED registryVars
  BY <1>1 DEF registryVars, poolVars
<1>2. ASSUME NEW h \in Handler, TakeSlot(h) \/ DialFail(h) \/ DropDuplicate(h)
      PROVE  RegistryConsistent'
  BY <1>2 DEF TakeSlot, DialFail, DropDuplicate, ReleaseSlot, poolVars
<1>3. ASSUME NEW h \in Handler, Register(h)  PROVE RegistryConsistent'
  <2> DEFINE c == nextID + 1
  <2>1. c \in ConnID /\ c \notin conns /\ c # None /\ reqKey[h] \in Key
    BY <1>3, CapacityAssumption, NameAssumption
       DEF Register, LiveOrClosed, RequestConsistent, ConnID
  <2>2. /\ keys' = [keys EXCEPT ![reqKey[h]] = c]
        /\ key' = [key EXCEPT ![c] = reqKey[h]]
        /\ conns' = conns \cup {c}
        /\ keys[reqKey[h]] = None
    BY <1>3 DEF Register, KeyFree
  <2>3. \A k \in Key : keys'[k] # None => keys'[k] \in conns' /\ key'[keys'[k]] = k
    BY <2>1, <2>2
  <2>4. \A d \in conns' : key'[d] \in Key /\ keys'[key'[d]] = d
    <3>1. ASSUME NEW d \in conns  PROVE key[d] # reqKey[h] /\ d # c /\ d \in ConnID
      BY <2>1, <2>2, NameAssumption
    <3>2. ASSUME NEW d \in conns  PROVE key'[d] \in Key /\ keys'[key'[d]] = d
      BY <2>2, <3>1
    <3>3. key'[c] \in Key /\ keys'[key'[c]] = c
      BY <2>1, <2>2
    <3>. QED  BY <2>2, <3>2, <3>3
  <2>. QED  BY <2>3, <2>4
<1>4. ASSUME NEW ids \in SUBSET conns, CloseLocked(ids)  PROVE RegistryConsistent'
  BY <1>4, NameAssumption DEF CloseLocked, WithoutConns, WithoutKeys
<1>. QED  BY <1>1, <1>2, <1>3, <1>4, RegistrySteps DEF Closes

LEMMA LiveOrClosedStep ==
    ASSUME IInv, [Next]_vars
    PROVE  LiveOrClosed'
<1> USE DEF IInv, LiveOrClosed, TypeOK, RegistryType
<1>1. CASE UNCHANGED registryVars
  BY <1>1 DEF registryVars, poolVars
<1>2. ASSUME NEW h \in Handler, TakeSlot(h) \/ DialFail(h) \/ DropDuplicate(h)
      PROVE  LiveOrClosed'
  BY <1>2 DEF TakeSlot, DialFail, DropDuplicate, ReleaseSlot, poolVars
<1>3. ASSUME NEW h \in Handler, Register(h)  PROVE LiveOrClosed'
  BY <1>3 DEF Register
<1>4. ASSUME NEW ids \in SUBSET conns, CloseLocked(ids)  PROVE LiveOrClosed'
  BY <1>4 DEF CloseLocked, WithoutConns
<1>. QED  BY <1>1, <1>2, <1>3, <1>4, RegistrySteps DEF Closes

-------------------------------------------------------------------------------
(* The workers *)

\* Workers inside executeOne.
Executing == {c \in ConnID : worker[c] \in {"start", "run"}}

LEMMA QuerySteps ==
    ASSUME [Next]_vars
    PROVE  \/ UNCHANGED <<querySem, worker, task>>
           \/ \E h \in Handler : Register(h)
           \/ \E c \in ConnID : WorkerStep(c)
<1>1. ASSUME NEW h \in Handler, HandlerStep(h), ~ Register(h)
      PROVE  UNCHANGED <<querySem, worker, task>>
  BY <1>1 DEF HandlerStep, HandlerOnly, queryVars, Connect, TakeSlot, NoSlot, LookHit,
     LookMiss, GiveUp, DialFail, DialLost, DropDuplicate, Submit, Ping, Lookup,
     CloseConn, Enqueue, TakeResult, SeeDone, PingEnd, WriteReply
<1>2. ASSUME NEW c \in ConnID, Tick(c)  PROVE UNCHANGED <<querySem, worker, task>>
  BY <1>2 DEF Tick, queryVars
<1>3. CASE ReaperStep
  BY <1>3 DEF ReaperStep, ReapScan, ProbeOk, ProbeFail, RetireDead, ReaperExit, queryVars
<1>4. ASSUME NEW s \in Stopper, StopperStep(s)  PROVE UNCHANGED <<querySem, worker, task>>
  BY <1>4 DEF StopperStep, StopReaper, JoinReaper, CloseAll, queryVars
<1>5. CASE UNCHANGED vars
  BY <1>5 DEF vars, queryVars
<1>. QED  BY <1>1, <1>2, <1>3, <1>4, <1>5 DEF Next

LEMMA QuerySlotAccountingStep ==
    ASSUME IInv, [Next]_vars
    PROVE  QuerySlotAccounting'
<1> USE DEF IInv, TypeOK, QueryType
<1>0. IsFiniteSet(Executing) /\ Cardinality(Executing) \in Nat
  BY SubsetFinite DEF Executing
<1>1. querySem = Cardinality(Executing)
  BY DEF QuerySlotAccounting, Executing
<1> DEFINE Goal == querySem' = Cardinality(Executing')
<1>2. SUFFICES Goal
  BY DEF QuerySlotAccounting, Executing
<1>3. CASE UNCHANGED <<querySem, worker, task>>
  BY <1>1, <1>3 DEF Executing
<1>4. ASSUME NEW h \in Handler, Register(h)  PROVE Goal
  <2>1. nextID + 1 \in ConnID /\ worker[nextID + 1] = "none"
    BY <1>4, CapacityAssumption DEF Register, WorkerPerPool, RegistryType, ConnID
  <2>2. Executing' = Executing
    BY <1>4, <2>1 DEF Register, Executing
  <2>. QED  BY <1>1, <1>4, <2>2 DEF Register
<1>5. ASSUME NEW c \in ConnID, WorkerExit(c) \/ WorkerTake(c)  PROVE Goal
  <2>1. Executing' = Executing
    BY <1>5 DEF WorkerExit, WorkerTake, Executing
  <2>. QED  BY <1>1, <1>5, <2>1 DEF WorkerExit, WorkerTake
<1>6. ASSUME NEW c \in ConnID, AcquireQuerySem(c)  PROVE Goal
  <2>1. c \notin Executing /\ Executing' = Executing \cup {c}
    BY <1>6 DEF AcquireQuerySem, Executing
  <2>. QED  BY <1>0, <1>1, <1>6, <2>1, FS_AddElement DEF AcquireQuerySem
<1>7. ASSUME NEW c \in ConnID, ExecStart(c) \/ \E o \in Outcome : ExecEnd(c, o)
      PROVE  Goal
  <2>1. CASE worker' = [worker EXCEPT ![c] = "run"] /\ querySem' = querySem
    <3>1. Executing' = Executing
      BY <1>7, <2>1 DEF ExecStart, ExecEnd, Executing
    <3>. QED  BY <1>1, <2>1, <3>1
  <2>2. CASE \E o : Deliver(c, o)
    <3>1. c \in Executing /\ Executing' = Executing \ {c}
      BY <1>7, <2>2 DEF ExecStart, ExecEnd, Deliver, Executing
    <3>. QED  BY <1>0, <1>1, <2>2, <3>1, FS_RemoveElement DEF Deliver, ReleaseQuerySem
  <2>. QED  BY <1>7, <2>1, <2>2 DEF ExecStart, ExecEnd
<1>. QED  BY <1>3, <1>4, <1>5, <1>6, <1>7, QuerySteps DEF WorkerStep

\* No step forgets an id that was issued or reopens a pool that was closed.
LEMMA RegistryGrows ==
    ASSUME IInv, [Next]_vars
    PROVE  /\ nextID' \in Nat /\ nextID <= nextID'
           /\ closed \subseteq closed'
           /\ \A c \in 1..nextID : key'[c] = key[c]
           /\ nextID' # nextID => \E h \in Handler : Register(h)
<1> USE DEF IInv, TypeOK, RegistryType
<1>1. CASE UNCHANGED registryVars
  BY <1>1 DEF registryVars, poolVars
<1>2. ASSUME NEW h \in Handler, TakeSlot(h) \/ DialFail(h) \/ DropDuplicate(h)
      PROVE  UNCHANGED poolVars
  BY <1>2 DEF TakeSlot, DialFail, DropDuplicate, ReleaseSlot, poolVars
<1>3. ASSUME NEW h \in Handler, Register(h)
      PROVE  /\ nextID' = nextID + 1 /\ closed' = closed
             /\ key' = [key EXCEPT ![nextID + 1] = reqKey[h]]
  BY <1>3 DEF Register
<1>4. CASE Closes
  <2>1. nextID' = nextID /\ key' = key /\ closed \subseteq closed'
    BY <1>4 DEF Closes, CloseLocked
  <2>. QED  BY <2>1
<1>5. ASSUME NEW h \in Handler, Register(h), NEW c \in 1..nextID  PROVE key'[c] = key[c]
  <2>1. c \in ConnID /\ c # nextID + 1
    BY CapacityAssumption DEF ConnID
  <2>. QED  BY <1>3, <1>5, <2>1
<1>6. nextID \in Nat
  OBVIOUS
<1>7. CASE \E h \in Handler : Register(h)
  BY <1>3, <1>5, <1>6, <1>7
<1>8. CASE UNCHANGED poolVars
  BY <1>6, <1>8 DEF poolVars
<1>. QED  BY <1>1, <1>2, <1>4, <1>6, <1>7, <1>8, RegistrySteps DEF registryVars

LEMMA WorkerPerPoolStep ==
    ASSUME IInv, [Next]_vars
    PROVE  WorkerPerPool'
<1> USE DEF IInv, TypeOK, QueryType
<1>1. CASE UNCHANGED <<querySem, worker, task>> /\ nextID' = nextID
  BY <1>1, RegistryGrows DEF WorkerPerPool
<1>2. ASSUME NEW h \in Handler, Register(h)  PROVE WorkerPerPool'
  BY <1>2, CapacityAssumption DEF Register, WorkerPerPool, RegistryType, ConnID
<1>3. ASSUME NEW c \in ConnID, WorkerStep(c)  PROVE WorkerPerPool'
  <2>1. UNCHANGED <<nextID, closed>>
    BY <1>3 DEF WorkerStep, WorkerExit, WorkerTake, AcquireQuerySem, ExecStart, ExecEnd,
       WorkerOnly, registryVars, poolVars
  <2>2. CASE WorkerExit(c) \/ AcquireQuerySem(c)
    BY <2>1, <2>2 DEF WorkerExit, AcquireQuerySem, WorkerPerPool
  <2>3. CASE WorkerTake(c)
    <3>1. Head(queue[c]) \in Handler
      BY <2>3 DEF WorkerTake
    <3>. QED  BY <2>1, <2>3, <3>1, NameAssumption DEF WorkerTake, WorkerPerPool
  <2>4. CASE ExecStart(c) \/ \E o \in Outcome : ExecEnd(c, o)
    BY <2>1, <2>4 DEF ExecStart, ExecEnd, Deliver, WorkerPerPool
  <2>. QED  BY <1>3, <2>2, <2>3, <2>4 DEF WorkerStep
<1>. QED  BY <1>1, <1>2, <1>3, QuerySteps, RegistryGrows

-------------------------------------------------------------------------------
(* The requests *)

\* What RequestConsistent and RepliesTrue say of one handler.
Sound(h) ==
    /\ handler[h] \in {"slot", "look", "dial", "drop"} => reqKey[h] \in Key
    /\ handler[h] = "drop" => /\ reqConn[h] \in 1..nextID
                              /\ key[reqConn[h]] = reqKey[h]
    /\ handler[h] \in {"enqueue", "await", "ping"} => reqConn[h] \in 1..nextID
    /\ handler[h] # "reply" => reply[h] = "none"
    /\ reply[h] = "connection_not_found" => reqConn[h] \in closed
    /\ reply[h] = "conn_id" => /\ reqConn[h] \in 1..nextID
                               /\ key[reqConn[h]] = reqKey[h]

LEMMA SoundIsInvariant ==
    (\A h \in Handler : Sound(h)) <=> RequestConsistent /\ RepliesTrue
BY DEF Sound, RequestConsistent, RepliesTrue

\* A handler that does not move stays sound, whatever the others do.
LEMMA SoundFrame ==
    ASSUME IInv, [Next]_vars, NEW g \in Handler,
           handler'[g] = handler[g], reply'[g] = reply[g],
           reqKey'[g] = reqKey[g], reqConn'[g] = reqConn[g]
    PROVE  Sound(g)'
<1>1. Sound(g)
  BY SoundIsInvariant DEF IInv
<1>2. 1..nextID \subseteq 1..nextID'
  BY RegistryGrows DEF IInv, TypeOK, RegistryType
<1>. QED  BY <1>1, <1>2, RegistryGrows DEF Sound

LEMMA RequestStep ==
    ASSUME IInv, [Next]_vars
    PROVE  RequestConsistent' /\ RepliesTrue'
<1>1. SUFFICES ASSUME NEW g \in Handler
               PROVE  Sound(g)'
  BY DEF Sound, RequestConsistent, RepliesTrue
<1>2. CASE UNCHANGED <<handler, reply, reqKey, reqConn>>
  BY <1>2, SoundFrame
<1>3. ASSUME NEW h \in Handler, HandlerStep(h)
      PROVE  Sound(g)'
  <2> USE DEF IInv, TypeOK, RequestType, Answer, Goto, requestVars
  <2>1. CASE g # h
    <3>1. /\ handler'[g] = handler[g] /\ reply'[g] = reply[g]
          /\ reqKey'[g] = reqKey[g] /\ reqConn'[g] = reqConn[g]
      BY <1>3, <2>1 DEF HandlerStep, Connect, TakeSlot, NoSlot, LookHit, LookMiss, GiveUp,
         DialFail, DialLost, DropDuplicate, Adopt, Register, Submit, Ping, Lookup, CloseConn,
         Enqueue, TakeResult, SeeDone, PingEnd, WriteReply
    <3>. QED  BY <3>1, SoundFrame
  <2>2. CASE g = h
    <3> SUFFICES Sound(h)'
      BY <2>2
    <3>0. Sound(h) /\ h \in Handler
      BY SoundIsInvariant
    <3>1. ASSUME NEW k \in Key, keys[k] # None
          PROVE  keys[k] \in 1..nextID /\ key[keys[k]] = k
      BY <3>1 DEF RegistryConsistent, LiveOrClosed
    <3> USE DEF Sound, HandlerOnly, registryVars, poolVars
    <3>2. ASSUME NEW k \in Key, Connect(h, k)  PROVE Sound(h)'
      BY <3>0, <3>1, <3>2 DEF Connect
    <3>3. CASE TakeSlot(h) \/ NoSlot(h) \/ LookMiss(h) \/ GiveUp(h) \/ DialFail(h)
      BY <3>0, <3>3 DEF TakeSlot, NoSlot, LookMiss, GiveUp, DialFail, ReleaseSlot
    <3>4. CASE LookHit(h) \/ DialLost(h)
      <4>1. reqKey[h] \in Key
        BY <3>0, <3>4 DEF LookHit, DialLost
      <4>. QED  BY <3>0, <3>1, <3>4, <4>1 DEF LookHit, DialLost, Adopt
    <3>5. CASE DropDuplicate(h)
      BY <3>0, <3>5 DEF DropDuplicate, ReleaseSlot
    <3>6. CASE Register(h)
      <4>1. nextID + 1 \in ConnID /\ nextID + 1 \in 1..(nextID + 1)
        BY <3>6, CapacityAssumption DEF Register, RegistryType, ConnID
      <4>. QED  BY <3>0, <3>6, <4>1 DEF Register, RegistryType
    <3>7. ASSUME NEW c \in Issued, Submit(h, c) \/ Ping(h, c)  PROVE Sound(h)'
      <4>1. c \notin conns => c \in closed
        BY DEF Issued, LiveOrClosed
      <4>. QED  BY <3>0, <3>7, <4>1 DEF Submit, Ping, Lookup, Issued
    <3>8. ASSUME NEW c \in Issued, CloseConn(h, c)  PROVE Sound(h)'
      <4>1. c \notin conns => c \in closed
        BY DEF Issued, LiveOrClosed
      <4>. QED  BY <3>0, <3>8, <4>1 DEF CloseConn, Issued
    <3>9. CASE Enqueue(h) \/ SeeDone(h) \/ PingEnd(h) \/ WriteReply(h)
      BY <3>0, <3>9 DEF Enqueue, SeeDone, PingEnd, WriteReply
    <3>10. CASE TakeResult(h)
      BY <3>0, <3>10 DEF TakeResult, Outcome
    <3>. QED  BY <1>3, <3>2, <3>3, <3>4, <3>5, <3>6, <3>7, <3>8, <3>9, <3>10
              DEF HandlerStep
  <2>. QED  BY <2>1, <2>2
<1>4. ASSUME NEW c \in ConnID, WorkerStep(c) \/ Tick(c)
      PROVE  UNCHANGED <<handler, reply, reqKey, reqConn>>
  BY <1>4 DEF WorkerStep, WorkerExit, WorkerTake, AcquireQuerySem, ExecStart, ExecEnd,
     WorkerOnly, Tick, handlerVars, requestVars
<1>5. CASE ReaperStep
  BY <1>2, <1>5 DEF ReaperStep, ReapScan, ProbeOk, ProbeFail, RetireDead, ReaperExit,
     handlerVars, requestVars
<1>6. ASSUME NEW s \in Stopper, StopperStep(s)
      PROVE  UNCHANGED <<handler, reply, reqKey, reqConn>>
  BY <1>6 DEF StopperStep, StopReaper, JoinReaper, CloseAll, handlerVars, requestVars
<1>7. CASE UNCHANGED vars
  BY <1>2, <1>7 DEF vars, handlerVars, requestVars
<1>. QED  BY <1>2, <1>3, <1>4, <1>5, <1>6, <1>7 DEF Next

-------------------------------------------------------------------------------
(* The tasks: where the task of a request is *)

Queued(q, h) == \E i \in DOMAIN q : q[i] = h

QueuedOnce(q, h) == \E i \in DOMAIN q : q[i] = h /\ \A j \in DOMAIN q : q[j] = h => j = i

LEMMA AppendQueues ==
    ASSUME NEW q \in Seq(Handler), NEW h \in Handler, NEW g \in Handler
    PROVE  /\ Queued(Append(q, h), g) <=> Queued(q, g) \/ g = h
           /\ ~Queued(q, h) => QueuedOnce(Append(q, h), h)
           /\ g # h /\ QueuedOnce(q, g) => QueuedOnce(Append(q, h), g)
<1> DEFINE r == Append(q, h)
<1>1. /\ Len(q) \in Nat /\ DOMAIN q = 1..Len(q) /\ DOMAIN r = 1..(Len(q) + 1)
      /\ r[Len(q) + 1] = h /\ \A i \in 1..Len(q) : r[i] = q[i]
  OBVIOUS
<1>2. \A i \in DOMAIN r : i \in DOMAIN q \/ i = Len(q) + 1
  BY <1>1
<1>3. DOMAIN q \subseteq DOMAIN r /\ Len(q) + 1 \in DOMAIN r
  BY <1>1
<1> HIDE DEF r
<1>4. Queued(r, g) <=> Queued(q, g) \/ g = h
  BY <1>1, <1>2, <1>3 DEF Queued
<1>5. ~Queued(q, h) => QueuedOnce(r, h)
  BY <1>1, <1>2, <1>3 DEF Queued, QueuedOnce
<1>6. g # h /\ QueuedOnce(q, g) => QueuedOnce(r, g)
  BY <1>1, <1>2, <1>3 DEF QueuedOnce
<1>. QED  BY <1>4, <1>5, <1>6 DEF r

LEMMA TailQueues ==
    ASSUME NEW q \in Seq(Handler), q # <<>>, NEW g \in Handler
    PROVE  /\ Queued(q, Head(q))
           /\ Queued(Tail(q), g) => Queued(q, g)
           /\ QueuedOnce(q, g) /\ Head(q) = g => ~Queued(Tail(q), g)
           /\ QueuedOnce(q, g) /\ Head(q) # g => QueuedOnce(Tail(q), g)
<1> DEFINE r == Tail(q)
<1>1. /\ Len(q) \in Nat \ {0} /\ DOMAIN q = 1..Len(q) /\ DOMAIN r = 1..(Len(q) - 1)
      /\ Head(q) = q[1] /\ \A i \in 1..(Len(q) - 1) : r[i] = q[i + 1]
  OBVIOUS
<1> HIDE DEF r
<1>2. \A i \in DOMAIN r : i + 1 \in DOMAIN q /\ i + 1 # 1 /\ r[i] = q[i + 1]
  BY <1>1
<1>3. 1 \in DOMAIN q /\ \A i \in DOMAIN q \ {1} : i - 1 \in DOMAIN r /\ r[i - 1] = q[i]
  BY <1>1
<1>4. Queued(q, Head(q))
  BY <1>1, <1>3 DEF Queued
<1>5. Queued(r, g) => Queued(q, g)
  BY <1>2 DEF Queued
<1>6. QueuedOnce(q, g) /\ Head(q) = g => ~Queued(r, g)
  BY <1>1, <1>2, <1>3 DEF Queued, QueuedOnce
<1>7. ASSUME QueuedOnce(q, g), Head(q) # g  PROVE QueuedOnce(r, g)
  <2>1. PICK i \in DOMAIN q : q[i] = g /\ \A j \in DOMAIN q : q[j] = g => j = i
    BY <1>7 DEF QueuedOnce
  <2>2. i # 1
    BY <1>1, <1>7, <2>1
  <2>3. i - 1 \in DOMAIN r /\ r[i - 1] = g
    BY <1>3, <2>1, <2>2
  <2>4. ASSUME NEW j \in DOMAIN r, r[j] = g  PROVE j = i - 1
    BY <1>1, <1>2, <2>1, <2>4
  <2>. QED  BY <2>3, <2>4 DEF QueuedOnce
<1>. QED  BY <1>4, <1>5, <1>6, <1>7 DEF r

\* The task of h is in the queue of c, in its worker's hands, or answered.
InOnePlace(h, c) ==
    \/ QueuedOnce(queue[c], h) /\ task[c] # h /\ resultChan[h] = None
    \/ ~Queued(queue[c], h) /\ task[c] = h /\ resultChan[h] = None
    \/ ~Queued(queue[c], h) /\ task[c] # h /\ resultChan[h] # None

\* Counting the places, as TaskInOnePlace does, is the same.
LEMMA OnePlace ==
    ASSUME NEW h, NEW c, NEW q \in Seq(Handler)
    PROVE  LET queued == {i \in DOMAIN q : q[i] = h} IN
           Cardinality(queued) + (IF task[c] = h THEN 1 ELSE 0)
             + (IF resultChan[h] # None THEN 1 ELSE 0) = 1
           <=> \/ QueuedOnce(q, h) /\ task[c] # h /\ resultChan[h] = None
               \/ ~Queued(q, h) /\ task[c] = h /\ resultChan[h] = None
               \/ ~Queued(q, h) /\ task[c] # h /\ resultChan[h] # None
<1> DEFINE queued == {i \in DOMAIN q : q[i] = h}
<1>1. IsFiniteSet(queued) /\ Cardinality(queued) \in Nat
  <2>1. IsFiniteSet(1..Len(q)) /\ queued \subseteq 1..Len(q)
    BY FS_Interval
  <2>. QED  BY <2>1, FS_Subset, FS_CardinalityType
<1>2. Cardinality(queued) = 0 <=> ~Queued(q, h)
  BY <1>1, FS_EmptySet DEF Queued
<1>3. Cardinality(queued) = 1 <=> QueuedOnce(q, h)
  <2>1. Cardinality(queued) = 1 <=> \E i : queued = {i}
    BY <1>1, FS_Singleton
  <2>2. ASSUME NEW i, queued = {i}  PROVE QueuedOnce(q, h)
    <3>1. i \in queued /\ \A j \in queued : j = i
      BY <2>2, Zenon
    <3>. QED  BY <3>1 DEF QueuedOnce
  <2>3. ASSUME QueuedOnce(q, h)  PROVE \E i : queued = {i}
    <3>1. PICK i \in DOMAIN q : q[i] = h /\ \A j \in DOMAIN q : q[j] = h => j = i
      BY <2>3 DEF QueuedOnce
    <3>2. queued = {i}
      BY <3>1
    <3>. QED  BY <3>2
  <2>. QED  BY <2>1, <2>2, <2>3
<1>4. QueuedOnce(q, h) => Queued(q, h)
  BY DEF Queued, QueuedOnce
<1> HIDE DEF queued
<1>5. Cardinality(queued) + (IF task[c] = h THEN 1 ELSE 0)
         + (IF resultChan[h] # None THEN 1 ELSE 0) = 1
      <=> \/ Cardinality(queued) = 1 /\ task[c] # h /\ resultChan[h] = None
          \/ Cardinality(queued) = 0 /\ task[c] = h /\ resultChan[h] = None
          \/ Cardinality(queued) = 0 /\ task[c] # h /\ resultChan[h] # None
  BY <1>1
<1>. QED  BY <1>2, <1>3, <1>5 DEF queued

\* What TasksConsistent and TaskInOnePlace say of one handler.
Placed(h) ==
    /\ \A c \in ConnID :
          Queued(queue[c], h) \/ task[c] = h =>
              c \in closed \/ (handler[h] = "await" /\ reqConn[h] = c)
    /\ handler[h] = "enqueue" => ~Queued(queue[reqConn[h]], h) /\ task[reqConn[h]] # h
    /\ handler[h] \notin {"await", "reply"} => resultChan[h] = None
    /\ handler[h] = "await" => InOnePlace(h, reqConn[h])

AllPlaced == \A h \in Handler : Placed(h)

LEMMA PlacedIsInvariant ==
    TypeOK /\ RequestConsistent => (AllPlaced <=> TasksConsistent /\ TaskInOnePlace)
<1> SUFFICES ASSUME TypeOK, RequestConsistent
             PROVE  AllPlaced <=> TasksConsistent /\ TaskInOnePlace
  OBVIOUS
<1>1. ASSUME NEW h \in Handler, handler[h] = "await"  PROVE queue[reqConn[h]] \in Seq(Handler)
  BY <1>1, CapacityAssumption DEF RequestConsistent, TypeOK, RegistryType, QueryType, ConnID
<1>2. TaskInOnePlace <=> \A h \in Handler : handler[h] = "await" => InOnePlace(h, reqConn[h])
  BY <1>1, OnePlace DEF TaskInOnePlace, InOnePlace
<1>3. \A c, h : Holds(c, h) <=> Queued(queue[c], h) \/ task[c] = h
  BY DEF Holds, Queued
<1>. QED  BY <1>2, <1>3 DEF AllPlaced, Placed, TasksConsistent

LEMMA PlacedPrimed ==
    (TypeOK /\ RequestConsistent => (AllPlaced <=> TasksConsistent /\ TaskInOnePlace))'
BY PlacedIsInvariant, PTL

\* A step of the registry alone may close pools, nothing else.
LEMMA PlacedFrame ==
    ASSUME IInv, [Next]_vars, NEW g \in Handler,
           UNCHANGED <<queue, task>>, handler'[g] = handler[g],
           reqConn'[g] = reqConn[g], resultChan'[g] = resultChan[g]
    PROVE  Placed(g)'
<1>1. Placed(g) /\ closed \subseteq closed'
  BY PlacedIsInvariant, RegistryGrows DEF IInv, AllPlaced
<1>. QED  BY <1>1 DEF Placed, InOnePlace

LEMMA PlacedStep ==
    ASSUME IInv, [Next]_vars, NEW g \in Handler
    PROVE  Placed(g)'
<1> USE DEF Placed, InOnePlace, RequestType, QueryType
<1>0. /\ TypeOK /\ RequestType /\ QueryType /\ Placed(g) /\ closed \subseteq closed'
      /\ handler[g] \in {"enqueue", "await"} => reqConn[g] \in ConnID
  <2>1. TypeOK /\ RequestConsistent /\ TasksConsistent /\ TaskInOnePlace
    BY DEF IInv
  <2>2. Placed(g) /\ closed \subseteq closed'
    BY <2>1, PlacedIsInvariant, RegistryGrows DEF AllPlaced
  <2>3. handler[g] \in {"enqueue", "await"} => reqConn[g] \in ConnID
    BY <2>1, CapacityAssumption DEF RequestConsistent, TypeOK, RegistryType, ConnID
  <2>. QED  BY <2>1, <2>2, <2>3 DEF TypeOK
<1>1. ASSUME NEW h \in Handler, HandlerStep(h)  PROVE Placed(g)'
  <2>1. UNCHANGED task /\ (UNCHANGED queue \/ Enqueue(h))
    BY <1>1 DEF HandlerStep, HandlerOnly, queryVars, Connect, TakeSlot, NoSlot, LookHit,
       LookMiss, GiveUp, DialFail, DialLost, DropDuplicate, Register, Submit, Ping, Lookup,
       CloseConn, TakeResult, SeeDone, PingEnd, WriteReply, Enqueue
  <2>2. CASE g # h
    <3>1. /\ handler'[g] = handler[g] /\ reqConn'[g] = reqConn[g]
          /\ resultChan'[g] = resultChan[g]
      BY <1>0, <1>1, <2>2 DEF HandlerStep, Connect, TakeSlot, NoSlot, LookHit, LookMiss, GiveUp,
         DialFail, DialLost, DropDuplicate, Adopt, Register, Submit, Ping, Lookup, CloseConn,
         Enqueue, TakeResult, SeeDone, PingEnd, WriteReply, Answer, Goto, requestVars
    <3>2. CASE UNCHANGED queue
      BY <2>1, <3>1, <3>2, PlacedFrame
    <3>3. CASE Enqueue(h) /\ ~ UNCHANGED queue
      <4>1. queue' = [queue EXCEPT ![reqConn[h]] = Append(@, h)]
        BY <3>3 DEF Enqueue
      <4>2. \A c \in ConnID :
               /\ Queued(queue'[c], g) <=> Queued(queue[c], g)
               /\ QueuedOnce(queue[c], g) => QueuedOnce(queue'[c], g)
        BY <1>0, <2>2, <4>1, AppendQueues
      <4>. QED  BY <1>0, <2>1, <3>1, <4>2
    <3>. QED  BY <2>1, <3>2, <3>3
  <2>3. CASE g = h
    <3> USE DEF Answer, Goto, requestVars
    <3>1. CASE Enqueue(h)
      <4>1. h = g /\ reqConn' = reqConn /\ resultChan' = resultChan /\ reqConn[g] \in ConnID
        BY <1>0, <2>3, <3>1 DEF Enqueue
      <4>2. ~Queued(queue[reqConn[g]], g) /\ task[reqConn[g]] # g /\ resultChan[g] = None
            /\ \A c \in ConnID : Queued(queue[c], g) \/ task[c] = g => c \in closed
        BY <1>0, <2>3, <3>1 DEF Enqueue
      <4>3. CASE queue' = [queue EXCEPT ![reqConn[h]] = Append(@, h)] /\ handler'[g] = "await"
        <5>1. QueuedOnce(queue'[reqConn[g]], g)
          BY <1>0, <4>1, <4>2, <4>3, AppendQueues
        <5>2. \A c \in ConnID \ {reqConn[g]} : queue'[c] = queue[c]
          BY <1>0, <4>1, <4>3
        <5>. QED  BY <1>0, <2>1, <4>1, <4>2, <4>3, <5>1, <5>2
      <4>4. CASE UNCHANGED queue /\ handler'[g] = "reply"
        BY <1>0, <2>1, <4>1, <4>2, <4>4
      <4>. QED  BY <1>0, <2>3, <3>1, <4>3, <4>4 DEF Enqueue
    <3>2. ASSUME NEW c \in Issued, Submit(h, c)  PROVE Placed(g)'
      <4>1. c \in conns => c \notin closed /\ c \in ConnID
        BY DEF IInv, LiveOrClosed, TypeOK, RegistryType
      <4>2. UNCHANGED <<queue, task, resultChan, closed>> /\ reqConn'[g] = c
            /\ handler[g] = "idle" /\ handler'[g] \in {"enqueue", "reply"}
            /\ (handler'[g] = "enqueue" => c \in conns)
        BY <1>0, <2>3, <3>2 DEF Submit, Lookup, HandlerOnly, queryVars, registryVars, poolVars
      <4>. QED  BY <1>0, <4>1, <4>2
    <3>3. CASE TakeResult(h) \/ SeeDone(h)
      BY <1>0, <2>1, <2>3, <3>3 DEF TakeResult, SeeDone, HandlerOnly, queryVars
    <3>4. CASE WriteReply(h)
      BY <1>0, <2>1, <2>3, <3>4 DEF WriteReply, HandlerOnly, queryVars
    <3>5. ASSUME ~Enqueue(h), ~TakeResult(h), ~SeeDone(h), ~WriteReply(h),
                 ~ \E c \in Issued : Submit(h, c)
          PROVE  /\ handler[g] \notin {"await", "enqueue", "reply"}
                 /\ handler'[g] \notin {"await", "enqueue"}
                 /\ resultChan' = resultChan
      BY <1>0, <1>1, <2>3, <3>5 DEF HandlerStep, Connect, TakeSlot, NoSlot, LookHit, LookMiss,
         GiveUp, DialFail, DialLost, DropDuplicate, Adopt, Register, Ping, Lookup, CloseConn, PingEnd
    <3>. QED  BY <1>0, <2>1, <3>1, <3>2, <3>3, <3>4, <3>5
  <2>. QED  BY <2>2, <2>3
<1>2. ASSUME NEW c \in ConnID, WorkerTake(c)  PROVE Placed(g)'
  <2>1. UNCHANGED <<handler, reqConn, resultChan>>
    BY <1>2 DEF WorkerTake, WorkerOnly, handlerVars, requestVars
  <2>2. task[c] = None
    BY <1>0, <1>2 DEF WorkerTake, IInv, WorkerPerPool
  <2>3. task[c] # g
    BY <2>2, NameAssumption
  <2>4. /\ queue[c] \in Seq(Handler) /\ queue[c] # <<>>
        /\ queue' = [queue EXCEPT ![c] = Tail(@)]
        /\ task' = [task EXCEPT ![c] = Head(queue[c])]
    BY <1>0, <1>2 DEF WorkerTake
  <2>5. /\ queue'[c] = Tail(queue[c]) /\ task'[c] = Head(queue[c])
        /\ \A d \in ConnID \ {c} : queue'[d] = queue[d] /\ task'[d] = task[d]
    BY <1>0, <2>4
  <2>6. /\ Queued(queue'[c], g) \/ task'[c] = g => Queued(queue[c], g)
        /\ QueuedOnce(queue[c], g) /\ task'[c] = g => ~Queued(queue'[c], g)
        /\ QueuedOnce(queue[c], g) /\ task'[c] # g => QueuedOnce(queue'[c], g)
    BY <2>4, <2>5, TailQueues
  <2>. QED  BY <1>0, <2>1, <2>3, <2>5, <2>6
<1>3. ASSUME NEW c \in ConnID, NEW o \in Outcome, Deliver(c, o), UNCHANGED <<queue, handler, reqConn>>,
             worker[c] \in {"start", "run"}
      PROVE  Placed(g)'
  <2>1. /\ task' = [task EXCEPT ![c] = None]
        /\ resultChan' = IF handler[task[c]] = "await" /\ reqConn[task[c]] = c
                         THEN [resultChan EXCEPT ![task[c]] = o]
                         ELSE resultChan
    BY <1>3 DEF Deliver
  <2>2. None # g /\ o # None
    BY NameAssumption, ResultAssumption
  <2>3. task'[c] = None /\ \A d \in ConnID \ {c} : task'[d] = task[d]
    BY <1>0, <2>1
  <2>4. CASE task[c] = g /\ handler[g] = "await" /\ reqConn[g] = c
    BY <1>0, <1>3, <2>1, <2>2, <2>3, <2>4
  <2>5. CASE ~(task[c] = g /\ handler[g] = "await" /\ reqConn[g] = c)
    <3>1. resultChan'[g] = resultChan[g]
      BY <1>0, <2>1, <2>5
    <3>2. handler[g] = "await" => (task'[reqConn[g]] = g <=> task[reqConn[g]] = g)
      BY <1>0, <2>2, <2>3, <2>5
    <3>3. \A d \in ConnID : task'[d] = g => task[d] = g
      BY <2>2, <2>3
    <3>. QED  BY <1>0, <1>3, <3>1, <3>2, <3>3
  <2>. QED  BY <2>4, <2>5
<1>4. ASSUME NEW c \in ConnID, WorkerStep(c) \/ Tick(c)  PROVE Placed(g)'
  <2>1. CASE WorkerExit(c) \/ AcquireQuerySem(c) \/ Tick(c)
    BY <2>1, PlacedFrame DEF WorkerExit, AcquireQuerySem, WorkerOnly, Tick, queryVars,
       handlerVars, requestVars
  <2>2. CASE ExecStart(c)
    <3>1. CASE UNCHANGED <<querySem, task, resultChan>>
      BY <2>2, <3>1, PlacedFrame DEF ExecStart
    <3>2. CASE Deliver(c, "db_error")
      BY <2>2, <3>2, <1>3 DEF ExecStart, Outcome
    <3>. QED  BY <2>2, <3>1, <3>2 DEF ExecStart
  <2>3. ASSUME NEW o \in Outcome, ExecEnd(c, o)  PROVE Placed(g)'
    BY <2>3, <1>3 DEF ExecEnd
  <2>. QED  BY <1>2, <1>4, <2>1, <2>2, <2>3 DEF WorkerStep
<1>5. ASSUME ReaperStep \/ (\E s \in Stopper : StopperStep(s)) \/ UNCHANGED vars
      PROVE  UNCHANGED <<queue, task, handler, reqConn, resultChan>>
  BY <1>5 DEF ReaperStep, ReapScan, ProbeOk, ProbeFail, RetireDead, ReaperExit, StopperStep,
     StopReaper, JoinReaper, CloseAll, vars, queryVars, handlerVars, requestVars
<1>. QED  BY <1>1, <1>4, <1>5, PlacedFrame DEF Next

-------------------------------------------------------------------------------
(* The inductive invariant *)

LEMMA TypeInit == Init => TypeOK
<1> SUFFICES ASSUME Init PROVE TypeOK
  OBVIOUS
<1> USE CapacityAssumption DEF Init
<1>1. RegistryType
  BY DEF RegistryType, Fresh
<1>2. QueryType
  <2>1. <<>> \in Seq(Handler)
    OBVIOUS
  <2>. QED  BY <2>1 DEF QueryType
<1>3. RequestType
  BY DEF RequestType, HandlerState, Reply
<1>4. ReaperType
  BY DEF ReaperType
<1>. QED  BY <1>1, <1>2, <1>3, <1>4 DEF TypeOK

LEMMA InitIInv == Init => IInv
<1> SUFFICES ASSUME Init PROVE IInv
  OBVIOUS
<1>1. TypeOK
  BY TypeInit
<1>2. SlotAccounting /\ QuerySlotAccounting
  <2>1. Dialing = {} /\ {c \in ConnID : worker[c] \in {"start", "run"}} = {}
    BY DEF Init, Dialing
  <2>2. globalSem = 0 /\ querySem = 0 /\ conns = {}
    BY DEF Init
  <2>3. Cardinality({}) = 0
    BY FS_EmptySet
  <2>4. SlotAccounting
    BY <2>1, <2>2, <2>3 DEF SlotAccounting
  <2>5. QuerySlotAccounting
    BY <2>1, <2>2, <2>3, Zenon DEF QuerySlotAccounting
  <2>. QED  BY <2>4, <2>5
<1>3. RegistryConsistent /\ LiveOrClosed /\ WorkerPerPool /\ RequestConsistent /\ RepliesTrue
  BY DEF Init, RegistryConsistent, LiveOrClosed, WorkerPerPool, RequestConsistent, RepliesTrue
<1>4. TasksConsistent /\ TaskInOnePlace
  BY NameAssumption DEF Init, TasksConsistent, TaskInOnePlace, Holds
<1>. QED  BY <1>1, <1>2, <1>3, <1>4 DEF IInv

LEMMA NextIInv == IInv /\ [Next]_vars => IInv'
<1> SUFFICES ASSUME IInv, [Next]_vars PROVE IInv'
  OBVIOUS
<1>1. TypeOK'
  BY RegistryTypeStep, QueryTypeStep, RequestTypeStep, ReaperTypeStep DEF IInv, TypeOK
<1>2. RequestConsistent' /\ RepliesTrue'
  BY RequestStep
<1>3. AllPlaced'
  BY PlacedStep DEF AllPlaced
<1>4. TasksConsistent' /\ TaskInOnePlace'
  BY <1>1, <1>2, <1>3, PlacedPrimed
<1>. QED
  BY <1>1, <1>2, <1>4, SlotAccountingStep, RegistryConsistentStep, LiveOrClosedStep,
     QuerySlotAccountingStep, WorkerPerPoolStep DEF IInv

\* The inductive invariant holds in every state of the manager, whatever its
\* handlers, workers, reaper and stoppers do (manager.go).
THEOREM Invariance == Spec => []IInv
BY InitIInv, NextIInv, PTL DEF Spec

\* Every variable of the manager keeps its type.
THEOREM TypeCorrect == Spec => []TypeOK
BY Invariance, PTL DEF IInv

\* No slot is lost or made up on any path, so the receive in closeLocked
\* (manager.go:217) never blocks.
THEOREM SlotsAccounted == Spec => []SlotAccounting
BY Invariance, PTL DEF IInv

\* The two maps of the manager agree: one pool per driver+DSN.
THEOREM OnePoolPerKey == Spec => []RegistryConsistent
BY Invariance, PTL DEF IInv

\* Every pool is registered or torn down, and torn down once.
THEOREM NoPoolForgotten == Spec => []LiveOrClosed
BY Invariance, PTL DEF IInv

\* The limit on concurrent queries holds and no token of it is lost.
THEOREM QuerySlotsAccounted == Spec => []QuerySlotAccounting
BY Invariance, PTL DEF IInv

\* An open pool has its worker.
THEOREM PoolsServed == Spec => []WorkerPerPool
BY Invariance, PTL DEF IInv

\* Clients are not told of a closed pool that it is there, or the reverse, and
\* are never given another database's pool.
THEOREM RepliesAreTrue == Spec => []RepliesTrue
BY Invariance, PTL DEF IInv

\* No query is lost or executed twice, also when pools are closed under it.
THEOREM TasksNeverLost == Spec => []TaskInOnePlace
BY Invariance, PTL DEF IInv

\* The reaper closes no pool but one that was idle for the whole timeout, although it
\* looks the stale pools up by their key (manager.go:306-312).
THEOREM ReaperSparesTheBusy == Spec => OnlyStaleReaped
<1> DEFINE Excused(c) ==
      \/ \E h \in Handler : reqConn'[h] = c /\ reply'[h] = "closed" /\ handler[h] = "idle"
      \/ \E s \in Stopper : stopper[s] = "close" /\ stopper'[s] = "down"
      \/ age[c] = Stale
<1>1. ASSUME IInv, [Next]_vars, NEW c \in conns \ conns'  PROVE Excused(c)
  <2>0. TypeOK /\ RegistryType /\ RequestType /\ ReaperType /\ RegistryConsistent
    BY <1>1 DEF IInv, TypeOK
  <2>1. ASSUME NEW h \in Handler, HandlerStep(h)  PROVE Excused(c)
    <3>1. PICK d \in Issued : CloseConn(h, d)
      BY <1>1, <2>1 DEF HandlerStep, HandlerOnly, registryVars, poolVars, Connect, TakeSlot, NoSlot,
         LookHit, LookMiss, GiveUp, DialFail, DialLost, DropDuplicate, ReleaseSlot, Register, Submit,
         Ping, Lookup, Enqueue, TakeResult, SeeDone, PingEnd, WriteReply
    <3>2. d = c /\ reply' = [reply EXCEPT ![h] = "closed"]
      BY <1>1, <3>1 DEF CloseConn, CloseLocked, WithoutConns, registryVars, poolVars, Answer
    <3>3. handler[h] = "idle" /\ reqConn' = [reqConn EXCEPT ![h] = c]
      BY <3>1, <3>2 DEF CloseConn
    <3>. QED  BY <2>0, <3>2, <3>3 DEF RequestType
  <2>2. ASSUME NEW d \in ConnID, WorkerStep(d) \/ Tick(d)  PROVE FALSE
    BY <1>1, <2>2 DEF WorkerStep, WorkerExit, WorkerTake, AcquireQuerySem, ExecStart, ExecEnd,
       WorkerOnly, Tick, registryVars, poolVars
  <2>3. CASE ReapScan
    <3>1. PICK d \in StalePools : c = keys[key[d]]
      BY <1>1, <2>3 DEF ReapScan, CloseLocked, WithoutConns
    <3>2. c = d
      BY <2>0, <3>1 DEF StalePools, RegistryConsistent
    <3>. QED  BY <2>0, <3>1, <3>2 DEF StalePools, RegistryType, Fresh, Probable, Stale
  <2>4. CASE RetireDead
    <3>1. key[failed] \notin conns
      BY <2>0, <2>4, NameAssumption DEF RetireDead, RegistryType, ReaperType
    <3>. QED  BY <1>1, <2>4, <3>1 DEF RetireDead, registryVars, poolVars
  <2>5. CASE ReaperStep /\ ~ReapScan /\ ~RetireDead
    BY <1>1, <2>5 DEF ReaperStep, ProbeOk, ProbeFail, ReaperExit, registryVars, poolVars
  <2>6. ASSUME NEW s \in Stopper, StopperStep(s)  PROVE Excused(c)
    <3>1. CloseAll(s)
      BY <1>1, <2>6 DEF StopperStep, StopReaper, JoinReaper, registryVars, poolVars
    <3>. QED  BY <2>0, <3>1 DEF CloseAll, ReaperType
  <2>7. CASE UNCHANGED vars
    BY <1>1, <2>7 DEF vars, registryVars, poolVars
  <2>. QED  BY <1>1, <2>1, <2>2, <2>3, <2>4, <2>5, <2>6, <2>7 DEF Next
<1>2. IInv /\ [Next]_vars => \A c \in conns \ conns' : Excused(c)
  BY <1>1
<1>. QED  BY <1>2, Invariance, PTL DEF Spec, OnlyStaleReaped

\* A liveness probe that fails never closes its pool, in no configuration: a driver+DSN
\* is not an id, so looking the pool up by its key finds nothing (manager.go:315-324).
DeadPoolStays == [][RetireDead => conns' = conns /\ keys' = keys]_vars

THEOREM ProbeClosesNothing == Spec => DeadPoolStays
<1>1. ASSUME TypeOK, RetireDead  PROVE conns' = conns /\ keys' = keys
  <2>1. key[failed] \notin conns
    BY <1>1, NameAssumption DEF RetireDead, TypeOK, RegistryType, ReaperType
  <2>. QED  BY <1>1, <2>1 DEF RetireDead, registryVars, poolVars
<1>2. TypeOK => (RetireDead => conns' = conns /\ keys' = keys)
  BY <1>1
<1>. QED  BY <1>2, TypeCorrect, PTL DEF DeadPoolStays

-------------------------------------------------------------------------------
(* Refinement: ConnManager implements PoolRegistry *)

LEMMA OpenPoolsAreConns ==
    ASSUME IInv
    PROVE  Registry!OpenPools = conns
<1> USE DEF IInv, TypeOK, RegistryType, RegistryConsistent
<1>1. ASSUME NEW c \in conns  PROVE c \in Registry!OpenPools
  BY NameAssumption DEF Registry!OpenPools
<1>2. ASSUME NEW c \in Registry!OpenPools  PROVE c \in conns
  BY DEF Registry!OpenPools
<1>. QED  BY <1>1, <1>2

\* The instance's Cardinality is the one of FiniteSets.
LEMMA SameCardinality == \A S : Registry!Cardinality(S) = Cardinality(S)
BY DEF Cardinality, Registry!Cardinality

LEMMA RegistryInit == Init => Registry!Init
BY DEF Init, Registry!Init

LEMMA RegistryNext ==
    ASSUME IInv, [Next]_vars
    PROVE  [Registry!Next]_(Registry!vars)
<1> USE DEF IInv, TypeOK, RegistryType
<1>1. CASE UNCHANGED poolVars
  BY <1>1 DEF poolVars, Registry!vars
<1>2. ASSUME NEW h \in Handler, Register(h)  PROVE Registry!Next
  <2> DEFINE c == nextID + 1
  <2>1. c \in ConnID /\ c \notin Registry!OpenPools \cup closed /\ reqKey[h] \in Key
    BY <1>2, OpenPoolsAreConns, CapacityAssumption
       DEF Register, LiveOrClosed, RequestConsistent, ConnID
  <2>2. Cardinality(Registry!OpenPools) < GlobalMaxOpen
    <3>1. h \in Dialing
      BY <1>2 DEF Register, Dialing
    <3>2. Cardinality(Dialing) # 0
      BY <3>1, DialingFinite, FS_EmptySet
    <3>. QED  BY <3>2, OpenPoolsAreConns, SubsetFinite, DialingFinite, CapacityAssumption
              DEF SlotAccounting
  <2>3. Registry!Open(reqKey[h], c)
    <3>1. /\ keys[reqKey[h]] = None
          /\ keys' = [keys EXCEPT ![reqKey[h]] = c]
          /\ closed' = closed
      BY <1>2 DEF Register, KeyFree
    <3>. QED  BY <2>1, <2>2, <3>1, SameCardinality DEF Registry!Open
  <2>. QED  BY <2>1, <2>3 DEF Registry!Next
<1>3. ASSUME NEW ids \in SUBSET conns, CloseLocked(ids)  PROVE Registry!Next
  <2>1. ids \in SUBSET Registry!OpenPools
    BY OpenPoolsAreConns
  <2>2. keys' = [k \in Key |-> IF keys[k] \in ids THEN None ELSE keys[k]]
    BY <1>3, NameAssumption DEF CloseLocked, WithoutKeys, RegistryConsistent
  <2>3. Registry!Close(ids)
    BY <1>3, <2>1, <2>2 DEF CloseLocked, Registry!Close
  <2>. QED  BY <2>1, <2>3 DEF Registry!Next
<1>4. ASSUME NEW h \in Handler, TakeSlot(h) \/ DialFail(h) \/ DropDuplicate(h)
      PROVE  UNCHANGED poolVars
  BY <1>4 DEF TakeSlot, DialFail, DropDuplicate, ReleaseSlot
<1>. QED  BY <1>1, <1>2, <1>3, <1>4, RegistrySteps DEF Closes, registryVars

\* The manager, with all its goroutines, is a registry of pools: whatever they
\* do, a client sees pools opened for free keys, within the capacity, under ids
\* never used before, and closed.
THEOREM ImplementsRegistry == Spec => RegistrySpec
<1>1. Init => Registry!Init
  BY RegistryInit
<1>2. IInv /\ [Next]_vars => [Registry!Next]_(Registry!vars)
  BY RegistryNext
<1>. QED  BY <1>1, <1>2, Invariance, PTL DEF Spec, RegistrySpec, Registry!Spec
===============================================================================
