------------------------------ MODULE CliRunProofs ------------------------------
(***************************************************************************)
(* Proofs about CliRun, for any views and groups, owned gateways and       *)
(* attached ones, any number of pools and of Ctrl+C.                       *)
(***************************************************************************)
EXTENDS CliRun, TLAPS

-------------------------------------------------------------------------------
(* The gateway *)

GatewayMoves ==
    \/ UNCHANGED gatewayVars
    \/ \E g \in Group, c \in ConnID : Gateway!Open(g, c)
    \/ \E ids \in SUBSET Gateway!OpenPools : Gateway!Close(ids)

LEMMA GatewayTypes ==
    ASSUME GatewayTypeOK, GatewayMoves
    PROVE  GatewayTypeOK'
<1> USE DEF GatewayTypeOK
<1>1. ASSUME NEW g \in Group, NEW c \in ConnID, Gateway!Open(g, c)  PROVE GatewayTypeOK'
  BY <1>1 DEF Gateway!Open
<1>2. ASSUME NEW ids \in SUBSET Gateway!OpenPools, Gateway!Close(ids)  PROVE GatewayTypeOK'
  <2>1. Gateway!OpenPools \subseteq ConnID
    BY DEF Gateway!OpenPools
  <2>. QED  BY <1>2, <2>1 DEF Gateway!Close
<1>3. CASE UNCHANGED gatewayVars
  BY <1>3 DEF gatewayVars
<1>. QED  BY <1>1, <1>2, <1>3 DEF GatewayMoves

LEMMA GatewaySteps == [Next]_vars /\ TypeOK => GatewayMoves
<1> SUFFICES ASSUME [Next]_vars, TypeOK  PROVE GatewayMoves
  OBVIOUS
<1> USE DEF GatewayMoves
<1>a. ASSUME NEW g \in Group, ConnectUnanswered(g)  PROVE GatewayMoves
  BY <1>a DEF ConnectUnanswered
<1>b. ASSUME NEW g \in Group, NEW c \in ConnID, Connected(g, c)  PROVE GatewayMoves
  BY <1>b DEF Connected
<1>c. GroupOf \in [View -> Group] /\ Groups \subseteq Group
  BY CliAssumption DEF Groups
<1>1. CASE MainStep
  <2>1. ASSUME NEW g \in Group, CloseHandle(g)  PROVE GatewayMoves
    BY <2>1 DEF CloseHandle
  <2>2. CASE Exit
    BY <2>2 DEF Exit
  <2>3. ASSUME NEW g \in Group, ConnectGroup(g) \/ ConnectRefused(g) \/ ConnectRaises(g)
        PROVE  GatewayMoves
    BY <2>3, <1>a, <1>b DEF ConnectGroup, ConnectRefused, ConnectRaises
  <2>. QED
    BY <1>1, <2>1, <2>2, <2>3 DEF MainStep, AllConnected, Collect, AllCollected, Join, Finish, OnlyMain
<1>2. CASE SessionTimeout
  BY <1>2 DEF SessionTimeout
<1>3. CASE Interrupt
  BY <1>3, <1>a, <1>c DEF Interrupt, TypeOK, MainTypeOK
<1>4. ASSUME NEW v \in View, ThreadStep(v)  PROVE GatewayMoves
  BY <1>4, <1>a, <1>b, <1>c DEF ThreadStep, OwnStep, Start, Input, GetConn, QueryAnswered, QueryRaises, RefreshLock,
     Refreshed, RefreshFails, RequeryAnswered
<1>5. CASE Others
  BY <1>5 DEF Others, Gateway!Next
<1>6. CASE Gone \/ UNCHANGED vars
  BY <1>6 DEF Gone, vars
<1>. QED  BY <1>1, <1>2, <1>3, <1>4, <1>5, <1>6 DEF Next, CliStep

-------------------------------------------------------------------------------
(* Types *)

LEMMA InitIInv == Init => IInv
<1> SUFFICES ASSUME Init  PROVE IInv
  OBVIOUS
<1> USE CliAssumption DEF Init, Gateway!Init
<1>1. GatewayTypeOK /\ MainTypeOK
  <2>1. MaxInterrupts[owned] \in Nat
    OBVIOUS
  <2>2. interrupts \in 0..MaxInterrupts[owned]
    BY <2>1
  <2>3. owned \in BOOLEAN /\ raised \in BOOLEAN /\ timedOut \in BOOLEAN /\ closeFailed \in BOOLEAN
    BY Zenon
  <2>4. reported \in [View -> Outcome]
    BY DEF Outcome
  <2>5. todo \subseteq Groups /\ handles \subseteq Groups /\ main = "connect"
    OBVIOUS
  <2>6. GatewayTypeOK
    BY DEF GatewayTypeOK
  <2>. QED  BY <2>2, <2>3, <2>4, <2>5, <2>6 DEF MainTypeOK
<1>2. ThreadTypeOK
  BY DEF ThreadTypeOK, Outcome, ThreadPlace
<1>3. RowsConsistent /\ MainConsistent
  BY DEF RowsConsistent, MainConsistent, Groups
<1>4. LockConsistent /\ HandlesKnowPools
  BY DEF LockConsistent, HandlesKnowPools
<1>. QED  BY <1>1, <1>2, <1>3, <1>4 DEF IInv, TypeOK

LEMMA MainTypeStep == IInv /\ [Next]_vars => MainTypeOK'
<1> SUFFICES ASSUME IInv, [Next]_vars  PROVE MainTypeOK'
  OBVIOUS
<1> USE DEF MainTypeOK, mainVars
<1>0. MainTypeOK /\ ThreadTypeOK
  BY DEF IInv, TypeOK
<1>1. CASE \E g \in Group : ConnectGroup(g)
  BY <1>0, <1>1 DEF ConnectGroup, Groups
<1>2. CASE \E g \in Group : ConnectRefused(g) \/ ConnectRaises(g)
  BY <1>0, <1>2 DEF ConnectRefused, ConnectRaises, Outcome
<1>3. CASE AllConnected \/ AllCollected \/ Join \/ Finish
  BY <1>0, <1>3 DEF AllConnected, AllCollected, Join, Finish, OnlyMain
<1>4. CASE \E v \in View : Collect(v)
  BY <1>0, <1>4 DEF Collect, ThreadTypeOK
<1>5. CASE \E g \in Group : CloseHandle(g)
  BY <1>0, <1>5 DEF CloseHandle
<1>6. CASE Exit \/ SessionTimeout
  BY <1>0, <1>6 DEF Exit, SessionTimeout
<1>7. CASE Interrupt
  <2>1. interrupts' \in 0..MaxInterrupts[owned]'
    BY <1>0, <1>7, CliAssumption DEF Interrupt
  <2>2. main' \in {"join", "close", "exited"} /\ raised' \in BOOLEAN
    BY <1>0, <1>7, Zenon DEF Interrupt
  <2>. QED  BY <1>0, <1>7, <2>1, <2>2 DEF Interrupt
<1>8. ASSUME NEW v \in View, ThreadStep(v)  PROVE UNCHANGED <<owned, mainVars>>
  BY <1>8 DEF ThreadStep, OwnStep, Start, Input, GetConn, QueryAnswered, QueryRaises, RefreshLock, Refreshed,
     RefreshFails, RequeryAnswered
<1>9. CASE UNCHANGED <<owned, mainVars>>
  BY <1>0, <1>9
<1>10. CASE Others \/ Gone \/ UNCHANGED vars
  BY <1>9, <1>10 DEF Others, Gone, vars
<1>. QED
  BY <1>1, <1>2, <1>3, <1>4, <1>5, <1>6, <1>7, <1>8, <1>9, <1>10 DEF Next, CliStep, MainStep

LEMMA ThreadTypeStep == IInv /\ [Next]_vars => ThreadTypeOK'
<1> SUFFICES ASSUME IInv, [Next]_vars  PROVE ThreadTypeOK'
  OBVIOUS
<1> USE DEF ThreadTypeOK, ThreadPlace, threadVars
<1>0. ThreadTypeOK /\ GroupOf \in [View -> Group]
  BY CliAssumption DEF IInv, TypeOK
<1>1. CASE \E g \in Group : ConnectGroup(g)
  BY <1>0, <1>1 DEF ConnectGroup
<1>2. CASE UNCHANGED threadVars
  BY <1>0, <1>2
<1>3. ASSUME MainStep, ~ \E g \in Group : ConnectGroup(g)  PROVE UNCHANGED threadVars
  BY <1>3 DEF MainStep, ConnectRefused, ConnectRaises, AllConnected, Collect, AllCollected,
     Join, CloseHandle, Finish, Exit, OnlyMain
<1>4. ASSUME SessionTimeout \/ Interrupt \/ Others \/ Gone \/ UNCHANGED vars
      PROVE  UNCHANGED threadVars
  BY <1>4 DEF SessionTimeout, Interrupt, Others, Gone, vars
<1>8. ASSUME NEW v \in View, ThreadStep(v)  PROVE ThreadTypeOK'
  <2>0. ASSUME NEW o \in Outcome, End(v, o)
        PROVE  /\ thread' \in [View -> ThreadPlace] /\ outcome' \in [View -> Outcome]
               /\ conn' \in [View -> ConnID \cup {None}]
    BY <1>0, <2>0 DEF End
  <2>a. Answer \subseteq Outcome /\ Lost \subseteq Answer
        /\ {"QUERY_FAILED", "SystemExit"} \subseteq Outcome
    BY DEF Outcome, Answer
  <2>b. \A c : MayAnswer(c) \subseteq Answer
    BY DEF MayAnswer
  <2>1. CASE Start(v) \/ Input(v)
    BY <1>0, <2>0, <2>1, <2>a DEF Start, Input
  <2>2. CASE GetConn(v)
    BY <1>0, <2>2 DEF GetConn
  <2>3. CASE QueryAnswered(v)
    BY <1>0, <2>0, <2>3, <2>a, <2>b DEF QueryAnswered
  <2>4. CASE QueryRaises(v) \/ RequeryAnswered(v)
    BY <1>0, <2>0, <2>4, <2>a, <2>b DEF QueryRaises, RequeryAnswered
  <2>5. CASE RefreshLock(v)
    BY <1>0, <2>5 DEF RefreshLock
  <2>6. CASE Refreshed(v)
    BY <1>0, <2>6 DEF Refreshed
  <2>7. CASE RefreshFails(v)
    BY <1>0, <2>0, <2>7, <2>a DEF RefreshFails
  <2>. QED  BY <1>8, <2>1, <2>2, <2>3, <2>4, <2>5, <2>6, <2>7 DEF ThreadStep, OwnStep
<1>. QED  BY <1>1, <1>2, <1>3, <1>4, <1>8 DEF Next, CliStep

-------------------------------------------------------------------------------
(* What a thread may do, whichever view's it is *)

\* A step of a thread: the places it leads between, what becomes of its outcome.
LEMMA ThreadMoves ==
    ASSUME IInv, NEW v \in View, ThreadStep(v)
    PROVE  /\ thread[v] \notin {"none", "done"}
           /\ thread'[v] \notin {"none", "queued"}
           /\ outcome'[v] \in {"QUERY_FAILED", "SystemExit"} => thread'[v] = "done"
           /\ outcome[v] \notin {"QUERY_FAILED", "SystemExit"}
           /\ \A w \in View \ {v} : thread'[w] = thread[w] /\ outcome'[w] = outcome[w]
           /\ UNCHANGED <<owned, mainVars>>
<1> USE DEF mainVars, ThreadTypeOK
<1>0. ThreadTypeOK
  BY DEF IInv, TypeOK
<1>a. thread[v] # "done" => outcome[v] \notin {"QUERY_FAILED", "SystemExit"}
  BY DEF IInv, RowsConsistent
<1>b. Answer \cap {"QUERY_FAILED", "SystemExit"} = {} /\ Lost \subseteq Answer
      /\ \A c : MayAnswer(c) \subseteq Answer
  BY DEF Answer, Lost, MayAnswer
<1>1. CASE Start(v) \/ Input(v)
  BY <1>0, <1>a, <1>1 DEF Start, Input, End
<1>2. CASE GetConn(v) \/ RefreshLock(v)
  BY <1>0, <1>a, <1>2 DEF GetConn, RefreshLock
<1>3. CASE QueryAnswered(v) \/ RequeryAnswered(v)
  BY <1>0, <1>a, <1>b, <1>3 DEF QueryAnswered, RequeryAnswered, End
<1>4. CASE QueryRaises(v)
  BY <1>0, <1>a, <1>4 DEF QueryRaises, End
<1>5. CASE Refreshed(v)
  BY <1>0, <1>a, <1>5 DEF Refreshed
<1>6. CASE RefreshFails(v)
  BY <1>0, <1>a, <1>6 DEF RefreshFails, End
<1>. QED  BY <1>1, <1>2, <1>3, <1>4, <1>5, <1>6 DEF ThreadStep, OwnStep

\* Every step is of the main thread, of a view thread, or of the gateway alone.
LEMMA StepKinds ==
    ASSUME [Next]_vars
    PROVE  \/ MainStep \/ SessionTimeout \/ Interrupt
           \/ \E v \in View : ThreadStep(v)
           \/ owned /\ interrupts > 0 /\ UNCHANGED <<owned, mainVars, threadVars>>
           \/ ~owned /\ UNCHANGED <<owned, mainVars, threadVars>>
           \/ UNCHANGED vars
BY DEF Next, CliStep, Others, Gone

-------------------------------------------------------------------------------
(* Rows *)

Row(w) ==
    /\ GroupOf[w] \in todo => thread[w] = "none"
    /\ thread[w] = "none" =>
          reported[w] = IF GroupOf[w] \in todo THEN "none" ELSE "CONNECT_FAILED"
    /\ thread[w] # "none" /\ reported[w] # "none" =>
          thread[w] = "done" /\ reported[w] = outcome[w]
    /\ outcome[w] \in {"QUERY_FAILED", "SystemExit"} => thread[w] = "done"

LEMMA RowStep ==
    ASSUME IInv, [Next]_vars, NEW w \in View
    PROVE  Row(w)'
<1> USE DEF Row, threadVars, mainVars
<1>0. MainTypeOK /\ ThreadTypeOK /\ Row(w)
  BY DEF IInv, TypeOK, RowsConsistent
<1>a. CASE UNCHANGED <<todo, thread, reported, outcome>>
  BY <1>0, <1>a
<1>1. ASSUME NEW g \in Group, ConnectGroup(g)  PROVE Row(w)'
  BY <1>0, <1>1 DEF ConnectGroup
<1>2. ASSUME NEW g \in Group, ConnectRefused(g)  PROVE Row(w)'
  BY <1>0, <1>2 DEF ConnectRefused
<1>3. ASSUME NEW v \in View, Collect(v)  PROVE Row(w)'
  BY <1>0, <1>a, <1>3 DEF Collect, Uncollected, MainTypeOK
<1>4. CASE MainStep
  BY <1>1, <1>2, <1>3, <1>4, <1>a DEF MainStep, ConnectRaises, AllConnected, AllCollected, Join,
     CloseHandle, Finish, Exit, OnlyMain
<1>5. CASE SessionTimeout \/ Interrupt
  BY <1>a, <1>5 DEF SessionTimeout, Interrupt
<1>6. ASSUME NEW v \in View, ThreadStep(v)  PROVE Row(w)'
  <2>1. CASE v = w
    BY <1>0, <1>6, <2>1, ThreadMoves
  <2>2. CASE v # w
    BY <1>0, <1>6, <2>2, ThreadMoves
  <2>. QED  BY <2>1, <2>2
<1>. QED  BY <1>4, <1>5, <1>6, <1>a, StepKinds DEF vars

LEMMA MainStepConsistent == IInv /\ [Next]_vars => MainConsistent'
<1> SUFFICES ASSUME IInv, [Next]_vars  PROVE MainConsistent'
  OBVIOUS
<1> USE DEF MainConsistent, threadVars, mainVars
<1>0. MainTypeOK /\ ThreadTypeOK /\ MainConsistent
  BY DEF IInv, TypeOK
<1>00. interrupts \in Nat
  BY <1>0, CliAssumption DEF MainTypeOK
<1>a. CASE UNCHANGED <<mainVars, thread>>
  BY <1>0, <1>a DEF Uncollected, ThreadsEnded
<1>1. ASSUME NEW g \in Group, ConnectGroup(g) \/ ConnectRefused(g)  PROVE MainConsistent'
  BY <1>0, <1>1 DEF ConnectGroup, ConnectRefused
<1>2. ASSUME NEW g \in Group, ConnectRaises(g)  PROVE MainConsistent'
  BY <1>0, <1>2 DEF ConnectRaises
<1>3. ASSUME NEW v \in View, Collect(v)  PROVE MainConsistent'
  BY <1>0, <1>3 DEF Collect
<1>4. CASE AllConnected \/ AllCollected
  BY <1>0, <1>4 DEF AllConnected, AllCollected, OnlyMain, Uncollected
<1>5. CASE Join \/ Finish
  BY <1>0, <1>5 DEF Join, Finish, OnlyMain, Uncollected, ThreadsEnded
<1>6. ASSUME NEW g \in Group, CloseHandle(g)  PROVE MainConsistent'
  BY <1>0, <1>6 DEF CloseHandle, Uncollected, ThreadsEnded
<1>7. CASE Exit
  BY <1>0, <1>7 DEF Exit, Uncollected, ThreadsEnded
<1>8. CASE SessionTimeout
  BY <1>0, <1>8 DEF SessionTimeout
<1>9. CASE Interrupt
  BY <1>0, <1>00, <1>9 DEF Interrupt
<1>10. ASSUME NEW v \in View, ThreadStep(v)  PROVE MainConsistent'
  <2>1. Uncollected' = Uncollected
    BY <1>10, ThreadMoves DEF Uncollected
  <2>2. ~ThreadsEnded
    BY <1>10, ThreadMoves DEF ThreadsEnded
  <2>. QED  BY <1>0, <1>10, <2>1, <2>2, ThreadMoves
<1>. QED
  BY <1>1, <1>2, <1>3, <1>4, <1>5, <1>6, <1>7, <1>8, <1>9, <1>10, <1>a, StepKinds DEF MainStep, vars

-------------------------------------------------------------------------------
(* Handles: their locks and their pools *)

LEMMA LockStep == IInv /\ [Next]_vars => LockConsistent'
<1> SUFFICES ASSUME IInv, [Next]_vars  PROVE LockConsistent'
  OBVIOUS
<1> USE CliAssumption DEF LockConsistent, threadVars, ThreadTypeOK
<1>0. ThreadTypeOK /\ LockConsistent /\ RowsConsistent
  BY DEF IInv, TypeOK
<1>a. CASE UNCHANGED <<lock, thread>>
  BY <1>0, <1>a
<1>1. ASSUME NEW g \in Group, ConnectGroup(g)  PROVE LockConsistent'
  BY <1>0, <1>1 DEF ConnectGroup, RowsConsistent
<1>2. CASE MainStep
  BY <1>1, <1>2, <1>a DEF MainStep, ConnectRefused, ConnectRaises, AllConnected, Collect,
     AllCollected, Join, CloseHandle, Finish, Exit, OnlyMain
<1>3. CASE SessionTimeout \/ Interrupt
  BY <1>a, <1>3 DEF SessionTimeout, Interrupt
<1>4. ASSUME NEW v \in View, ThreadStep(v)  PROVE LockConsistent'
  <2>1. CASE Start(v) \/ Input(v)
    BY <1>0, <2>1 DEF Start, Input, End
  <2>2. CASE GetConn(v)
    BY <1>0, <2>2 DEF GetConn
  <2>3. CASE QueryAnswered(v) \/ RequeryAnswered(v)
    BY <1>0, <2>3 DEF QueryAnswered, RequeryAnswered, End
  <2>4. CASE QueryRaises(v)
    BY <1>0, <2>4 DEF QueryRaises, End
  <2>5. CASE RefreshLock(v)
    BY <1>0, <2>5 DEF RefreshLock
  <2>6. CASE Refreshed(v)
    BY <1>0, <2>6 DEF Refreshed
  <2>7. CASE RefreshFails(v)
    BY <1>0, <2>7 DEF RefreshFails, End
  <2>. QED  BY <1>4, <2>1, <2>2, <2>3, <2>4, <2>5, <2>6, <2>7 DEF ThreadStep, OwnStep
<1>. QED  BY <1>2, <1>3, <1>4, <1>a, StepKinds DEF vars

LEMMA HandlesStep == IInv /\ [Next]_vars => HandlesKnowPools'
<1> SUFFICES ASSUME IInv, [Next]_vars  PROVE HandlesKnowPools'
  OBVIOUS
<1> USE CliAssumption DEF HandlesKnowPools, mainVars, threadVars, gatewayVars, ThreadTypeOK, GatewayTypeOK
<1>0. /\ GatewayTypeOK /\ MainTypeOK /\ ThreadTypeOK
      /\ HandlesKnowPools /\ MainConsistent /\ RowsConsistent
  BY DEF IInv, TypeOK
<1>00. interrupts \in Nat
  BY <1>0 DEF MainTypeOK
<1>a. CASE UNCHANGED vars
  BY <1>0, <1>a DEF vars, Undisturbed
<1>1. ASSUME NEW g \in Group, ConnectGroup(g)  PROVE HandlesKnowPools'
  <2>1. Undisturbed' => Undisturbed
    BY <1>1 DEF Undisturbed, ConnectGroup
  <2>2. PICK c \in ConnID : Connected(g, c) /\ connID' = [connID EXCEPT ![g] = c]
    BY <1>1 DEF ConnectGroup
  <2>3. pool' = pool \/ pool' = [pool EXCEPT ![g] = c]
    BY <2>2 DEF Connected, Gateway!Open
  <2>4. pool'[g] = c
    BY <1>0, <2>2 DEF Connected, Gateway!Open
  <2>. QED  BY <1>0, <1>1, <2>1, <2>2, <2>3, <2>4 DEF ConnectGroup
<1>2. ASSUME NEW g \in Group, ConnectRefused(g) \/ ConnectRaises(g)  PROVE HandlesKnowPools'
  BY <1>0, <1>2 DEF ConnectRefused, ConnectRaises, Undisturbed
<1>3. ASSUME NEW v \in View, Collect(v)  PROVE HandlesKnowPools'
  BY <1>0, <1>3 DEF Collect, Undisturbed
<1>4. CASE AllConnected \/ AllCollected \/ Join
  BY <1>0, <1>4 DEF AllConnected, AllCollected, Join, OnlyMain, Undisturbed
<1>5. CASE Finish
  BY <1>0, <1>5 DEF Finish, OnlyMain, Undisturbed, MayClose
<1>6. ASSUME NEW g \in Group, CloseHandle(g)  PROVE HandlesKnowPools'
  <2>1. CASE closeFailed'
    BY <1>0, <1>6, <2>1 DEF CloseHandle, Undisturbed
  <2>2. CASE Gateway!Close({connID[g]} \cap Gateway!OpenPools) /\ UNCHANGED closeFailed
    BY <1>0, <1>6, <2>2 DEF CloseHandle, Undisturbed, Gateway!Close, Gateway!OpenPools
  <2>. QED  BY <1>6, <2>1, <2>2 DEF CloseHandle
<1>7. CASE Exit
  BY <1>0, <1>7 DEF Exit, Undisturbed, Gateway!Close, Gateway!OpenPools
<1>8. CASE SessionTimeout
  BY <1>0, <1>8 DEF SessionTimeout, Undisturbed
<1>9. CASE Interrupt
  BY <1>0, <1>00, <1>9 DEF Interrupt, Undisturbed
<1>10. ASSUME NEW v \in View, ThreadStep(v)  PROVE HandlesKnowPools'
  <2>1. UNCHANGED <<owned, mainVars>> /\ \A w \in View : thread'[w] # "none" => thread[w] # "none"
    BY <1>10, ThreadMoves
  <2>2. Undisturbed' => Undisturbed
    BY <1>10, ThreadMoves DEF Undisturbed
  <2>3. Undisturbed => main \in {"connect", "collect", "join"} /\ GroupOf[v] \in handles
    BY <1>0, <1>10, ThreadMoves DEF Undisturbed, MainConsistent, ThreadsEnded, MainTypeOK
  <2>4. CASE UNCHANGED <<pool, connID>>
    BY <1>0, <2>1, <2>2, <2>4
  <2>5. CASE Refreshed(v)
    <3>1. PICK c \in ConnID : Connected(GroupOf[v], c) /\ connID' = [connID EXCEPT ![GroupOf[v]] = c]
      BY <2>5 DEF Refreshed
    <3>2. pool' = pool \/ pool' = [pool EXCEPT ![GroupOf[v]] = c]
      BY <3>1 DEF Connected, Gateway!Open
    <3>3. pool'[GroupOf[v]] = c
      BY <1>0, <3>1 DEF Connected, Gateway!Open
    <3>. QED  BY <1>0, <2>1, <2>2, <2>3, <3>1, <3>2, <3>3
  <2>6. CASE RefreshFails(v) /\ ~ UNCHANGED pool
    <3>1. outcome'[v] = "QUERY_FAILED"
      BY <1>0, <2>6 DEF RefreshFails, End
    <3>. QED  BY <1>0, <2>1, <3>1 DEF Undisturbed
  <2>. QED
    BY <1>10, <2>4, <2>5, <2>6 DEF ThreadStep, OwnStep, Start, Input, GetConn, QueryAnswered, RequeryAnswered,
       QueryRaises, RefreshLock, RefreshFails
<1>11. CASE UNCHANGED <<owned, mainVars, threadVars>> /\ (~owned \/ interrupts > 0)
  BY <1>0, <1>00, <1>11 DEF Undisturbed
<1>. QED
  BY <1>1, <1>2, <1>3, <1>4, <1>5, <1>6, <1>7, <1>8, <1>9, <1>10, <1>11, <1>a, StepKinds
     DEF MainStep

-------------------------------------------------------------------------------
(* The theorems *)

LEMMA NextIInv == IInv /\ [Next]_vars => IInv'
<1> SUFFICES ASSUME IInv, [Next]_vars  PROVE IInv'
  OBVIOUS
<1>1. TypeOK'
  BY GatewaySteps, GatewayTypes, MainTypeStep, ThreadTypeStep DEF IInv, TypeOK
<1>2. RowsConsistent'
  BY RowStep DEF RowsConsistent, Row
<1>. QED  BY <1>1, <1>2, MainStepConsistent, LockStep, HandlesStep DEF IInv

\* The inductive invariant holds for any views, groups, answers and interrupts: cmd_run
\* and its threads (cli.py:93-213) keep it in every step.
THEOREM Invariance == Spec => []IInv
BY InitIInv, NextIInv, PTL DEF Spec

\* Every variable keeps its type.
THEOREM TypeCorrect == Spec => []TypeOK
BY Invariance, PTL DEF IInv

\* A run with a gateway of its own closes every pool that it or one of its threads opened.
THEOREM OwnedPoolsClosed == Spec => []OwnedRunCleansUp
<1>1. IInv => OwnedRunCleansUp
  BY DEF IInv, HandlesKnowPools, Undisturbed, OwnedRunCleansUp, Over, Gateway!OpenPools
<1>. QED  BY <1>1, Invariance, PTL

\* A run that is not cut short has a row for every view.
THEOREM RowsComplete == Spec => []EveryViewHasItsRow
<1>1. IInv => EveryViewHasItsRow
  BY DEF IInv, RowsConsistent, MainConsistent, EveryViewHasItsRow, Over, Uncollected
<1>. QED  BY <1>1, Invariance, PTL

\* At most one thread of a group reconnects at a time, so that a group's pool is asked for
\* once although all its views have lost it (cli.py:106-118).
OneRefresh ==
    \A v, w \in View :
        thread[v] = "connect" /\ thread[w] = "connect" /\ GroupOf[v] = GroupOf[w] => v = w

THEOREM RefreshesExclude == Spec => []OneRefresh
<1>1. IInv => OneRefresh
  BY DEF IInv, LockConsistent, OneRefresh
<1>. QED  BY <1>1, Invariance, PTL

\* A run attached to a resident gateway closes no pool, not even one it opened.
THEOREM AttachedClosesNothing == Spec => AttachedKeepsPools
<1> USE DEF gatewayVars, Connected, ConnectUnanswered, Gateway!Open
<1>1. ASSUME ~owned, MainStep  PROVE retired' = retired
  BY <1>1 DEF MainStep, ConnectGroup, ConnectRefused, ConnectRaises, AllConnected, Collect,
     AllCollected, Join, CloseHandle, MayClose, Finish, Exit, OnlyMain
<1>2. ASSUME SessionTimeout \/ Interrupt  PROVE retired' = retired
  BY <1>2 DEF SessionTimeout, Interrupt
<1>3. ASSUME NEW v \in View, ThreadStep(v)  PROVE retired' = retired
  BY <1>3 DEF ThreadStep, OwnStep, Start, Input, GetConn, QueryAnswered, QueryRaises, RefreshLock, Refreshed,
     RefreshFails, RequeryAnswered
<1>4. CliStep /\ ~owned => retired' = retired
  BY <1>1, <1>2, <1>3 DEF CliStep
<1>. QED  BY <1>4, PTL DEF Spec, AttachedKeepsPools

\* Whatever the run and the clients beside it do, the gateway behind them is one that keeps
\* its promise: as ConnManager does.
THEOREM UsesRegistry == Spec => Gateway!Spec
<1>1. Init => Gateway!Init
  BY DEF Init
<1>2. IInv /\ [Next]_vars => [Gateway!Next]_(Gateway!vars)
  BY GatewaySteps DEF IInv, GatewayMoves, gatewayVars, Gateway!Next, Gateway!vars
<1>. QED  BY <1>1, <1>2, Invariance, PTL DEF Spec, Gateway!Spec
================================================================================
