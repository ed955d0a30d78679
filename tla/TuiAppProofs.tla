------------------------------ MODULE TuiAppProofs ------------------------------
(***************************************************************************)
(* Proofs about TuiApp, for any views and groups, dialogs and page_sizes,  *)
(* gateways of the process's own and attached ones.                        *)
(***************************************************************************)
EXTENDS TuiApp, TLAPS

-------------------------------------------------------------------------------
(* What the steps touch *)

GatewayMoves ==
    \/ UNCHANGED gatewayVars
    \/ \E g \in Group, c \in ConnID : Gateway!Open(g, c)
    \/ \E ids \in SUBSET Gateway!OpenPools : Gateway!Close(ids)

\* The steps that leave gateway, dictionaries, threads and results alone.
LoopStep ==
    \/ Quit
    \/ \E b \in Batch : WorkerFailed(b)
    \/ \E v \in View : NextPage(v) \/ PrevPage(v)

\* Every step is of the event loop, of a view's thread, of a worker or of the gateway alone.
LEMMA StepKinds ==
    ASSUME [Next]_vars
    PROVE  \/ Mount \/ Submit \/ LoopStep \/ Stop
           \/ \E v \in View : ThreadStep(v)
           \/ \E v \in View : Deliver(v) \/ DeliverFails(v)
           \/ \E b \in Batch : FetchOver(b) \/ WorkerEnds(b)
           \/ \E b \in Batch, g \in Group : CloseOne(b, g)
           \/ Others
           \/ UNCHANGED vars
BY DEF Next, TuiStep, UserStep, DeliverStep, WorkerStep, LoopStep, Gone

LEMMA LoopFrame ==
    ASSUME LoopStep
    PROVE  /\ app = "up" /\ app' \in {"up", "over"}
           /\ UNCHANGED <<gatewayVars, inputVars, workerVars, threadVars, shown, totalPages>>
BY DEF LoopStep, Quit, WorkerFailed, NextPage, PrevPage, paneVars

\* FetchViews is for the views of one batch, whose threads have not started.
LEMMA FetchFrame ==
    ASSUME Mount \/ Submit
    PROVE  /\ app \in {"start", "up"} /\ app' \in {"up", "over"}
           /\ \/ UNCHANGED <<worker, thread>>
              \/ \E b \in Batch : FetchViews(b) /\ (app = "start" \/ worker[b] = "none")
           /\ UNCHANGED <<gatewayVars, inputVars, cache, closeFailed, conn, result, rows, paneVars>>
BY DEF Mount, Submit, Batch

\* A step of a thread: the places it leads between, and what becomes of its result.
LEMMA ThreadMoves ==
    ASSUME TypeOK, NEW v \in View, ThreadStep(v)
    PROVE  /\ thread[v] \in {"queued", "connect", "store", "use", "query"}
           /\ thread'[v] \in {"connect", "store", "use", "query", "answered"}
           /\ result'[v] # result[v] => thread'[v] = "answered"
           /\ \A w \in View \ {v} :
                 /\ thread'[w] = thread[w] /\ result'[w] = result[w]
                 /\ conn'[w] = conn[w] /\ rows'[w] = rows[w]
           /\ UNCHANGED <<inputVars, app, worker, closeFailed, paneVars>>
<1> USE DEF TypeOK, ThreadTypeOK, workerVars
<1>1. CASE Lookup(v)
  BY <1>1 DEF Lookup
<1>2. CASE Connect(v)
  BY <1>2 DEF Connect
<1>3. CASE ConnectRaises(v)
  BY <1>3 DEF ConnectRaises, End
<1>4. CASE Store(v)
  BY <1>4 DEF Store
<1>5. CASE Use(v)
  BY <1>5 DEF Use
<1>6. CASE Query(v)
  BY <1>6 DEF Query, End
<1>7. CASE QueryRaises(v)
  BY <1>7 DEF QueryRaises, End
<1>. QED  BY <1>1, <1>2, <1>3, <1>4, <1>5, <1>6, <1>7 DEF ThreadStep

-------------------------------------------------------------------------------
(* The gateway *)

LEMMA BatchKnown == \A v \in View : BatchOf(v) \in Batch
BY DEF BatchOf, Batch

LEMMA GroupKnown == TypeOK => groupOf \in [View -> Group]
BY TuiAssumption DEF TypeOK, WorkerTypeOK

LEMMA GatewaySteps == [Next]_vars /\ TypeOK => GatewayMoves
<1> SUFFICES ASSUME [Next]_vars, TypeOK  PROVE GatewayMoves
  OBVIOUS
<1> USE GroupKnown DEF GatewayMoves
<1>1. CASE Mount \/ Submit
  BY <1>1, FetchFrame
<1>2. CASE LoopStep
  BY <1>2, LoopFrame
<1>3. CASE Stop
  BY <1>3 DEF Stop
<1>4. ASSUME NEW v \in View, ThreadStep(v)  PROVE GatewayMoves
  BY <1>4 DEF ThreadStep, Lookup, Connect, Connected, ConnectRaises, Store, Use, Query, QueryRaises
<1>5. ASSUME NEW v \in View, Deliver(v) \/ DeliverFails(v)  PROVE GatewayMoves
  BY <1>5 DEF Deliver, DeliverFails
<1>6. ASSUME NEW b \in Batch, FetchOver(b) \/ WorkerEnds(b)  PROVE GatewayMoves
  BY <1>6 DEF FetchOver, WorkerEnds
<1>7. ASSUME NEW b \in Batch, NEW g \in Group, CloseOne(b, g)  PROVE GatewayMoves
  BY <1>7 DEF CloseOne
<1>8. CASE Others
  BY <1>8 DEF Others, Gateway!Next
<1>9. CASE UNCHANGED vars
  BY <1>9 DEF vars
<1>. QED  BY <1>1, <1>2, <1>3, <1>4, <1>5, <1>6, <1>7, <1>8, <1>9, StepKinds

LEMMA GatewayStep ==
    ASSUME GatewayTypeOK, Gateway!IdsUnique, GatewayMoves
    PROVE  GatewayTypeOK' /\ Gateway!IdsUnique'
<1> USE TuiAssumption DEF GatewayTypeOK, Gateway!IdsUnique, Gateway!OpenPools
<1>1. ASSUME NEW g \in Group, NEW c \in ConnID, Gateway!Open(g, c)
      PROVE  GatewayTypeOK' /\ Gateway!IdsUnique'
  BY <1>1 DEF Gateway!Open
<1>2. ASSUME NEW ids \in SUBSET Gateway!OpenPools, Gateway!Close(ids)
      PROVE  GatewayTypeOK' /\ Gateway!IdsUnique'
  <2>1. \A g \in Group : pool'[g] = (IF pool[g] \in ids THEN None ELSE pool[g])
    BY <1>2 DEF Gateway!Close
  <2>2. ids \subseteq ConnID /\ None \notin ids /\ retired' = retired \cup ids
    BY <1>2 DEF Gateway!Close
  <2>3. GatewayTypeOK'
    BY <1>2, <2>2 DEF Gateway!Close
  <2>. QED  BY <2>1, <2>2, <2>3
<1>3. CASE UNCHANGED gatewayVars
  BY <1>3 DEF gatewayVars
<1>. QED  BY <1>1, <1>2, <1>3 DEF GatewayMoves

-------------------------------------------------------------------------------
(* Pages *)

\* Unless the rows are divided by zero, there is a number of pages.
LEMMA PageNumber ==
    ASSUME NEW v \in View, NEW n \in Nat, v \in Paged /\ PageSize[v] = 0 => n = 0
    PROVE  TotalPages(v, n) \in Int
<1> DEFINE s == PageSize[v]
<1>1. s \in Int
  BY TuiAssumption
<1>2. CASE v \in Paged /\ n > 0 /\ s < 0
  <2> DEFINE a == 1 - n - s
             b == -s
  <2>1. a \in Int /\ b \in Nat \ {0} /\ TotalPages(v, n) = a \div b
    BY <1>1, <1>2 DEF TotalPages
  <2> HIDE DEF a, b
  <2>. QED  BY <2>1
<1>3. CASE v \in Paged /\ n > 0 /\ s > 0
  BY <1>1, <1>3 DEF TotalPages
<1>4. CASE v \notin Paged \/ n = 0
  BY <1>4 DEF TotalPages
<1>. QED  BY <1>1, <1>2, <1>3, <1>4

\* With a page_size above zero, TotalPages is the least number of pages that hold n rows.
LEMMA PageCount ==
    ASSUME NEW v \in View, NEW n \in Nat, v \notin Paged \/ PageSize[v] > 0
    PROVE  /\ TotalPages(v, n) \in Nat \ {0}
           /\ SizeOfPage(v, n) \in Nat \ {0}
           /\ n <= TotalPages(v, n) * SizeOfPage(v, n)
           /\ n > 0 => (TotalPages(v, n) - 1) * SizeOfPage(v, n) < n
<1> DEFINE k == PageSize[v]
<1>0. k \in Int /\ (v \in Paged => k > 0)
  BY TuiAssumption
<1>1. CASE v \in Paged /\ n > 0
  <2> DEFINE q == (n + k - 1) \div k
             r == (n + k - 1) % k
  <2>1. /\ q \in Nat /\ r \in 0..(k - 1)
        /\ n + k - 1 = k * q + r
    <3>1. k \in Nat \ {0} /\ n + k - 1 \in Nat
      BY <1>0, <1>1
    <3> HIDE DEF k
    <3>. QED  BY <3>1, SMTT(30)
  <2>2. TotalPages(v, n) = q /\ SizeOfPage(v, n) = k
    BY <1>0, <1>1 DEF TotalPages, SizeOfPage
  <2> HIDE DEF q, r
  <2>3. q # 0
    BY <2>1, <1>0, <1>1
  <2>4. q * k = k * q /\ (q - 1) * k = k * q - k
    BY <1>0, <1>1, <2>1
  <2>. QED  BY <1>0, <1>1, <2>1, <2>2, <2>3, <2>4
<1>2. CASE v \in Paged /\ n = 0
  BY <1>0, <1>2 DEF TotalPages, SizeOfPage
<1>3. CASE v \notin Paged
  BY <1>3 DEF TotalPages, SizeOfPage
<1>. QED  BY <1>1, <1>2, <1>3

LEMMA TimesMonotone ==
    ASSUME NEW a \in Nat, NEW b \in Nat, NEW s \in Nat, a <= b
    PROVE  a * s <= b * s
<1> DEFINE d == b - a
<1>1. d \in Nat /\ b = a + d
  OBVIOUS
<1> HIDE DEF d
<1>2. b * s = a * s + d * s /\ d * s \in Nat /\ a * s \in Nat
  BY <1>1
<1>. QED  BY <1>2

\* No page of a result that has rows is empty, and every row is on some page.
LEMMA PagesCover ==
    ASSUME NEW v \in View, NEW n \in Nat, v \notin Paged \/ PageSize[v] > 0
    PROVE  /\ n > 0 => \A p \in 1..TotalPages(v, n) : PageRows(v, p, n) # {}
           /\ UNION {PageRows(v, p, n) : p \in 1..TotalPages(v, n)} = 1..n
<1> DEFINE q == TotalPages(v, n)
           s == SizeOfPage(v, n)
<1>0. /\ q \in Nat \ {0} /\ s \in Nat \ {0} /\ n <= q * s
      /\ n > 0 => (q - 1) * s < n
  BY PageCount
<1>a. \A p \in Nat \ {0} : PageRows(v, p, n) = {i \in 1..n : (p - 1) * s < i /\ i <= p * s}
  <2> TAKE p \in Nat \ {0}
  <2>1. (p - 1) * s \in Nat /\ p * s \in Nat
    BY <1>0
  <2>. QED  BY <2>1 DEF PageRows, Bound
<1> HIDE DEF q, s
<1>1. ASSUME NEW p \in 1..q, n > 0  PROVE PageRows(v, p, n) # {}
  <2> DEFINE i == (p - 1) * s + 1
  <2>1. (p - 1) * s <= (q - 1) * s
    BY <1>0, TimesMonotone
  <2>2. (p - 1) * s \in Nat /\ (q - 1) * s \in Nat /\ p * s = (p - 1) * s + s
    BY <1>0
  <2>3. i \in 1..n /\ (p - 1) * s < i /\ i <= p * s
    BY <1>0, <1>1, <2>1, <2>2
  <2>. QED  BY <1>a, <2>3
<1>2. ASSUME NEW i \in 1..n  PROVE \E p \in 1..q : i \in PageRows(v, p, n)
  <2> DEFINE p == (i + s - 1) \div s
             r == (i + s - 1) % s
  <2>1. p \in Nat /\ r \in 0..(s - 1) /\ i + s - 1 = s * p + r
    BY <1>0, SMTT(30)
  <2> HIDE DEF p, r
  <2>2. p # 0
    BY <1>0, <2>1
  <2>3. (p - 1) * s = s * p - s /\ p * s = s * p
    BY <1>0, <2>1
  <2>4. (p - 1) * s < i /\ i <= p * s
    BY <1>0, <2>1, <2>3
  <2>5. ASSUME q <= p - 1  PROVE FALSE
    <3>1. q * s <= (p - 1) * s
      BY <1>0, <2>1, <2>2, <2>5, TimesMonotone
    <3>2. q * s \in Nat /\ (p - 1) * s \in Nat
      BY <1>0, <2>1, <2>2
    <3>. QED  BY <1>0, <2>4, <3>1, <3>2
  <2>6. p \in 1..q
    BY <1>0, <2>1, <2>2, <2>5
  <2>. QED  BY <1>a, <2>4, <2>6
<1>3. \A p \in 1..q : PageRows(v, p, n) \subseteq 1..n
  BY <1>a
<1>4. UNION {PageRows(v, p, n) : p \in 1..q} = 1..n
  BY <1>2, <1>3
<1>. QED  BY <1>1, <1>4 DEF q

-------------------------------------------------------------------------------
(* Types *)

LEMMA InitIInv == Init => IInv
<1> SUFFICES ASSUME Init  PROVE IInv
  OBVIOUS
<1> USE TuiAssumption DEF Init, Gateway!Init
<1>1. GatewayTypeOK /\ Gateway!IdsUnique
  BY DEF GatewayTypeOK, Gateway!IdsUnique, Gateway!OpenPools
<1>2. WorkerTypeOK
  <2>1. owned \in BOOLEAN /\ closeFailed \in BOOLEAN
    BY Zenon
  <2>. QED  BY <2>1 DEF WorkerTypeOK
<1>3. ThreadTypeOK /\ PaneTypeOK
  BY DEF ThreadTypeOK, ThreadPlace, PaneTypeOK
<1>4. WorkersConsistent /\ ConnsNamed /\ PanesConsistent
  BY BatchKnown DEF WorkersConsistent, ConnsNamed, PanesConsistent
<1>5. StopClosesAll /\ SoleThreadsConnected /\ SoleWorkerKeepsPool /\ SolePoolsKept
  BY BatchKnown DEF StopClosesAll, SoleThreadsConnected, SoleWorkerKeepsPool, SolePoolsKept, SoleGroups
<1>. QED  BY <1>1, <1>2, <1>3, <1>4, <1>5 DEF IInv, TypeOK

LEMMA WorkerTypeStep == TypeOK /\ [Next]_vars => WorkerTypeOK'
<1> SUFFICES ASSUME TypeOK, [Next]_vars  PROVE WorkerTypeOK'
  OBVIOUS
<1> USE DEF WorkerTypeOK, inputVars, workerVars
<1>0. WorkerTypeOK /\ ThreadTypeOK
  BY DEF TypeOK
<1>1. CASE Mount \/ Submit
  BY <1>0, <1>1, FetchFrame DEF FetchViews
<1>2. CASE LoopStep
  BY <1>0, <1>2, LoopFrame
<1>3. CASE Stop
  BY <1>0, <1>3 DEF Stop
<1>4. ASSUME NEW v \in View, ThreadStep(v)  PROVE WorkerTypeOK'
  <2>1. CASE Store(v)
    BY <1>0, <2>1, BatchKnown, GroupKnown DEF Store, ThreadTypeOK
  <2>2. UNCHANGED cache \/ Store(v)
    BY <1>4 DEF ThreadStep, Lookup, Connect, ConnectRaises, Use, Query, QueryRaises
  <2>. QED  BY <1>0, <1>4, <2>1, <2>2, ThreadMoves
<1>5. ASSUME NEW v \in View, Deliver(v) \/ DeliverFails(v)  PROVE WorkerTypeOK'
  BY <1>0, <1>5 DEF Deliver, DeliverFails
<1>6. ASSUME NEW b \in Batch, FetchOver(b) \/ WorkerEnds(b)  PROVE WorkerTypeOK'
  BY <1>0, <1>6 DEF FetchOver, WorkerEnds
<1>7. ASSUME NEW b \in Batch, NEW g \in Group, CloseOne(b, g)  PROVE WorkerTypeOK'
  <2>1. closeFailed' \in BOOLEAN
    BY <1>0, <1>7, Zenon DEF CloseOne
  <2>. QED  BY <1>0, <1>7, <2>1 DEF CloseOne
<1>8. CASE Others \/ UNCHANGED vars
  BY <1>0, <1>8 DEF Others, vars
<1>. QED  BY <1>1, <1>2, <1>3, <1>4, <1>5, <1>6, <1>7, <1>8, StepKinds

LEMMA ThreadTypeStep == TypeOK /\ [Next]_vars => ThreadTypeOK'
<1> SUFFICES ASSUME TypeOK, [Next]_vars  PROVE ThreadTypeOK'
  OBVIOUS
<1> USE TuiAssumption DEF ThreadTypeOK, ThreadPlace, threadVars
<1>0. WorkerTypeOK /\ ThreadTypeOK
  BY DEF TypeOK
<1>1. CASE Mount \/ Submit
  BY <1>0, <1>1, FetchFrame DEF FetchViews
<1>2. CASE LoopStep
  BY <1>0, <1>2, LoopFrame
<1>3. CASE Stop
  BY <1>0, <1>3 DEF Stop
<1>4. ASSUME NEW v \in View, ThreadStep(v)  PROVE ThreadTypeOK'
  <2>1. CASE Lookup(v) \/ Store(v)
    BY <1>0, <2>1 DEF Lookup, Store
  <2>2. CASE Connect(v)
    BY <1>0, <2>2 DEF Connect
  <2>3. CASE ConnectRaises(v) \/ QueryRaises(v)
    BY <1>0, <2>3 DEF ConnectRaises, QueryRaises, End
  <2>4. CASE Use(v)
    <3>1. BatchOf(v) \in Batch /\ groupOf[v] \in Group
      BY BatchKnown, GroupKnown
    <3>2. cache[BatchOf(v)][groupOf[v]] \in ConnID \cup {None}
      BY <1>0, <3>1 DEF WorkerTypeOK
    <3>. QED  BY <1>0, <2>4, <3>2 DEF Use
  <2>5. CASE Query(v)
    <3>1. PICK r \in MayAnswer(conn[v]) :
            End(v, r) /\ \E n \in IF r \in Table THEN RowCounts[v] ELSE {0} : rows' = [rows EXCEPT ![v] = n]
      BY <2>5 DEF Query
    <3>2. r \in Answer /\ (IF r \in Table THEN RowCounts[v] ELSE {0}) \subseteq Nat
      BY <3>1 DEF MayAnswer
    <3>3. rows' \in [View -> Nat]
      BY <1>0, <3>1, <3>2
    <3>. QED  BY <1>0, <3>1, <3>2, <3>3 DEF End
  <2>. QED  BY <1>4, <2>1, <2>2, <2>3, <2>4, <2>5 DEF ThreadStep
<1>5. ASSUME NEW v \in View, Deliver(v) \/ DeliverFails(v)  PROVE ThreadTypeOK'
  BY <1>0, <1>5 DEF Deliver, DeliverFails
<1>6. ASSUME NEW b \in Batch, FetchOver(b) \/ WorkerEnds(b)  PROVE ThreadTypeOK'
  BY <1>0, <1>6 DEF FetchOver, WorkerEnds
<1>7. ASSUME NEW b \in Batch, NEW g \in Group, CloseOne(b, g)  PROVE ThreadTypeOK'
  BY <1>0, <1>7 DEF CloseOne
<1>8. CASE Others \/ UNCHANGED vars
  BY <1>0, <1>8 DEF Others, vars
<1>. QED  BY <1>1, <1>2, <1>3, <1>4, <1>5, <1>6, <1>7, <1>8, StepKinds

LEMMA PaneTypeStep == TypeOK /\ [Next]_vars => PaneTypeOK'
<1> SUFFICES ASSUME TypeOK, [Next]_vars  PROVE PaneTypeOK'
  OBVIOUS
<1> USE DEF PaneTypeOK, paneVars
<1>0. PaneTypeOK /\ ThreadTypeOK
  BY DEF TypeOK
<1>1. CASE Mount \/ Submit
  BY <1>0, <1>1, FetchFrame
<1>2. ASSUME NEW v \in View, NextPage(v)  PROVE PaneTypeOK'
  BY <1>0, <1>2 DEF NextPage
<1>3. ASSUME NEW v \in View, PrevPage(v)  PROVE PaneTypeOK'
  BY <1>0, <1>3 DEF PrevPage
<1>4. ASSUME Quit \/ Stop \/ \E b \in Batch : WorkerFailed(b)  PROVE PaneTypeOK'
  BY <1>0, <1>4 DEF Quit, Stop, WorkerFailed
<1>5. ASSUME NEW v \in View, ThreadStep(v)  PROVE PaneTypeOK'
  BY <1>0, <1>5, ThreadMoves
<1>6. ASSUME NEW v \in View, Deliver(v)  PROVE PaneTypeOK'
  <2>1. app = "up" /\ result[v] = "ok" => TotalPages(v, rows[v]) \in Int
    BY <1>0, <1>6, PageNumber DEF ThreadTypeOK, Deliver, Unshowable
  <2>. QED  BY <1>0, <1>6, <2>1 DEF Deliver
<1>7. ASSUME NEW v \in View, DeliverFails(v)  PROVE PaneTypeOK'
  BY <1>0, <1>7 DEF DeliverFails
<1>8. ASSUME NEW b \in Batch, FetchOver(b) \/ WorkerEnds(b)  PROVE PaneTypeOK'
  BY <1>0, <1>8 DEF FetchOver, WorkerEnds
<1>9. ASSUME NEW b \in Batch, NEW g \in Group, CloseOne(b, g)  PROVE PaneTypeOK'
  BY <1>0, <1>9 DEF CloseOne
<1>10. CASE Others \/ UNCHANGED vars
  BY <1>0, <1>10 DEF Others, vars
<1>. QED
  BY <1>1, <1>2, <1>3, <1>4, <1>5, <1>6, <1>7, <1>8, <1>9, <1>10, StepKinds
     DEF LoopStep

-------------------------------------------------------------------------------
(* Workers and panes, one view at a time *)

Ran(v) ==
    /\ worker[BatchOf(v)] = "none" => thread[v] = "none"
    /\ worker[BatchOf(v)] \in {"close", "done"} => thread[v] = "delivered"
    /\ result[v] # "none" => thread[v] \in {"answered", "delivered"}

LEMMA RanStep ==
    ASSUME IInv, [Next]_vars, NEW w \in View
    PROVE  Ran(w)'
<1> USE DEF Ran, inputVars, workerVars, threadVars
<1>0. /\ WorkerTypeOK /\ ThreadTypeOK /\ Ran(w) /\ TypeOK
      /\ app = "start" => \A b \in Batch : worker[b] = "none"
  BY DEF IInv, TypeOK, WorkersConsistent
<1>a. BatchOf(w) \in Batch
  BY BatchKnown
<1>b. UNCHANGED needs => BatchOf(w)' = BatchOf(w)
  BY DEF BatchOf
<1>c. CASE UNCHANGED <<needs, worker, thread, result>>
  BY <1>0, <1>b, <1>c
<1>1. CASE Mount \/ Submit
  <2>1. UNCHANGED <<needs, result>>
    BY <1>1, FetchFrame
  <2>2. ASSUME NEW b \in Batch, FetchViews(b), worker[b] = "none"  PROVE Ran(w)'
    BY <1>0, <1>a, <1>b, <2>1, <2>2 DEF FetchViews, WorkerTypeOK, ThreadTypeOK
  <2>. QED  BY <1>0, <1>1, <1>c, <2>1, <2>2, FetchFrame
<1>2. CASE LoopStep
  BY <1>2, <1>c, LoopFrame
<1>3. CASE Stop
  BY <1>3, <1>c DEF Stop
<1>4. ASSUME NEW v \in View, ThreadStep(v)  PROVE Ran(w)'
  BY <1>0, <1>b, <1>4, ThreadMoves
<1>5. ASSUME NEW v \in View, Deliver(v)  PROVE Ran(w)'
  BY <1>0, <1>b, <1>5 DEF Deliver, ThreadTypeOK
<1>6. ASSUME NEW v \in View, DeliverFails(v)  PROVE Ran(w)'
  BY <1>0, <1>a, <1>b, <1>6, BatchKnown DEF DeliverFails, WorkerTypeOK
<1>7. ASSUME NEW b \in Batch, FetchOver(b) \/ WorkerEnds(b)  PROVE Ran(w)'
  BY <1>0, <1>a, <1>b, <1>7 DEF FetchOver, WorkerEnds, Fetched, ViewsOf, WorkerTypeOK
<1>8. ASSUME NEW b \in Batch, NEW g \in Group, CloseOne(b, g)  PROVE Ran(w)'
  BY <1>8, <1>c DEF CloseOne
<1>9. CASE Others \/ UNCHANGED vars
  BY <1>9, <1>c DEF Others, vars
<1>. QED
  BY <1>1, <1>2, <1>3, <1>4, <1>5, <1>6, <1>7, <1>8, <1>9, StepKinds

LEMMA WorkersStep == IInv /\ [Next]_vars => WorkersConsistent'
<1> SUFFICES ASSUME IInv, [Next]_vars  PROVE WorkersConsistent'
  OBVIOUS
<1>1. app' = "start" => app = "start" /\ UNCHANGED worker
  <2> SUFFICES ASSUME app' = "start"  PROVE app = "start" /\ UNCHANGED worker
    OBVIOUS
  <2> USE DEF workerVars
  <2>0. TypeOK /\ WorkersConsistent
    BY DEF IInv
  <2>1. ~ (Mount \/ Submit \/ LoopStep \/ Stop)
    BY LoopFrame, FetchFrame DEF Stop
  <2>2. ASSUME NEW b \in Batch, FetchOver(b) \/ WorkerEnds(b)  PROVE FALSE
    BY <2>0, <2>2 DEF FetchOver, WorkerEnds, WorkersConsistent
  <2>3. ASSUME NEW v \in View, DeliverFails(v)  PROVE FALSE
    BY <2>0, <2>3, BatchKnown DEF DeliverFails, WorkersConsistent
  <2>4. ASSUME NEW v \in View, ThreadStep(v) \/ Deliver(v)  PROVE app = "start" /\ UNCHANGED worker
    BY <2>0, <2>4, ThreadMoves DEF Deliver
  <2>5. ASSUME NEW b \in Batch, NEW g \in Group, CloseOne(b, g)  PROVE app = "start" /\ UNCHANGED worker
    BY <2>5 DEF CloseOne
  <2>6. CASE Others \/ UNCHANGED vars
    BY <2>6 DEF Others, vars
  <2>. QED  BY <2>1, <2>2, <2>3, <2>4, <2>5, <2>6, StepKinds
<1>2. \A w \in View : Ran(w)'
  BY RanStep
<1>. QED  BY <1>1, <1>2 DEF WorkersConsistent, Ran, IInv

Pane(w) ==
    /\ shown[w] = "table" => thread[w] = "delivered" /\ totalPages[w] = TotalPages(w, rows[w])
    /\ shown[w] = "table" /\ w \in Paged /\ PageSize[w] = 0 => rows[w] = 0
    /\ shown[w] # "table" => totalPages[w] = 0
    /\ page[w] <= totalPages[w] \/ page[w] = 1

LEMMA PaneStep ==
    ASSUME IInv, [Next]_vars, NEW w \in View
    PROVE  Pane(w)'
<1> USE DEF Pane, threadVars, paneVars, PaneTypeOK
<1>0. TypeOK /\ ThreadTypeOK /\ PaneTypeOK /\ Pane(w) /\ Ran(w)
  BY DEF IInv, TypeOK, PanesConsistent, WorkersConsistent, Ran
<1>a. rows'[w] = rows[w] => TotalPages(w, rows[w])' = TotalPages(w, rows[w])
  BY DEF TotalPages
<1>c. CASE UNCHANGED <<thread, rows, paneVars>>
  BY <1>0, <1>a, <1>c
<1>1. CASE Mount \/ Submit
  <2>1. ASSUME NEW b \in Batch, FetchViews(b), worker[b] = "none"  PROVE Pane(w)'
    <3>1. thread'[w] = thread[w] \/ thread[w] = "none"
      BY <1>0, <2>1 DEF FetchViews, Ran, ThreadTypeOK
    <3>. QED  BY <1>0, <1>1, <1>a, <3>1, FetchFrame
  <2>2. app = "start" => \A b \in Batch : worker[b] = "none"
    BY DEF IInv, WorkersConsistent
  <2>. QED  BY <1>1, <1>c, <2>1, <2>2, FetchFrame
<1>2. ASSUME NEW v \in View, NextPage(v)  PROVE Pane(w)'
  BY <1>0, <1>2, <1>a DEF NextPage
<1>3. ASSUME NEW v \in View, PrevPage(v)  PROVE Pane(w)'
  BY <1>0, <1>3, <1>a DEF PrevPage
<1>4. ASSUME Quit \/ Stop \/ \E b \in Batch : WorkerFailed(b)  PROVE Pane(w)'
  BY <1>4, <1>c DEF Quit, Stop, WorkerFailed
<1>5. ASSUME NEW v \in View, ThreadStep(v)  PROVE Pane(w)'
  BY <1>0, <1>5, <1>a, ThreadMoves
<1>6. ASSUME NEW v \in View, Deliver(v)  PROVE Pane(w)'
  BY <1>0, <1>6, <1>a DEF Deliver, Unshowable, ThreadTypeOK
<1>7. ASSUME NEW v \in View, DeliverFails(v)  PROVE Pane(w)'
  BY <1>0, <1>7, <1>a DEF DeliverFails, ThreadTypeOK
<1>8. ASSUME NEW b \in Batch, FetchOver(b) \/ WorkerEnds(b)  PROVE Pane(w)'
  BY <1>8, <1>c DEF FetchOver, WorkerEnds
<1>9. ASSUME NEW b \in Batch, NEW g \in Group, CloseOne(b, g)  PROVE Pane(w)'
  BY <1>9, <1>c DEF CloseOne
<1>10. CASE Others \/ UNCHANGED vars
  BY <1>10, <1>c DEF Others, vars
<1>. QED
  BY <1>1, <1>2, <1>3, <1>4, <1>5, <1>6, <1>7, <1>8, <1>9, <1>10, StepKinds
     DEF LoopStep

-------------------------------------------------------------------------------
(* Pools: what becomes of them, and of the ids that name them *)

LEMMA InputsFixed == TypeOK /\ [Next]_vars => UNCHANGED inputVars
<1> SUFFICES ASSUME TypeOK, [Next]_vars  PROVE UNCHANGED inputVars
  OBVIOUS
<1>1. ASSUME Stop \/ Others \/ UNCHANGED vars  PROVE UNCHANGED inputVars
  BY <1>1 DEF Stop, Others, vars
<1>2. ASSUME NEW v \in View, ThreadStep(v) \/ Deliver(v) \/ DeliverFails(v)  PROVE UNCHANGED inputVars
  BY <1>2, ThreadMoves DEF Deliver, DeliverFails
<1>3. ASSUME NEW b \in Batch, FetchOver(b) \/ WorkerEnds(b)  PROVE UNCHANGED inputVars
  BY <1>3 DEF FetchOver, WorkerEnds
<1>4. ASSUME NEW b \in Batch, NEW g \in Group, CloseOne(b, g)  PROVE UNCHANGED inputVars
  BY <1>4 DEF CloseOne
<1>. QED  BY <1>1, <1>2, <1>3, <1>4, LoopFrame, FetchFrame, StepKinds

\* A group whose pool a thread uses belongs to some view; the inputs fix who else uses it.
LEMMA SoleFixed ==
    ASSUME UNCHANGED inputVars
    PROVE  /\ \A v \in View : BatchOf(v)' = BatchOf(v)
           /\ \A b \in Batch : SoleGroups(b)' = SoleGroups(b)
BY DEF inputVars, BatchOf, SoleGroups

\* The pool of a group does not change from one to another, and what is closed is retired.
LEMMA PoolMoves ==
    ASSUME TypeOK, [Next]_vars
    PROVE  /\ retired \subseteq retired'
           /\ \A g \in Group : pool'[g] # pool[g] =>
                 pool[g] = None \/ (pool'[g] = None /\ pool[g] \in retired')
<1> USE DEF GatewayTypeOK
<1>0. GatewayTypeOK /\ GatewayMoves
  BY GatewaySteps DEF TypeOK
<1>1. ASSUME NEW g \in Group, NEW c \in ConnID, Gateway!Open(g, c)
      PROVE  retired' = retired /\ pool[g] = None /\ \A h \in Group \ {g} : pool'[h] = pool[h]
  BY <1>0, <1>1 DEF Gateway!Open
<1>2. ASSUME NEW ids \in SUBSET Gateway!OpenPools, Gateway!Close(ids)
      PROVE  /\ retired \subseteq retired'
             /\ \A g \in Group : pool'[g] # pool[g] => pool'[g] = None /\ pool[g] \in retired'
  BY <1>2 DEF Gateway!Close
<1>. QED  BY <1>0, <1>1, <1>2 DEF GatewayMoves, gatewayVars

\* A thread's step may open the pool of its own group, and no other pool changes.
LEMMA ThreadOpens ==
    ASSUME TypeOK, NEW v \in View, ThreadStep(v)
    PROVE  /\ \A h \in Group \ {groupOf[v]} : pool'[h] = pool[h]
           /\ pool'[groupOf[v]] # pool[groupOf[v]] =>
                 /\ GatewayUp /\ pool[groupOf[v]] = None /\ pool'[groupOf[v]] # None
                 /\ thread[v] = "connect"
                 /\ thread'[v] = "store" \/ result'[v] = "INTERNAL"
<1> DEFINE g == groupOf[v]
<1> USE TuiAssumption DEF GatewayTypeOK
<1>0. GatewayTypeOK /\ ThreadTypeOK /\ g \in Group
  BY GroupKnown DEF TypeOK
<1>1. ASSUME NEW c \in ConnID, Gateway!Open(g, c)
      PROVE  pool[g] = None /\ pool'[g] # None /\ \A h \in Group \ {g} : pool'[h] = pool[h]
  BY <1>0, <1>1 DEF Gateway!Open
<1>2. CASE Connect(v)
  BY <1>0, <1>1, <1>2 DEF Connect, Connected, gatewayVars, ThreadTypeOK
<1>3. CASE ConnectRaises(v)
  BY <1>0, <1>1, <1>3 DEF ConnectRaises, End, gatewayVars, ThreadTypeOK
<1>4. ASSUME Lookup(v) \/ Store(v) \/ Use(v) \/ Query(v) \/ QueryRaises(v)
      PROVE  UNCHANGED pool
  BY <1>4 DEF Lookup, Store, Use, Query, QueryRaises, gatewayVars
<1>. QED  BY <1>2, <1>3, <1>4 DEF ThreadStep

\* A worker closes the pool of the group it looks at, and no other.
LEMMA CloseMoves ==
    ASSUME IInv, NEW b \in Batch, NEW g \in Group, CloseOne(b, g)
    PROVE  /\ \A h \in Group \ {g} : pool'[h] = pool[h]
           /\ pool'[g] \in {None, pool[g]}
           /\ pool'[g] # pool[g] => pool[g] = cache[b][g]
           /\ pool'[g] # None /\ ~closeFailed' => pool[g] # cache[b][g]
<1> USE TuiAssumption DEF GatewayTypeOK
<1>0. GatewayTypeOK /\ WorkerTypeOK /\ ConnsNamed /\ Gateway!IdsUnique
  BY DEF IInv, TypeOK
<1>1. CASE closeFailed' = TRUE /\ UNCHANGED gatewayVars
  BY <1>0, <1>1 DEF gatewayVars
<1>2. CASE Gateway!Close({cache[b][g]} \cap Gateway!OpenPools)
  <2>1. \A h \in Group :
           pool'[h] = (IF pool[h] \in {cache[b][g]} \cap Gateway!OpenPools THEN None ELSE pool[h])
    BY <1>2 DEF Gateway!Close
  <2>2. cache[b][g] # None /\ cache[b][g] \in {pool[g]} \cup retired
    BY <1>0 DEF CloseOne, ConnsNamed
  <2>3. \A h \in Group : pool[h] = cache[b][g] => h = g
    BY <1>0, <2>2 DEF Gateway!IdsUnique, Gateway!OpenPools
  <2>. QED  BY <2>1, <2>2, <2>3 DEF Gateway!OpenPools
<1>. QED  BY <1>1, <1>2 DEF CloseOne

\* A worker has nothing to close of a group that is another's alone.
LEMMA NotCached ==
    ASSUME ConnsNamed, NEW b \in Batch, NEW c \in Batch, NEW g \in SoleGroups(c), b # c
    PROVE  cache[b][g] = None
BY DEF ConnsNamed, SoleGroups, ViewsOf

\* What the steps write into a dictionary.
LEMMA CacheMoves ==
    ASSUME TypeOK, [Next]_vars, NEW b \in Batch, NEW g \in Group
    PROVE  \/ cache'[b][g] \in {None, cache[b][g]}
           \/ \E v \in View :
                 Store(v) /\ BatchOf(v) = b /\ groupOf[v] = g /\ cache'[b][g] = conn[v]
<1> USE DEF WorkerTypeOK, workerVars
<1>0. WorkerTypeOK
  BY DEF TypeOK
<1>1. ASSUME Stop \/ Others \/ UNCHANGED vars  PROVE UNCHANGED cache
  BY <1>1 DEF Stop, Others, vars
<1>2. ASSUME NEW v \in View, Store(v)
      PROVE  \/ cache'[b][g] = cache[b][g]
             \/ BatchOf(v) = b /\ groupOf[v] = g /\ cache'[b][g] = conn[v]
  BY <1>0, <1>2, BatchKnown, GroupKnown DEF Store
<1>3. ASSUME NEW v \in View, ThreadStep(v) \/ Deliver(v) \/ DeliverFails(v), ~Store(v)
      PROVE  UNCHANGED cache
  BY <1>3 DEF ThreadStep, Lookup, Connect, ConnectRaises, Use, Query, QueryRaises, Deliver, DeliverFails
<1>4. ASSUME NEW c \in Batch, FetchOver(c) \/ WorkerEnds(c)  PROVE cache'[b][g] \in {None, cache[b][g]}
  BY <1>0, <1>4 DEF FetchOver, WorkerEnds
<1>5. ASSUME NEW c \in Batch, NEW h \in Group, CloseOne(c, h)  PROVE cache'[b][g] \in {None, cache[b][g]}
  BY <1>0, <1>5 DEF CloseOne
<1>6. ASSUME Mount \/ Submit \/ LoopStep
      PROVE  UNCHANGED cache
  BY <1>6, LoopFrame, FetchFrame
<1>. QED  BY <1>1, <1>2, <1>3, <1>4, <1>5, <1>6, StepKinds

LEMMA NamesStep == IInv /\ [Next]_vars => ConnsNamed'
<1> SUFFICES ASSUME IInv, [Next]_vars  PROVE ConnsNamed'
  OBVIOUS
<1>0. TypeOK /\ WorkerTypeOK /\ ThreadTypeOK /\ GatewayTypeOK /\ ConnsNamed /\ UNCHANGED inputVars
  BY InputsFixed DEF IInv, TypeOK
<1>1. \A g \in Group : {None, pool[g]} \cup retired \subseteq {None, pool'[g]} \cup retired'
  BY <1>0, PoolMoves
<1>2. ASSUME NEW b \in Batch, NEW g \in Group
      PROVE  /\ cache'[b][g] \in {None, pool'[g]} \cup retired'
             /\ cache'[b][g] # None => \E v \in ViewsOf(b) : groupOf[v] = g
  <2>1. CASE cache'[b][g] \in {None, cache[b][g]}
    BY <1>0, <1>1, <2>1 DEF ConnsNamed
  <2>2. CASE \E v \in View :
                Store(v) /\ BatchOf(v) = b /\ groupOf[v] = g /\ cache'[b][g] = conn[v]
    BY <1>0, <1>1, <2>2 DEF ConnsNamed, ViewsOf
  <2>. QED  BY <1>0, <2>1, <2>2, CacheMoves
<1>3. ASSUME NEW w \in View  PROVE conn'[w] \in {None, pool'[groupOf[w]]} \cup retired'
  <2>0. groupOf[w] \in Group /\ BatchOf(w) \in Batch
    BY <1>0, GroupKnown, BatchKnown
  <2>a. conn[w] \in {None, pool'[groupOf[w]]} \cup retired'
    BY <1>0, <1>1, <2>0 DEF ConnsNamed
  <2> USE DEF threadVars, ThreadTypeOK
  <2>1. CASE Mount \/ Submit \/ LoopStep
    BY <2>1, <2>a, LoopFrame, FetchFrame
  <2>2. CASE Stop \/ Others \/ UNCHANGED vars
    BY <2>2, <2>a DEF Stop, Others, vars
  <2>3. ASSUME NEW v \in View, Deliver(v) \/ DeliverFails(v)
        PROVE  conn'[w] \in {None, pool'[groupOf[w]]} \cup retired'
    BY <2>3, <2>a DEF Deliver, DeliverFails
  <2>4. ASSUME NEW b \in Batch, FetchOver(b) \/ WorkerEnds(b) \/ \E g \in Group : CloseOne(b, g)
        PROVE  conn'[w] \in {None, pool'[groupOf[w]]} \cup retired'
    BY <2>4, <2>a DEF FetchOver, WorkerEnds, CloseOne
  <2>5. ASSUME NEW v \in View, ThreadStep(v)
        PROVE  conn'[w] \in {None, pool'[groupOf[w]]} \cup retired'
    <3>1. CASE v # w
      BY <1>0, <2>5, <2>a, <3>1, ThreadMoves
    <3>2. CASE ConnectRaises(w) \/ Query(w) \/ QueryRaises(w)
      BY <1>0, <3>2 DEF ConnectRaises, Query, QueryRaises, End
    <3>3. CASE Connect(w)
      <4>1. PICK c \in ConnID : Connected(groupOf[w], c) /\ conn' = [conn EXCEPT ![w] = c]
        BY <3>3 DEF Connect
      <4>2. pool'[groupOf[w]] = c
        BY <1>0, <2>0, <4>1 DEF Connected, Gateway!Open, GatewayTypeOK, gatewayVars
      <4>. QED  BY <1>0, <4>1, <4>2
    <3>4. CASE Use(w)
      BY <1>0, <1>1, <2>0, <3>4 DEF Use, ConnsNamed
    <3>5. CASE Lookup(w) \/ Store(w)
      BY <2>a, <3>5 DEF Lookup, Store
    <3>. QED  BY <2>5, <3>1, <3>2, <3>3, <3>4, <3>5 DEF ThreadStep
  <2>. QED  BY <2>1, <2>2, <2>3, <2>4, <2>5, StepKinds
<1>4. groupOf' = groupOf /\ \A b \in Batch : ViewsOf(b)' = ViewsOf(b)
  BY <1>0 DEF inputVars, ViewsOf, BatchOf
<1>. QED  BY <1>2, <1>3, <1>4 DEF ConnsNamed

-------------------------------------------------------------------------------
(* An owned gateway: what the only worker of a group knows of its pool *)

LEMMA StopStep == IInv /\ [Next]_vars => StopClosesAll'
<1> SUFFICES ASSUME IInv, [Next]_vars, ~GatewayUp', NEW g \in Group  PROVE pool'[g] = None
  BY DEF StopClosesAll
<1> USE DEF GatewayUp, inputVars, gatewayVars
<1>0. TypeOK /\ GatewayTypeOK /\ StopClosesAll /\ UNCHANGED inputVars
  BY InputsFixed DEF IInv, TypeOK
<1>c. CASE app' = app /\ pool' = pool
  BY <1>0, <1>c DEF StopClosesAll
<1>1. CASE Mount \/ Submit \/ LoopStep
  BY <1>1, LoopFrame, FetchFrame
<1>2. CASE Stop
  BY <1>0, <1>2 DEF Stop, Gateway!Close, Gateway!OpenPools, GatewayTypeOK
<1>3. CASE Others
  BY <1>0, <1>3 DEF Others
<1>4. ASSUME NEW v \in View, ThreadStep(v)  PROVE pool'[g] = None
  <2>1. app' = app /\ ~GatewayUp
    BY <1>0, <1>4, ThreadMoves
  <2>. QED  BY <1>0, <1>4, <2>1, ThreadOpens DEF StopClosesAll
<1>5. ASSUME NEW b \in Batch, NEW h \in Group, CloseOne(b, h)  PROVE pool'[g] = None
  BY <1>0, <1>5, CloseMoves DEF CloseOne, StopClosesAll
<1>6. ASSUME NEW v \in View, Deliver(v) \/ DeliverFails(v)  PROVE pool'[g] = None
  BY <1>6, <1>c DEF Deliver, DeliverFails
<1>7. ASSUME NEW b \in Batch, FetchOver(b) \/ WorkerEnds(b)  PROVE pool'[g] = None
  BY <1>7, <1>c DEF FetchOver, WorkerEnds
<1>8. CASE UNCHANGED vars
  BY <1>8, <1>c DEF vars
<1>. QED  BY <1>1, <1>2, <1>3, <1>4, <1>5, <1>6, <1>7, <1>8, StepKinds

\* What SoleThreadsConnected says of the view w and its group.
Connects(w) ==
    /\ thread[w] \in {"store", "query"} =>
          conn[w] = pool[groupOf[w]] /\ pool[groupOf[w]] # None
    /\ thread[w] = "use" =>
          cache[BatchOf(w)][groupOf[w]] = pool[groupOf[w]] /\ pool[groupOf[w]] # None
    /\ worker[BatchOf(w)] \in {"none", "fetch", "failed"} =>
          cache[BatchOf(w)][groupOf[w]] \in {None, pool[groupOf[w]]}

LEMMA ConnectsStep ==
    ASSUME IInv, [Next]_vars, owned, GatewayUp, NEW w \in View,
           groupOf[w] \in SoleGroups(BatchOf(w))
    PROVE  GatewayUp' => Connects(w)'
<1> SUFFICES ASSUME GatewayUp'  PROVE Connects(w)'
  OBVIOUS
<1> DEFINE b == BatchOf(w)
           g == groupOf[w]
<1> USE DEF Connects, ThreadTypeOK, threadVars, workerVars, gatewayVars
<1>0. /\ TypeOK /\ WorkerTypeOK /\ ThreadTypeOK /\ GatewayTypeOK /\ ConnsNamed
      /\ UNCHANGED inputVars /\ Ran(w)
      /\ \A v \in View : groupOf[v] = g => Connects(v) /\ BatchOf(v) = b
  BY InputsFixed DEF IInv, TypeOK, SoleThreadsConnected, SoleGroups, Ran, WorkersConsistent
<1>a. b \in Batch /\ g \in Group /\ b' = b /\ g' = g
  BY <1>0, BatchKnown, GroupKnown DEF BatchOf, inputVars
<1>c. CASE /\ pool'[g] = pool[g] /\ cache'[b][g] = cache[b][g]
           /\ thread'[w] = thread[w] /\ conn'[w] = conn[w]
           /\ worker'[b] = worker[b] \/ worker'[b] \notin {"none", "fetch", "failed"}
  BY <1>0, <1>a, <1>c
<1>1. CASE Mount \/ Submit
  <2>1. pool' = pool /\ cache' = cache /\ conn' = conn
    BY <1>1, FetchFrame
  <2>2. app = "start" => \A c \in Batch : worker[c] = "none"
    BY DEF IInv, WorkersConsistent
  <2>3. ASSUME NEW c \in Batch, FetchViews(c), worker[c] = "none"  PROVE Connects(w)'
    BY <1>0, <1>a, <2>1, <2>3 DEF FetchViews, WorkerTypeOK, Ran
  <2>. QED  BY <1>1, <1>c, <2>1, <2>2, <2>3, FetchFrame
<1>2. CASE LoopStep
  BY <1>2, <1>c, LoopFrame
<1>3. CASE Stop \/ Others
  BY <1>0, <1>3 DEF Stop, Others, GatewayUp, inputVars
<1>4. CASE UNCHANGED vars
  BY <1>4, <1>c DEF vars
<1>5. ASSUME NEW v \in View, Deliver(v)  PROVE Connects(w)'
  BY <1>0, <1>a, <1>5 DEF Deliver
<1>6. ASSUME NEW v \in View, DeliverFails(v)  PROVE Connects(w)'
  BY <1>0, <1>a, <1>6, BatchKnown DEF DeliverFails, WorkerTypeOK
<1>7. ASSUME NEW c \in Batch, FetchOver(c)  PROVE Connects(w)'
  BY <1>0, <1>a, <1>c, <1>7 DEF FetchOver, WorkerTypeOK
<1>8. ASSUME NEW c \in Batch, WorkerEnds(c)  PROVE Connects(w)'
  BY <1>0, <1>a, <1>c, <1>8 DEF WorkerEnds, WorkerTypeOK, Ran
<1>9. ASSUME NEW c \in Batch, NEW h \in Group, CloseOne(c, h)  PROVE Connects(w)'
  <2>1. UNCHANGED <<worker, thread, conn>>
    BY <1>9 DEF CloseOne
  <2>2. CASE c = b
    BY <1>0, <1>a, <1>9, <2>1, <2>2 DEF CloseOne, Ran
  <2>3. CASE c # b
    <3>1. cache[c][g] = None
      BY <1>0, <1>a, <2>3, NotCached
    <3>2. h # g
      BY <1>9, <3>1 DEF CloseOne
    <3>3. pool'[g] = pool[g]
      BY <1>9, <1>a, <3>2, CloseMoves
    <3>4. cache'[b][g] = cache[b][g]
      BY <1>0, <1>a, <1>9, <2>3 DEF CloseOne, WorkerTypeOK
    <3>. QED  BY <1>c, <2>1, <3>3, <3>4
  <2>. QED  BY <2>2, <2>3
<1>10. ASSUME NEW v \in View, ThreadStep(v)  PROVE Connects(w)'
  <2>0. UNCHANGED worker
    BY <1>0, <1>10, ThreadMoves
  <2>1. CASE groupOf[v] # g
    <3>1. v # w /\ pool'[g] = pool[g]
      BY <1>0, <1>a, <1>10, <2>1, ThreadOpens
    <3>2. cache'[b][g] = cache[b][g]
      BY <1>0, <1>a, <1>10, <2>1 DEF WorkerTypeOK, ThreadStep, Lookup, Connect, ConnectRaises,
         Store, Use, Query, QueryRaises
    <3>. QED  BY <1>0, <1>10, <1>c, <2>0, <3>1, <3>2, ThreadMoves
  <2>2. CASE groupOf[v] = g
    <3>0. BatchOf(v) = b /\ Connects(v) /\ Connects(w) /\ Ran(v)
      BY <1>0, <2>2 DEF IInv, WorkersConsistent, Ran
    <3>a. worker[b] \in {"fetch", "failed"}
      BY <1>0, <1>a, <1>10, <3>0, ThreadMoves DEF Ran, WorkerTypeOK
    <3>b. cache[b][g] \in {None, pool[g]}
      BY <3>0, <3>a
    <3>1. CASE Lookup(v)
      BY <1>0, <1>a, <2>0, <2>2, <3>0, <3>b, <3>1 DEF Lookup
    <3>2. CASE Connect(v)
      <4>1. PICK c \in ConnID : Connected(g, c) /\ conn' = [conn EXCEPT ![v] = c]
        BY <2>2, <3>2 DEF Connect
      <4>2. pool'[g] = c /\ c # None /\ (pool[g] = None \/ pool'[g] = pool[g])
        BY <1>0, <1>a, <4>1, TuiAssumption DEF Connected, Gateway!Open, GatewayTypeOK
      <4>3. thread' = [thread EXCEPT ![v] = "store"] /\ UNCHANGED cache
        BY <3>2 DEF Connect
      <4>. QED  BY <1>0, <1>a, <2>0, <3>0, <3>b, <4>1, <4>2, <4>3
    <3>3. CASE ConnectRaises(v)
      <4>1. pool[g] = None \/ pool'[g] = pool[g]
        BY <1>0, <1>10, <2>2, ThreadOpens
      <4>. QED  BY <1>0, <1>a, <2>0, <3>0, <3>b, <3>3, <4>1 DEF ConnectRaises, End
    <3>4. CASE Store(v)
      <4>1. cache'[b][g] = conn[v]
        BY <1>0, <1>a, <2>2, <3>0, <3>4 DEF Store, WorkerTypeOK
      <4>. QED  BY <1>0, <1>a, <2>0, <2>2, <3>0, <3>4, <4>1 DEF Store
    <3>5. CASE Use(v)
      BY <1>0, <1>a, <2>0, <2>2, <3>0, <3>b, <3>5 DEF Use
    <3>6. CASE Query(v) \/ QueryRaises(v)
      BY <1>0, <1>a, <2>0, <2>2, <3>0, <3>b, <3>6 DEF Query, QueryRaises, End
    <3>. QED  BY <1>10, <3>1, <3>2, <3>3, <3>4, <3>5, <3>6 DEF ThreadStep
  <2>. QED  BY <2>1, <2>2
<1>. QED
  BY <1>1, <1>2, <1>3, <1>4, <1>5, <1>6, <1>7, <1>8, <1>9, <1>10, StepKinds

LEMMA SoleThreadsStep == IInv /\ [Next]_vars => SoleThreadsConnected'
<1> SUFFICES ASSUME IInv, [Next]_vars, owned', GatewayUp', NEW w \in View,
                    groupOf'[w] \in SoleGroups(BatchOf(w))'
             PROVE  Connects(w)'
  BY DEF SoleThreadsConnected, Connects
<1>1. TypeOK /\ UNCHANGED inputVars
  BY InputsFixed DEF IInv
<1>2. owned /\ groupOf[w] \in SoleGroups(BatchOf(w))
  BY <1>1, SoleFixed, BatchKnown DEF inputVars, SoleGroups, BatchOf
<1>3. CASE GatewayUp
  BY <1>2, <1>3, ConnectsStep
<1>4. CASE ~GatewayUp
  <2>1. app = "stopped" /\ app' # "stopped"
    BY <1>1, <1>2, <1>4 DEF GatewayUp, inputVars
  <2>2. app' = app
    BY <1>1, <2>1, LoopFrame, FetchFrame, ThreadMoves, StepKinds
       DEF Stop, Deliver, DeliverFails, FetchOver, WorkerEnds, CloseOne, Others, vars
  <2>. QED  BY <2>1, <2>2
<1>. QED  BY <1>3, <1>4

LEMMA ResultStep ==
    ASSUME TypeOK, [Next]_vars, NEW w \in View, result'[w] # result[w]
    PROVE  Query(w) \/ (result'[w] = "INTERNAL" /\ ThreadStep(w))
<1> USE DEF ThreadTypeOK, threadVars
<1>0. ThreadTypeOK
  BY DEF TypeOK
<1>1. ASSUME NEW v \in View, ThreadStep(v)
      PROVE  Query(w) \/ (result'[w] = "INTERNAL" /\ ThreadStep(w))
  <2>1. v = w
    BY <1>1, ThreadMoves
  <2>2. CASE ConnectRaises(w) \/ QueryRaises(w)
    BY <1>0, <2>2 DEF ConnectRaises, QueryRaises, End, ThreadStep
  <2>3. ~ (Lookup(w) \/ Connect(w) \/ Store(w) \/ Use(w))
    BY DEF Lookup, Connect, Store, Use
  <2>. QED  BY <1>1, <2>1, <2>2, <2>3 DEF ThreadStep
<1>2. ~ (Mount \/ Submit \/ LoopStep)
  BY LoopFrame, FetchFrame
<1>3. ~ (Stop \/ Others \/ UNCHANGED vars)
  BY DEF Stop, Others, vars
<1>4. ~ \E v \in View : Deliver(v) \/ DeliverFails(v)
  BY DEF Deliver, DeliverFails
<1>5. ~ \E b \in Batch : FetchOver(b) \/ WorkerEnds(b) \/ \E g \in Group : CloseOne(b, g)
  BY DEF FetchOver, WorkerEnds, CloseOne
<1>. QED  BY <1>1, <1>2, <1>3, <1>4, <1>5, StepKinds

LEMMA SoleWorkerStep == IInv /\ [Next]_vars => SoleWorkerKeepsPool'
<1> SUFFICES ASSUME IInv, [Next]_vars, owned', NEW w \in View,
                    result'[w] = "CONNECTION_NOT_FOUND",
                    groupOf'[w] \in SoleGroups(BatchOf(w))'
             PROVE  FALSE
  BY DEF SoleWorkerKeepsPool
<1>1. TypeOK /\ UNCHANGED inputVars /\ ThreadTypeOK
  BY InputsFixed DEF IInv, TypeOK
<1>2. owned /\ groupOf[w] \in SoleGroups(BatchOf(w)) /\ groupOf[w] \in Group
  BY <1>1, SoleFixed, BatchKnown, GroupKnown DEF inputVars, SoleGroups, BatchOf
<1>3. result[w] # "CONNECTION_NOT_FOUND"
  BY <1>2 DEF IInv, SoleWorkerKeepsPool
<1>4. Query(w)
  BY <1>1, <1>3, ResultStep
<1>5. conn[w] = pool[groupOf[w]] /\ pool[groupOf[w]] # None
  BY <1>2, <1>4 DEF Query, IInv, SoleThreadsConnected
<1>6. PICK r \in MayAnswer(conn[w]) : End(w, r)
  BY <1>4 DEF Query
<1>7. r # "CONNECTION_NOT_FOUND"
  BY <1>2, <1>5, <1>6 DEF MayAnswer, Gateway!OpenPools
<1>. QED  BY <1>1, <1>6, <1>7 DEF End, ThreadTypeOK

\* A view whose request got no answer never fetches again.
Unanswered(g) == \E v \in View : groupOf[v] = g /\ result[v] = "INTERNAL"

LEMMA UnansweredStays ==
    ASSUME IInv, [Next]_vars, NEW g \in Group, Unanswered(g)
    PROVE  Unanswered(g)'
<1>1. PICK v \in View : groupOf[v] = g /\ result[v] = "INTERNAL"
  BY DEF Unanswered
<1>2. TypeOK /\ UNCHANGED inputVars /\ thread[v] \in {"answered", "delivered"}
  BY <1>1, InputsFixed DEF IInv, WorkersConsistent
<1>3. ~Query(v)
  BY <1>2 DEF Query
<1>4. result'[v] = "INTERNAL"
  BY <1>1, <1>2, <1>3, ResultStep
<1>. QED  BY <1>1, <1>2, <1>4 DEF Unanswered, inputVars

\* What SolePoolsKept says of a group and its only worker.
Kept(b, g) ==
    pool[g] # None /\ ~Unanswered(g) =>
        /\ worker[b] # "done"
        /\ \/ cache[b][g] = pool[g]
           \/ \E v \in View : groupOf[v] = g /\ thread[v] = "store"

LEMMA KeptStep ==
    ASSUME IInv, [Next]_vars, owned, ~closeFailed, ~closeFailed',
           NEW b \in Batch, NEW g \in SoleGroups(b)
    PROVE  Kept(b, g)'
<1> USE DEF Kept, ThreadTypeOK, threadVars, workerVars, gatewayVars
<1>0. /\ TypeOK /\ WorkerTypeOK /\ ThreadTypeOK /\ GatewayTypeOK /\ ConnsNamed
      /\ UNCHANGED inputVars /\ g \in Group
      /\ \A v \in View : Ran(v) /\ (groupOf[v] = g => BatchOf(v) = b)
  BY InputsFixed DEF IInv, TypeOK, SoleGroups, Ran, WorkersConsistent
<1>00. Kept(b, g) /\ groupOf' = groupOf
  BY <1>0 DEF IInv, SolePoolsKept, Unanswered, inputVars
<1>u. ~Unanswered(g)' => ~Unanswered(g)
  BY <1>0, UnansweredStays
<1>c. CASE /\ pool'[g] = pool[g] /\ cache'[b][g] = cache[b][g]
           /\ \A v \in View : thread[v] = "store" => thread'[v] = "store"
           /\ worker'[b] = worker[b] \/ worker'[b] # "done"
  BY <1>0, <1>00, <1>u, <1>c
<1>1. CASE Mount \/ Submit
  <2>1. pool' = pool /\ cache' = cache
    BY <1>1, FetchFrame
  <2>2. app = "start" => \A c \in Batch : worker[c] = "none"
    BY DEF IInv, WorkersConsistent
  <2>3. ASSUME NEW c \in Batch, FetchViews(c), worker[c] = "none"
        PROVE  /\ \A v \in View : thread[v] = "store" => thread'[v] = "store"
               /\ worker'[b] = worker[b] \/ worker'[b] # "done"
    BY <1>0, <2>3 DEF FetchViews, WorkerTypeOK, Ran
  <2>. QED  BY <1>1, <1>c, <2>1, <2>2, <2>3, FetchFrame
<1>2. CASE LoopStep
  BY <1>2, <1>c, LoopFrame
<1>3. CASE Stop
  BY <1>0, <1>3 DEF Stop, Gateway!Close, Gateway!OpenPools, GatewayTypeOK
<1>4. CASE Others \/ UNCHANGED vars
  BY <1>4, <1>c DEF Others, vars
<1>5. ASSUME NEW v \in View, Deliver(v)  PROVE Kept(b, g)'
  BY <1>0, <1>5, <1>c DEF Deliver
<1>6. ASSUME NEW v \in View, DeliverFails(v)  PROVE Kept(b, g)'
  BY <1>0, <1>6, <1>c, BatchKnown DEF DeliverFails, WorkerTypeOK
<1>7. ASSUME NEW c \in Batch, FetchOver(c)  PROVE Kept(b, g)'
  BY <1>0, <1>7, <1>c DEF FetchOver, WorkerTypeOK
<1>8. ASSUME NEW c \in Batch, WorkerEnds(c)  PROVE Kept(b, g)'
  <2>1. CASE c # b
    BY <1>0, <1>8, <1>c, <2>1 DEF WorkerEnds, WorkerTypeOK
  <2>2. CASE c = b
    <3>1. cache[b][g] = None /\ \A v \in View : groupOf[v] = g => thread[v] # "store"
      BY <1>0, <1>8, <2>2 DEF WorkerEnds, MayClose, Ran
    <3>2. pool' = pool
      BY <1>8 DEF WorkerEnds
    <3>. QED  BY <1>00, <1>u, <3>1, <3>2
  <2>. QED  BY <2>1, <2>2
<1>9. ASSUME NEW c \in Batch, NEW h \in Group, CloseOne(c, h)  PROVE Kept(b, g)'
  <2>0. UNCHANGED <<worker, thread>> /\ cache' = [cache EXCEPT ![c][h] = None]
        /\ worker[c] = "close" /\ cache[c][h] # None
    BY <1>9 DEF CloseOne
  <2>1. CASE h # g \/ c # b
    <3>1. h # g
      BY <1>0, <2>0, <2>1, NotCached
    <3>. QED  BY <1>0, <1>9, <1>c, <2>0, <3>1, CloseMoves DEF WorkerTypeOK
  <2>2. CASE h = g /\ c = b
    <3>1. \A v \in View : groupOf[v] = g => thread[v] # "store"
      BY <1>0, <2>0, <2>2 DEF Ran
    <3>2. pool'[g] # None => pool[g] # cache[b][g] /\ pool'[g] = pool[g]
      BY <1>9, <2>2, CloseMoves
    <3>. QED  BY <1>00, <1>u, <3>1, <3>2
  <2>. QED  BY <2>1, <2>2
<1>10. ASSUME NEW v \in View, ThreadStep(v)  PROVE Kept(b, g)'
  <2>0. UNCHANGED worker /\ groupOf[v] \in Group
        /\ \A w \in View \ {v} : thread'[w] = thread[w]
    BY <1>0, <1>10, ThreadMoves, GroupKnown
  <2>1. CASE groupOf[v] # g
    <3>1. pool'[g] = pool[g]
      BY <1>0, <1>10, <2>1, ThreadOpens
    <3>2. cache'[b][g] = cache[b][g]
      BY <1>0, <1>10, <2>1 DEF WorkerTypeOK, ThreadStep, Lookup, Connect, ConnectRaises,
         Store, Use, Query, QueryRaises
    <3>. QED  BY <1>00, <1>u, <2>0, <2>1, <3>1, <3>2
  <2>2. CASE groupOf[v] = g
    <3>a. BatchOf(v) = b /\ Ran(v) /\ worker[b] \notin {"done", "close", "none"}
      BY <1>0, <1>10, <2>2, ThreadMoves DEF Ran
    <3>1. CASE pool'[g] # pool[g]
      BY <1>0, <1>00, <1>10, <2>0, <2>2, <3>a, <3>1, ThreadOpens DEF Unanswered
    <3>2. CASE Store(v)
      <4>1. cache'[b][g] = conn[v] /\ pool' = pool
        BY <1>0, <2>2, <3>a, <3>2 DEF Store, WorkerTypeOK
      <4>2. GatewayUp => conn[v] = pool[g]
        BY <2>2, <3>2, <3>a DEF Store, IInv, SoleThreadsConnected
      <4>3. ~GatewayUp => pool[g] = None
        BY <1>0 DEF IInv, StopClosesAll
      <4>. QED  BY <2>0, <3>a, <4>1, <4>2, <4>3
    <3>3. CASE pool'[g] = pool[g] /\ ~Store(v)
      <4>1. cache' = cache
        BY <1>10, <3>3 DEF ThreadStep, Lookup, Connect, ConnectRaises, Use, Query, QueryRaises
      <4>2. thread[v] # "store"
        BY <1>10, <3>3 DEF ThreadStep, Lookup, Connect, ConnectRaises, Use, Query, QueryRaises
      <4>. QED  BY <1>c, <2>0, <3>3, <4>1, <4>2
    <3>. QED  BY <3>1, <3>2, <3>3
  <2>. QED  BY <2>1, <2>2
<1>. QED
  BY <1>1, <1>2, <1>3, <1>4, <1>5, <1>6, <1>7, <1>8, <1>9, <1>10, StepKinds

LEMMA SolePoolsStep == IInv /\ [Next]_vars => SolePoolsKept'
<1> SUFFICES ASSUME IInv, [Next]_vars, owned', ~closeFailed', NEW b \in Batch,
                    NEW g \in SoleGroups(b)'
             PROVE  Kept(b, g)'
  BY DEF SolePoolsKept, Kept, Unanswered
<1>1. TypeOK /\ UNCHANGED inputVars
  BY InputsFixed DEF IInv
<1>2. owned /\ g \in SoleGroups(b)
  BY <1>1, SoleFixed DEF inputVars
<1>3. ~closeFailed
  BY <1>1, LoopFrame, FetchFrame, ThreadMoves, StepKinds
     DEF Stop, Deliver, DeliverFails, FetchOver, WorkerEnds, CloseOne, Others, vars, workerVars
<1>. QED  BY <1>2, <1>3, KeptStep

-------------------------------------------------------------------------------
(* The theorems *)

LEMMA NextIInv == IInv /\ [Next]_vars => IInv'
<1> SUFFICES ASSUME IInv, [Next]_vars  PROVE IInv'
  OBVIOUS
<1>1. TypeOK' /\ Gateway!IdsUnique'
  BY GatewaySteps, GatewayStep, WorkerTypeStep, ThreadTypeStep, PaneTypeStep DEF IInv, TypeOK
<1>2. PanesConsistent'
  BY PaneStep DEF PanesConsistent, Pane
<1>. QED
  BY <1>1, <1>2, WorkersStep, NamesStep, StopStep, SoleThreadsStep, SoleWorkerStep, SolePoolsStep
     DEF IInv

\* The inductive invariant holds for any views, groups, dialogs and answers: the event loop,
\* the fetch workers and their threads (app.py:222-334) keep it in every step.
THEOREM Invariance == Spec => []IInv
BY InitIInv, NextIInv, PTL DEF Spec

\* Every variable keeps its type.
THEOREM TypeCorrect == Spec => []TypeOK
BY Invariance, PTL DEF IInv

\* Whatever the threads of one worker overwrite in their dictionary, none of them is told
\* that its pool does not exist, unless another worker uses its group.
THEOREM PoolsOutliveThreads == Spec => []SoleWorkerKeepsPool
BY Invariance, PTL DEF IInv

\* And a worker that is done has left no pool of a group only it uses.
THEOREM WorkersCleanUp == Spec => []PoolOfSoleWorkerClosed
<1>1. IInv => PoolOfSoleWorkerClosed
  BY DEF IInv, SolePoolsKept, SoleGroups, PoolOfSoleWorkerClosed
<1>. QED  BY <1>1, Invariance, PTL

\* For any number of rows: the pages of a pane cover the rows of its result, if its view has
\* no pages or a page_size above zero, and a result that has rows gets no table if its
\* view has a page_size of zero.
THEOREM PagesComplete == Spec => []PagesCoverRows
<1>0. ASSUME IInv, NEW v \in View, shown[v] = "table"
      PROVE  rows[v] \in Nat /\ (v \in Paged /\ PageSize[v] = 0 => rows[v] = 0)
  BY <1>0 DEF IInv, TypeOK, ThreadTypeOK, PanesConsistent
<1>1. ASSUME IInv, NEW v \in View, shown[v] = "table", v \notin Paged \/ PageSize[v] > 0
      PROVE  /\ page[v] <= totalPages[v]
             /\ rows[v] > 0 => PageRows(v, page[v], rows[v]) # {}
             /\ UNION {PageRows(v, p, rows[v]) : p \in 1..totalPages[v]} = 1..rows[v]
  <2>1. rows[v] \in Nat /\ page[v] \in Nat \ {0} /\ totalPages[v] \in Int
    BY <1>1 DEF IInv, TypeOK, ThreadTypeOK, PaneTypeOK
  <2>2. totalPages[v] = TotalPages(v, rows[v]) /\ (page[v] <= totalPages[v] \/ page[v] = 1)
    BY <1>1 DEF IInv, PanesConsistent
  <2>3. page[v] \in 1..TotalPages(v, rows[v]) /\ page[v] <= totalPages[v]
    BY <1>1, <2>1, <2>2, PageCount
  <2>. QED  BY <1>1, <2>1, <2>2, <2>3, PagesCover
<1>2. IInv => PagesCoverRows
  BY <1>0, <1>1 DEF PagesCoverRows
<1>. QED  BY <1>2, Invariance, PTL

\* An app attached to a resident gateway closes no pool, not even one it opened.
THEOREM AttachedClosesNothing == Spec => AttachedTuiKeepsPools
<1> USE DEF gatewayVars, Connected, Gateway!Open
<1>1. ASSUME Mount \/ UserStep \/ \E b \in Batch : WorkerFailed(b)  PROVE retired' = retired
  BY <1>1, LoopFrame, FetchFrame DEF UserStep, LoopStep
<1>2. ASSUME ~owned, Stop  PROVE retired' = retired
  BY <1>2 DEF Stop
<1>3. ASSUME NEW v \in View, ThreadStep(v)  PROVE retired' = retired
  BY <1>3 DEF ThreadStep, Lookup, Connect, ConnectRaises, Store, Use, Query, QueryRaises
<1>4. ASSUME NEW v \in View, DeliverStep(v)  PROVE retired' = retired
  BY <1>4 DEF DeliverStep, Deliver, DeliverFails
<1>5. ASSUME ~owned, NEW b \in Batch, WorkerStep(b)  PROVE retired' = retired
  BY <1>5 DEF WorkerStep, FetchOver, CloseOne, MayClose, WorkerEnds
<1>6. TuiStep /\ ~owned => retired' = retired
  BY <1>1, <1>2, <1>3, <1>4, <1>5 DEF TuiStep
<1>. QED  BY <1>6, PTL DEF Spec, AttachedTuiKeepsPools

\* Whatever the app and the clients beside it do, the gateway behind them is one that keeps
\* its promise: as ConnManager does.
THEOREM UsesRegistry == Spec => Gateway!Spec
<1>1. Init => Gateway!Init
  BY DEF Init
<1>2. IInv /\ [Next]_vars => [Gateway!Next]_(Gateway!vars)
  BY GatewaySteps DEF IInv, GatewayMoves, gatewayVars, Gateway!Next, Gateway!vars
<1>. QED  BY <1>1, <1>2, Invariance, PTL DEF Spec, Gateway!Spec
===============================================================================
