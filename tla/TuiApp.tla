-------------------------------- MODULE TuiApp --------------------------------
(***************************************************************************)
(* The terminal user interface, YamlViewApp of cli/yamlq/tui/app.py, and   *)
(* _run_tui of cli/yamlq/cli.py around it, against a gateway that is as    *)
(* good as its promise, PoolRegistry.                                      *)
(*                                                                         *)
(* The app has one event loop, whose handlers are single steps here.  At   *)
(* the start it gives the views whose parameters are all known to one      *)
(* fetch worker, and asks for the parameters of every other view in a      *)
(* dialog; the answer starts a fetch worker for that view alone.  A worker *)
(* runs one thread per view.  Its threads share a dictionary of connection *)
(* ids that no lock protects; another worker has a dictionary of its own.  *)
(* The worker hands each result to the event loop as it comes and, if the  *)
(* gateway belongs to this process, closes the pools in its dictionary.  A *)
(* result the event loop cannot show ends the worker, and with it the app. *)
(***************************************************************************)
EXTENDS Integers, FiniteSets

CONSTANTS
    View,       \* enabled views
    Group,      \* driver+DSN pairs
    GroupMaps,  \* the ways the views may be spread over them
    Paged,      \* views with enable_paging
    PageSize,   \* page_size, which nothing checks
    RowCounts,  \* how many rows a view's query may return
    ConnID,     \* ids the gateway may hand out
    Capacity,   \* pools the gateway may have open
    None        \* no connection

ASSUME TuiAssumption ==
    /\ IsFiniteSet(View) /\ View # {}
    /\ GroupMaps \subseteq [View -> Group]
    /\ Paged \subseteq View /\ PageSize \in [View -> Int]
    /\ RowCounts \in [View -> SUBSET Nat]
    /\ None \notin ConnID

VARIABLES
    pool, retired,  \* the gateway, see PoolRegistry
    groupOf,        \* conn_key: the group of a view
    owned,          \* is_owned(): this process spawned the gateway
    needs,          \* needs_input: views with a parameter nobody has given
    app,            \* start, up, over (it quit or crashed); stopped: app.run() returned
    worker,         \* where the fetch worker of a batch is
    cache,          \* conn_cache of a worker, by group; then, what it has yet to close
    closeFailed,    \* a gateway.close failed
    thread,         \* where the thread of a view is
    conn,           \* the conn_id it got or uses
    result,         \* the code of its ViewResult, "ok" for a table, "same_names"
                    \* for one with two columns of one name
    rows,           \* len(result.rows)
    shown,          \* what the view's pane shows
    page,           \* ViewPane.page
    totalPages      \* ViewPane.total_pages, 0 before _build_table sets it

gatewayVars == <<pool, retired>>
inputVars == <<groupOf, owned, needs>>
workerVars == <<worker, cache, closeFailed>>
threadVars == <<thread, conn, result, rows>>
paneVars == <<shown, page, totalPages>>
vars == <<gatewayVars, inputVars, app, workerVars, threadVars, paneVars>>

Gateway == INSTANCE PoolRegistry WITH Key <- Group

Table == {"ok", "same_names"}
Answer == Table \cup {"CONNECTION_NOT_FOUND", "other_error"}

\* The worker of the views that were ready, and that of the one dialog.
Batch == {"ready", "dialog"}
BatchOf(v) == IF v \in needs THEN "dialog" ELSE "ready"
ViewsOf(b) == {v \in View : BatchOf(v) = b}

\* max_workers = min(len(views), 10)
Workers(b) == IF Cardinality(ViewsOf(b)) < 10 THEN Cardinality(ViewsOf(b)) ELSE 10

\* gw.stop() ends the process of an owned gateway.
GatewayUp == ~(owned /\ app = "stopped")

Init ==
    /\ Gateway!Init
    /\ groupOf \in GroupMaps
    /\ owned \in BOOLEAN
    /\ needs \in SUBSET View
    /\ app = "start"
    /\ worker = [b \in Batch |-> "none"]
    /\ cache = [b \in Batch |-> [g \in Group |-> None]]
    /\ closeFailed = FALSE
    /\ thread = [v \in View |-> "none"]
    /\ conn = [v \in View |-> None]
    /\ result = [v \in View |-> "none"]
    /\ rows = [v \in View |-> 0]
    /\ shown = [v \in View |-> "loading"]
    /\ page = [v \in View |-> 1]
    /\ totalPages = [v \in View |-> 0]

-------------------------------------------------------------------------------
(* The event loop: starting, dialogs, keys *)

\* _fetch_views: a worker with one queued thread per view.
FetchViews(b) ==
    /\ worker' = [worker EXCEPT ![b] = "fetch"]
    /\ thread' = [v \in View |-> IF BatchOf(v) = b THEN "queued" ELSE thread[v]]

\* on_mount.  A second dialog has the id of the first, which Textual refuses
\* with an exception that ends the app.
Mount ==
    /\ app = "start"
    /\ app' = IF Cardinality(needs) > 1 THEN "over" ELSE "up"
    /\ IF ViewsOf("ready") # {}
       THEN FetchViews("ready")
       ELSE UNCHANGED <<worker, thread>>
    /\ UNCHANGED <<gatewayVars, inputVars, cache, closeFailed, conn, result,
                   rows, paneVars>>

\* on_submit: the dialog goes away, its view is fetched.
Submit ==
    /\ app = "up"
    /\ needs # {} /\ worker["dialog"] = "none"
    /\ FetchViews("dialog")
    /\ UNCHANGED <<gatewayVars, inputVars, app, cache, closeFailed, conn,
                   result, rows, paneVars>>

\* _build_table: page_size, the rows on page p of n, and total_pages.  Python takes
\* a negative bound of a slice from the end, and // rounds down.
SizeOfPage(v, n) == IF v \in Paged THEN PageSize[v] ELSE IF n = 0 THEN 1 ELSE n
Bound(x, n) == IF x < 0 THEN n + x ELSE x
PageRows(v, p, n) ==
    {i \in 1..n : Bound((p - 1) * SizeOfPage(v, n), n) < i /\ i <= Bound(p * SizeOfPage(v, n), n)}

\* Mutant: the last page is left out unless it is full.
TotalPagesFloor(v, n) ==
    IF v \in Paged /\ n >= PageSize[v] /\ PageSize[v] > 0 THEN n \div PageSize[v] ELSE 1

TotalPages(v, n) ==
    LET s == PageSize[v] IN
    IF v \notin Paged \/ n <= 0 THEN 1
    ELSE IF s > 0 THEN (n + s - 1) \div s ELSE (1 - n - s) \div (-s)

\* What _build_table cannot show: the key of the second column is taken already, or
\* the rows are divided by a page_size of zero.
Unshowable(v) ==
    \/ result[v] = "same_names"
    \/ result[v] = "ok" /\ v \in Paged /\ PageSize[v] = 0 /\ rows[v] > 0

\* The keys n and p on the pane of v.  total_pages is an attribute that only
\* _build_table sets, as its last step: without it n raises AttributeError, which
\* ends the app.
NextPage(v) ==
    /\ app = "up"
    /\ \/ /\ shown[v] # "table"
          /\ app' = "over" /\ UNCHANGED page
       \/ /\ shown[v] = "table" /\ page[v] < totalPages[v]
          /\ page' = [page EXCEPT ![v] = @ + 1] /\ UNCHANGED app
    /\ UNCHANGED <<gatewayVars, inputVars, workerVars, threadVars, shown, totalPages>>

\* Mutant: p does not stop at the first page.
PrevPageUnguarded(v) ==
    /\ app = "up"
    /\ page' = [page EXCEPT ![v] = IF @ > 0 THEN @ - 1 ELSE @]
    /\ UNCHANGED <<gatewayVars, inputVars, app, workerVars, threadVars, shown, totalPages>>

PrevPage(v) ==
    /\ app = "up"
    /\ page[v] > 1
    /\ page' = [page EXCEPT ![v] = @ - 1]
    /\ UNCHANGED <<gatewayVars, inputVars, app, workerVars, threadVars, shown, totalPages>>

Quit ==
    /\ app = "up"
    /\ app' = "over"
    /\ UNCHANGED <<gatewayVars, inputVars, workerVars, threadVars, paneVars>>

\* app.run() returns and gw.stop() follows, whether the app's workers have ended or not.
\* That is wider than the code: asyncio.run waits for its threads first, at most for
\* five minutes in some versions.
Stop ==
    /\ app = "over"
    /\ app' = "stopped"
    /\ IF owned THEN Gateway!Close(Gateway!OpenPools) ELSE UNCHANGED gatewayVars
    /\ UNCHANGED <<inputVars, workerVars, threadVars, paneVars>>

-------------------------------------------------------------------------------
(* The gateway as its client sees it *)

\* A gateway the process attached to has other clients and a reaper.
Others ==
    /\ ~owned /\ Gateway!Next
    /\ UNCHANGED <<inputVars, app, workerVars, threadVars, paneVars>>

\* /connect is idempotent: it names the pool of g, opening it if need be.
Connected(g, c) ==
    \/ pool[g] = c /\ c # None /\ UNCHANGED gatewayVars
    \/ Gateway!Open(g, c)

\* Answers the gateway may give on c.  Its pool may be closed while a query
\* runs, so only an answer sure to come from an open pool needs one.
MayAnswer(c) ==
    IF c \in Gateway!OpenPools THEN Answer \ {"CONNECTION_NOT_FOUND"} ELSE Answer

-------------------------------------------------------------------------------
(* The thread of a view: _fetch_one *)

Busy(b) == {v \in ViewsOf(b) : thread[v] \notin {"none", "queued", "answered", "delivered"}}

\* The thread ends, and conn_id with it.
End(v, r) ==
    /\ thread' = [thread EXCEPT ![v] = "answered"]
    /\ result' = [result EXCEPT ![v] = r]
    /\ conn' = [conn EXCEPT ![v] = None]

\* if ck not in conn_cache
Lookup(v) ==
    LET b == BatchOf(v) IN
    /\ thread[v] = "queued"
    /\ Cardinality(Busy(b)) < Workers(b)
    /\ thread' = [thread EXCEPT ![v] =
                     IF cache[b][groupOf[v]] = None THEN "connect" ELSE "use"]
    /\ UNCHANGED <<gatewayVars, inputVars, app, workerVars, conn, result, rows, paneVars>>

\* The answer of gateway.connect is here, the dictionary not yet written.
Connect(v) ==
    /\ thread[v] = "connect"
    /\ GatewayUp
    /\ \E c \in ConnID : Connected(groupOf[v], c) /\ conn' = [conn EXCEPT ![v] = c]
    /\ thread' = [thread EXCEPT ![v] = "store"]
    /\ UNCHANGED <<inputVars, app, workerVars, result, rows, paneVars>>

\* gateway.connect raises; if the request timed out, the gateway may have served it.
ConnectRaises(v) ==
    /\ thread[v] = "connect"
    /\ \/ UNCHANGED gatewayVars
       \/ GatewayUp /\ \E c \in ConnID : Gateway!Open(groupOf[v], c)
    /\ End(v, "INTERNAL")
    /\ UNCHANGED <<inputVars, app, workerVars, rows, paneVars>>

Store(v) ==
    /\ thread[v] = "store"
    /\ cache' = [cache EXCEPT ![BatchOf(v)][groupOf[v]] = conn[v]]
    /\ thread' = [thread EXCEPT ![v] = "use"]
    /\ UNCHANGED <<gatewayVars, inputVars, app, worker, closeFailed, conn,
                   result, rows, paneVars>>

\* conn_id = conn_cache[ck]: perhaps what another thread has stored meanwhile.
Use(v) ==
    /\ thread[v] = "use"
    /\ conn' = [conn EXCEPT ![v] = cache[BatchOf(v)][groupOf[v]]]
    /\ thread' = [thread EXCEPT ![v] = "query"]
    /\ UNCHANGED <<gatewayVars, inputVars, app, workerVars, result, rows, paneVars>>

\* Whatever the answer is, it is the result: nothing is tried again here.
Query(v) ==
    /\ thread[v] = "query"
    /\ GatewayUp
    /\ \E r \in MayAnswer(conn[v]) :
          /\ End(v, r)
          /\ \E n \in IF r \in Table THEN RowCounts[v] ELSE {0} : rows' = [rows EXCEPT ![v] = n]
    /\ UNCHANGED <<gatewayVars, inputVars, app, workerVars, paneVars>>

QueryRaises(v) ==
    /\ thread[v] = "query"
    /\ End(v, "INTERNAL")
    /\ UNCHANGED <<gatewayVars, inputVars, app, workerVars, rows, paneVars>>

-------------------------------------------------------------------------------
(* A worker: _fetch_views *)

\* Mutant: the except clause goes on to the next future.
DeliverSkips(v) ==
    /\ worker[BatchOf(v)] = "fetch" /\ thread[v] = "answered"
    /\ thread' = [thread EXCEPT ![v] = "delivered"]
    /\ app = "up" => ~Unshowable(v)
    /\ IF app = "up" /\ result[v] # "INTERNAL"
       THEN /\ shown' = [shown EXCEPT ![v] = IF result[v] = "ok" THEN "table" ELSE "error"]
            /\ totalPages' = [totalPages EXCEPT ![v] =
                                 IF result[v] = "ok" THEN TotalPages(v, rows[v]) ELSE @]
       ELSE UNCHANGED <<shown, totalPages>>
    /\ UNCHANGED <<gatewayVars, inputVars, app, workerVars, conn, result, rows, page>>

\* call_from_thread(_update_pane): the worker waits while the event loop shows the
\* result; once the app is over the call finds no pane.
Deliver(v) ==
    /\ worker[BatchOf(v)] = "fetch" /\ thread[v] = "answered"
    /\ thread' = [thread EXCEPT ![v] = "delivered"]
    /\ app = "up" => ~Unshowable(v)
    /\ IF app = "up"
       THEN /\ shown' = [shown EXCEPT ![v] = IF result[v] = "ok" THEN "table" ELSE "error"]
            /\ totalPages' = [totalPages EXCEPT ![v] =
                                 IF result[v] = "ok" THEN TotalPages(v, rows[v]) ELSE @]
       ELSE UNCHANGED <<shown, totalPages>>
    /\ UNCHANGED <<gatewayVars, inputVars, app, workerVars, conn, result, rows, page>>

\* Or it raises in the worker, outside of its try statement: because the app is over,
\* or because _build_table raised and left half a table.  The results still to come
\* are not delivered and nothing is closed.
DeliverFails(v) ==
    /\ worker[BatchOf(v)] = "fetch" /\ thread[v] = "answered"
    /\ worker' = [worker EXCEPT ![BatchOf(v)] = "failed"]
    /\ \/ app # "up" /\ UNCHANGED shown
       \/ app = "up" /\ Unshowable(v) /\ shown' = [shown EXCEPT ![v] = "broken"]
    /\ UNCHANGED <<gatewayVars, inputVars, app, cache, closeFailed, threadVars,
                   page, totalPages>>

\* The with block waits for the threads of a failed worker; then Textual ends the app,
\* as it does for every worker that fails.
WorkerFailed(b) ==
    /\ worker[b] = "failed" /\ app = "up"
    /\ \A v \in ViewsOf(b) : thread[v] \in {"answered", "delivered"}
    /\ app' = "over"
    /\ UNCHANGED <<gatewayVars, inputVars, workerVars, threadVars, paneVars>>

\* Mutant: only the futures that are done are waited for.
FetchedSome(b) == \E v \in ViewsOf(b) : thread[v] = "delivered"

Fetched(b) == \A v \in ViewsOf(b) : thread[v] = "delivered"

\* Mutant: every worker closes its pools, as if no gateway were ever shared.
MayCloseAlways == TRUE

\* Mutant: the test is the wrong way round.
MayCloseAttached == ~owned

MayClose == owned  \* self.gateway.is_owned()

\* The with block is over.
FetchOver(b) ==
    /\ worker[b] = "fetch"
    /\ Fetched(b)
    /\ worker' = [worker EXCEPT ![b] = "close"]
    /\ UNCHANGED <<gatewayVars, inputVars, app, cache, closeFailed, threadVars, paneVars>>

\* gateway.close; a pool that is gone is no error to the worker, nor is a failure.
CloseOne(b, g) ==
    /\ worker[b] = "close"
    /\ MayClose
    /\ cache[b][g] # None
    /\ cache' = [cache EXCEPT ![b][g] = None]
    /\ \/ /\ GatewayUp
          /\ Gateway!Close({cache[b][g]} \cap Gateway!OpenPools) /\ UNCHANGED closeFailed
       \/ closeFailed' = TRUE /\ UNCHANGED gatewayVars
    /\ UNCHANGED <<inputVars, app, worker, threadVars, paneVars>>

\* Nothing is left to close; the dictionary goes with the worker.
WorkerEnds(b) ==
    /\ worker[b] = "close"
    /\ MayClose => \A g \in Group : cache[b][g] = None
    /\ worker' = [worker EXCEPT ![b] = "done"]
    /\ cache' = [cache EXCEPT ![b] = [g \in Group |-> None]]
    /\ UNCHANGED <<gatewayVars, inputVars, app, closeFailed, threadVars, paneVars>>

-------------------------------------------------------------------------------
Gone ==
    /\ app = "stopped"
    /\ \A b \in Batch : worker[b] \in {"none", "done", "failed"}
    /\ \A v \in View : thread[v] \in {"none", "answered", "delivered"}
    /\ UNCHANGED vars

UserStep == Submit \/ Quit \/ \E v \in View : NextPage(v) \/ PrevPage(v)

ThreadStep(v) ==
    \/ Lookup(v) \/ Connect(v) \/ ConnectRaises(v)
    \/ Store(v) \/ Use(v) \/ Query(v) \/ QueryRaises(v)

DeliverStep(v) == Deliver(v) \/ DeliverFails(v)

WorkerStep(b) == FetchOver(b) \/ (\E g \in Group : CloseOne(b, g)) \/ WorkerEnds(b)

TuiStep ==
    \/ Mount \/ UserStep \/ Stop
    \/ \E v \in View : ThreadStep(v) \/ DeliverStep(v)
    \/ \E b \in Batch : WorkerStep(b) \/ WorkerFailed(b)

Next == TuiStep \/ Others \/ Gone

Spec == Init /\ [][Next]_vars

\* Every request has a timeout at the client, so every thread moves on, and the
\* event loop takes every call and the failure of a worker.  The user need do nothing.
FairSpec ==
    /\ Spec
    /\ \A v \in View : WF_vars(ThreadStep(v)) /\ WF_vars(DeliverStep(v))
    /\ \A b \in Batch : WF_vars(WorkerFailed(b))

-------------------------------------------------------------------------------

ThreadPlace ==
    {"none", "queued", "connect", "store", "use", "query", "answered", "delivered"}

\* The types of the gateway, of workers, of view threads and of panes.
GatewayTypeOK == pool \in [Group -> ConnID \cup {None}] /\ retired \subseteq ConnID

WorkerTypeOK ==
    /\ groupOf \in GroupMaps /\ owned \in BOOLEAN /\ needs \subseteq View
    /\ app \in {"start", "up", "over", "stopped"}
    /\ worker \in [Batch -> {"none", "fetch", "close", "done", "failed"}]
    /\ cache \in [Batch -> [Group -> ConnID \cup {None}]]
    /\ closeFailed \in BOOLEAN

ThreadTypeOK ==
    /\ thread \in [View -> ThreadPlace]
    /\ conn \in [View -> ConnID \cup {None}]
    /\ result \in [View -> Answer \cup {"none", "INTERNAL"}]
    /\ rows \in [View -> Nat]

PaneTypeOK ==
    /\ shown \in [View -> {"loading", "table", "error", "broken"}]
    /\ page \in [View -> Nat \ {0}]
    /\ totalPages \in [View -> Int]

\* Every variable has its type.
TypeOK == GatewayTypeOK /\ WorkerTypeOK /\ ThreadTypeOK /\ PaneTypeOK

\* The groups the worker of b shares with no view of another worker.
SoleGroups(b) == {g \in Group : \A v \in View : groupOf[v] = g => BatchOf(v) = b}

\* The threads of one worker never find their pool closed, in whatever order they
\* connect, store and query (app.py:250-280): on a gateway of the process's own a
\* view is told CONNECTION_NOT_FOUND only if another worker uses its group.
SoleWorkerKeepsPool ==
    owned => \A v \in View :
        result[v] = "CONNECTION_NOT_FOUND" => groupOf[v] \notin SoleGroups(BatchOf(v))

\* On a gateway of the process's own, a worker that is done has closed the pool of
\* every group only it uses, though its threads overwrite each other's entries in
\* the dictionary (app.py:267-280).  Left out: closes that failed, and groups of a
\* request that got no answer, which the gateway may serve later.
PoolOfSoleWorkerClosed ==
    owned /\ ~closeFailed =>
        \A b \in Batch : worker[b] = "done" =>
            \A g \in SoleGroups(b) :
                (\A v \in View : groupOf[v] = g => result[v] # "INTERNAL") => pool[g] = None

\* What the invariants rest on; IInv is inductive.

\* A worker's threads run from its start to the end of its with block, and a result is
\* that of a thread that has ended.
WorkersConsistent ==
    /\ app = "start" => \A b \in Batch : worker[b] = "none"
    /\ \A v \in View :
          /\ worker[BatchOf(v)] = "none" => thread[v] = "none"
          /\ worker[BatchOf(v)] \in {"close", "done"} => thread[v] = "delivered"
          /\ result[v] # "none" => thread[v] \in {"answered", "delivered"}

\* An id in a dictionary or in the hands of a thread is that of its group's pool, or of
\* one that is closed; a dictionary has groups of its worker's views only.
ConnsNamed ==
    /\ \A b \in Batch, g \in Group :
          /\ cache[b][g] \in {None, pool[g]} \cup retired
          /\ cache[b][g] # None => \E v \in ViewsOf(b) : groupOf[v] = g
    /\ \A v \in View : conn[v] \in {None, pool[groupOf[v]]} \cup retired

\* gw.stop() leaves no pool of an owned gateway.
StopClosesAll == ~GatewayUp => \A g \in Group : pool[g] = None

\* On an owned gateway, what the threads of a group's only worker hold, and what its
\* dictionary says while they run, is the pool of the group (app.py:250-280).
SoleThreadsConnected ==
    owned /\ GatewayUp => \A v \in View :
        LET b == BatchOf(v)
            g == groupOf[v]
        IN g \in SoleGroups(b) =>
               /\ thread[v] \in {"store", "query"} => conn[v] = pool[g] /\ pool[g] # None
               /\ thread[v] = "use" => cache[b][g] = pool[g] /\ pool[g] # None
               /\ worker[b] \in {"none", "fetch", "failed"} => cache[b][g] \in {None, pool[g]}

\* A pool such a worker has to close is in its dictionary, or about to be stored there.
SolePoolsKept ==
    owned /\ ~closeFailed => \A b \in Batch : \A g \in SoleGroups(b) :
        pool[g] # None /\ (\A v \in View : groupOf[v] = g => result[v] # "INTERNAL") =>
            /\ worker[b] # "done"
            /\ \/ cache[b][g] = pool[g]
               \/ \E v \in View : groupOf[v] = g /\ thread[v] = "store"

\* A pane that shows a table has the number of pages of the rows fetched, which no
\* page_size of zero divides; without one it is on its first page.
PanesConsistent ==
    \A v \in View :
        /\ shown[v] = "table" => thread[v] = "delivered" /\ totalPages[v] = TotalPages(v, rows[v])
        /\ shown[v] = "table" /\ v \in Paged /\ PageSize[v] = 0 => rows[v] = 0
        /\ shown[v] # "table" => totalPages[v] = 0
        /\ page[v] <= totalPages[v] \/ page[v] = 1

\* The inductive invariant.
IInv ==
    /\ TypeOK
    /\ Gateway!IdsUnique
    /\ WorkersConsistent /\ ConnsNamed /\ StopClosesAll
    /\ SoleThreadsConnected /\ SoleWorkerKeepsPool /\ SolePoolsKept
    /\ PanesConsistent

\* Attached to a resident gateway, no step of the app closes a pool
\* (app.py:267-269, cli.py:220).
AttachedTuiKeepsPools == [][TuiStep /\ ~owned => retired' = retired]_vars

\* The pages n and p walk through show every row of a result, and never an empty
\* page of a result that has rows, if the view has no pages or a page_size above
\* zero; with a page_size of zero a result that has rows gets no table at all
\* (app.py:121-141, 165-171, parser.py:127).
PagesCoverRows ==
    \A v \in View : shown[v] = "table" =>
        /\ v \in Paged /\ PageSize[v] = 0 => rows[v] = 0
        /\ v \notin Paged \/ PageSize[v] > 0 =>
              /\ page[v] <= totalPages[v]
              /\ rows[v] > 0 => PageRows(v, page[v], rows[v]) # {}
              /\ UNION {PageRows(v, p, rows[v]) : p \in 1..totalPages[v]} = 1..rows[v]

\* While the app is up, every view that is fetched gets a table or an error in its
\* pane, whatever fails in fetching it or another one.  A result that cannot be shown
\* is not such a failure: it does keep the others' from their panes, but does not
\* leave them loading for ever, for it ends the app (app.py:258-265).
EveryPaneFilled ==
    \A v \in View : thread[v] = "queued" ~> (shown[v] \in {"table", "error"} \/ app # "up")
===============================================================================
