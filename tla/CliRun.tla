-------------------------------- MODULE CliRun --------------------------------
(***************************************************************************)
(* One run of the command line client: cmd_run, _run_view and _ConnHandle  *)
(* of cli/yamlq/cli.py, against a gateway that is as good as its promise,  *)
(* PoolRegistry.                                                           *)
(*                                                                         *)
(* The main thread connects each group of views (one group per driver+DSN) *)
(* and submits them to a thread pool, collects the results, waits for the  *)
(* threads, closes what it may close and renders.  The view threads query, *)
(* reconnecting and repeating once if the connection was lost.  Requests   *)
(* travel: a view's query is sent in one step and answered in another.  In *)
(* attached mode the gateway has other clients, and a reaper.              *)
(***************************************************************************)
EXTENDS Naturals, FiniteSets

CONSTANTS
    View,           \* enabled views
    Group,          \* driver+DSN pairs
    GroupOf,        \* conn_key: the group of a view
    Prompting,      \* views with a parameter that has neither a value nor a default
    ConnID,         \* ids the gateway may hand out
    Capacity,       \* pools the gateway may have open
    MaxInterrupts,  \* bound of the model: how often the user presses Ctrl+C, by owned
    None            \* no connection, no lock holder

ASSUME CliAssumption ==
    /\ IsFiniteSet(View) /\ View # {}
    /\ GroupOf \in [View -> Group] /\ Prompting \subseteq View
    /\ None \notin View
    /\ MaxInterrupts \in [BOOLEAN -> Nat]

VARIABLES
    pool, retired,  \* the gateway, see PoolRegistry
    owned,          \* is_owned(): this run spawned the gateway
    main,           \* where the main thread is
    todo,           \* groups it has not connected yet
    raised,         \* an exception no except clause of cmd_run catches
    timedOut,       \* the session timeout struck
    interrupts,     \* Ctrl+C so far
    handles,        \* groups in the handles list that are not closed yet
    closeFailed,    \* a gw.close of the run failed
    connID,         \* _ConnHandle._conn_id
    lock,           \* the view that holds _ConnHandle._lock
    thread,         \* where the thread of a view is
    conn,           \* the conn_id it uses
    outcome,        \* what its _run_view returns
    reported        \* the entry of a view in results, or "none"

gatewayVars == <<pool, retired>>
mainVars ==
    <<main, todo, raised, timedOut, interrupts, handles, closeFailed, reported>>
threadVars == <<connID, lock, thread, conn, outcome>>
vars == <<owned, gatewayVars, mainVars, threadVars>>

Gateway == INSTANCE PoolRegistry WITH Key <- Group

Lost == {"CONNECTION_LOST", "CONNECTION_NOT_FOUND"}  \* _RETRYABLE_ERROR_CODES
Answer == Lost \cup {"ok"}  \* ok: rows, or an error nothing is repeated for
Outcome == Answer \cup {"none", "QUERY_FAILED", "CONNECT_FAILED", "SystemExit"}

ViewsOf(g) == {v \in View : GroupOf[v] = g}
Groups == {GroupOf[v] : v \in View}

\* max_workers = min(len(groups), 10)
Workers == IF Cardinality(Groups) < 10 THEN Cardinality(Groups) ELSE 10

Init ==
    /\ Gateway!Init
    /\ owned \in BOOLEAN
    /\ main = "connect"
    /\ todo = Groups
    /\ raised = FALSE
    /\ timedOut = FALSE
    /\ interrupts = 0
    /\ handles = {}
    /\ closeFailed = FALSE
    /\ connID = [g \in Group |-> None]
    /\ lock = [g \in Group |-> None]
    /\ thread = [v \in View |-> "none"]
    /\ conn = [v \in View |-> None]
    /\ outcome = [v \in View |-> "none"]
    /\ reported = [v \in View |-> "none"]

\* A step of the main thread from one place to the next.
OnlyMain ==
    UNCHANGED <<owned, gatewayVars, todo, raised, timedOut, interrupts, handles,
                closeFailed, reported, threadVars>>

-------------------------------------------------------------------------------
(* The gateway as its client sees it *)

\* An attached gateway has other clients and a reaper.  One spawned for the run
\* has neither, but Ctrl+C reaches it as well, and it closes everything.  The model
\* ends with the run.
Others ==
    /\ main # "gone"
    /\ \/ ~owned /\ Gateway!Next
       \/ owned /\ interrupts > 0 /\ Gateway!Close(Gateway!OpenPools)
    /\ UNCHANGED <<owned, mainVars, threadVars>>

\* /connect is idempotent: it names the pool of g, opening it if need be.
Connected(g, c) ==
    \/ pool[g] = c /\ c # None /\ UNCHANGED gatewayVars
    \/ Gateway!Open(g, c)

\* The request timed out at the client; the gateway may still serve it.
ConnectUnanswered(g) ==
    UNCHANGED gatewayVars \/ \E c \in ConnID : Gateway!Open(g, c)

-------------------------------------------------------------------------------
(* The main thread: connecting *)

\* handle.get() succeeds: the group's views are submitted to the thread pool.
ConnectGroup(g) ==
    /\ main = "connect" /\ g \in todo
    /\ \E c \in ConnID : Connected(g, c) /\ connID' = [connID EXCEPT ![g] = c]
    /\ todo' = todo \ {g}
    /\ handles' = handles \cup {g}
    /\ thread' = [v \in View |-> IF GroupOf[v] = g THEN "queued" ELSE thread[v]]
    /\ UNCHANGED <<owned, main, raised, timedOut, interrupts, closeFailed, reported,
                   lock, conn, outcome>>

\* GatewayError: every view of the group gets its row, the others go on.
ConnectRefused(g) ==
    /\ main = "connect" /\ g \in todo
    /\ todo' = todo \ {g}
    /\ reported' = [v \in View |->
                      IF GroupOf[v] = g THEN "CONNECT_FAILED" ELSE reported[v]]
    /\ UNCHANGED <<owned, gatewayVars, main, raised, timedOut, interrupts, handles,
                   closeFailed, threadVars>>

\* Anything else (a requests timeout, an answer that is not JSON) leaves the
\* with block, which first waits for the threads.
ConnectRaises(g) ==
    /\ main = "connect" /\ g \in todo
    /\ ConnectUnanswered(g)
    /\ raised' = TRUE
    /\ main' = "join"
    /\ UNCHANGED <<owned, todo, timedOut, interrupts, handles, closeFailed, reported,
                   threadVars>>

AllConnected ==
    /\ main = "connect" /\ todo = {}
    /\ main' = "collect"
    /\ OnlyMain

-------------------------------------------------------------------------------
(* The main thread: collecting, waiting, closing, rendering *)

Uncollected == {v \in View : thread[v] # "none" /\ reported[v] = "none"}

\* Mutant: results is assigned to instead of appended to.
CollectLast(v) ==
    /\ main = "collect"
    /\ v \in Uncollected /\ thread[v] = "done"
    /\ reported' = [w \in View |-> IF w = v THEN outcome[v] ELSE "none"]
    /\ UNCHANGED <<owned, gatewayVars, main, todo, raised, timedOut, interrupts, handles,
                   closeFailed, threadVars>>

\* results.append(future.result()); the SystemExit of a thread is raised again.
Collect(v) ==
    /\ main = "collect"
    /\ v \in Uncollected /\ thread[v] = "done"
    /\ IF outcome[v] = "SystemExit"
       THEN /\ raised' = TRUE
            /\ main' = "join"
            /\ UNCHANGED reported
       ELSE /\ reported' = [reported EXCEPT ![v] = outcome[v]]
            /\ UNCHANGED <<main, raised>>
    /\ UNCHANGED <<owned, gatewayVars, todo, timedOut, interrupts, handles, closeFailed,
                   threadVars>>

AllCollected ==
    /\ main = "collect" /\ Uncollected = {}
    /\ main' = "join"
    /\ OnlyMain

\* as_completed looks at the clock only while a future is unfinished.
SessionTimeout ==
    /\ main = "collect"
    /\ \E v \in Uncollected : thread[v] # "done"
    /\ timedOut' = TRUE
    /\ main' = "join"
    /\ UNCHANGED <<owned, gatewayVars, todo, raised, interrupts, handles, closeFailed,
                   reported, threadVars>>

\* Mutant: the executor is not used as a context manager.
ThreadsEndedUnchecked == TRUE

ThreadsEnded == \A v \in View : thread[v] \in {"none", "done"}

\* ThreadPoolExecutor.__exit__: queued views are run and waited for, too.
Join ==
    /\ main = "join"
    /\ ThreadsEnded
    /\ main' = "close"
    /\ OnlyMain

\* Mutant: every run closes its pools, as runs did before gateways were shared.
MayCloseAlways == TRUE

MayClose == owned  \* gw.is_owned()

\* finally: gw.close(handle.conn_id()), which takes the lock for a moment; the
\* failure of the request is ignored.
CloseHandle(g) ==
    /\ main = "close"
    /\ MayClose
    /\ g \in handles /\ lock[g] = None
    /\ handles' = handles \ {g}
    /\ \/ Gateway!Close({connID[g]} \cap Gateway!OpenPools) /\ UNCHANGED closeFailed
       \/ closeFailed' = TRUE /\ UNCHANGED gatewayVars
    /\ UNCHANGED <<owned, main, todo, raised, timedOut, interrupts, reported, threadVars>>

\* After the finally block: render what is in results, or let raised through.
Finish ==
    /\ main = "close"
    /\ MayClose => handles = {}
    /\ main' = "exited"
    /\ OnlyMain

\* KeyboardInterrupt in the main thread: inside the with block it is caught
\* after the threads are waited for, while waiting it is caught at once, and
\* from the finally block on it is not caught.
Interrupt ==
    /\ interrupts < MaxInterrupts[owned]
    /\ interrupts' = interrupts + 1
    /\ \/ /\ main = "connect" /\ \E g \in todo : ConnectUnanswered(g)
          /\ main' = "join" /\ UNCHANGED raised
       \/ main = "collect" /\ main' = "join" /\ UNCHANGED <<raised, gatewayVars>>
       \/ main = "join" /\ main' = "close" /\ raised' = FALSE /\ UNCHANGED gatewayVars
       \/ main = "close" /\ main' = "exited" /\ raised' = TRUE /\ UNCHANGED gatewayVars
    /\ UNCHANGED <<owned, todo, timedOut, handles, closeFailed, reported, threadVars>>

\* The interpreter joins the threads, then atexit stops an owned gateway.
Exit ==
    /\ main = "exited"
    /\ \A v \in View : thread[v] \in {"none", "done"}
    /\ main' = "gone"
    /\ IF owned THEN Gateway!Close(Gateway!OpenPools) ELSE UNCHANGED gatewayVars
    /\ UNCHANGED <<owned, todo, raised, timedOut, interrupts, handles, closeFailed,
                   reported, threadVars>>

Gone == main = "gone" /\ UNCHANGED vars

-------------------------------------------------------------------------------
(* The thread of a view: _run_view *)

Busy == {v \in View : thread[v] \notin {"none", "queued", "done"}}

\* The thread ends, and its local variables with it.
End(v, o) ==
    /\ thread' = [thread EXCEPT ![v] = "done"]
    /\ outcome' = [outcome EXCEPT ![v] = o]
    /\ conn' = [conn EXCEPT ![v] = None]

\* A thread of the pool takes the view: it has to ask for a parameter, or it has them
\* all, and rendering them into the statement may fail.
Start(v) ==
    /\ thread[v] = "queued"
    /\ Cardinality(Busy) < Workers
    /\ \/ /\ v \in Prompting
          /\ thread' = [thread EXCEPT ![v] = "input"] /\ UNCHANGED <<conn, outcome>>
       \/ /\ v \notin Prompting
          /\ \/ thread' = [thread EXCEPT ![v] = "get"] /\ UNCHANGED <<conn, outcome>>
             \/ End(v, "QUERY_FAILED")
    /\ UNCHANGED <<owned, gatewayVars, mainVars, connID, lock>>

\* The user has answered input(), for every parameter of the view; reading or rendering
\* may fail, and at the end of stdin it is sys.exit.
Input(v) ==
    /\ thread[v] = "input"
    /\ \/ thread' = [thread EXCEPT ![v] = "get"] /\ UNCHANGED <<conn, outcome>>
       \/ End(v, "QUERY_FAILED")
       \/ End(v, "SystemExit")
    /\ UNCHANGED <<owned, gatewayVars, mainVars, connID, lock>>

\* Mutant: the handle returns the key it stands for.
GetConnKey(v) ==
    /\ thread[v] = "get"
    /\ lock[GroupOf[v]] = None
    /\ conn' = [conn EXCEPT ![v] = GroupOf[v]]
    /\ thread' = [thread EXCEPT ![v] = "query"]
    /\ UNCHANGED <<owned, gatewayVars, mainVars, connID, lock, outcome>>

\* handle.get(): the main thread has set _conn_id.
GetConn(v) ==
    /\ thread[v] = "get"
    /\ lock[GroupOf[v]] = None
    /\ conn' = [conn EXCEPT ![v] = connID[GroupOf[v]]]
    /\ thread' = [thread EXCEPT ![v] = "query"]
    /\ UNCHANGED <<owned, gatewayVars, mainVars, connID, lock, outcome>>

\* Answers the gateway may give on c.  Its pool may be closed while a query
\* runs, so only an answer sure to come from an open pool needs one.
MayAnswer(c) ==
    IF c \in Gateway!OpenPools THEN Answer \ {"CONNECTION_NOT_FOUND"} ELSE Answer

\* The first gw.query answers: done, or on to the refresh.
QueryAnswered(v) ==
    /\ thread[v] = "query"
    /\ \E r \in MayAnswer(conn[v]) :
          IF r \in Lost
          THEN /\ thread' = [thread EXCEPT ![v] = "refresh"]
               /\ outcome' = [outcome EXCEPT ![v] = r]
               /\ UNCHANGED conn
          ELSE End(v, r)
    /\ UNCHANGED <<owned, gatewayVars, mainVars, connID, lock>>

\* gw.query raises: the outer except clause.
QueryRaises(v) ==
    /\ thread[v] \in {"query", "requery"}
    /\ End(v, "QUERY_FAILED")
    /\ UNCHANGED <<owned, gatewayVars, mainVars, connID, lock>>

\* handle.get(refresh=True) takes the lock and keeps it while it connects.
RefreshLock(v) ==
    LET g == GroupOf[v] IN
    /\ thread[v] = "refresh"
    /\ lock[g] = None
    /\ lock' = [lock EXCEPT ![g] = v]
    /\ thread' = [thread EXCEPT ![v] = "connect"]
    /\ UNCHANGED <<owned, gatewayVars, mainVars, connID, conn, outcome>>

Refreshed(v) ==
    LET g == GroupOf[v] IN
    /\ thread[v] = "connect"
    /\ \E c \in ConnID :
          /\ Connected(g, c)
          /\ connID' = [connID EXCEPT ![g] = c]
          /\ conn' = [conn EXCEPT ![v] = c]
    /\ lock' = [lock EXCEPT ![g] = None]
    /\ thread' = [thread EXCEPT ![v] = "requery"]
    /\ UNCHANGED <<owned, mainVars, outcome>>

\* Mutant: the lock is not released on the way out of an exception.
RefreshFailsLocked(v) ==
    /\ thread[v] = "connect"
    /\ End(v, outcome[v])
    /\ UNCHANGED <<owned, gatewayVars, mainVars, connID, lock>>

\* /connect fails: with GatewayError the first error stays, with any other
\* exception the outer except clause replaces it.
RefreshFails(v) ==
    /\ thread[v] = "connect"
    /\ \/ End(v, outcome[v]) /\ UNCHANGED gatewayVars
       \/ End(v, "QUERY_FAILED") /\ ConnectUnanswered(GroupOf[v])
    /\ lock' = [lock EXCEPT ![GroupOf[v]] = None]
    /\ UNCHANGED <<owned, mainVars, connID>>

\* The second answer is final.
RequeryAnswered(v) ==
    /\ thread[v] = "requery"
    /\ \E r \in MayAnswer(conn[v]) : End(v, r)
    /\ UNCHANGED <<owned, gatewayVars, mainVars, connID, lock>>

-------------------------------------------------------------------------------
MainStep ==
    \/ \E g \in Group : ConnectGroup(g) \/ ConnectRefused(g) \/ ConnectRaises(g)
    \/ AllConnected
    \/ \E v \in View : Collect(v)
    \/ AllCollected
    \/ Join
    \/ \E g \in Group : CloseHandle(g)
    \/ Finish
    \/ Exit

\* What a thread does without the user.
OwnStep(v) ==
    \/ Start(v) \/ GetConn(v)
    \/ QueryAnswered(v) \/ QueryRaises(v)
    \/ RefreshLock(v) \/ Refreshed(v) \/ RefreshFails(v)
    \/ RequeryAnswered(v)

ThreadStep(v) == OwnStep(v) \/ Input(v)

CliStep == MainStep \/ SessionTimeout \/ Interrupt \/ \E v \in View : ThreadStep(v)

Next == CliStep \/ Others \/ Gone

Spec == Init /\ [][Next]_vars

\* Every request has a timeout at the client, so every thread moves on by itself;
\* waiting for the lock is as fair as the lock is.  The session need not time out, and
\* the user need not answer.
FairSpec ==
    /\ Spec
    /\ WF_vars(MainStep)
    /\ \A v \in View : WF_vars(OwnStep(v)) /\ SF_vars(GetConn(v) \/ RefreshLock(v))

-------------------------------------------------------------------------------

ThreadPlace ==
    {"none", "queued", "input", "get", "query", "refresh", "connect", "requery", "done"}

\* The types of the gateway, of what the main thread has, and of what view threads have.
GatewayTypeOK == pool \in [Group -> ConnID \cup {None}] /\ retired \subseteq ConnID

MainTypeOK ==
    /\ owned \in BOOLEAN
    /\ main \in {"connect", "collect", "join", "close", "exited", "gone"}
    /\ todo \subseteq Groups /\ handles \subseteq Groups
    /\ raised \in BOOLEAN /\ timedOut \in BOOLEAN /\ closeFailed \in BOOLEAN
    /\ interrupts \in 0..MaxInterrupts[owned]
    /\ reported \in [View -> Outcome]

ThreadTypeOK ==
    /\ connID \in [Group -> ConnID \cup {None}]
    /\ lock \in [Group -> View \cup {None}]
    /\ thread \in [View -> ThreadPlace]
    /\ conn \in [View -> ConnID \cup {None}]
    /\ outcome \in [View -> Outcome]

\* Every variable has its type.
TypeOK == GatewayTypeOK /\ MainTypeOK /\ ThreadTypeOK

\* cmd_run is over and nobody pressed Ctrl+C.
Over == main \in {"exited", "gone"} /\ interrupts = 0

\* A run that spawned its gateway closes every pool it opened, session timeout
\* or not, also those its threads reconnected to: the pools are closed only when
\* no thread is left to open another (cli.py:174-204).  Requests that got no
\* answer are left out, the gateway may serve them after the run.
OwnedRunCleansUp ==
    /\ owned /\ Over
    /\ ~raised /\ ~closeFailed /\ \A v \in View : outcome[v] # "QUERY_FAILED"
    => Gateway!OpenPools = {}

\* What the invariants rest on; IInv is inductive.

\* The views of a group not connected yet have no thread; every other view has one or
\* the row that says why not.  Only what a thread has returned is collected.
RowsConsistent ==
    \A v \in View :
        /\ GroupOf[v] \in todo => thread[v] = "none"
        /\ thread[v] = "none" =>
              reported[v] = IF GroupOf[v] \in todo THEN "none" ELSE "CONNECT_FAILED"
        /\ thread[v] # "none" /\ reported[v] # "none" =>
              thread[v] = "done" /\ reported[v] = outcome[v]
        /\ outcome[v] \in {"QUERY_FAILED", "SystemExit"} => thread[v] = "done"

\* How far the main thread is.
MainConsistent ==
    /\ main = "collect" => todo = {}
    /\ main \notin {"connect", "collect"} /\ interrupts = 0 /\ ~raised /\ ~timedOut =>
          todo = {} /\ Uncollected = {}
    /\ main \in {"close", "exited", "gone"} /\ interrupts = 0 => ThreadsEnded

\* A thread in get(refresh=True) has the lock of its handle, and nobody else does.
LockConsistent ==
    /\ \A v \in View : thread[v] = "connect" => lock[GroupOf[v]] = v
    /\ \A g \in Group : lock[g] # None => thread[lock[g]] = "connect" /\ GroupOf[lock[g]] = g

\* Requests that got no answer, exceptions and interrupts may leave a pool behind.
Undisturbed ==
    interrupts = 0 /\ ~raised /\ ~closeFailed /\ \A v \in View : outcome[v] # "QUERY_FAILED"

\* Every pool of a run's own gateway is the one its handle names, and the handle is in
\* the list the finally block goes through (cli.py:167-204).
HandlesKnowPools ==
    /\ main \in {"connect", "collect", "join"} =>
          \A v \in View : thread[v] # "none" => GroupOf[v] \in handles
    /\ owned /\ Undisturbed =>
          \A g \in Group : pool[g] # None =>
              main \notin {"exited", "gone"} /\ g \in handles /\ connID[g] = pool[g]

\* The inductive invariant.
IInv ==
    /\ TypeOK
    /\ RowsConsistent /\ MainConsistent /\ LockConsistent /\ HandlesKnowPools

\* A run attached to a resident gateway never closes a pool (cli.py:195-197).
AttachedKeepsPools == [][CliStep /\ ~owned => retired' = retired]_vars

\* A run that is not cut short has a row for every view: its thread's result, or
\* that its group could not be connected (cli.py:171-189).
EveryViewHasItsRow ==
    Over /\ ~raised /\ ~timedOut =>
        \A v \in View : reported[v] =
            IF thread[v] = "none" THEN "CONNECT_FAILED" ELSE outcome[v]

\* A run whose every prompt the user answers ends: no thread waits for a lock nobody
\* releases, and the main thread does not wait for a thread that never ends.  Nothing
\* bounds a prompt: the session timeout strikes, but the threads are waited for
\* (cli.py:81, 106-110, 174-189).
RunEnds ==
    []<>(\A v \in View : thread[v] # "input") => <>(main = "gone")

\* What ADR-003 says of several views (line 49): one that fails does not affect
\* the others, so what a view fetched is shown.
ViewsIndependent ==
    Over /\ ~timedOut =>
        \A v \in View : outcome[v] = "ok" => reported[v] = "ok"
===============================================================================
