------------------------------ MODULE ConnManager ------------------------------
(***************************************************************************)
(* The gateway's connection manager (db-gateway/conn/manager.go), driven   *)
(* by the HTTP handlers of db-gateway/server/server.go.                    *)
(*                                                                         *)
(* Every critical section of m.mu is one action; network calls (dialing,   *)
(* pings, queries) are not covered by the lock, so they end in an action   *)
(* of their own and anything may happen in between.  The goroutines are:   *)
(*   - the HTTP handlers, each serving one request at a time;              *)
(*   - one query worker (consumeQueries) for every pool ever opened;       *)
(*   - the idle reaper, in resident (serve) mode;                          *)
(*   - the stoppers: the signal path of main.run and the function that     *)
(*     POST /shutdown starts.                                              *)
(* Drivers and databases are the environment: a dial, a ping or a query    *)
(* may end in any of the ways the code distinguishes.                      *)
(***************************************************************************)
EXTENDS Naturals, Sequences, FiniteSets

CONSTANTS
    Key,                \* driver+DSN pairs (connKey)
    Handler,            \* HTTP handler goroutines
    Stopper,            \* goroutines that run the shutdown sequence
    GlobalMaxOpen,      \* PoolConfig: capacity of globalSem
    MaxConcurrentQuery, \* PoolConfig: capacity of querySem
    QueueDepth,         \* PoolConfig: capacity of a pool's QueryChan
    IdleReaping,        \* TRUE iff serve started the reaper
    MaxConnID,          \* bound of the model: pools opened in one behaviour
    None                \* a null pointer or an absent map entry

ConnID == 1..MaxConnID

ASSUME CapacityAssumption ==
    /\ GlobalMaxOpen \in Nat \ {0}
    /\ MaxConcurrentQuery \in Nat \ {0}
    /\ QueueDepth \in Nat \ {0}
    /\ MaxConnID \in Nat
    /\ IdleReaping \in BOOLEAN

\* A connection id ("conn_<time>_<n>") is never also a driver+DSN string.
ASSUME NameAssumption ==
    /\ Key \cap ConnID = {}
    /\ None \notin Key \cup ConnID \cup Handler

ASSUME HandlerAssumption == IsFiniteSet(Handler)

VARIABLES
    \* Manager
    conns,      \* ids in m.conns
    keys,       \* m.keys: key -> id, or None
    nextID,     \* m.nextID, the suffix of the last id generated
    globalSem,  \* tokens in m.globalSem
    querySem,   \* tokens in m.querySem
    \* ManagedConn
    key,        \* mc.key
    age,        \* time since mc.LastActive, in halves of the idle timeout
    closed,     \* ids whose ctx is cancelled, done is closed and DB is closed
    queue,      \* mc.QueryChan: the handlers whose tasks are waiting
    \* consumeQueries
    worker,     \* where the worker of a pool is
    task,       \* the task it holds, named by the handler that submitted it
    \* HTTP handlers
    handler,    \* where the handler is
    reqKey,     \* the driver+DSN of its /connect
    reqConn,    \* the connection its request names, or /connect returns
    resultChan, \* the one-place ResultChan of the task it awaits
    reply,      \* the answer about to be written
    \* reaper and stoppers
    reaper,     \* where the reaper is
    toProbe,    \* pools this pass of the reaper still has to probe
    failed,     \* the pool whose probe just failed, or None
    stopSig,    \* StopReaper has taken and closed the stop channel
    stopper     \* where each stopper is

poolVars     == <<conns, keys, nextID, key, closed>>
registryVars == <<poolVars, globalSem>>
queryVars    == <<querySem, queue, worker, task>>
requestVars  == <<reqKey, reqConn, resultChan>>
handlerVars  == <<handler, requestVars, reply>>
reaperVars   == <<reaper, toProbe, failed, stopSig>>
vars == <<registryVars, age, queryVars, handlerVars, reaperVars, stopper>>

\* The ways executeOne ends, as QueryExec details them.
Outcome == {"rows", "db_error", "query_timeout", "connection_lost"}

\* A result that was delivered is not a nil one.
ASSUME ResultAssumption == None \notin Outcome

Reply == Outcome \cup
    {"none", "conn_id", "limit_reached", "dial_failed", "queue_full",
     "connection_not_found", "closed", "ping_ok", "ping_lost"}

\* LastActive is only ever compared with idleTimeout and idleTimeout/2.
Fresh == 0
Probable == 1
Stale == 2

Init ==
    /\ conns = {}
    /\ keys = [k \in Key |-> None]
    /\ nextID = 0
    /\ globalSem = 0
    /\ querySem = 0
    /\ key = [c \in ConnID |-> None]
    /\ age = [c \in ConnID |-> Fresh]
    /\ closed = {}
    /\ queue = [c \in ConnID |-> <<>>]
    /\ worker = [c \in ConnID |-> "none"]
    /\ task = [c \in ConnID |-> None]
    /\ handler = [h \in Handler |-> "idle"]
    /\ reqKey = [h \in Handler |-> None]
    /\ reqConn = [h \in Handler |-> None]
    /\ resultChan = [h \in Handler |-> None]
    /\ reply = [h \in Handler |-> "none"]
    /\ reaper = IF IdleReaping THEN "wait" ELSE "off"
    /\ toProbe = {}
    /\ failed = None
    /\ stopSig = FALSE
    /\ stopper = [s \in Stopper |-> "run"]

-------------------------------------------------------------------------------
(* Answering a request *)

Answer(h, r) ==
    /\ handler' = [handler EXCEPT ![h] = "reply"]
    /\ reply' = [reply EXCEPT ![h] = r]

\* A handler's next step is another one, and nothing is answered yet.
Goto(h, step) ==
    /\ handler' = [handler EXCEPT ![h] = step]
    /\ UNCHANGED reply

\* A step of a handler that only concerns the handler itself.
HandlerOnly == UNCHANGED <<registryVars, age, queryVars, reaperVars, stopper>>

\* writeJSON: the answer leaves and the goroutine is free for another request.
WriteReply(h) ==
    /\ handler[h] = "reply"
    /\ handler' = [handler EXCEPT ![h] = "idle"]
    /\ reqKey' = [reqKey EXCEPT ![h] = None]
    /\ reqConn' = [reqConn EXCEPT ![h] = None]
    /\ resultChan' = [resultChan EXCEPT ![h] = None]
    /\ reply' = [reply EXCEPT ![h] = "none"]
    /\ HandlerOnly

-------------------------------------------------------------------------------
(* POST /connect: OpenConn and dial *)

\* The first look under the lock, then the wait for a slot.
Connect(h, k) ==
    /\ handler[h] = "idle"
    /\ reqKey' = [reqKey EXCEPT ![h] = k]
    /\ \/ /\ keys[k] # None
          /\ reqConn' = [reqConn EXCEPT ![h] = keys[k]]
          /\ Answer(h, "conn_id")
       \/ /\ keys[k] = None
          /\ Goto(h, "slot")
          /\ UNCHANGED reqConn
    /\ UNCHANGED resultChan
    /\ HandlerOnly

SlotFree == globalSem < GlobalMaxOpen

\* select { case m.globalSem <- struct{}{}: return m.dial(...) }
TakeSlot(h) ==
    /\ handler[h] = "slot"
    /\ SlotFree
    /\ globalSem' = globalSem + 1
    /\ Goto(h, "dial")
    /\ UNCHANGED <<poolVars, age, queryVars, requestVars, reaperVars, stopper>>

\* select { default: }
NoSlot(h) ==
    /\ handler[h] = "slot"
    /\ ~SlotFree
    /\ Goto(h, "look")
    /\ UNCHANGED requestVars
    /\ HandlerOnly

\* The pool of the key asked for becomes the answer.
Adopt(h) ==
    /\ keys[reqKey[h]] # None
    /\ reqConn' = [reqConn EXCEPT ![h] = keys[reqKey[h]]]
    /\ UNCHANGED <<reqKey, resultChan>>

\* The second look: another opener of the same key may have registered it.
LookHit(h) ==
    /\ handler[h] = "look"
    /\ Adopt(h)
    /\ Answer(h, "conn_id")
    /\ HandlerOnly

\* Mutant: dial does not look at m.keys a second time.
KeyFreeUnchecked(h) == TRUE

KeyFree(h) == keys[reqKey[h]] = None

\* Not there and the deadline not over: sleep 5ms and try again.
LookMiss(h) ==
    /\ handler[h] = "look"
    /\ keys[reqKey[h]] = None
    /\ Goto(h, "slot")
    /\ UNCHANGED requestVars
    /\ HandlerOnly

\* Mutant: the deadline is set anew in every round.
GiveUpNever(h) == FALSE

\* Not there and two seconds are over.
GiveUp(h) ==
    /\ handler[h] = "look"
    /\ keys[reqKey[h]] = None
    /\ Answer(h, "limit_reached")
    /\ UNCHANGED requestVars
    /\ HandlerOnly

\* Mutant: an early return of dial keeps its slot.
ReleaseSlotForgotten == UNCHANGED registryVars

\* <-m.globalSem
ReleaseSlot ==
    /\ globalSem > 0
    /\ globalSem' = globalSem - 1
    /\ UNCHANGED poolVars

\* driver.Open or Ping failed: the slot is given back.
DialFail(h) ==
    /\ handler[h] = "dial"
    /\ ReleaseSlot
    /\ Answer(h, "dial_failed")
    /\ UNCHANGED <<age, queryVars, requestVars, reaperVars, stopper>>

\* Mutant: the loser of the race closes its pool and forgets the winner's.
DialLostForgetsWinner(h) ==
    /\ handler[h] = "dial"
    /\ keys[reqKey[h]] # None
    /\ Goto(h, "drop")
    /\ UNCHANGED requestVars
    /\ HandlerOnly

\* The ping succeeded, but a concurrent opener of the key was faster: its pool
\* is the answer, and the slot is given back once the lock is released.
DialLost(h) ==
    /\ handler[h] = "dial"
    /\ Adopt(h)
    /\ Goto(h, "drop")
    /\ HandlerOnly

DropDuplicate(h) ==
    /\ handler[h] = "drop"
    /\ ReleaseSlot
    /\ Answer(h, "conn_id")
    /\ UNCHANGED <<age, queryVars, requestVars, reaperVars, stopper>>

\* The ping succeeded and the key is still free: the pool is registered under a
\* new id, and its worker starts.
Register(h) ==
    LET c == nextID + 1 IN
    /\ handler[h] = "dial"
    /\ KeyFree(h)
    /\ nextID < MaxConnID
    /\ nextID' = c
    /\ conns' = conns \cup {c}
    /\ keys' = [keys EXCEPT ![reqKey[h]] = c]
    /\ key' = [key EXCEPT ![c] = reqKey[h]]
    /\ age' = [age EXCEPT ![c] = Fresh]
    /\ worker' = [worker EXCEPT ![c] = "select"]
    /\ reqConn' = [reqConn EXCEPT ![h] = c]
    /\ Answer(h, "conn_id")
    /\ UNCHANGED <<globalSem, closed, querySem, queue, task, reqKey,
                   resultChan, reaperVars, stopper>>

-------------------------------------------------------------------------------
(* POST /query: SubmitQuery *)

\* An id the client was given by an earlier /connect.
Issued == 1..nextID

\* Looking an id up in m.conns, under the lock, ends in step or in an error.
Lookup(h, c, step) ==
    /\ handler[h] = "idle"
    /\ reqConn' = [reqConn EXCEPT ![h] = c]
    /\ \/ c \in conns /\ Goto(h, step)
       \/ c \notin conns /\ Answer(h, "connection_not_found")
    /\ UNCHANGED <<reqKey, resultChan>>
    /\ HandlerOnly

\* The pool is looked up under the lock; its channel is used after the unlock.
Submit(h, c) == Lookup(h, c, "enqueue")

\* select { case mc.QueryChan <- task: default: }
Enqueue(h) ==
    LET c == reqConn[h] IN
    /\ handler[h] = "enqueue"
    /\ \/ /\ Len(queue[c]) < QueueDepth
          /\ queue' = [queue EXCEPT ![c] = Append(@, h)]
          /\ Goto(h, "await")
       \/ /\ Len(queue[c]) >= QueueDepth
          /\ Answer(h, "queue_full")
          /\ UNCHANGED queue
    /\ UNCHANGED <<registryVars, age, querySem, worker, task, requestVars,
                   reaperVars, stopper>>

\* select { case result := <-task.ResultChan }
TakeResult(h) ==
    /\ handler[h] = "await"
    /\ resultChan[h] # None
    /\ resultChan' = [resultChan EXCEPT ![h] = None]
    /\ Answer(h, resultChan[h])
    /\ UNCHANGED <<reqKey, reqConn>>
    /\ HandlerOnly

\* Mutant: SubmitQuery waits on the result channel alone.
SeeDoneNever(h) == FALSE

\* select { case <-mc.done }: also possible when a result is there as well.
SeeDone(h) ==
    /\ handler[h] = "await"
    /\ reqConn[h] \in closed
    /\ Answer(h, "connection_not_found")
    /\ UNCHANGED requestVars
    /\ HandlerOnly

-------------------------------------------------------------------------------
(* consumeQueries: the worker of a pool *)

\* A step of a worker that concerns its pool's queue and the query slots only.
WorkerOnly == UNCHANGED <<registryVars, age, handlerVars, reaperVars, stopper>>

\* Mutant: the worker empties the queue before it returns.
WorkerExitDrains(c) ==
    /\ worker[c] = "select"
    /\ c \in closed
    /\ worker' = [worker EXCEPT ![c] = "exited"]
    /\ queue' = [queue EXCEPT ![c] = <<>>]
    /\ UNCHANGED <<querySem, task>>
    /\ WorkerOnly

\* Mutant: closeLocked does not cancel the worker's context.
WorkerExitNever(c) == FALSE

\* Mutant: the select has a default branch that returns.
WorkerExitIdle(c) ==
    /\ worker[c] = "select"
    /\ queue[c] = <<>>
    /\ worker' = [worker EXCEPT ![c] = "exited"]
    /\ UNCHANGED <<querySem, queue, task>>
    /\ WorkerOnly

\* select { case <-ctx.Done(): return }
WorkerExit(c) ==
    /\ worker[c] = "select"
    /\ c \in closed
    /\ worker' = [worker EXCEPT ![c] = "exited"]
    /\ UNCHANGED <<querySem, queue, task>>
    /\ WorkerOnly

\* A closed pool's worker may still pick a task: select chooses at random.
WorkerTake(c) ==
    /\ worker[c] = "select"
    /\ queue[c] # <<>>
    /\ task' = [task EXCEPT ![c] = Head(queue[c])]
    /\ queue' = [queue EXCEPT ![c] = Tail(@)]
    /\ worker' = [worker EXCEPT ![c] = "sem"]
    /\ UNCHANGED querySem
    /\ WorkerOnly

\* m.querySem <- struct{}{}
AcquireQuerySem(c) ==
    /\ worker[c] = "sem"
    /\ querySem < MaxConcurrentQuery
    /\ querySem' = querySem + 1
    /\ worker' = [worker EXCEPT ![c] = "start"]
    /\ UNCHANGED <<queue, task>>
    /\ WorkerOnly

\* Mutant: querySem is not given back.
ReleaseQuerySemForgotten == UNCHANGED querySem

\* <-m.querySem
ReleaseQuerySem ==
    /\ querySem > 0
    /\ querySem' = querySem - 1

\* executeOne returned: give querySem back and send on the task's ResultChan.
\* Only a handler that still waits for c reads that channel: one that left
\* because c was closed can never queue on c again.
Deliver(c, o) ==
    LET h == task[c] IN
    /\ ReleaseQuerySem
    /\ worker' = [worker EXCEPT ![c] = "select"]
    /\ task' = [task EXCEPT ![c] = None]
    /\ resultChan' = IF handler[h] = "await" /\ reqConn[h] = c
                     THEN [resultChan EXCEPT ![h] = o]
                     ELSE resultChan

\* executeOne: LastActive is refreshed, and the query starts if the DB is open.
ExecStart(c) ==
    /\ worker[c] = "start"
    /\ age' = [age EXCEPT ![c] = Fresh]
    /\ \/ /\ c \notin closed
          /\ worker' = [worker EXCEPT ![c] = "run"]
          /\ UNCHANGED <<querySem, task, resultChan>>
       \/ /\ c \in closed
          /\ Deliver(c, "db_error")
    /\ UNCHANGED <<registryVars, queue, handler, reqKey, reqConn, reply,
                   reaperVars, stopper>>

\* A query under way is not disturbed by DB.Close.
ExecEnd(c, o) ==
    /\ worker[c] = "run"
    /\ Deliver(c, o)
    /\ UNCHANGED <<registryVars, age, queue, handler, reqKey, reqConn, reply,
                   reaperVars, stopper>>

-------------------------------------------------------------------------------
(* Closing pools *)

\* Mutant: delete(m.conns, connID) is missing.
WithoutConnsNoDelete(ids) == conns

WithoutConns(ids) == conns \ ids

\* Mutant: delete(m.keys, mc.key) is missing.
WithoutKeysNoDelete(ids) == keys

\* A key is deleted if it leads to the pool being closed.
WithoutKeys(ids) ==
    [k \in Key |-> IF \E c \in ids : key[c] = k /\ keys[k] = c THEN None ELSE keys[k]]

\* closeLocked for each pool of ids, in one critical section.  The receive from
\* globalSem would block for ever, with the lock held, if no token were there.
CloseLocked(ids) ==
    /\ globalSem >= Cardinality(ids)
    /\ conns' = WithoutConns(ids)
    /\ keys' = WithoutKeys(ids)
    /\ closed' = closed \cup ids
    /\ globalSem' = globalSem - Cardinality(ids)
    /\ UNCHANGED <<nextID, key>>

\* POST /close
CloseConn(h, c) ==
    /\ handler[h] = "idle"
    /\ reqConn' = [reqConn EXCEPT ![h] = c]
    /\ \/ /\ c \in conns
          /\ CloseLocked({c})
          /\ Answer(h, "closed")
       \/ /\ c \notin conns
          /\ Answer(h, "connection_not_found")
          /\ UNCHANGED registryVars
    /\ UNCHANGED <<age, queryVars, reqKey, resultChan, reaperVars, stopper>>

\* GET /ping: the lookup, then the ping outside the lock.
Ping(h, c) == Lookup(h, c, "ping")

\* The database answers or does not; a ping begun before DB.Close may succeed.
PingEnd(h) ==
    /\ handler[h] = "ping"
    /\ Answer(h, "ping_ok") \/ Answer(h, "ping_lost")
    /\ UNCHANGED requestVars
    /\ HandlerOnly

-------------------------------------------------------------------------------
(* The reaper *)

\* A pool has been idle for another half of the timeout.  Only the reaper reads
\* LastActive, so without a reaper time is left out.
Tick(c) ==
    /\ IdleReaping
    /\ c \in conns
    /\ age[c] < Stale
    /\ age' = [age EXCEPT ![c] = @ + 1]
    /\ UNCHANGED <<registryVars, queryVars, handlerVars, reaperVars, stopper>>

\* Mutant: half the timeout is enough to be closed.
StalePoolsHalf == {c \in conns : age[c] >= Probable}

StalePools == {c \in conns : age[c] >= Stale}

\* reapOnce under the lock: the stale pools are found by their key and closed,
\* the ones idle for half the timeout are kept for probing.
ReapScan ==
    /\ reaper = "wait"
    /\ CloseLocked({keys[key[c]] : c \in StalePools} \cap conns)
    /\ toProbe' = {c \in conns : age[c] = Probable}
    /\ reaper' = IF toProbe' = {} THEN "wait" ELSE "probe"
    /\ UNCHANGED <<age, queryVars, handlerVars, failed, stopSig, stopper>>

AfterProbe(c) ==
    /\ toProbe' = toProbe \ {c}
    /\ reaper' = IF toProbe' = {} THEN "wait" ELSE "probe"

\* Mutant: the reaper's own ping counts as activity.
ProbeOkRefreshes(c) ==
    /\ reaper = "probe" /\ failed = None
    /\ c \in toProbe
    /\ AfterProbe(c)
    /\ age' = [age EXCEPT ![c] = Fresh]
    /\ UNCHANGED <<registryVars, queryVars, handlerVars, failed, stopSig, stopper>>

\* Half idle and alive: nothing changes, LastActive least of all.
ProbeOk(c) ==
    /\ reaper = "probe" /\ failed = None
    /\ c \in toProbe
    /\ AfterProbe(c)
    /\ UNCHANGED <<registryVars, age, queryVars, handlerVars, failed, stopSig, stopper>>

ProbeFail(c) ==
    /\ reaper = "probe" /\ failed = None
    /\ c \in toProbe
    /\ failed' = c
    /\ UNCHANGED <<registryVars, age, queryVars, handlerVars, reaper, toProbe,
                   stopSig, stopper>>

\* if current, ok := m.conns[mc.key]; ok && current == mc { m.closeLocked(...) }
\* m.conns is indexed by connection id, and mc.key is not one.
RetireDead ==
    /\ reaper = "probe" /\ failed # None
    /\ IF key[failed] \in conns /\ key[failed] = failed
       THEN CloseLocked({keys[key[failed]]})
       ELSE UNCHANGED registryVars
    /\ AfterProbe(failed)
    /\ failed' = None
    /\ UNCHANGED <<age, queryVars, handlerVars, stopSig, stopper>>

\* Mutant: the reaper returns without closing its done channel.
ReaperExitSilent ==
    /\ reaper = "wait" /\ stopSig
    /\ reaper' = "off"
    /\ UNCHANGED <<registryVars, age, queryVars, handlerVars, toProbe, failed,
                   stopSig, stopper>>

\* select { case <-stop: return }
ReaperExit ==
    /\ reaper = "wait" /\ stopSig
    /\ reaper' = "stopped"
    /\ UNCHANGED <<registryVars, age, queryVars, handlerVars, toProbe, failed,
                   stopSig, stopper>>

-------------------------------------------------------------------------------
(* Shutdown: StopReaper, then CloseAll *)

\* The one that finds m.reaperStop set takes it, closes it and joins the reaper.
StopReaper(s) ==
    /\ stopper[s] = "run"
    /\ stopper' = [stopper EXCEPT ![s] =
                     IF IdleReaping /\ ~stopSig THEN "join" ELSE "close"]
    /\ stopSig' = IdleReaping
    /\ UNCHANGED <<registryVars, age, queryVars, handlerVars, reaper, toProbe, failed>>

\* <-done
JoinReaper(s) ==
    /\ stopper[s] = "join"
    /\ reaper = "stopped"
    /\ stopper' = [stopper EXCEPT ![s] = "close"]
    /\ UNCHANGED <<registryVars, age, queryVars, handlerVars, reaperVars>>

CloseAll(s) ==
    /\ stopper[s] = "close"
    /\ CloseLocked(conns)
    /\ stopper' = [stopper EXCEPT ![s] = "down"]
    /\ UNCHANGED <<age, queryVars, handlerVars, reaperVars>>

-------------------------------------------------------------------------------
HandlerStep(h) ==
    \/ \E k \in Key : Connect(h, k)
    \/ TakeSlot(h) \/ NoSlot(h)
    \/ LookHit(h) \/ LookMiss(h) \/ GiveUp(h)
    \/ DialFail(h) \/ DialLost(h) \/ DropDuplicate(h) \/ Register(h)
    \/ \E c \in Issued : Submit(h, c) \/ CloseConn(h, c) \/ Ping(h, c)
    \/ Enqueue(h) \/ TakeResult(h) \/ SeeDone(h)
    \/ PingEnd(h)
    \/ WriteReply(h)

WorkerStep(c) ==
    \/ WorkerExit(c) \/ WorkerTake(c) \/ AcquireQuerySem(c)
    \/ ExecStart(c)
    \/ \E o \in Outcome : ExecEnd(c, o)

ReaperStep ==
    \/ ReapScan
    \/ \E c \in toProbe : ProbeOk(c) \/ ProbeFail(c)
    \/ RetireDead
    \/ ReaperExit

StopperStep(s) == StopReaper(s) \/ JoinReaper(s) \/ CloseAll(s)

Next ==
    \/ \E h \in Handler : HandlerStep(h)
    \/ \E c \in ConnID : WorkerStep(c)
    \/ \E c \in ConnID : Tick(c)
    \/ ReaperStep
    \/ \E s \in Stopper : StopperStep(s)

Spec == Init /\ [][Next]_vars

-------------------------------------------------------------------------------
(* Fairness.  Every goroutine that can take a step of its own takes it.  Two   *)
(* steps compete and need more: senders blocked on the querySem channel are    *)
(* served in FIFO order, and the two seconds of OpenConn run out however often *)
(* a slot seemed to be coming.  A select with several ready cases picks one at *)
(* random, so the reaper notices its stop channel in the end.  Requests and    *)
(* shutdowns are never owed, and neither is the end of dial or of a ping:      *)
(* db.Ping has no timeout.  Queries and probes have one (query.go:26,          *)
(* manager.go:329).                                                            *)

HandlerFairness(h) ==
    /\ WF_vars(TakeSlot(h) \/ NoSlot(h))
    /\ WF_vars(LookHit(h) \/ LookMiss(h) \/ GiveUp(h))
    /\ SF_vars(GiveUp(h))
    /\ WF_vars(DropDuplicate(h))
    /\ WF_vars(Enqueue(h))
    /\ WF_vars(TakeResult(h) \/ SeeDone(h))
    /\ WF_vars(WriteReply(h))

WorkerFairness(c) ==
    /\ WF_vars(WorkerExit(c) \/ WorkerTake(c))
    /\ SF_vars(AcquireQuerySem(c))
    /\ WF_vars(ExecStart(c))
    /\ WF_vars(\E o \in Outcome : ExecEnd(c, o))

ReaperFairness ==
    /\ \A c \in ConnID : WF_vars(Tick(c))
    /\ WF_vars(ReapScan)
    /\ WF_vars(\E c \in toProbe : ProbeOk(c) \/ ProbeFail(c))
    /\ WF_vars(RetireDead)
    /\ SF_vars(ReaperExit)

FairSpec ==
    /\ Spec
    /\ \A h \in Handler : HandlerFairness(h)
    /\ \A c \in ConnID : WorkerFairness(c)
    /\ ReaperFairness
    /\ \A s \in Stopper : WF_vars(JoinReaper(s) \/ CloseAll(s))

-------------------------------------------------------------------------------
(* Safety *)

HandlerState ==
    {"idle", "slot", "look", "dial", "drop", "enqueue", "await", "ping", "reply"}

RegistryType ==
    /\ conns \subseteq ConnID
    /\ keys \in [Key -> ConnID \cup {None}]
    /\ nextID \in 0..MaxConnID
    /\ globalSem \in 0..GlobalMaxOpen
    /\ key \in [ConnID -> Key \cup {None}]
    /\ closed \subseteq ConnID
    /\ age \in [ConnID -> {Fresh, Probable, Stale}]

QueryType ==
    /\ querySem \in 0..MaxConcurrentQuery
    /\ queue \in [ConnID -> Seq(Handler)]
    /\ worker \in [ConnID -> {"none", "select", "sem", "start", "run", "exited"}]
    /\ task \in [ConnID -> Handler \cup {None}]

RequestType ==
    /\ handler \in [Handler -> HandlerState]
    /\ reqKey \in [Handler -> Key \cup {None}]
    /\ reqConn \in [Handler -> ConnID \cup {None}]
    /\ resultChan \in [Handler -> Outcome \cup {None}]
    /\ reply \in [Handler -> Reply]

ReaperType ==
    /\ reaper \in {"off", "wait", "probe", "stopped"}
    /\ toProbe \subseteq ConnID
    /\ failed \in ConnID \cup {None}
    /\ stopSig \in BOOLEAN
    /\ stopper \in [Stopper -> {"run", "join", "close", "down"}]

\* Every variable has its type.
TypeOK ==
    /\ RegistryType
    /\ QueryType
    /\ RequestType
    /\ ReaperType

\* Openers between taking a slot and registering a pool or giving it back.
Dialing == {h \in Handler : handler[h] \in {"dial", "drop"}}

\* The tokens in globalSem are exactly one per registered pool and one per
\* opener that is dialing, whatever path an opener or a close takes: no slot
\* leaks, and the receive in closeLocked (manager.go:217), made with m.mu held,
\* always finds a token.
SlotAccounting == globalSem = Cardinality(conns) + Cardinality(Dialing)

\* m.keys and m.conns are two indexes of the same pools: a key leads to a
\* registered pool of that key, and every registered pool is the one its key
\* leads to, so there is at most one pool per driver+DSN (manager.go:128-129).
RegistryConsistent ==
    /\ \A k \in Key : keys[k] # None => keys[k] \in conns /\ key[keys[k]] = k
    /\ \A c \in conns : key[c] \in Key /\ keys[key[c]] = c

\* A pool ever registered is either in m.conns or torn down, never both and
\* never neither: no close path forgets a pool's context, channel and DB, or
\* closes its done channel a second time, which would panic (manager.go:209-218).
LiveOrClosed ==
    /\ conns \cap closed = {}
    /\ conns \cup closed = 1..nextID

\* The tokens in querySem are exactly the workers inside executeOne: the limit
\* on concurrent queries is neither exceeded nor worn down (manager.go:169-171).
QuerySlotAccounting ==
    querySem = Cardinality({c \in ConnID : worker[c] \in {"start", "run"}})

\* A request waiting for a result has its task in exactly one place: the pool's
\* queue, its worker's hands, or its own result channel.  No query is lost or
\* executed twice, also when pools are closed under it (manager.go:160-206).
TaskInOnePlace ==
    \A h \in Handler : handler[h] = "await" =>
        LET c == reqConn[h]
            queued == {i \in DOMAIN queue[c] : queue[c][i] = h}
        IN Cardinality(queued) + (IF task[c] = h THEN 1 ELSE 0)
             + (IF resultChan[h] # None THEN 1 ELSE 0) = 1

\* Only a worker that saw its pool closed is gone, and it holds no token and no
\* task: an open pool always has a worker to serve its queue.
WorkerPerPool ==
    \A c \in ConnID :
        /\ worker[c] = "none" <=> c \notin 1..nextID
        /\ worker[c] = "exited" => c \in closed
        /\ worker[c] \in {"sem", "start", "run"} <=> task[c] # None

\* CONNECTION_NOT_FOUND is said only of a pool that has been closed, and a
\* successful /connect names a pool of the driver+DSN asked for, even when it
\* lost the race to open one.
RepliesTrue ==
    \A h \in Handler :
        /\ reply[h] = "connection_not_found" => reqConn[h] \in closed
        /\ reply[h] = "conn_id" => /\ reqConn[h] \in 1..nextID
                                   /\ key[reqConn[h]] = reqKey[h]

\* A request names what its next step needs: an opener its key, and from the
\* moment it lost the race the winner's pool; the others a pool once opened.
RequestConsistent ==
    \A h \in Handler :
        /\ handler[h] \in {"slot", "look", "dial", "drop"} => reqKey[h] \in Key
        /\ handler[h] = "drop" => /\ reqConn[h] \in 1..nextID
                                  /\ key[reqConn[h]] = reqKey[h]
        /\ handler[h] \in {"enqueue", "await", "ping"} => reqConn[h] \in 1..nextID
        /\ handler[h] # "reply" => reply[h] = "none"

\* What TaskInOnePlace rests on: a task of h that c still holds is awaited there, or c is
\* closed and h may have left; so the next task of h never meets an earlier one.
Holds(c, h) == task[c] = h \/ \E i \in DOMAIN queue[c] : queue[c][i] = h

TasksConsistent ==
    \A h \in Handler :
        /\ \A c \in ConnID :
              Holds(c, h) => c \in closed \/ (handler[h] = "await" /\ reqConn[h] = c)
        /\ handler[h] = "enqueue" => ~Holds(reqConn[h], h)
        /\ handler[h] \notin {"await", "reply"} => resultChan[h] = None

\* The inductive invariant of ConnManagerProofs.
IInv ==
    /\ TypeOK
    /\ SlotAccounting
    /\ RegistryConsistent
    /\ LiveOrClosed
    /\ QuerySlotAccounting
    /\ WorkerPerPool
    /\ RequestConsistent
    /\ RepliesTrue
    /\ TasksConsistent
    /\ TaskInOnePlace

-------------------------------------------------------------------------------
(* Action properties *)

\* A pool leaves the registry only because a client closed it, a shutdown did,
\* or the reaper found it idle for the whole timeout, and not for half of it, after
\* which pools are only probed (manager.go:296-313).
OnlyStaleReaped ==
    [][\A c \in conns \ conns' :
          \/ \E h \in Handler : reqConn'[h] = c /\ reply'[h] = "closed" /\ handler[h] = "idle"
          \/ \E s \in Stopper : stopper[s] = "close" /\ stopper'[s] = "down"
          \/ age[c] = Stale]_vars

\* What the comment on StartReaper says (manager.go:250-252): a pool found dead
\* by a liveness probe is not left for the next client query to hit.
DeadPoolRetired ==
    [][failed # None /\ failed' = None => failed \notin conns']_vars

\* What the manager promises: PoolRegistry, reading keys as the open pools.
Registry == INSTANCE PoolRegistry WITH
                pool <- keys, retired <- closed, Capacity <- GlobalMaxOpen

\* Every step opens one pool, closes some, or changes nothing a client can see.
RegistrySpec == Registry!Spec

-------------------------------------------------------------------------------
(* Liveness *)

\* A query accepted into a queue is answered, although its pool, or the whole
\* manager, may be closed at any moment (manager.go:200-205).
QueryAnswered ==
    \A h \in Handler : handler[h] = "await" ~> handler[h] = "reply"

\* An opener does not spin for ever: it gets a slot, finds the pool another
\* opener registered, or gives up (manager.go:78-95).
OpenerLeavesLoop ==
    \A h \in Handler : handler[h] = "slot" ~> handler[h] \notin {"slot", "look"}

\* Closing a pool ends its worker, with tasks still queued or not.
WorkerEnds == \A c \in ConnID : c \in closed ~> worker[c] = "exited"

\* In serve mode a pool no query uses is closed in the end, as long as nobody
\* stops the reaper (manager.go:299-311).
IdlePoolReaped ==
    \A c \in ConnID :
        ~<>[](c \in conns /\ worker[c] = "select" /\ queue[c] = <<>> /\ ~stopSig)

\* Stopping ends, even when two goroutines shut down at once or the reaper is
\* in the middle of a probe (manager.go:280-289).
StopEnds == \A s \in Stopper : stopper[s] # "run" ~> stopper[s] = "down"
===============================================================================
