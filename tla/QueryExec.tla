------------------------------- MODULE QueryExec -------------------------------
(***************************************************************************)
(* One execution of a query: Manager.executeOne (db-gateway/conn/query.go) *)
(* and errs.Classify (db-gateway/errs/errors.go).                           *)
(*                                                                         *)
(* A row is its number in the database's answer, so a list of rows is its  *)
(* length.  The query's deadline runs on its own: it may pass between any  *)
(* two steps.  database/sql (external) then closes the rows, in a          *)
(* goroutine of its own: from that moment Next returns false and Scan      *)
(* fails.  The database may also break the answer off, or be silent.       *)
(***************************************************************************)
EXTENDS Naturals

CONSTANTS
    MaxRowsPerQuery,    \* PoolConfig: rows kept of one answer
    MaxTotal            \* bound of the model: rows of the longest answer

ASSUME RowsAssumption ==
    /\ MaxRowsPerQuery \in Nat
    /\ MaxTotal \in Nat

VARIABLES
    total,      \* rows the query has in the database
    expired,    \* ctx.Err() = DeadlineExceeded
    rowsClosed, \* database/sql has closed the rows because ctx expired
    broken,     \* the answer broke off with an error Next does not show
    pc,         \* the statement executeOne is at
    badConn,    \* the error in hand is driver.ErrBadConn
    rows,       \* len(resultRows)
    truncated,  \* QueryResult.Truncated
    code        \* QueryResult.Error.Code, or "none"

envVars == <<total, expired, rowsClosed, broken>>
resultVars == <<rows, truncated, code>>
vars == <<envVars, pc, badConn, resultVars>>

Code == {"none", "QUERY_TIMEOUT", "CONNECTION_LOST", "DB_ERROR"}

Init ==
    /\ total \in 0..MaxTotal
    /\ expired = FALSE
    /\ rowsClosed = FALSE
    /\ broken = FALSE
    /\ pc = "query"
    /\ badConn = FALSE
    /\ rows = 0
    /\ truncated = FALSE
    /\ code = "none"

Return(t, c) ==
    /\ pc' = "returned"
    /\ truncated' = t
    /\ code' = c
    /\ UNCHANGED <<envVars, badConn, rows>>

\* Mutant: the query runs under context.Background().
ExpireNever == FALSE

\* context.WithTimeout: the deadline passes, at any moment.
Expire ==
    /\ pc # "returned"
    /\ ~expired
    /\ expired' = TRUE
    /\ UNCHANGED <<total, rowsClosed, broken, pc, badConn, resultVars>>

\* database/sql notices and closes the rows.
CloseRows ==
    /\ expired /\ ~rowsClosed
    /\ pc \in {"next", "check", "scan", "limit"}
    /\ rowsClosed' = TRUE
    /\ UNCHANGED <<total, expired, broken, pc, badConn, resultVars>>

\* QueryContext returns rows.
QueryOk ==
    /\ pc = "query"
    /\ pc' = "next"
    /\ UNCHANGED <<envVars, badConn, resultVars>>

\* QueryContext returns an error, of the connection or of the database.
QueryErr ==
    /\ pc = "query"
    /\ badConn' \in BOOLEAN
    /\ pc' = "classify"
    /\ UNCHANGED <<envVars, resultVars>>

\* What the error itself says.
Cause == IF badConn THEN "CONNECTION_LOST" ELSE "DB_ERROR"

\* Mutant: the cause is looked at before the deadline.
ClassifyCauseFirst ==
    /\ pc = "classify"
    /\ Return(FALSE, IF expired /\ ~badConn THEN "QUERY_TIMEOUT" ELSE Cause)

\* errs.Classify: an expired deadline overrides whatever the error says.
Classify ==
    /\ pc = "classify"
    /\ Return(FALSE, IF expired THEN "QUERY_TIMEOUT" ELSE Cause)

\* rows.Next() is true: one more row came.
NextRow ==
    /\ pc = "next"
    /\ ~rowsClosed
    /\ rows < total
    /\ pc' = "check"
    /\ UNCHANGED <<envVars, badConn, resultVars>>

\* rows.Next() is false after the last row.
NextEnd ==
    /\ pc = "next"
    /\ rows = total
    /\ Return(FALSE, "none")

\* rows.Next() is false because the rows were closed under it.
NextClosed ==
    /\ pc = "next"
    /\ rowsClosed
    /\ Return(FALSE, "none")

\* rows.Next() is false because the answer broke off: rows.Err(), which
\* executeOne does not call, has the reason.
NextBroken ==
    /\ pc = "next"
    /\ ~rowsClosed
    /\ rows < total
    /\ broken' = TRUE
    /\ pc' = "returned"
    /\ UNCHANGED <<total, expired, rowsClosed, badConn, resultVars>>

\* select { case <-ctx.Done(): return ... default: }
CheckDeadline ==
    /\ pc = "check"
    /\ IF expired
       THEN Return(TRUE, "QUERY_TIMEOUT")
       ELSE pc' = "scan" /\ UNCHANGED <<envVars, badConn, resultVars>>

\* Scan into interface{} fails only on closed rows.
Scan ==
    /\ pc = "scan"
    /\ IF rowsClosed
       THEN badConn' = FALSE /\ pc' = "classify"
       ELSE pc' = "limit" /\ UNCHANGED badConn
    /\ UNCHANGED <<envVars, resultVars>>

\* Mutant: the limit is tested as if the row had been appended already.
LimitReachedEarly == rows + 1 >= MaxRowsPerQuery

LimitReached == rows >= MaxRowsPerQuery

\* Mutant: the append sits in the loop over the row's two columns.
AppendPerColumn ==
    /\ pc = "limit"
    /\ IF LimitReached
       THEN Return(TRUE, "none")
       ELSE /\ rows' = rows + 2
            /\ pc' = "next"
            /\ UNCHANGED <<envVars, badConn, truncated, code>>

\* Mutant: the early return at the limit does not say Truncated.
AppendUnmarked ==
    /\ pc = "limit"
    /\ IF LimitReached
       THEN Return(FALSE, "none")
       ELSE /\ rows' = rows + 1
            /\ pc' = "next"
            /\ UNCHANGED <<envVars, badConn, truncated, code>>

\* A row too many ends the answer; any other is appended.
Append ==
    /\ pc = "limit"
    /\ IF LimitReached
       THEN Return(TRUE, "none")
       ELSE /\ rows' = rows + 1
            /\ pc' = "next"
            /\ UNCHANGED <<envVars, badConn, truncated, code>>

\* executeOne has returned: nothing happens any more.
Done == pc = "returned" /\ UNCHANGED vars

Step ==
    \/ QueryOk \/ QueryErr \/ Classify
    \/ NextRow \/ NextEnd \/ NextClosed \/ NextBroken
    \/ CheckDeadline \/ Scan \/ Append

Next == Expire \/ CloseRows \/ Step \/ Done

Spec == Init /\ [][Next]_vars

\* The worker goroutine runs and time passes.  Nothing obliges the database to
\* answer: while it is silent (query, and next with open rows) only the deadline
\* is owed, and that drivers give up when ctx does.
Answered == QueryOk \/ QueryErr
FairSpec ==
    /\ Spec
    /\ WF_vars(Expire)
    /\ WF_vars(CloseRows)
    /\ WF_vars(expired /\ Answered)
    /\ WF_vars(Classify \/ NextClosed \/ CheckDeadline \/ Scan \/ Append)

-------------------------------------------------------------------------------

\* Every variable has its type, and no more rows are kept than there are.
TypeOK ==
    /\ total \in 0..MaxTotal
    /\ expired \in BOOLEAN /\ rowsClosed \in BOOLEAN /\ broken \in BOOLEAN
    /\ badConn \in BOOLEAN /\ truncated \in BOOLEAN
    /\ pc \in {"query", "classify", "next", "check", "scan", "limit", "returned"}
    /\ rows \in 0..total
    /\ code \in Code

Returned == pc = "returned"

\* The answer never holds more than MaxRowsPerQuery rows (query.go:89), and when
\* executeOne calls it truncated without an error there really is a row it left
\* out: an answer of exactly MaxRowsPerQuery rows is whole, not truncated.
TruncatedHonest ==
    /\ rows <= MaxRowsPerQuery
    /\ Returned /\ truncated /\ code = "none" =>
          rows = MaxRowsPerQuery /\ rows < total

\* An answer with no error that is not marked truncated is whole, if no deadline
\* passed and nothing broke off while it was read (query.go:53-104).
WholeWhenUndisturbed ==
    Returned /\ code = "none" /\ ~truncated /\ ~expired /\ ~broken => rows = total

\* A timeout is reported only after the deadline, and no other error is reported
\* after it: Classify and the select in the loop agree (errs/errors.go:24-31).
\* The client retries on CONNECTION_LOST alone, so this decides what it repeats.
TimeoutIffLate ==
    /\ Returned /\ code = "QUERY_TIMEOUT" => expired
    /\ Returned /\ code \in {"CONNECTION_LOST", "DB_ERROR"} => ~expired

\* What holds between two steps: the loop has not passed its limit, a row is in
\* hand where one is expected, and nothing is said before executeOne returns.
InvWhileReading ==
    /\ rows <= MaxRowsPerQuery
    /\ pc \in {"check", "scan", "limit"} => rows < total
    /\ rowsClosed => expired
    /\ pc # "returned" => code = "none" /\ ~truncated

\* The inductive invariant of QueryExecProofs: what is true of every answer,
\* with what the loop keeps true so that it is (query.go:53-104).
IInv ==
    /\ TypeOK
    /\ InvWhileReading
    /\ TruncatedHonest
    /\ WholeWhenUndisturbed
    /\ TimeoutIffLate

\* What ADR-003 says of a query's timeout: the client gets the rows fetched so
\* far and QUERY_TIMEOUT.  So an answer the deadline cut short says that it was.
TimedOutIsMarked ==
    Returned /\ expired /\ ~broken /\ rows < total =>
        truncated \/ code = "QUERY_TIMEOUT"

\* A query returns although the database may never answer (query.go:26).
QueryReturns == <>Returned
===============================================================================
