---------------------------- MODULE QueryExecProofs ----------------------------
(***************************************************************************)
(* Proofs about QueryExec, for answers of every length and every limit on  *)
(* the rows kept of one.                                                   *)
(***************************************************************************)
EXTENDS QueryExec, TLAPS

LEMMA InitIInv == Init => IInv
<1> SUFFICES ASSUME Init  PROVE IInv
  OBVIOUS
<1> USE RowsAssumption DEF Init
<1>1. TypeOK
  <2>1. total \in 0..MaxTotal /\ rows \in 0..total
    OBVIOUS
  <2>2. /\ expired \in BOOLEAN /\ rowsClosed \in BOOLEAN /\ broken \in BOOLEAN
        /\ badConn \in BOOLEAN /\ truncated \in BOOLEAN
    BY Zenon
  <2>3. pc \in {"query", "classify", "next", "check", "scan", "limit", "returned"}
    BY Zenon
  <2>4. code \in Code
    BY Zenon DEF Code
  <2>. QED  BY <2>1, <2>2, <2>3, <2>4, Zenon DEF TypeOK
<1>2. InvWhileReading
  BY DEF InvWhileReading
<1>3. TruncatedHonest /\ WholeWhenUndisturbed /\ TimeoutIffLate
  BY DEF TruncatedHonest, WholeWhenUndisturbed, TimeoutIffLate, Returned
<1>. QED  BY <1>1, <1>2, <1>3 DEF IInv

LEMMA NextIInv == IInv /\ [Next]_vars => IInv'
<1> SUFFICES ASSUME IInv, [Next]_vars  PROVE IInv'
  OBVIOUS
<1> USE RowsAssumption DEF IInv, TypeOK, Code, InvWhileReading, TruncatedHonest,
        WholeWhenUndisturbed, TimeoutIffLate, Returned, envVars, resultVars, Return
<1>1. CASE Expire
  BY <1>1 DEF Expire
<1>2. CASE CloseRows
  BY <1>2 DEF CloseRows
<1>3. CASE QueryOk \/ QueryErr
  BY <1>3 DEF QueryOk, QueryErr
<1>4. CASE Classify
  <2>1. code' = (IF expired THEN "QUERY_TIMEOUT" ELSE Cause) /\ truncated' = FALSE
    BY <1>4, Zenon DEF Classify
  <2>2. UNCHANGED <<total, expired, rowsClosed, broken, badConn, rows>> /\ pc' = "returned"
    BY <1>4 DEF Classify
  <2>3. code' \in Code \ {"none"} /\ (code' = "QUERY_TIMEOUT" <=> expired)
    BY <2>1, Zenon DEF Cause
  <2>. QED  BY <2>1, <2>2, <2>3
<1>5. CASE NextRow
  BY <1>5 DEF NextRow
<1>6. CASE NextEnd
  BY <1>6 DEF NextEnd
<1>7. CASE NextClosed
  BY <1>7 DEF NextClosed
<1>7a. CASE NextBroken
  BY <1>7a DEF NextBroken
<1>8. CASE CheckDeadline
  BY <1>8 DEF CheckDeadline
<1>9. CASE Scan
  BY <1>9 DEF Scan
<1>10. CASE Append
  <2>1. CASE rows >= MaxRowsPerQuery
    <3>1. pc = "limit" /\ Return(TRUE, "none")
      BY <1>10, <2>1, Zenon DEF Append, LimitReached
    <3>2. rows = MaxRowsPerQuery /\ rows < total
      BY <3>1, <2>1
    <3>. QED  BY <3>1, <3>2
  <2>2. CASE ~(rows >= MaxRowsPerQuery)
    BY <1>10, <2>2 DEF Append, LimitReached
  <2>. QED  BY <2>1, <2>2
<1>11. CASE Done \/ UNCHANGED vars
  BY <1>11 DEF Done, vars
<1>. QED
  BY <1>1, <1>2, <1>3, <1>4, <1>5, <1>6, <1>7, <1>7a, <1>8, <1>9, <1>10, <1>11 DEF Next, Step

\* The inductive invariant holds for every answer, deadline and limit: executeOne
\* (query.go:21-105) keeps it in every step.
THEOREM Invariance == Spec => []IInv
BY InitIInv, NextIInv, PTL DEF Spec

\* An answer stays within the limit, and truncated means that a row was left out.
THEOREM TruncationIsHonest == Spec => []TruncatedHonest
BY Invariance, PTL DEF IInv

\* An answer nothing disturbed and not marked truncated is whole.
THEOREM UndisturbedIsWhole == Spec => []WholeWhenUndisturbed
BY Invariance, PTL DEF IInv

\* QUERY_TIMEOUT is said after the deadline only, other errors before it only.
THEOREM TimeoutsAreTimeouts == Spec => []TimeoutIffLate
BY Invariance, PTL DEF IInv
===============================================================================
