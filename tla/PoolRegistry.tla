----------------------------- MODULE PoolRegistry -----------------------------
(***************************************************************************)
(* What the gateway's connection manager promises its clients, without any *)
(* of the machinery that keeps the promise: at most one open pool for each *)
(* driver+DSN, at most Capacity pools altogether, and connection ids that  *)
(* are never handed out twice.  ConnManager is shown to implement it.      *)
(***************************************************************************)
EXTENDS Naturals, FiniteSets

CONSTANTS
    Key,        \* driver+DSN pairs
    ConnID,     \* identifiers a pool can be given
    Capacity,   \* how many pools may be open at once
    None        \* "no pool"

VARIABLES
    pool,       \* pool[k]: the id of the open pool of k, or None
    retired     \* ids of pools that have been closed

vars == <<pool, retired>>

OpenPools == {pool[k] : k \in Key} \ {None}

Init ==
    /\ pool = [k \in Key |-> None]
    /\ retired = {}

\* A pool is opened for a key that has none, under an id never used before.
Open(k, id) ==
    /\ pool[k] = None
    /\ id \notin OpenPools \cup retired
    /\ Cardinality(OpenPools) < Capacity
    /\ pool' = [pool EXCEPT ![k] = id]
    /\ UNCHANGED retired

\* Some open pools are closed, by a client, the idle reaper or a shutdown.
Close(ids) ==
    /\ ids \subseteq OpenPools
    /\ pool' = [k \in Key |-> IF pool[k] \in ids THEN None ELSE pool[k]]
    /\ retired' = retired \cup ids

Next ==
    \/ \E k \in Key, id \in ConnID : Open(k, id)
    \/ \E ids \in SUBSET OpenPools : Close(ids)

Spec == Init /\ [][Next]_vars

\* No two keys share a pool, and an id that was retired is not in use again.
IdsUnique ==
    /\ \A j, k \in Key : pool[j] = pool[k] /\ pool[j] # None => j = k
    /\ OpenPools \cap retired = {}
===============================================================================
