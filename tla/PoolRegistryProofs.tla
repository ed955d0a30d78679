--------------------------- MODULE PoolRegistryProofs ---------------------------
(***************************************************************************)
(* What PoolRegistry promises, proved of it once.  ConnManager implements  *)
(* PoolRegistry, and CliRun and TuiApp are written against it, so all      *)
(* three may rely on this.                                                 *)
(***************************************************************************)
EXTENDS PoolRegistry, FiniteSetTheorems, TLAPS

\* What is open, at most: finitely many pools, within the capacity.
WithinCapacity == IsFiniteSet(OpenPools) /\ Cardinality(OpenPools) <= Capacity

Inv == pool \in [Key -> ConnID \cup {None}] /\ IdsUnique /\ WithinCapacity

LEMMA InitInv == Capacity \in Nat /\ Init => Inv
<1> SUFFICES ASSUME Capacity \in Nat, Init  PROVE Inv
  OBVIOUS
<1>1. OpenPools = {}
  BY DEF Init, OpenPools
<1>2. WithinCapacity
  BY <1>1, FS_EmptySet DEF WithinCapacity
<1>. QED  BY <1>1, <1>2 DEF Init, Inv, IdsUnique

LEMMA NextInv == Capacity \in Nat /\ None \notin ConnID /\ Inv /\ [Next]_vars => Inv'
<1> SUFFICES ASSUME Capacity \in Nat, None \notin ConnID, Inv, [Next]_vars  PROVE Inv'
  OBVIOUS
<1> USE DEF Inv, IdsUnique
<1>1. ASSUME NEW k \in Key, NEW id \in ConnID, Open(k, id)  PROVE Inv'
  <2>1. OpenPools' = OpenPools \cup {id} /\ id \notin OpenPools
    BY <1>1 DEF Open, OpenPools
  <2>2. WithinCapacity'
    <3>1. IsFiniteSet(OpenPools) /\ Cardinality(OpenPools) \in Nat
      BY FS_CardinalityType DEF WithinCapacity
    <3>2. IsFiniteSet(OpenPools') /\ Cardinality(OpenPools') = Cardinality(OpenPools) + 1
      BY <2>1, <3>1, FS_AddElement
    <3>3. Cardinality(OpenPools) < Capacity
      BY <1>1 DEF Open
    <3>. QED  BY <3>1, <3>2, <3>3 DEF WithinCapacity
  <2>. QED  BY <1>1, <2>1, <2>2 DEF Open, OpenPools
<1>2. ASSUME NEW ids \in SUBSET OpenPools, Close(ids)  PROVE Inv'
  <2>1. \A k \in Key : pool'[k] = IF pool[k] \in ids THEN None ELSE pool[k]
    BY <1>2 DEF Close
  <2>2. OpenPools' = OpenPools \ ids
    BY <2>1 DEF OpenPools
  <2>3. WithinCapacity'
    BY <2>2, FS_Subset, FS_CardinalityType DEF WithinCapacity
  <2>4. pool' \in [Key -> ConnID \cup {None}] /\ OpenPools' \cap retired' = {}
    BY <1>2, <2>2 DEF Close
  <2>. QED  BY <2>1, <2>3, <2>4
<1>3. CASE UNCHANGED vars
  BY <1>3 DEF vars, OpenPools, WithinCapacity
<1>. QED  BY <1>1, <1>2, <1>3 DEF Next

LEMMA Invariance ==
    ASSUME Capacity \in Nat, None \notin ConnID
    PROVE  Spec => []Inv
<1>1. Init => Inv
  BY InitInv
<1>2. Inv /\ [Next]_vars => Inv'
  BY NextInv
<1>. QED  BY <1>1, <1>2, PTL DEF Spec

\* No two databases share a pool, and no pool in use is one that was closed
\* (manager.go:127-157, 208-218).
THEOREM PoolsDistinct ==
    ASSUME Capacity \in Nat, None \notin ConnID
    PROVE  Spec => []IdsUnique
<1>1. Inv => IdsUnique
  BY DEF Inv
<1>. QED  BY <1>1, Invariance, PTL

\* At most Capacity pools are open (manager.go:78-97).
THEOREM CapacityKept ==
    ASSUME Capacity \in Nat, None \notin ConnID
    PROVE  Spec => []WithinCapacity
<1>1. Inv => WithinCapacity
  BY DEF Inv
<1>. QED  BY <1>1, Invariance, PTL

\* The id of a pool that was closed is never that of another one: a client that keeps an
\* old id is told CONNECTION_NOT_FOUND, and never reads another database.
KeepsIdsApart ==
    /\ retired \subseteq retired'
    /\ \A k \in Key : pool'[k] \in {None, pool[k]} \/ pool'[k] \notin retired'

Keyed == DOMAIN pool = Key

LEMMA PoolKeyed == Spec => []Keyed
<1>1. Init => Keyed
  BY DEF Init, Keyed
<1>2. Keyed /\ [Next]_vars => Keyed'
  BY DEF Next, Open, Close, vars, Keyed
<1>. QED  BY <1>1, <1>2, PTL DEF Spec

THEOREM IdsNeverReused == Spec => [][KeepsIdsApart]_vars
<1>1. ASSUME Keyed, NEW k \in Key, NEW id \in ConnID, Open(k, id)  PROVE KeepsIdsApart
  BY <1>1 DEF Open, Keyed, KeepsIdsApart
<1>2. ASSUME NEW ids \in SUBSET OpenPools, Close(ids)  PROVE KeepsIdsApart
  BY <1>2 DEF Close, KeepsIdsApart
<1>3. Keyed /\ [Next]_vars => [KeepsIdsApart]_vars
  BY <1>1, <1>2 DEF Next
<1>. QED  BY <1>3, PoolKeyed, PTL DEF Spec
===============================================================================
