------------------------------- MODULE MCTuiApp -------------------------------
(***************************************************************************)
(* Instances of TuiApp for TLC: two views, of one database or of two, that *)
(* show their rows in pages; the second has a page_size of zero.           *)
(***************************************************************************)
EXTENDS TuiApp, TLC

CONSTANTS v1, v2, g1, g2

MCGroupMaps == {(v1 :> g1) @@ (v2 :> g) : g \in {g1, g2}}
MCRowCounts == (v1 :> {0, 3}) @@ (v2 :> {0, 1})
MCPageSize == (v1 :> 2) @@ (v2 :> 0)
===============================================================================
