----------------------------- MODULE MCConnManager -----------------------------
(***************************************************************************)
(* Instances of ConnManager for TLC.  Handlers are interchangeable, and so *)
(* are keys and stoppers; connection ids are not, they are handed out in   *)
(* order.  Symmetry is used by the safety runs only.                       *)
(***************************************************************************)
EXTENDS ConnManager, TLC

Interchangeable ==
    Permutations(Handler) \cup Permutations(Key) \cup Permutations(Stopper)
===============================================================================
