------------------------------- MODULE MCCliRun -------------------------------
(***************************************************************************)
(* Instances of CliRun for TLC: two views of one database and one of       *)
(* another.                                                                *)
(***************************************************************************)
EXTENDS CliRun, TLC

CONSTANTS v1, v2, v3, g1, g2

MCView == {v1, v2, v3}
MCGroup == {g1, g2}
MCGroupOf == (v1 :> g1) @@ (v2 :> g1) @@ (v3 :> g2)

\* Ctrl+C also reaches the gateway the run spawned, which is the harder case.
MCMaxInterrupts == [owns \in BOOLEAN |-> IF owns THEN 1 ELSE 0]
NoInterrupts == [owns \in BOOLEAN |-> 0]
===============================================================================
