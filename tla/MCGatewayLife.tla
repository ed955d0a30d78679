----------------------------- MODULE MCGatewayLife -----------------------------
(***************************************************************************)
(* Instances of GatewayLife for TLC: everybody works in the same directory,*)
(* and some have a token.                                                  *)
(***************************************************************************)
EXTENDS GatewayLife, TLC

CONSTANTS r1, r2, c1, c2, cwd, home, t1

MCCwd == [p \in Proc |-> cwd]
MCEnvURL == [c \in Client |-> Daemon \ {c}]
MCToken == [p \in Proc |-> IF p \in {r1, c2} THEN t1 ELSE NoToken]
===============================================================================
