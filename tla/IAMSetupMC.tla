----------------------------- MODULE IAMSetupMC -----------------------------
(***************************************************************************)
(* IAMSetup with setups begun under two bootstrap tokens (the token was    *)
(* rotated between two starts) and four confirmations: one of the second   *)
(* setup, two of the first, and one that names no setup at all.            *)
(***************************************************************************)
EXTENDS IAMSetup, TLC

CONSTANTS s1, s2, r1, r2, r3, r4, t1, t2

MCTokenOf == [s \in Setups |-> IF s = s2 THEN t2 ELSE t1]
MCSetupOf == r1 :> s1 @@ r2 :> s2 @@ r3 :> s1 @@ r4 :> NoSetup
=============================================================================
