---------------------------- MODULE BridgedDropMC ----------------------------
(***************************************************************************)
(* BridgedDrop with two messages to forward, the first of which has two    *)
(* items to become in turn, an item of another client and room for two.    *)
(***************************************************************************)
EXTENDS BridgedDrop, TLC

CONSTANTS m1a, m1b, m2a, other, key1, key2

MCKindOf == <<"text", "file">>
MCKeyOf == (m1a :> key1) @@ (m1b :> key1) @@ (m2a :> key2) @@ (other :> NoKey)
MCSize == [i \in Items |-> 1]
MCKeyFor == <<key1, key2>>
=============================================================================
