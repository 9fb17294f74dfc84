---------------------------- MODULE DropStoreMC ----------------------------
(***************************************************************************)
(* Instances of DropStore for TLC: requests of which two share a key and   *)
(* whose sizes exceed a quota of 2 in some combinations only.              *)
(***************************************************************************)
EXTENDS DropStore, TLC

CONSTANTS i1, i2, i3, k1, b1, b2

(* Two requests of which one has a key: their items can expire together. *)
OneKey   == [i \in Items |-> IF i = i1 THEN k1 ELSE NoKey]
MCKeyOf  == [i \in Items |-> IF i = i3 THEN NoKey ELSE k1]
MCSize   == [i \in Items |-> IF i = i3 THEN 2 ELSE 1]
NoFiles  == [i \in Items |-> {}]
TwoFiles == [i \in Items |-> IF i = i1 THEN {b1, b2} ELSE {}]

(* The two requests with the key differ in their names only. *)
Symmetry == Permutations({i1, i2})
=============================================================================
