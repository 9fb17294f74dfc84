------------------------------ MODULE OwnerSpec ------------------------------
(***************************************************************************)
(* What setting up the owner promises, with no request, lock, snapshot or  *)
(* restart in sight: one setup is chosen at some instant, once and for     *)
(* all, and at that same instant the bootstrap token it was begun with is  *)
(* spent for good.  IAMSetup, the model of the code, implements this.      *)
(***************************************************************************)

CONSTANTS
  Setups,
  TokenOf   \* [Setups -> bootstrap tokens]

VARIABLES
  chosen,   \* the setups an owner was made from
  spent     \* bootstrap tokens that were consumed

Init == chosen = {} /\ spent = {}

Choose(s) ==
  /\ chosen = {}
  /\ chosen' = {s}
  /\ spent' = spent \cup {TokenOf[s]}

Next == \E s \in Setups : Choose(s)

Spec == Init /\ [][Next]_<<chosen, spent>>
=============================================================================
