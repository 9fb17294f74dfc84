---------------------------- MODULE IAMAccessMC ----------------------------
(***************************************************************************)
(* IAMAccess with five casts:                                              *)
(*   four logins of one name from two addresses, and one of another name;  *)
(*   two logged-in browsers that log out, revoke one session and revoke    *)
(*   each other;                                                           *)
(*   a browser that registers and deletes a passkey while two finishes of  *)
(*   one ceremony and one of the wrong kind log in with it;                *)
(*   a browser that creates and revokes a link of one use, redeemed thrice;*)
(*   a browser that logs out or revokes the others while a passkey it has  *)
(*   registered logs in.                                                   *)
(* IAMShares.cfg has one browser that creates a link and one redemption.   *)
(***************************************************************************)
EXTENDS IAMAccess, TLC

CONSTANTS a1, a2, a3, a4, a5, n1, n2, i1, i2,
          out, one, others1, others2, begin, register, delete, create, revoke,
          f1, f2, f3, k1, k2, k3, p1, c1, c2, x1

MCNameOf == [a \in Attempts |-> IF a = a5 THEN n2 ELSE n1]
MCAddressOf == [a \in Attempts |-> IF a \in {a1, a3} THEN i1 ELSE i2]
MCOpOf == out :> "logout" @@ one :> "revokeSession"
       @@ others1 :> "revokeOthers" @@ others2 :> "revokeOthers"
       @@ begin :> "beginRegistration" @@ register :> "finishRegistration"
       @@ delete :> "deletePasskey" @@ create :> "createShare" @@ revoke :> "revokeShare"
MCSessionOf == [r \in Requests |-> IF r = others2 THEN a2 ELSE a1]
MCTargetOf == [r \in Requests |-> CASE r = one -> a2
                                    [] r \in {create, revoke} -> x1
                                    [] OTHER -> p1]
MCCeremonyOf == [q \in Finishes \cup {begin, register} |-> IF q \in {f1, f2} THEN c1 ELSE c2]
MCPasskeyOf == [f \in Finishes |-> p1]
MCShareOf == [k \in Redeems |-> x1]
MCMaxUses == [x \in Shares |-> 1]
MCCasts == {{a1, a2, a3, a4, a5}, {a1, a2, out, one, others1, others2},
            {a1, begin, register, delete, f1, f2, f3}, {a1, create, revoke, k1, k2, k3},
            {a1, begin, register, f1, out, others1}}
MCShareCasts == {{a1, create, k1}}
=============================================================================
