--------------------------- MODULE AccessTokensMC ---------------------------
(***************************************************************************)
(* AccessTokens with the bridge and one request at the edge, made with a   *)
(* device's key that may also list or with a session.  Times keep the      *)
(* order of the code's and shrink the rest.                                *)
(***************************************************************************)
EXTENDS AccessTokens, TLC

CONSTANTS bridgeKey, deviceKey, request, List, Odd

MCLeads     == {-1, 1}
MCScopes    == bridgeKey :> {Create} @@ deviceKey :> {Create, List}
WideScopes  == bridgeKey :> {Create, List} @@ deviceKey :> {Create}
DeviceCred  == Bridge :> bridgeKey @@ request :> deviceKey
SessionCred == Bridge :> bridgeKey @@ request :> Session
=============================================================================
