---------------------------- MODULE DropEventsMC ----------------------------
(***************************************************************************)
(* DropEvents with one page that uploads and edits, changes made elsewhere *)
(* and by expiry, and two list requests in flight.                         *)
(***************************************************************************)
EXTENDS DropEvents, TLC

CONSTANTS p1, upload, edit, elsewhere, expiry

MCKindOf == upload :> "upload" @@ edit :> "edit" @@ elsewhere :> "upload" @@ expiry :> "expiry"
MCMadeBy == [c \in Changes |-> IF c \in {upload, edit} THEN p1 ELSE Elsewhere]
=============================================================================
