-------------------------- MODULE TelegramBridgeMC --------------------------
(***************************************************************************)
(* TelegramBridge with one update of each kind that reaches Drop, one that *)
(* is only answered and one that is dropped.                               *)
(***************************************************************************)
EXTENDS TelegramBridge

MCKindOf == <<"text", "notice", "file", "big", "silent", "text">>
=============================================================================
