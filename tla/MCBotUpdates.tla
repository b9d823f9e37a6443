------------------------------ MODULE MCBotUpdates ------------------------------
(***************************************************************************)
(* An instance of BotUpdates for TLC: two updates of any kind.             *)
(***************************************************************************)
EXTENDS BotUpdates, TLC
=============================================================================
