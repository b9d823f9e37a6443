------------------------------ MODULE MCBotNotices ------------------------------
(***************************************************************************)
(* An instance of BotNotices for TLC: two lines, and two states of the     *)
(* files.  In some behaviours the alarms are at work beside the journal,   *)
(* with no limit on probes and checks and no clock; in the others the      *)
(* journal and the watcher of the files are, over three units of time.     *)
(***************************************************************************)
EXTENDS BotNotices, TLC

CONSTANTS a, b

Alarms == {Journal, Prober, Drift, Notifier}
Windows == {Journal, StateFiles, Notifier}

MCCrews == {Alarms, Windows}
MCMaxTime == (Alarms :> 0) @@ (Windows :> 3)
MCMaxNews == (Alarms :> 1) @@ (Windows :> 3)
=============================================================================
