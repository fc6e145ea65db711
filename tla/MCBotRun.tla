------------------------------ MODULE MCBotRun ------------------------------
(* Instances of BotRun for TLC. *)
EXTENDS BotRun
=============================================================================
