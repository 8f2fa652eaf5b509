----------------------------- MODULE MCUpdater -----------------------------
(***************************************************************************)
(* Updater with the timer and somebody at the command line.                *)
(***************************************************************************)
EXTENDS Updater

CONSTANTS Timer, Hand
=============================================================================
