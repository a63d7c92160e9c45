-------------------------- MODULE MCConsolePlugin --------------------------
(* The console plugin installer for TLC.                                   *)
EXTENDS ConsolePlugin
=============================================================================
