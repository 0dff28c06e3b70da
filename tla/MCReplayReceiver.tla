-------------------------- MODULE MCReplayReceiver --------------------------
(***************************************************************************)
(* Model of ReplayReceiver: three words of two bits, and integers just     *)
(* wide enough for numbers to leave the window and to reach MaxInt64.      *)
(***************************************************************************)
EXTENDS ReplayReceiver
=============================================================================
