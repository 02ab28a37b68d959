--------------------------- MODULE MCWatchManager ---------------------------
(***************************************************************************)
(* WatchManager for TLC: a channel smaller than the number of events that  *)
(* can be under way, so that senders block on it.                          *)
(***************************************************************************)
EXTENDS WatchManager, TLC

CONSTANT cb1
=============================================================================
