---------------------------- MODULE MCFanOutStore ----------------------------
(* The events and batches of MCSqliteStore, sent to both backends.          *)
EXTENDS FanOutStore, MCSqliteStore
==============================================================================
