----------------------------- MODULE MCSingleWire -----------------------------
(* The link with few commands and log entries. *)
EXTENDS SingleWire
=============================================================================
