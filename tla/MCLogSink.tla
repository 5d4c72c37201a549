----------------------------- MODULE MCLogSink -----------------------------
(* LogSink for TLC. *)
EXTENDS LogSink
=============================================================================
