---------------------------- MODULE MCWsThreads -----------------------------
(* WsThreads for TLC. *)
EXTENDS WsThreads
=============================================================================
