---------------------------- MODULE MCAssistant ----------------------------
(* Assistant without a configured provider, and what the older route is sent. *)
EXTENDS Assistant, TLC

NoChain == <<>>
Never   == {}
=============================================================================
