----------------------------- MODULE MCWebSocket -----------------------------
(***************************************************************************)
(* WebSocketSession with a server that asks twice for its end.             *)
(***************************************************************************)
EXTENDS WebSocketSession

MCClosers == {"first", "second"}
=============================================================================
