------------------------------- MODULE MCServer -------------------------------
(***************************************************************************)
(* Server with one worker beside the master, two connections, and room for *)
(* one of them in each worker.                                             *)
(***************************************************************************)
EXTENDS Server

MCChildren == {"w2"}
MCConnections == {"c1", "c2"}
=============================================================================
