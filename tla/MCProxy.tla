------------------------------- MODULE MCProxy -------------------------------
(***************************************************************************)
(* Proxy with three requests, one of which has a body, and every answer.   *)
(***************************************************************************)
EXTENDS Proxy

MCRequests == {"get", "again", "post"}
MCWithBody == {"post"}
MCRepeatable == {"get", "again"}
MCAnswers ==
    [r \in MCRequests |->
        CASE r = "get" -> {"lying", "chunked"}
          [] r = "again" -> {"length", "eof", "bad"}
          [] OTHER -> {"empty", "once"}]
=============================================================================
