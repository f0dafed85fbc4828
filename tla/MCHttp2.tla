------------------------------ MODULE MCHttp2 ------------------------------
(***************************************************************************)
(* Http2Connection with two streams.                                       *)
(***************************************************************************)
EXTENDS Http2Connection

MCRequests == 1 .. 2
MCUploads == <<1, 0>>
MCSays ==
    <<{StartMessage("chunked", TRUE), BodyMessage(FALSE, FALSE), Trailers},
      {}>>
MCChunk == <<1, 2>>
MCStreamWindow == <<1, 1>>
MCMaxSends == <<2, 0>>

\* One stream, for the run that asks how often its credit goes back.
OneRequest == 1 .. 1
OneUploads == <<1>>
OneSays == <<{StartMessage("chunked", FALSE), BodyMessage(TRUE, FALSE)}>>
OneChunk == <<2>>
OneStreamWindow == <<1>>
OneMaxSends == <<2>>
=============================================================================
