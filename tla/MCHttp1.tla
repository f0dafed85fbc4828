------------------------------ MODULE MCHttp1 ------------------------------
(***************************************************************************)
(* Http1Connection with two pipelined requests.                            *)
(***************************************************************************)
EXTENDS Http1Connection

MCRequests == 1 .. 2
MCMaxSends == <<3, 1>>

Token(i, kind) == [of |-> i, kind |-> kind, expect |-> FALSE, keep |-> TRUE]
Expecting == [Token(1, "head") EXCEPT !.expect = TRUE]

\* A request with a body, whole, oversized or malformed, before one without,
\* and a request without a body before a head that cannot be parsed.
MCStreams ==
    {<<Expecting, Token(1, "data"), Token(1, last), Token(2, "head")>> :
        last \in {"data", "big"}}
    \cup {<<Token(1, "head"), Token(1, "nil"), Token(1, "bad")>>,
          <<Token(1, "head"), Token(2, "badhead")>>}

\* Whatever an application may send, with these final answers.
MCAnswers ==
    {StartMessage("chunked", TRUE), StartMessage("chunked", FALSE),
     StartMessage("length", FALSE)}
Bodies == {BodyMessage(data, more) : data \in BOOLEAN, more \in BOOLEAN}
MCSays == [i \in MCRequests |-> MCAnswers \cup {Interim, Trailers} \cup Bodies]

\* One request, for the run that asks what must happen in the end.
OneRequest == 1 .. 1
OneSays == [i \in OneRequest |-> MCSays[i]]
OneMaxSends == <<3>>
OneStream == {<<Expecting, Token(1, "data"), Token(1, "data")>>}
=============================================================================
