---------------------------- MODULE ASGIRequest ----------------------------
(***************************************************************************)
(* The plumbing between a protocol handler and one run of the application  *)
(* (src/echocorn/utils.py:689-994): a queue of request messages, a queue   *)
(* of response messages, the two events that signal room in them, and what *)
(* run_app still sends for an application that ends without finishing its  *)
(* response.  Every operator maps an exchange to the exchange after it.    *)
(***************************************************************************)
EXTENDS Integers, Sequences

CONSTANTS
    RecvMax,    \* recv_maxsize
    SendMax     \* send_maxsize

ASSUME QueueAssumption ==
    /\ RecvMax \in Nat \ {0}
    /\ SendMax \in Nat \ {0}

Framings == {"chunked", "length", "close", "none"}

\* What the application sends.  How the answer will be framed, which the
\* handler reads off the request and the headers, is part of the start message;
\* a body message carries data or is empty.
StartMessage(framing, trailers) ==
    [kind |-> "start", framing |-> framing, trailers |-> trailers]
BodyMessage(data, more) ==
    [kind |-> "body", data |-> data, more |-> more, aborted |-> FALSE]

\* Mutant: a response that was given up ends like one that is whole.
PlainEnd == BodyMessage(FALSE, FALSE)

AbortedEnd == [kind |-> "body", data |-> FALSE, more |-> FALSE, aborted |-> TRUE]
Interim == [kind |-> "interim"]
Trailers == [kind |-> "trailers"]

Messages ==
    [kind : {"start"}, framing : Framings, trailers : BOOLEAN]
    \cup [kind : {"body"}, data : BOOLEAN, more : BOOLEAN, aborted : BOOLEAN]
    \cup {Interim, Trailers}

RequestMessages == {"data", "end", "disconnect"}

Exchanges ==
    [recv : Seq(RequestMessages), send : Seq(Messages),
     recvSpace : BOOLEAN, sendSpace : BOOLEAN,
     started : BOOLEAN, announced : BOOLEAN, trailersSent : BOOLEAN,
     bodyEnded : BOOLEAN, disconnected : BOOLEAN, finished : BOOLEAN,
     complete : BOOLEAN, keep : BOOLEAN, asks : BOOLEAN]

NewExchange ==
    [recv |-> <<>>, send |-> <<>>, recvSpace |-> TRUE, sendSpace |-> TRUE,
     started |-> FALSE, announced |-> FALSE, trailersSent |-> FALSE,
     bodyEnded |-> FALSE, disconnected |-> FALSE, finished |-> FALSE,
     complete |-> FALSE, keep |-> TRUE, asks |-> FALSE]

-----------------------------------------------------------------------------
\* What the handler calls.

\* feed_request answers FEED_GONE, FEED_FULL, or queues the message.
Gone(r) == r.finished \/ r.disconnected
Full(r) == Len(r.recv) = RecvMax
Feed(r, message) == [r EXCEPT !.recv = Append(@, message)]

\* wait_for_space clears the event before it sleeps.
AwaitSpace(r) == [r EXCEPT !.recvSpace = FALSE]

\* A queue that is full keeps what it has: the disconnect is not queued.
Offered(r, message) ==
    IF Full(r) THEN r.recv ELSE Append(r.recv, message)

\* Mutant: the exchange is not over for the side that sends.
NotifyDisconnectOnly(r) ==
    [r EXCEPT !.disconnected = TRUE, !.recvSpace = TRUE,
              !.recv = Offered(r, "disconnect")]

NotifyDisconnect(r) ==
    [r EXCEPT !.disconnected = TRUE, !.finished = TRUE, !.recvSpace = TRUE,
              !.recv = Offered(r, "disconnect")]

MarkFinished(r) ==
    [r EXCEPT !.finished = TRUE, !.disconnected = TRUE,
              !.sendSpace = TRUE, !.recvSpace = TRUE,
              !.recv = IF r.disconnected THEN @ ELSE Offered(r, "disconnect")]

\* mark_finished and response_complete.set(), the end of every writer.
Completed(r) == [MarkFinished(r) EXCEPT !.complete = TRUE]

\* next_response_message takes the oldest message and signals room.
Taken(r) == [r EXCEPT !.send = Tail(@), !.sendSpace = TRUE]

-----------------------------------------------------------------------------
\* What the application calls.

\* receive takes the oldest request message and signals room; with nothing
\* queued on an exchange that is over, it answers http.disconnect by itself.
Received(r) == [r EXCEPT !.recv = Tail(@), !.recvSpace = TRUE]
ReceiveAnswersAlone(r) == r.disconnected /\ r.recv = <<>>

\* send notes what the message means for the response before it queues it ...
Noted(r, m) ==
    CASE m.kind = "start" -> [r EXCEPT !.started = TRUE,
                                       !.announced = m.trailers]
      [] m.kind = "body" -> [r EXCEPT !.bodyEnded = @ \/ (~m.more /\ ~m.aborted)]
      [] m.kind = "trailers" -> [r EXCEPT !.trailersSent = TRUE,
                                          !.bodyEnded = TRUE]
      [] OTHER -> r

\* ... and raises, changing nothing, for one that is out of place.
InPlace(r, m) ==
    CASE m.kind = "start" -> ~r.started
      [] m.kind \in {"body", "trailers"} -> r.started
      [] OTHER -> TRUE

\* Mutant: the queue of responses takes one message too many.
RoomForOneMore(r) == SendMax - Len(r.send) + 1

\* _enqueue: as many of the messages as there is room for.  The first that
\* does not fit waits, unless the exchange is over, and then none is queued.
Room(r) == SendMax - Len(r.send)
Fits(r, todo) ==
    IF r.finished THEN 0 ELSE IF Len(todo) <= Room(r) THEN Len(todo) ELSE Room(r)
Unsent(r, todo) ==
    IF r.finished THEN <<>> ELSE SubSeq(todo, Fits(r, todo) + 1, Len(todo))
Enqueued(r, todo) ==
    [r EXCEPT !.send = @ \o SubSeq(todo, 1, Fits(r, todo)),
              !.sendSpace = IF Unsent(r, todo) = <<>> THEN @ ELSE FALSE]

\* Mutant: announced trailers are not sent for the application.
ClosingBodyOnly(r) ==
    IF r.bodyEnded THEN <<>> ELSE <<BodyMessage(FALSE, FALSE)>>

\* _finish: what ends a response the application left open.
Closing(r) ==
    IF r.announced /\ ~r.trailersSent THEN <<Trailers>>
    ELSE IF r.bodyEnded THEN <<>>
    ELSE <<BodyMessage(FALSE, FALSE)>>

\* run_app: what is still sent for an application that returned, raised, or
\* raised ResponseAborted.
Whole == <<StartMessage("chunked", FALSE), BodyMessage(TRUE, FALSE)>>
LastWords(r, how) ==
    CASE how = "return" ->
            IF r.complete THEN <<>>
            ELSE IF r.started THEN Closing(r)
            ELSE <<StartMessage("none", FALSE)>> \o Closing(r)
      [] how = "raise" ->
            IF ~r.started THEN Whole
            ELSE IF ~r.bodyEnded THEN <<AbortedEnd>>
            ELSE IF r.announced /\ ~r.trailersSent THEN Closing(r)
            ELSE <<>>
      [] how = "abort" ->
            IF ~r.started THEN Whole
            ELSE IF ~r.bodyEnded THEN <<AbortedEnd>>
            ELSE <<>>

\* Those messages are noted as if the application had sent them, all but the
\* end of the body, which run_app queues without a note.
Ended(r, how) ==
    [r EXCEPT !.started = @ \/ LastWords(r, how) # <<>>,
              !.trailersSent = @ \/ LastWords(r, how) = <<Trailers>>]
=============================================================================
