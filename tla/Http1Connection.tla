-------------------------- MODULE Http1Connection --------------------------
(***************************************************************************)
(* One HTTP/1.1 connection (src/echocorn/http1.py:438-1427): the reader    *)
(* task that parses heads and bodies out of one buffer, the writer task of *)
(* the response in progress, the application task of every request that    *)
(* was dispatched, the watchdog, and the callbacks of the transport.  A    *)
(* step is what one task does between two awaits.                          *)
(*                                                                         *)
(* What the client sends is a sequence of tokens, each the head of a       *)
(* request or a unit of its body; the buffer holds the tokens that have    *)
(* arrived and were not read yet.                                          *)
(***************************************************************************)
EXTENDS Application

CONSTANTS
    Streams,    \* what it may send, a set of sequences of tokens
    Declared,   \* data messages a declared content-length stands for
    DrainMax,   \* MAX_DRAIN_BYTES, in units
    MaxServed   \* self._max_requests

Kinds == {"head", "badhead", "data", "nil", "big", "bad"}
Tokens == [of : Requests, kind : Kinds, expect : BOOLEAN, keep : BOOLEAN]
IsHead(token) == token.kind \in {"head", "badhead"}

ASSUME ConnectionAssumption ==
    /\ \A s \in Streams :
        /\ s \in Seq(Tokens)
        /\ \A k \in DOMAIN s : IsHead(s[k]) <=> (\A j \in 1 .. k - 1 : s[j].of # s[k].of)
        /\ \A j, k \in DOMAIN s : j <= k => s[j].of <= s[k].of
    /\ Declared \in Nat \ {0}
    /\ DrainMax \in Nat /\ MaxServed \in Nat

VARIABLES
    stream,     \* what the client sends on this connection
    arrived,    \* how many of its tokens were received
    read,       \* how many of them were taken out of self._buffer
    taken,      \* the positions of the units decoded and not yet passed on
    state,      \* self._state
    reader,     \* where the reader task is
    dataEvent,  \* self._data_event
    cur,        \* the request self._request is for, 0 for None
    served,     \* self._requests_served
    continueSent, \* self._continue_sent
    writer,     \* the writer task and the locals of _write_response
    writePaused, \* self._write_paused
    closed,     \* self._closed
    lost,       \* whether the transport reported connection_lost
    heads,      \* the response heads on the wire, in order
    open        \* the request whose response body is unfinished on the wire

vars == <<stream, arrived, read, taken, state, reader, dataEvent, cur, served,
          continueSent, ex, app, writer, writePaused, closed, lost, heads, open>>

wire == <<heads, open, writePaused>>

NoWriter == [pc |-> "done", of |-> 0, started |-> FALSE, framing |-> "none",
             trailers |-> FALSE, awaiting |-> FALSE, sent |-> 0,
             out |-> <<>>, last |-> FALSE, aborted |-> FALSE]
NewWriter(i) == [NoWriter EXCEPT !.pc = "run", !.of = i]

-----------------------------------------------------------------------------
\* The buffer.
Buffer == SubSeq(stream, read + 1, arrived)
\* The units of the current body that are still to come off the buffer: what
\* self._body_remaining counts, or what the decoder needs to be done.
Rest == {k \in read + 1 .. Len(stream) : stream[k].of = cur}
Buffered == {k \in Rest : k <= arrived}

\* Mutant: what is buffered is taken for the rest of the body.
DrainableSoFar ==
    \/ state # "body"
    \/ Cardinality(Rest) <= DrainMax /\ \A k \in Rest : stream[k].kind # "bad"

\* _try_drain_buffered: the rest of the body, when all of it is buffered.
Drainable ==
    \/ state # "body"
    \/ /\ Rest \subseteq Buffered
       /\ Cardinality(Rest) <= DrainMax
       /\ \A k \in Rest : stream[k].kind # "bad"
Drained == read + Cardinality(Buffered)

-----------------------------------------------------------------------------
\* What goes out.  The transport may answer any write with pause_writing.
Emit(item, i, framing) ==
    /\ heads' = IF item \in {"head", "interim", "error"}
                THEN Append(heads, [of |-> i, kind |-> item,
                                    framing |-> framing, inside |-> open])
                ELSE heads
    /\ open' = CASE item = "head" /\ framing # "none" -> i
                 [] item = "end" -> 0
                 [] OTHER -> open
    /\ writePaused' \in {writePaused, TRUE}

\* _close, _abort_request_timeout and connection_lost cancel every task of the
\* connection.  A writer that is cancelled still runs its finally clause.
Shut(after) ==
    /\ closed' = TRUE
    /\ reader' = "done"
    /\ writer' = NoWriter
    /\ IF cur = 0 THEN ex' = after /\ app' = app
       ELSE /\ app' = [app EXCEPT ![cur] = Cancelled(@)]
            /\ ex' = [after EXCEPT ![cur] =
                        IF writer.pc = "run" THEN Completed(@) ELSE @]

\* eof_received and shutdown: _close from outside every task.
Close ==
    /\ ~closed
    /\ Shut(ex)
    /\ UNCHANGED <<stream, arrived, read, taken, state, dataEvent, cur, served,
                   continueSent, wire, lost>>

\* _abort_request_timeout, of a watchdog that may fire at any time.
AbortRequestTimeout ==
    /\ ~closed
    /\ Shut(IF cur = 0 THEN ex
            ELSE [ex EXCEPT ![cur] = [NotifyDisconnect(@) EXCEPT !.keep = FALSE]])
    /\ UNCHANGED <<stream, arrived, read, taken, state, dataEvent, cur, served,
                   continueSent, wire, lost>>

\* connection_lost: the peer went away, or a closed transport has ended.
ConnectionLost ==
    /\ ~lost
    /\ lost' = TRUE
    /\ read' = arrived
    /\ Shut(IF cur = 0 THEN ex ELSE [ex EXCEPT ![cur] = NotifyDisconnect(@)])
    /\ UNCHANGED <<stream, arrived, taken, state, dataEvent, cur, served,
                   continueSent, wire>>

DataReceived ==
    /\ ~closed
    /\ arrived < Len(stream)
    /\ arrived' = arrived + 1
    /\ dataEvent' = TRUE
    /\ UNCHANGED <<stream, read, taken, state, reader, cur, served, continueSent,
                   ex, app, writer, wire, closed, lost>>

ResumeWriting ==
    /\ writePaused
    /\ ~lost
    /\ writePaused' = FALSE
    /\ UNCHANGED <<stream, arrived, read, taken, state, reader, dataEvent, cur,
                   served, continueSent, ex, app, writer, closed, lost, heads, open>>

-----------------------------------------------------------------------------
\* The reader: _reader_loop, _process and what they call.

\* _start_request refuses a head it cannot parse, and any head for the target,
\* the host or the rate of its client.  The connection closes with the answer,
\* so what becomes of the buffer does not matter.
RefuseHead ==
    /\ reader = "ready" /\ state = "idle" /\ Buffer # <<>>
    /\ reader' = "error"
    /\ UNCHANGED <<stream, arrived, read, taken, state, dataEvent, cur, served,
                   continueSent, ex, app, writer, wire, closed, lost>>

Dispatch ==
    /\ reader = "ready" /\ state = "idle" /\ Buffer # <<>>
    /\ Buffer[1].kind = "head"
    /\ LET head == Buffer[1]
           body == \E k \in DOMAIN stream : k > read + 1 /\ stream[k].of = head.of
       IN  /\ cur' = head.of
           /\ state' = IF body THEN "body" ELSE "waiting"
           /\ ex' = [ex EXCEPT ![head.of] =
                [NewExchange EXCEPT !.keep = head.keep,
                                    !.asks = head.expect /\ body,
                                    !.recv = IF body THEN <<>> ELSE <<"end">>]]
           /\ app' = [app EXCEPT ![head.of] = Started(@)]
           /\ writer' = NewWriter(head.of)
    /\ read' = read + 1
    /\ continueSent' = FALSE
    /\ UNCHANGED <<stream, arrived, taken, reader, dataEvent, served, wire,
                   closed, lost>>

\* _fail_request, then _send_error: a response that was started is abandoned
\* where it is, and only an exchange without one gets an answer.
RefuseBody ==
    LET failed == [NotifyDisconnect(ex[cur]) EXCEPT !.keep = FALSE]
    IN  /\ taken' = {}
        /\ IF failed.started
           THEN Shut([ex EXCEPT ![cur] = NotifyDisconnect(failed)])
           ELSE /\ reader' = "error"
                /\ ex' = [ex EXCEPT ![cur] = failed]
                /\ UNCHANGED <<app, writer, closed>>
        /\ UNCHANGED <<read, state>>

\* What of the body is buffered is decoded at once; a unit the decoder rejects
\* loses the ones decoded with it.
DecodeBody ==
    /\ reader = "ready" /\ state = "body" /\ taken = {} /\ Buffered # {}
    /\ IF \E k \in Buffered : stream[k].kind = "bad" THEN RefuseBody
       ELSE /\ taken' = {k \in Buffered : stream[k].kind # "nil"}
            /\ read' = Drained
            /\ UNCHANGED <<state, reader, ex, app, writer, closed>>
    /\ UNCHANGED <<stream, arrived, dataEvent, cur, served, continueSent, wire, lost>>

\* _abandon_body: the application answered without reading the rest.
Abandon ==
    /\ taken' = {}
    /\ state' = "waiting"
    /\ reader' = "ready"
    /\ read' = IF state = "body" /\ Drainable THEN Drained ELSE read
    /\ ex' = [ex EXCEPT ![cur].keep = @ /\ Drainable]
    /\ UNCHANGED <<app, writer, closed>>

\* A task that sleeps in wait_for_space wakes on the event and looks again.
HasWoken == reader = "space" /\ ex[cur].recvSpace

\* The units are passed on in the order they came in.
NextUnit == CHOOSE k \in taken : \A j \in taken : k <= j

\* Mutant: a unit the queue has no room for is dropped.
DropUnit ==
    /\ taken' = taken \ {NextUnit}
    /\ reader' = "ready"
    /\ UNCHANGED <<ex, read, state, app, writer, closed>>

WaitForSpace ==
    /\ ex' = [ex EXCEPT ![cur] = AwaitSpace(@)]
    /\ reader' = "space"
    /\ UNCHANGED <<read, taken, state, app, writer, closed>>

EmitBody ==
    /\ taken # {}
    /\ reader = "ready" \/ HasWoken
    /\ IF stream[NextUnit].kind = "big" THEN RefuseBody
       ELSE IF Gone(ex[cur]) THEN Abandon
       ELSE IF Full(ex[cur])
       THEN WaitForSpace
       ELSE /\ ex' = [ex EXCEPT ![cur] = Feed(@, "data")]
            /\ taken' = taken \ {NextUnit}
            /\ reader' = "ready"
            /\ UNCHANGED <<read, state, app, writer, closed>>
    /\ UNCHANGED <<stream, arrived, dataEvent, cur, served, continueSent, wire, lost>>

FinishRequest ==
    /\ taken = {}
    /\ (reader = "ready" /\ state = "body" /\ Rest = {}) \/ HasWoken
    /\ IF Full(ex[cur]) /\ ~Gone(ex[cur])
       THEN /\ ex' = [ex EXCEPT ![cur] = AwaitSpace(@)]
            /\ reader' = "space"
            /\ UNCHANGED state
       ELSE /\ ex' = [ex EXCEPT ![cur] = IF Gone(@) THEN @ ELSE Feed(@, "end")]
            /\ reader' = "ready"
            /\ state' = "waiting"
    /\ UNCHANGED <<stream, arrived, read, taken, dataEvent, cur, served,
                   continueSent, app, writer, wire, closed, lost>>

\* _process made no progress: the event is cleared, then awaited.
NothingToRead ==
    \/ state = "idle" /\ Buffer = <<>>
    \/ state = "body" /\ Rest # {} /\ Buffered = {}
AwaitData ==
    /\ reader = "ready" /\ taken = {} /\ NothingToRead
    /\ reader' = "data"
    /\ dataEvent' = FALSE
    /\ UNCHANGED <<stream, arrived, read, taken, state, cur, served, continueSent,
                   ex, app, writer, wire, closed, lost>>

DataWake ==
    /\ reader = "data" /\ dataEvent
    /\ reader' = "ready"
    /\ UNCHANGED <<stream, arrived, read, taken, state, dataEvent, cur, served,
                   continueSent, ex, app, writer, wire, closed, lost>>

KeepAliveTimeout ==
    /\ reader = "data" /\ cur = 0
    /\ Shut(ex)
    /\ UNCHANGED <<stream, arrived, read, taken, state, dataEvent, cur, served,
                   continueSent, wire, lost>>

\* The rest of _send_error, once the transport takes the answer.
SendError ==
    /\ reader = "error" /\ ~writePaused
    /\ Emit("error", IF cur # 0 THEN cur ELSE Buffer[1].of, "none")
    /\ Shut(ex)
    /\ UNCHANGED <<stream, arrived, read, taken, state, dataEvent, cur, served,
                   continueSent, lost>>

AwaitResponse ==
    /\ reader = "ready" /\ state = "waiting" /\ taken = {}
    /\ ex[cur].complete
    /\ served' = served + 1
    /\ cur' = 0
    /\ LET keep == ex[cur].keep /\ served' < MaxServed
       IN  /\ ex' = [ex EXCEPT ![cur].keep = keep]
           /\ closed' = ~keep
           /\ reader' = IF keep THEN "ready" ELSE "done"
           /\ state' = IF keep THEN "idle" ELSE state
    /\ UNCHANGED <<stream, arrived, read, taken, dataEvent, continueSent, app,
                   writer, wire, lost>>

-----------------------------------------------------------------------------
\* The writer: _write_response.  Each message it takes is turned into the
\* items still to be written and a note whether the exchange ends with them.

\* Mutant: the reader is not told.
OnResponseFinishedSilently ==
    IF state = "body"
    THEN /\ state' = "waiting"
         /\ read' = IF Drainable THEN Drained ELSE read
         /\ UNCHANGED dataEvent
    ELSE UNCHANGED <<state, dataEvent, read>>

\* The reader need not wait for a body nobody will read any more.
OnResponseFinished ==
    IF state = "body"
    THEN /\ state' = "waiting"
         /\ dataEvent' = TRUE
         /\ read' = IF Drainable THEN Drained ELSE read
    ELSE UNCHANGED <<state, dataEvent, read>>

\* Mutant: a length that was not met goes unnoticed.
LengthMetAlways(w) == TRUE

\* What was written is what the head announced.
LengthMet(w) == w.framing = "length" => w.sent = Declared

\* The end of the exchange, in the order of the code: an abandoned answer
\* closes the connection, a length that was not met forbids to reuse it, and
\* the finally clause drains what the application left of the body.
FinishResponse(w, r) ==
    IF w.aborted
    THEN /\ Shut([ex EXCEPT ![w.of] = [r EXCEPT !.keep = FALSE]])
         /\ UNCHANGED <<state, dataEvent, read>>
    ELSE /\ OnResponseFinished
         /\ ex' = [ex EXCEPT ![w.of] =
                Completed([r EXCEPT !.keep = @ /\ LengthMet(w) /\ Drainable])]
         /\ writer' = NoWriter
         /\ UNCHANGED <<reader, app, closed>>

Continue(w, r) ==
    /\ writer' = w
    /\ ex' = [ex EXCEPT ![w.of] = r]
    /\ UNCHANGED <<read, state, reader, dataEvent, app, closed>>

\* The exchange ends with the last item of its last message.
Proceed(w, r) ==
    IF w.out = <<>> /\ w.last THEN FinishResponse(w, r) ELSE Continue(w, r)

NextMessage == Head(ex[writer.of].send)
Takes(kind) ==
    /\ writer.pc = "run" /\ writer.out = <<>>
    /\ ex[writer.of].send # <<>>
    /\ NextMessage.kind = kind

TakeInterim ==
    /\ Takes("interim")
    /\ Continue([writer EXCEPT !.out = <<"interim">>], Taken(ex[writer.of]))
    /\ UNCHANGED <<stream, arrived, taken, cur, served, continueSent, wire, lost>>

TakeStart ==
    /\ Takes("start")
    /\ LET m == NextMessage
       IN  Continue([writer EXCEPT
                !.started = TRUE, !.framing = m.framing, !.out = <<"head">>,
                !.trailers = m.trailers /\ m.framing # "none"],
            [Taken(ex[writer.of]) EXCEPT !.keep = @ /\ m.framing # "close"])
    /\ UNCHANGED <<stream, arrived, taken, cur, served, continueSent, wire, lost>>

\* Data beyond the declared length is dropped; the data that reaches it is
\* what ends that body on the wire.
TakeBody ==
    /\ Takes("body")
    /\ LET m == NextMessage
           w == writer
           over == w.framing = "length" /\ m.data /\ w.sent = Declared
           sent == IF m.data /\ ~over THEN w.sent + 1 ELSE w.sent
           data == IF ~m.data \/ over THEN <<>>
                   ELSE IF w.framing = "length" /\ sent = Declared THEN <<"end">>
                   ELSE <<"data">>
           tail == IF m.more \/ w.framing # "chunked" THEN <<>>
                   ELSE IF w.trailers THEN <<"data">> ELSE <<"end">>
           opens == ~m.more /\ w.framing = "chunked" /\ w.trailers
           r == Taken(ex[w.of])
       IN  IF w.framing = "none" THEN Proceed([w EXCEPT !.last = ~m.more], r)
           ELSE IF m.aborted
           THEN Proceed([w EXCEPT !.last = TRUE, !.aborted = TRUE], r)
           ELSE Proceed([w EXCEPT !.sent = sent, !.out = data \o tail,
                                  !.awaiting = @ \/ opens,
                                  !.last = ~m.more /\ ~opens],
                        [r EXCEPT !.keep = @ /\ ~over])
    /\ UNCHANGED <<stream, arrived, taken, cur, served, continueSent, wire, lost>>

\* Trailers that no trailer section was opened for still end the exchange.
TakeTrailers ==
    /\ Takes("trailers")
    /\ Proceed([writer EXCEPT !.last = TRUE,
                    !.out = IF writer.awaiting THEN <<"end">> ELSE <<>>],
               Taken(ex[writer.of]))
    /\ UNCHANGED <<stream, arrived, taken, cur, served, continueSent, wire, lost>>

\* _write, once the transport takes it.
Write ==
    /\ writer.pc = "run" /\ writer.out # <<>> /\ ~writePaused
    /\ Emit(Head(writer.out), writer.of, writer.framing)
    /\ Proceed([writer EXCEPT !.out = Tail(@)], ex[writer.of])
    /\ UNCHANGED <<stream, arrived, taken, cur, served, continueSent, lost>>

-----------------------------------------------------------------------------
\* The application: ASGIRequest.receive, send and run_app.

\* The first receive of a request that expects it has the 100 sent.  The
\* callback looks at the request the connection is on by then.
SendContinue(i) ==
    IF ex[i].asks /\ ~continueSent /\ ~closed
    THEN /\ continueSent' = TRUE
         /\ IF cur # 0 /\ ex[cur].started THEN UNCHANGED wire
            ELSE Emit("interim", cur, "none")
    ELSE UNCHANGED <<continueSent, wire>>

Receive(i) ==
    /\ SendContinue(i)
    /\ Receives(i, [ex[i] EXCEPT !.asks = FALSE])
    /\ UNCHANGED <<stream, arrived, read, taken, state, reader, dataEvent, cur,
                   served, writer, closed, lost>>

AppStep(i) ==
    /\ \/ \E m \in Says[i] : Sends(i, m)
       \/ \E how \in Endings : Ends(i, how)
    /\ UNCHANGED <<stream, arrived, read, taken, state, reader, dataEvent, cur,
                   served, continueSent, writer, wire, closed, lost>>

Wakes(i) ==
    /\ WakesInReceive(i) \/ WakesInSend(i)
    /\ UNCHANGED <<stream, arrived, read, taken, state, reader, dataEvent, cur,
                   served, continueSent, writer, wire, closed, lost>>

-----------------------------------------------------------------------------
Init ==
    /\ stream \in Streams
    /\ arrived = 0 /\ read = 0 /\ taken = {}
    /\ state = "idle" /\ reader = "ready" /\ dataEvent = FALSE
    /\ cur = 0 /\ served = 0 /\ continueSent = FALSE
    /\ ex = [i \in Requests |-> NewExchange]
    /\ app = [i \in Requests |-> NoApp]
    /\ writer = NoWriter
    /\ writePaused = FALSE /\ closed = FALSE /\ lost = FALSE
    /\ heads = <<>> /\ open = 0

Reader ==
    \/ RefuseHead \/ Dispatch \/ DecodeBody \/ EmitBody \/ FinishRequest
    \/ AwaitData \/ DataWake \/ SendError \/ AwaitResponse
Writer == TakeInterim \/ TakeStart \/ TakeBody \/ TakeTrailers \/ Write
Environment ==
    \/ DataReceived \/ ResumeWriting \/ Close \/ ConnectionLost
    \/ AbortRequestTimeout \/ KeepAliveTimeout

Next ==
    \/ Reader \/ Writer \/ Environment
    \/ \E i \in Requests : Receive(i) \/ AppStep(i) \/ Wakes(i)

Spec == Init /\ [][Next]_vars

\* The event loop runs every task that can run, and the transport empties.
FairSpec ==
    /\ Spec
    /\ WF_vars(Reader) /\ WF_vars(Writer) /\ WF_vars(ResumeWriting)
    /\ \A i \in Requests : WF_vars(Wakes(i))

-----------------------------------------------------------------------------
\* The type invariant.
TypeOK ==
    /\ stream \in Streams
    /\ arrived \in 0 .. Len(stream) /\ read \in 0 .. arrived
    /\ taken \subseteq DOMAIN stream
    /\ state \in {"idle", "body", "waiting"}
    /\ reader \in {"ready", "data", "space", "error", "done"}
    /\ dataEvent \in BOOLEAN /\ continueSent \in BOOLEAN
    /\ cur \in Requests \cup {0} /\ served \in Nat
    /\ ApplicationTypeOK
    /\ writer \in [pc : {"run", "done"}, of : Requests \cup {0},
            started : BOOLEAN, framing : Framings, trailers : BOOLEAN,
            awaiting : BOOLEAN, sent : Nat,
            out : Seq({"head", "interim", "data", "end"}),
            last : BOOLEAN, aborted : BOOLEAN]
    /\ writePaused \in BOOLEAN /\ closed \in BOOLEAN /\ lost \in BOOLEAN
    /\ heads \in Seq([of : Requests \cup {0}, kind : {"head", "interim", "error"},
            framing : Framings, inside : Requests \cup {0}])
    /\ open \in Requests \cup {0}

FinalHead(h) == h.kind \in {"head", "error"}

\* The client can match answers to requests by their order: no request is
\* answered twice, by its application and by a refusal, or by two writers, and
\* none before an earlier one.  (_send_error, ASGIRequest.send, _await_response)
AnswersInOrder ==
    \A j, k \in DOMAIN heads :
        j < k /\ FinalHead(heads[j]) /\ FinalHead(heads[k]) => heads[j].of < heads[k].of

\* No status line, the interim one of a late 100 Continue included, is written
\* while the body of an earlier response is unfinished on the wire: it would be
\* read as part of that body.  (_write_response, _send_error, _send_continue)
HeadsOutsideBodies == \A k \in DOMAIN heads : heads[k].inside = 0

\* A reader that looks for a request never sees what an application left of the
\* body of the last one.  (_on_response_finished, _try_drain_buffered)
HeadsNeverReadFromBodies ==
    ~closed /\ state = "idle" /\ reader # "error" /\ Buffer # <<>> => IsHead(Buffer[1])

\* An application that was told the body is complete was given every piece of
\* it.  (_emit_body, wait_for_space, _finish_request)
WholeMeansWhole ==
    \A i \in Requests : app[i].whole =>
        app[i].got = Cardinality({k \in DOMAIN stream :
                        stream[k].of = i /\ stream[k].kind \in {"data", "big"}})

\* A chunked answer its application gave up on never looks complete.
\* (run_app, _put_end, _write_response)
GivenUpStaysOpen ==
    \A i \in Requests, k \in DOMAIN heads :
        /\ app[i].gaveUp
        /\ heads[k].of = i /\ heads[k].kind = "head" /\ heads[k].framing = "chunked"
        => open = i

\* No task sleeps through the event it waits for.  The reader sleeps only when
\* there is nothing it could do with the buffer, an application in receive only
\* while its exchange goes on, a task that waits for room only while the queue
\* is full and somebody empties it.  (data_received, _on_response_finished,
\* wait_for_space, _enqueue, notify_disconnect, mark_finished)
NoMissedWakeUp ==
    /\ reader = "data" /\ ~dataEvent => NothingToRead
    /\ reader = "space" /\ ~ex[cur].recvSpace => Full(ex[cur]) /\ ~Gone(ex[cur])
    /\ \A i \in Requests : AsleepForAReason(i, writer.pc = "run" /\ writer.of = i)

\* Once its application has ended, a request is answered to the end or its
\* connection closes: the writer never waits for a message nobody will send.
\* (run_app, _finish, _write_response)
EndedMeansAnswered ==
    \A i \in Requests : app[i].over ~> ex[i].complete \/ closed
=============================================================================
