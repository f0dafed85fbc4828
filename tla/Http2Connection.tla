-------------------------- MODULE Http2Connection --------------------------
(***************************************************************************)
(* One HTTP/2 connection (src/echocorn/http2.py:80-954): the events of a   *)
(* batch of received frames, handled in order with no other task between   *)
(* them, a writer task and an application task per stream, the watchdog    *)
(* and the callbacks of the transport.  A step is what one task does       *)
(* between two awaits, or one event of a batch.                            *)
(*                                                                         *)
(* The library h2 is external: it turns frames into events, keeps the      *)
(* windows of the peer, and refuses to send once the peer said GOAWAY.     *)
(***************************************************************************)
EXTENDS Application, FiniteSetsExt

CONSTANTS
    Uploads,    \* bound: DATA frames the peer sends on each stream
    Chunk,      \* units of a body message, by request
    Window,     \* what the peer grants of the connection ...
    StreamWindow, \* ... and of each stream
    MaxBatch,   \* bound: events handled with no other task between them
    MaxResets,  \* resets in a second that close the connection: 100
    MaxTrouble  \* bound: events out of the ordinary, see Trouble

ASSUME ConnectionAssumption ==
    /\ Uploads \in [Requests -> Nat]
    /\ {Window, MaxBatch, MaxResets} \subseteq Nat \ {0}
    /\ MaxTrouble \in Nat
    /\ Chunk \in [Requests -> Nat \ {0}] /\ StreamWindow \in [Requests -> Nat \ {0}]
    \* Interim answers leave a stream as it is, and are left out.
    /\ \A i \in Requests : Interim \notin Says[i]
    \* recv_maxsize=0: the queue of a request takes all the peer sends.
    /\ \A i \in Requests : RecvMax >= Uploads[i] + 2

VARIABLES
    peer,       \* what the peer did with each stream, and how much it sent
    inbox,      \* events of the batch that were not handled yet
    stream,     \* request -> its _H2Stream and whether self.streams has it
    writer,     \* request -> its writer task and the locals of _write_response
    out,        \* request -> what the peer was sent on its stream
    outConn, outStream, \* what the peer still grants
    writePaused, \* self._write_paused
    goaway,     \* self._goaway_received
    resets,     \* len(self._reset_times)
    closed,     \* self._closed
    lost,       \* whether the transport reported connection_lost
    received, returned, \* units of DATA that _on_data saw, and their credit
    given,      \* units of body handed to send, by or for the application
    trouble     \* how many events of Trouble there were

vars == <<ex, app, peer, inbox, stream, writer, out, outConn, outStream,
          writePaused, goaway, resets, closed, lost, received, returned, given,
          trouble>>
wire == <<out, outConn, outStream>>
\* What only the peer and the transport change.
outside == <<peer, inbox, writePaused, goaway, lost, received, given>>

NoStream == [live |-> FALSE, ended |-> FALSE, unacked |-> 0]
NoWriter == [pc |-> "none", started |-> FALSE, discard |-> FALSE,
             trailers |-> FALSE, awaiting |-> FALSE,
             left |-> 0, ends |-> FALSE, last |-> FALSE]
NewWriter == [NoWriter EXCEPT !.pc = "run"]
\* How a writer ends: as it should, with an exception, or with trailers that no
\* trailer section was opened for.
Stopped == {"done", "failed", "silent"}
Over(w) == w.pc \in {"none"} \cup Stopped

Live == {i \in Requests : stream[i].live}
\* Tasks run between the batches.
Settled == inbox = <<>>

-----------------------------------------------------------------------------
\* Taking streams down.

\* The tasks of some streams are cancelled; a writer that was still at work
\* runs its finally clause.
CancelledFrom(S, after) ==
    /\ app' = [i \in Requests |-> IF i \in S THEN Cancelled(app[i]) ELSE app[i]]
    /\ ex' = [i \in Requests |-> IF i \in S /\ ~Over(writer[i])
                                 THEN Completed(after[i]) ELSE after[i]]
    /\ writer' = [i \in Requests |->
            IF i \in S /\ ~Over(writer[i]) THEN [NoWriter EXCEPT !.pc = "done"]
            ELSE writer[i]]
    /\ stream' = [i \in Requests |-> IF i \in S THEN NoStream ELSE stream[i]]

\* _close, _abort and connection_lost: _cancel_all.
Shut(after) ==
    /\ closed' = TRUE
    /\ CancelledFrom(Live, after)
    /\ UNCHANGED <<returned, resets>>

\* Mutant: the credit of what was not read is kept.
ResetStreamsForGood(S, more) ==
    LET known == S \cap Live
        told == [i \in Requests |-> IF i \in known THEN NotifyDisconnect(ex[i]) ELSE ex[i]]
        shutdown == ~closed /\ resets' > MaxResets
    IN  /\ resets' = resets + Cardinality(S)
        /\ closed' = (closed \/ shutdown)
        /\ CancelledFrom(IF shutdown THEN Live ELSE known, told)
        /\ UNCHANGED returned

\* _reset_stream, of one or more streams.  Too many resets, also of streams
\* that are not known any more, shut the connection; else the credit of what
\* was not read goes back, more included.
ResetStreams(S, more) ==
    LET known == S \cap Live
        told == [i \in Requests |-> IF i \in known THEN NotifyDisconnect(ex[i]) ELSE ex[i]]
        shutdown == ~closed /\ resets' > MaxResets
    IN  /\ resets' = resets + Cardinality(S)
        /\ closed' = (closed \/ shutdown)
        /\ CancelledFrom(IF shutdown THEN Live ELSE known, told)
        /\ returned' = [i \in Requests |->
                IF i \in known /\ ~closed' THEN returned[i] + stream[i].unacked + more
                ELSE returned[i]]

\* Mutant: the peer is not told.
RstSilently(o) == o

\* _rst, of a stream that can still be reset.
Rst(o) == IF o.end = "open" /\ ~closed THEN [o EXCEPT !.end = "reset"] ELSE o

\* _ack of n units.
Credit(i, n) ==
    returned' = IF closed THEN returned ELSE [returned EXCEPT ![i] = @ + n]

\* Mutant: the stream stays where it is.
FinalizeKeepingStream(i) ==
    /\ stream' = [stream EXCEPT ![i].ended = TRUE, ![i].unacked = 0]
    /\ UNCHANGED closed

\* _finalize: the last stream of a peer that is leaving closes the connection.
Finalize(i) ==
    /\ stream' = [stream EXCEPT ![i] = NoStream]
    /\ closed' = (closed \/ (goaway /\ Live = {i}))

-----------------------------------------------------------------------------
\* What the peer sends: h2 parses the frames of a batch before any is handled.
Event(kind, i) == [kind |-> kind, of |-> i]
Arrives(kind, i) ==
    /\ ~closed /\ ~lost /\ Len(inbox) < MaxBatch
    /\ inbox' = Append(inbox, Event(kind, i))
    /\ UNCHANGED <<ex, app, stream, writer, out, writePaused, goaway, resets,
                   closed, lost, received, returned, given>>

PeerOpens(i) ==
    /\ ~goaway /\ peer[i].at = "idle" /\ \A j \in 1 .. i - 1 : peer[j].at # "idle"
    /\ peer' = [peer EXCEPT ![i].at = "open"]
    /\ Arrives("head", i)
    /\ UNCHANGED <<outConn, outStream>>
PeerUploads(i, kind) ==
    /\ peer[i].at = "open" /\ peer[i].sent < Uploads[i] /\ out[i].end # "reset"
    /\ peer' = [peer EXCEPT ![i].sent = @ + 1]
    /\ Arrives(kind, i)
    /\ UNCHANGED <<outConn, outStream>>
PeerEnds(i) ==
    /\ peer[i].at = "open" /\ out[i].end # "reset"
    /\ peer' = [peer EXCEPT ![i].at = "ended"]
    /\ Arrives("end", i)
    /\ UNCHANGED <<outConn, outStream>>
PeerResets(i) ==
    /\ peer[i].at \in {"open", "ended"} /\ out[i].end # "reset"
    /\ peer[i].at = "ended" => out[i].end = "open"
    /\ peer' = [peer EXCEPT ![i].at = "reset"]
    /\ Arrives("reset", i)
    /\ UNCHANGED <<outConn, outStream>>
\* Bound: a peer grants what a writer waits for, in either order.
PeerGrants ==
    /\ \E i \in Requests :
        /\ writer[i].pc = "window"
        /\ \/ outConn = 0 /\ outConn' = Window /\ UNCHANGED outStream
           \/ /\ outStream[i] = 0
              /\ outStream' = [outStream EXCEPT ![i] = StreamWindow[i]]
              /\ UNCHANGED outConn
    /\ Arrives("window", 0)
    /\ UNCHANGED peer
PeerLeaves(kind, i) ==
    /\ ~goaway /\ \A k \in DOMAIN inbox : inbox[k].kind \notin {"goaway", "error"}
    /\ Arrives(kind, i)
    /\ UNCHANGED <<peer, outConn, outStream>>

-----------------------------------------------------------------------------
\* _handle_event, also for the events behind one that closed the connection.
Handles(kind, i) ==
    /\ ~Settled /\ Head(inbox) = Event(kind, i)
    /\ inbox' = Tail(inbox)
    /\ UNCHANGED <<peer, writePaused, lost, given>>

\* _respond_simple: a line that has to fit in what is left of the window.  On
\* a stream whose response was started, h2 refuses a second head.
RespondSimple(i) ==
    IF closed THEN UNCHANGED wire
    ELSE IF out[i].by # "none" \/ outConn = 0 \/ outStream[i] = 0
    THEN /\ out' = [out EXCEPT ![i] = Rst(@)]
         /\ UNCHANGED <<outConn, outStream>>
    ELSE /\ out' = [out EXCEPT ![i] = [by |-> "server", units |-> 1, end |-> "ended"]]
         /\ outConn' = outConn - 1
         /\ outStream' = [outStream EXCEPT ![i] = @ - 1]

RefuseRequest(i) ==
    /\ Handles("head", i)
    /\ RespondSimple(i)
    /\ UNCHANGED <<ex, app, stream, writer, goaway, resets, closed, received, returned>>

OnRequest(i) ==
    /\ Handles("head", i)
    /\ ex' = [ex EXCEPT ![i] = NewExchange]
    /\ app' = [app EXCEPT ![i] = Started(@)]
    /\ writer' = [writer EXCEPT ![i] = NewWriter]
    /\ stream' = [stream EXCEPT ![i].live = TRUE]
    /\ UNCHANGED <<wire, goaway, resets, closed, received, returned>>

\* _on_data: the credit of bytes nobody will read goes back at once.
OnData(i) ==
    /\ Handles("data", i)
    /\ received' = [received EXCEPT ![i] = @ + 1]
    /\ IF i \in Live /\ ~Gone(ex[i])
       THEN /\ ex' = [ex EXCEPT ![i] = Feed(@, "data")]
            /\ stream' = [stream EXCEPT ![i].unacked = @ + 1]
            /\ UNCHANGED returned
       ELSE /\ Credit(i, 1)
            /\ UNCHANGED <<ex, stream>>
    /\ UNCHANGED <<app, writer, wire, goaway, resets, closed>>

\* The piece that exceeds max_request_size: 413, then a reset.
OnTooMuchData(i) ==
    /\ Handles("big", i)
    /\ received' = [received EXCEPT ![i] = @ + 1]
    /\ IF i \in Live /\ ~ex[i].finished
       THEN RespondSimple(i) /\ ResetStreams({i}, 1)
       ELSE /\ Credit(i, 1)
            /\ UNCHANGED <<ex, app, stream, writer, wire, resets, closed>>
    /\ UNCHANGED goaway

\* _on_stream_ended, also of trailers.
OnStreamEnded(i) ==
    /\ Handles("end", i)
    /\ IF i \notin Live THEN UNCHANGED <<ex, stream, closed, returned>>
       ELSE /\ ex' = IF Gone(ex[i]) THEN ex ELSE [ex EXCEPT ![i] = Feed(@, "end")]
            /\ IF ex[i].complete
               THEN Finalize(i) /\ Credit(i, stream[i].unacked)
               ELSE /\ stream' = [stream EXCEPT ![i].ended = TRUE]
                    /\ UNCHANGED <<closed, returned>>
    /\ UNCHANGED <<app, writer, wire, goaway, resets, received>>

\* _on_stream_reset: a reset is never answered with one.
OnStreamReset(i) ==
    /\ Handles("reset", i)
    /\ ResetStreams({i}, 0)
    /\ UNCHANGED <<wire, goaway, received>>

\* asyncio.Event.set wakes every task that waits on the event.
Woken(asleep, awake) ==
    [i \in Requests |-> IF writer[i].pc = asleep
                        THEN [writer[i] EXCEPT !.pc = awake] ELSE writer[i]]
OnWindowUpdated ==
    /\ Handles("window", 0)
    /\ writer' = Woken("window", "woken")
    /\ UNCHANGED <<ex, app, stream, wire, goaway, resets, closed, received, returned>>

\* _on_connection_terminated: the peer will not look at streams above the last.
OnConnectionTerminated ==
    \/ /\ Handles("error", 0)
       /\ goaway' = TRUE
       /\ IF closed THEN UNCHANGED <<ex, app, stream, writer, resets, closed, returned>>
          ELSE Shut(ex)
       /\ UNCHANGED <<wire, received>>
    \/ \E last \in Requests \cup {0} :
       /\ Handles("goaway", last)
       /\ goaway' = TRUE
       /\ LET above == {i \in Live : i > last}
          IN  IF above = Live /\ Cardinality(above) + resets <= MaxResets
              THEN Shut([i \in Requests |->
                        IF i \in above THEN NotifyDisconnect(ex[i]) ELSE ex[i]])
              ELSE ResetStreams(above, 0)
       /\ UNCHANGED <<wire, received>>

-----------------------------------------------------------------------------
\* The writer of a stream: _write_response.

\* Its finally clause, however it ended.  A request the peer has not ended keeps
\* its stream, and what the application left of it is given back.
FinishResponse(i, r, how) ==
    /\ ex' = [ex EXCEPT ![i] = Completed(r)]
    /\ writer' = [writer EXCEPT ![i] = [NoWriter EXCEPT !.pc = how]]
    /\ IF i \notin Live THEN UNCHANGED <<stream, closed, returned>>
       ELSE /\ Credit(i, stream[i].unacked)
            /\ IF stream[i].ended THEN Finalize(i)
               ELSE /\ stream' = [stream EXCEPT ![i].unacked = 0]
                    /\ UNCHANGED closed
    /\ UNCHANGED <<app, resets>>

Continue(i, w, r) ==
    /\ ex' = [ex EXCEPT ![i] = r]
    /\ writer' = [writer EXCEPT ![i] = w]
    /\ UNCHANGED <<app, stream, closed, returned, resets>>

\* The response ends with the message that said so.
Proceed(i, w, r) == IF w.last THEN FinishResponse(i, r, "done") ELSE Continue(i, w, r)

\* Mutant: a chunk is measured by the window of its stream alone.
StreamCredit(i) == outStream[i]

\* _connection_window, and what h2 lets through of it.
CreditOf(i) == Min({outConn, outStream[i]})

\* Mutant: END_STREAM travels with the first chunk of the last message.
EndsEarly(w, rest) == w.ends

\* END_STREAM travels with the last chunk of the last message.
EndsWith(w, rest) == w.ends /\ rest = 0

\* _send_data, from where it stands: what the window takes of the message goes
\* out, and the rest waits for credit.
SendOn(i, w, r) ==
    LET n == Min({CreditOf(i), w.left})
        rest == w.left - n
        after == [w EXCEPT !.left = rest,
                           !.pc = IF n > 0 /\ writePaused THEN "paused"
                                  ELSE IF rest > 0 THEN "window" ELSE "run"]
    IN  /\ out' = [out EXCEPT ![i].units = @ + n,
                              ![i].end = IF EndsWith(w, rest) THEN "ended" ELSE @]
        /\ outConn' = outConn - n
        /\ outStream' = [outStream EXCEPT ![i] = @ - n]
        /\ IF after.pc = "run" THEN Proceed(i, after, r) ELSE Continue(i, after, r)

Takes(i, kind) ==
    /\ Settled /\ writer[i].pc = "run"
    /\ ex[i].send # <<>> /\ Head(ex[i].send).kind = kind
    /\ UNCHANGED outside

\* _send_headers of the final response; h2 refuses a malformed one, and the
\* handler sends none on a connection that was closed.
TakeStart(i) ==
    /\ Takes(i, "start")
    /\ ~closed
    /\ LET m == Head(ex[i].send)
           none == m.framing = "none"
       IN  /\ out' = [out EXCEPT ![i].by = IF none THEN "bare" ELSE "app",
                                 ![i].end = IF none THEN "ended" ELSE @]
           /\ Continue(i, [writer[i] EXCEPT !.started = TRUE, !.discard = none,
                                            !.trailers = m.trailers /\ ~none],
                       Taken(ex[i]))
    /\ UNCHANGED <<outConn, outStream>>

\* The head of an answer, or its trailer section, that the application sent.
TakesBlock(i) ==
    /\ Takes(i, "start") \/ (Takes(i, "trailers") /\ writer[i].awaiting)
    /\ Head(ex[i].send) \in Says[i]

\* _send_headers resets the stream of a block that h2 refuses.
BlockRefused(i) ==
    /\ TakesBlock(i)
    /\ out' = [out EXCEPT ![i] = Rst(@)]
    /\ FinishResponse(i, Taken(ex[i]), "done")
    /\ UNCHANGED <<outConn, outStream>>

\* An exception, of a head without a status or of trailers that are no pairs of
\* bytes, is logged, and the peer is told nothing.
WriterFails(i) ==
    /\ TakesBlock(i)
    /\ FinishResponse(i, Taken(ex[i]), "failed")
    /\ UNCHANGED wire

\* On a connection that was closed the handler sends no head.
StartDropped(i) ==
    /\ Takes(i, "start") /\ closed
    /\ FinishResponse(i, Taken(ex[i]), "done")
    /\ UNCHANGED wire

TakeBody(i) ==
    /\ Takes(i, "body")
    /\ LET m == Head(ex[i].send)
           ends == ~m.more /\ ~writer[i].trailers
           w == [writer[i] EXCEPT !.left = IF m.data THEN Chunk[i] ELSE 0,
                                  !.ends = ends, !.last = ends,
                                  !.awaiting = ~m.more /\ writer[i].trailers]
       IN  IF w.discard
           THEN Proceed(i, [w EXCEPT !.left = 0], Taken(ex[i])) /\ UNCHANGED wire
           ELSE IF m.aborted
           THEN /\ out' = [out EXCEPT ![i] = Rst(@)]
                /\ ResetStreams({i}, 0)
                /\ UNCHANGED <<outConn, outStream>>
           ELSE SendOn(i, w, Taken(ex[i]))

\* Trailers that no section was opened for end the exchange as well, but not
\* the stream, unless a head without a body had ended it.
TakeTrailers(i) ==
    /\ Takes(i, "trailers")
    /\ out' = [out EXCEPT ![i].end = IF writer[i].awaiting THEN "ended" ELSE @]
    /\ FinishResponse(i, Taken(ex[i]),
                      IF writer[i].awaiting \/ writer[i].discard THEN "done" ELSE "silent")
    /\ UNCHANGED <<outConn, outStream>>

\* A writer whose event was set, of the window or of the transport, goes on ...
GoesOn(i) ==
    /\ Settled
    /\ writer[i].pc = "woken" \/ (writer[i].pc = "resumed" /\ ~writePaused)
    /\ SendOn(i, writer[i], ex[i])
    /\ UNCHANGED outside

\* ... but _wait_writable looks again, and sleeps on while the transport is paused
\* anew.
SleepsOn(i) ==
    /\ Settled /\ writer[i].pc = "resumed" /\ writePaused
    /\ Continue(i, [writer[i] EXCEPT !.pc = "paused"], ex[i])
    /\ UNCHANGED <<wire, outside>>

\* After its GOAWAY h2 sends the peer nothing more, and the writer gives up.
SendRefused(i) ==
    /\ Settled /\ goaway
    /\ \/ writer[i].pc = "woken"
       \/ writer[i].pc = "run" /\ ~writer[i].discard
          /\ ex[i].send # <<>> /\ Head(ex[i].send) \in [kind : {"body"}, data : {TRUE},
                    more : BOOLEAN, aborted : {FALSE}]
    /\ FinishResponse(i, ex[i], "done")
    /\ UNCHANGED <<wire, outside>>

-----------------------------------------------------------------------------
\* The application.  What receive takes is acknowledged, and comes off what
\* the stream holds while there is a stream.
Acknowledges(i) ==
    IF ex[i].recv = <<>> \/ Head(ex[i].recv) # "data" \/ closed
    THEN UNCHANGED <<stream, returned>>
    ELSE /\ Credit(i, 1)
         /\ stream' = IF stream[i].unacked = 0 THEN stream
                      ELSE [stream EXCEPT ![i].unacked = @ - 1]

Receive(i) ==
    /\ Settled
    /\ Receives(i, ex[i]) \/ WakesInReceive(i)
    /\ Acknowledges(i)
    /\ UNCHANGED <<writer, wire, resets, closed, outside>>

AppStep(i) ==
    /\ Settled
    /\ \/ \E m \in Says[i] :
            /\ Sends(i, m)
            /\ given' = IF m.kind = "body" /\ m.data
                        THEN [given EXCEPT ![i] = @ + Chunk[i]] ELSE given
       \/ \E how \in Endings :
            /\ Ends(i, how)
            /\ given' = IF LastWords(ex[i], how) = Whole
                        THEN [given EXCEPT ![i] = @ + Chunk[i]] ELSE given
       \/ WakesInSend(i) /\ UNCHANGED given
    /\ UNCHANGED <<peer, inbox, stream, writer, wire, writePaused, goaway, resets,
                   closed, lost, received, returned>>

-----------------------------------------------------------------------------
\* The watchdog, the server and the transport, between the batches.

\* A stream whose deadline has passed.
StreamDeadline(i) ==
    /\ Settled /\ i \in Live
    /\ out' = [out EXCEPT ![i] = Rst(@)]
    /\ ResetStreams({i}, 0)
    /\ UNCHANGED <<outConn, outStream, outside>>

\* The idle timeout, and that of a connection without a first request.
IdleTimeout ==
    /\ Settled /\ ~closed /\ Live = {}
    /\ Shut(ex)
    /\ UNCHANGED <<wire, outside>>

\* eof_received, shutdown, and frames h2 does not accept.
Close ==
    /\ Settled /\ ~closed
    /\ Shut(ex)
    /\ UNCHANGED <<wire, outside>>

\* Mutant: a connection that was closed has nothing left to take down.
ConnectionLostOnce ==
    /\ Settled /\ ~lost
    /\ lost' = TRUE
    /\ IF closed THEN UNCHANGED <<ex, app, stream, writer, closed, returned, resets>>
       ELSE Shut([i \in Requests |-> IF i \in Live THEN NotifyDisconnect(ex[i]) ELSE ex[i]])
    /\ UNCHANGED <<peer, inbox, wire, writePaused, goaway, received, given>>

ConnectionLost ==
    /\ Settled /\ ~lost
    /\ lost' = TRUE
    /\ Shut([i \in Requests |-> IF i \in Live THEN NotifyDisconnect(ex[i]) ELSE ex[i]])
    /\ UNCHANGED <<peer, inbox, wire, writePaused, goaway, received, given>>

\* Bound: the transport is paused while a response is being written.
PauseWriting ==
    /\ Settled /\ ~writePaused /\ \E i \in Requests : writer[i].started
    /\ writePaused' = TRUE
    /\ UNCHANGED <<ex, app, peer, inbox, stream, writer, wire, goaway, resets,
                   closed, lost, received, returned, given>>
\* Mutant: the event that writers sleep on is not set.
ResumeUnheard ==
    /\ Settled /\ ~lost /\ writePaused
    /\ writePaused' = FALSE
    /\ UNCHANGED <<ex, app, peer, inbox, stream, writer, wire, goaway, resets,
                   closed, lost, received, returned, given>>

\* resume_writing: who waits on _resume_event is woken.
ResumeWriting ==
    /\ Settled /\ ~lost /\ writePaused
    /\ writePaused' = FALSE
    /\ writer' = Woken("paused", "resumed")
    /\ UNCHANGED <<ex, app, peer, inbox, stream, wire, goaway, resets,
                   closed, lost, received, returned, given>>

\* Resets of more than a second ago do not count.
ForgetResets ==
    /\ Settled /\ resets # 0
    /\ resets' = 0
    /\ UNCHANGED <<ex, app, peer, inbox, stream, writer, wire, writePaused,
                   goaway, closed, lost, received, returned, given>>

-----------------------------------------------------------------------------
Init ==
    /\ peer = [i \in Requests |-> [at |-> "idle", sent |-> 0]]
    /\ inbox = <<>>
    /\ stream = [i \in Requests |-> NoStream]
    /\ writer = [i \in Requests |-> NoWriter]
    /\ ex = [i \in Requests |-> NewExchange]
    /\ app = [i \in Requests |-> NoApp]
    /\ out = [i \in Requests |-> [by |-> "none", units |-> 0, end |-> "open"]]
    /\ outConn = Window /\ outStream = StreamWindow
    /\ writePaused = FALSE /\ goaway = FALSE /\ resets = 0
    /\ closed = FALSE /\ lost = FALSE
    /\ received = [i \in Requests |-> 0] /\ returned = [i \in Requests |-> 0]
    /\ given = [i \in Requests |-> 0]
    /\ trouble = 0

Peer ==
    \/ \E i \in Requests : PeerOpens(i) \/ PeerUploads(i, "data") \/ PeerEnds(i)
    \/ PeerGrants
Handler ==
    \/ \E i \in Requests :
        \/ OnRequest(i) \/ OnData(i) \/ OnTooMuchData(i)
        \/ OnStreamEnded(i) \/ OnStreamReset(i)
    \/ OnWindowUpdated \/ OnConnectionTerminated
Writer(i) ==
    \/ TakeStart(i) \/ TakeBody(i) \/ TakeTrailers(i)
    \/ GoesOn(i) \/ SleepsOn(i) \/ SendRefused(i) \/ StartDropped(i)

\* What may go wrong beside an end of the connection, and is bounded in number.
Trouble ==
    /\ ~closed /\ trouble < MaxTrouble
    /\ trouble' = trouble + 1
    /\ \/ \E i \in Requests :
            \/ PeerResets(i) \/ PeerUploads(i, "big") \/ RefuseRequest(i)
            \/ BlockRefused(i) \/ WriterFails(i) \/ StreamDeadline(i)
       \/ \E i \in Requests \cup {0} : PeerLeaves("goaway", i)
       \/ PeerLeaves("error", 0)

Next ==
    \/ /\ \/ Peer \/ Handler \/ ResumeWriting
          \/ \E i \in Requests : Writer(i) \/ Receive(i) \/ AppStep(i)
          \/ ConnectionLost
          \/ ~closed /\ (IdleTimeout \/ Close \/ ForgetResets \/ PauseWriting)
       /\ UNCHANGED trouble
    \/ Trouble

Spec == Init /\ [][Next]_vars

-----------------------------------------------------------------------------
\* The type invariant.
TypeOK ==
    /\ ApplicationTypeOK
    /\ peer \in [Requests -> [at : {"idle", "open", "ended", "reset"}, sent : Nat]]
    /\ inbox \in Seq([kind : {"head", "data", "big", "end", "reset", "window",
                              "goaway", "error"}, of : Requests \cup {0}])
    /\ stream \in [Requests -> [live : BOOLEAN, ended : BOOLEAN, unacked : Nat]]
    /\ writer \in [Requests ->
            [pc : {"none", "run", "window", "woken", "paused", "resumed"} \cup Stopped,
             started : BOOLEAN, discard : BOOLEAN, trailers : BOOLEAN,
             awaiting : BOOLEAN, left : Nat, ends : BOOLEAN, last : BOOLEAN]]
    /\ out \in [Requests -> [by : {"none", "app", "bare", "server"}, units : Nat,
                             end : {"open", "ended", "reset"}]]
    /\ outConn \in 0 .. Window
    /\ \A i \in Requests : outStream[i] \in 0 .. StreamWindow[i]
    /\ writePaused \in BOOLEAN /\ goaway \in BOOLEAN
    /\ closed \in BOOLEAN /\ lost \in BOOLEAN
    /\ resets \in Nat /\ (closed \/ resets <= MaxResets)
    /\ received \in [Requests -> Nat] /\ returned \in [Requests -> Nat]
    /\ given \in [Requests -> Nat] /\ trouble \in 0 .. MaxTrouble

Unread(i) == Cardinality({k \in DOMAIN ex[i].recv : ex[i].recv[k] = "data"})

\* What the peer may not send again is what a live application can still read:
\* no other stream is ever starved by bytes nobody will read.  (_on_data,
\* _reset_stream, _finalize, _write_response)
NoCreditLost ==
    ~closed => \A i \in Requests :
        received[i] - returned[i] <=
            IF i \in Live /\ ~ex[i].complete THEN Unread(i) ELSE 0

\* Credit is not returned twice for the same bytes.  (http2.py:566-567)
CreditOnce == \A i \in Requests : returned[i] <= received[i]

\* No task sleeps through its event, although all writers share two of them,
\* which the transport and the peer set and every writer clears: one that waits for
\* credit has none, one that waits for the transport finds it paused, and no
\* application waits for a writer that is gone.  (_wait_for_window, _wait_writable)
NoMissedWakeUp ==
    /\ Settled => \A i \in Requests : writer[i].pc = "window" => CreditOf(i) = 0
    /\ \A i \in Requests : writer[i].pc = "paused" => writePaused
    /\ \A i \in Requests : AsleepForAReason(i, ~Over(writer[i]))

\* The peer learns the end of every stream the server has forgotten, but where the
\* writer failed on a message, or took trailers for which no section was open: the
\* code tells it of neither.  (_write_response, _reset_stream, _finalize)
GoneMeansTold ==
    ~closed /\ ~goaway => \A i \in Requests :
        i \notin Live /\ app[i].pc # "none" =>
            \/ out[i].end # "open" \/ peer[i].at = "reset"
            \/ writer[i].pc \in {"failed", "silent"}

\* A response that ended carried all of its body; one that was given up is not
\* ended.  (_send_data, _write_response, run_app)
EndedIsWhole ==
    \A i \in Requests : out[i].by = "app" /\ out[i].end = "ended" =>
        out[i].units = given[i] /\ ~app[i].gaveUp

\* The last of the two sides to finish forgets the stream, whichever it is.
\* (_on_stream_ended, _write_response, _finalize)
FinishedIsForgotten ==
    \A i \in Live : ~(stream[i].ended /\ ex[i].complete)

\* Nothing that was started for a connection outlives it, not even what a batch
\* started behind the event that closed it: only the application of a response
\* that is over may go on.  (connection_lost, _cancel_all, data_received)
LostMeansOver ==
    lost => \A i \in Requests :
        /\ i \notin Live /\ Over(writer[i])
        /\ app[i].pc \in {"run", "recv", "put"} => ex[i].complete
=============================================================================
