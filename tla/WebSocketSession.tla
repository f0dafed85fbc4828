--------------------------- MODULE WebSocketSession ---------------------------
(***************************************************************************)
(* One WebSocket session (src/echocorn/websocket.py:343-773): the task of   *)
(* the connection that runs it, the application with its guard, the reader *)
(* of the frames, and the task with which the server says goodbye.  The    *)
(* four share one socket, one queue and a handful of flags.                *)
(*                                                                         *)
(* Every write may find the socket paused: its task waits in line, and the *)
(* write happens later, or never when the task is cancelled.  Any write in *)
(* line may be the next: a task that runs before a waiter has woken writes *)
(* at once and overtakes it (http1.py:505-510, 989-1005).                  *)
(***************************************************************************)
EXTENDS Naturals, Sequences, SequencesExt

CONSTANTS
    QueueMax,   \* the size of the queue towards the application (16)
    MaxSends,   \* bound: messages the application sends
    MaxRefused, \* bound: the same, for one that has refused the handshake
    MaxFrames,  \* bound: frames the peer sends
    Closers     \* bound: one for each time a server that shuts down asks

ASSUME SessionAssumption ==
    /\ QueueMax \in Nat \ {0} /\ MaxSends \in Nat /\ MaxFrames \in Nat
    /\ MaxRefused \in 0 .. MaxSends
    /\ Closers \subseteq STRING /\ Closers \cap {"runner", "app", "reader"} = {}

VARIABLES
    s,          \* the flags and events of the session
    runner,     \* where run() is, in the reader task of the connection
    app,        \* the application under _guard_app
    reader,     \* _read_loop, with the events it has parsed and not handled
    closer,     \* each close_with, on behalf of a server that shuts down
    line,       \* the writes that wait for the socket, one for each task
    wire,       \* what was written
    queue,      \* the messages for the application
    inbox,      \* the frames received and not parsed
    peer,       \* how many frames the peer has sent, and whether it closed
    net         \* the state of the socket, and what befell the close frame

vars == <<s, runner, app, reader, closer, line, wire, queue, inbox, peer, net>>

Tasks == {"runner", "app", "reader"}
Frames == {"message", "ping", "close", "bad"}
Refusals == {"403", "refusal"}
Items == Refusals \cup {"101", "body", "last", "data", "pong", "close"}
Messages == {"accept", "data", "close", "start", "malformed", "body", "last"}
Deliveries == {"connect", "message", "disconnect"}

Init ==
    /\ s = [closed |-> FALSE, answered |-> FALSE, handshake |-> FALSE,
            closeSent |-> FALSE, rejecting |-> FALSE, rejected |-> FALSE,
            readPaused |-> FALSE]
    /\ runner = "handshake"
    /\ app = [pc |-> "run", over |-> FALSE, sends |-> 0]
    /\ reader = [pc |-> "none", events |-> <<>>, holds |-> "message"]
    /\ closer = [k \in Closers |-> "none"]
    /\ line = {} /\ wire = <<>>
    /\ queue = <<"connect">> /\ inbox = <<>>
    /\ peer = [sent |-> 0, closed |-> FALSE]
    /\ net = [state |-> "open", cut |-> FALSE, early |-> FALSE, lost |-> FALSE]

-----------------------------------------------------------------------------
\* The socket and the queue.

InLine(t, item) == line \cup {[by |-> t, item |-> item]}
\* Cancelling a task takes the write it waits for with it.
Without(t) == {w \in line : w.by # t}
CutClose(ts) == \E w \in line : w.by \in ts /\ w.item = "close"
Full(q) == Len(q) >= QueueMax

MarkClosed(f) == [f EXCEPT !.closed = TRUE]
Answered(f) == [f EXCEPT !.answered = TRUE]
Paused(f) == [f EXCEPT !.readPaused = @ \/ Full(queue)]
\* Mutant: the queue is not bounded.
DeliveredAnyway(m) == Append(queue, m)
Delivered(m) == IF Full(queue) THEN queue ELSE Append(queue, m)
AfterDelivery(pc) == IF Full(queue) THEN "put" ELSE pc

-----------------------------------------------------------------------------
\* The application.

Allowed == IF s.rejected THEN MaxRefused ELSE MaxSends
\* What send checks; whatever else it is handed, it raises or drops.
InTurn(m) ==
    CASE m = "accept" -> ~s.handshake
      [] m = "data" -> s.handshake /\ ~s.closed
      [] m \in {"start", "malformed"} -> ~s.handshake /\ ~s.rejecting
      [] m \in {"body", "last"} -> s.rejecting
      [] OTHER -> TRUE

AppWrites(item, f) ==
    /\ s' = f /\ line' = InLine("app", item)
    /\ app' = [app EXCEPT !.pc = "write", !.sends = @ + 1]
AppMarks(f) ==
    /\ s' = f /\ app' = [app EXCEPT !.sends = @ + 1]
    /\ UNCHANGED line

\* Mutant: the handshake counts as answered before the answer is written.
AcceptAtOnce ==
    AppWrites("101", [s EXCEPT !.handshake = TRUE, !.answered = TRUE])
Accept == AppWrites("101", [s EXCEPT !.handshake = TRUE])

\* Before the handshake is accepted a close refuses it, once more if it was
\* refused before, and the application may accept it all the same.
Close ==
    IF ~s.handshake THEN AppWrites("403", [s EXCEPT !.rejected = TRUE])
    ELSE IF s.closeSent THEN AppMarks(MarkClosed(s))
    ELSE AppWrites("close", [s EXCEPT !.closeSent = TRUE])

\* The flags are set before the headers are looked at, which may raise.
Refusing == [s EXCEPT !.rejecting = TRUE, !.rejected = TRUE]
RejectStart(m) ==
    IF m = "start" THEN AppWrites("refusal", Refusing) ELSE AppMarks(Refusing)

AppSends(m) ==
    /\ app.pc = "run" /\ app.sends < Allowed /\ InTurn(m)
    /\ CASE m = "accept" -> Accept
         [] m = "close" -> Close
         [] m \in {"start", "malformed"} -> RejectStart(m)
         [] OTHER -> AppWrites(m, s)
    /\ UNCHANGED <<runner, reader, closer, wire, queue, inbox, peer, net>>

\* Mutant: reading stays paused.
AppReceivesPaused ==
    /\ app.pc \in {"run", "recv"} /\ queue # <<>>
    /\ queue' = Tail(queue)
    /\ app' = [app EXCEPT !.pc = "run"]
    /\ UNCHANGED <<s, runner, reader, closer, line, wire, inbox, peer, net>>

\* receive: taking a message gives the reader of the socket its room back.
AppReceives ==
    /\ app.pc \in {"run", "recv"}
    /\ IF queue = <<>>
       THEN /\ app.pc = "run"
            /\ app' = [app EXCEPT !.pc = "recv"]
            /\ UNCHANGED <<s, queue>>
       ELSE /\ queue' = Tail(queue)
            /\ s' = [s EXCEPT !.readPaused = @ /\ Full(Tail(queue))]
            /\ app' = [app EXCEPT !.pc = "run"]
    /\ UNCHANGED <<runner, reader, closer, line, wire, inbox, peer, net>>

\* What the guard does last, whatever ended the application: a refusal that was
\* begun and not finished is ended here.
Finally(f) ==
    IF f.rejecting /\ ~f.closed THEN Answered(MarkClosed(f)) ELSE f

\* An error before the handshake is answered wakes run() when it is a
\* RuntimeError; one after it closes the session.
AppEnds(how) ==
    LET woken == IF how = "error" /\ ~s.handshake /\ ~s.answered
                 THEN Answered(MarkClosed(s)) ELSE s
    IN  /\ app.pc = "run"
        /\ IF how # "return" /\ s.handshake /\ ~s.closeSent
           THEN /\ s' = [s EXCEPT !.closeSent = TRUE]
                /\ line' = InLine("app", "close")
                /\ app' = [app EXCEPT !.pc = "write", !.over = TRUE]
           ELSE /\ s' = Finally(woken)
                /\ app' = [app EXCEPT !.pc = "done", !.over = TRUE]
                /\ UNCHANGED line
        /\ UNCHANGED <<runner, reader, closer, wire, queue, inbox, peer, net>>

\* What follows a write of the application.
AppWrote(item) ==
    CASE app.over ->
            /\ s' = Finally(s) /\ app' = [app EXCEPT !.pc = "done"]
            /\ UNCHANGED queue
      [] ~app.over /\ item \in {"101", "403"} ->
            /\ s' = Answered(s) /\ app' = [app EXCEPT !.pc = "run"]
            /\ UNCHANGED queue
      [] ~app.over /\ item = "close" ->
            /\ s' = MarkClosed(s) /\ app' = [app EXCEPT !.pc = "run"]
            /\ UNCHANGED queue
      [] ~app.over /\ item = "last" ->
            /\ s' = Paused(Answered(MarkClosed([s EXCEPT !.handshake = FALSE])))
            /\ queue' = Delivered("disconnect")
            /\ app' = [app EXCEPT !.pc = AfterDelivery("run")]
      [] OTHER ->
            /\ app' = [app EXCEPT !.pc = "run"]
            /\ UNCHANGED <<s, queue>>

-----------------------------------------------------------------------------
\* The reader and the server's goodbye both end the session the same way:
\* a close frame, unless one was sent, then the flag, then the disconnect.

ReaderParts(pc, events, holds) ==
    reader' = [pc |-> pc, events |-> events, holds |-> holds]

\* Mutant: the flag waits for the frame.
SendCloseUnmarked(t) ==
    /\ line' = InLine(t, "close")
    /\ UNCHANGED <<s, queue>>
SendClose(t) ==
    /\ s' = [s EXCEPT !.closeSent = TRUE]
    /\ line' = InLine(t, "close")
    /\ UNCHANGED queue
\* Mutant: the session is not marked closed.
SayGoodbyeOpen ==
    /\ s' = Paused(s)
    /\ queue' = Delivered("disconnect")
SayGoodbye ==
    /\ s' = Paused(MarkClosed(s))
    /\ queue' = Delivered("disconnect")

ReaderEndsSession(events) ==
    IF s.closeSent
    THEN /\ SayGoodbye
         /\ ReaderParts(AfterDelivery("run"), events, "disconnect")
         /\ UNCHANGED line
    ELSE SendClose("reader") /\ ReaderParts("write", events, "disconnect")

\* One round of the loop: the next event, parsed with all that follow it when
\* none is left.  A frame that does not parse, or that stays incomplete until
\* the deadline, takes those parsed with it along.
Batch == IF reader.events # <<>> THEN reader.events ELSE inbox
Handle(event, rest) ==
    CASE event = "message" ->
            /\ s' = Paused(s)
            /\ queue' = Delivered("message")
            /\ ReaderParts(AfterDelivery("run"), rest, "message")
            /\ UNCHANGED line
      [] event = "ping" ->
            /\ line' = InLine("reader", "pong")
            /\ ReaderParts("write", rest, "message")
            /\ UNCHANGED <<s, queue>>
      [] OTHER -> ReaderEndsSession(rest)
ReaderStep ==
    /\ reader.pc = "run"
    /\ IF s.closed
       THEN /\ ReaderParts("done", reader.events, reader.holds)
            /\ UNCHANGED <<s, line, queue, inbox>>
       ELSE /\ Batch # <<>>
            /\ inbox' = IF reader.events # <<>> THEN inbox ELSE <<>>
            /\ IF Contains(Batch, "bad") THEN ReaderEndsSession(<<>>)
               ELSE Handle(Head(Batch), Tail(Batch))
    /\ UNCHANGED <<runner, app, closer, wire, peer, net>>

ReaderWrote(item) ==
    IF item = "close"
    THEN SayGoodbye /\ ReaderParts(AfterDelivery("run"), reader.events, "disconnect")
    ELSE /\ ReaderParts("run", reader.events, reader.holds)
         /\ UNCHANGED <<s, queue>>

\* A put that waited for room in the queue.
Puts(t) ==
    /\ ~Full(queue)
    /\ \/ /\ t = "reader" /\ reader.pc = "put"
          /\ queue' = Append(queue, reader.holds)
          /\ reader' = [reader EXCEPT !.pc = "run"]
          /\ UNCHANGED <<app, closer>>
       \/ /\ t \in Closers /\ closer[t] = "put"
          /\ queue' = Append(queue, "disconnect")
          /\ closer' = [closer EXCEPT ![t] = "done"]
          /\ UNCHANGED <<app, reader>>
       \/ /\ t = "app" /\ app.pc = "put"
          /\ queue' = Append(queue, "disconnect")
          /\ app' = [app EXCEPT !.pc = "run"]
          /\ UNCHANGED <<reader, closer>>
    /\ UNCHANGED <<s, runner, line, wire, inbox, peer, net>>

-----------------------------------------------------------------------------
\* run(): the handshake, the wait for the application, the cleanup.

\* _cleanup: the session is closed and its reader cancelled, then run() waits
\* once more for the application.
EntersCleanup(f, state) ==
    /\ s' = MarkClosed(f)
    /\ runner' = "cleanup"
    /\ reader' = [reader EXCEPT !.pc = IF @ = "none" THEN @ ELSE "done"]
    /\ net' = [net EXCEPT !.state = state, !.cut = @ \/ CutClose({"reader"})]
    /\ line' = Without("reader")
    /\ UNCHANGED <<app, queue, closer>>

HandshakeAnswered ==
    /\ runner = "handshake" /\ s.answered
    /\ IF s.handshake
       THEN /\ runner' = "serving"
            /\ reader' = [reader EXCEPT !.pc = "run"]
            /\ UNCHANGED <<s, app, closer, line, queue, net>>
       ELSE EntersCleanup(s, net.state)
    /\ UNCHANGED <<wire, inbox, peer>>
HandshakeTimesOut ==
    /\ runner = "handshake" /\ ~s.answered
    /\ EntersCleanup(s, "aborted")
    /\ UNCHANGED <<wire, inbox, peer>>

\* _wait_for_app, for as long as it takes until the session closes, and then
\* for the grace period.
AppHasEnded == app.pc = "done"
\* Mutant: only the application is waited for.
StopsServingWithApp ==
    /\ runner = "serving" /\ AppHasEnded
    /\ EntersCleanup(s, net.state)
    /\ UNCHANGED <<wire, inbox, peer>>
StopsServing ==
    /\ runner = "serving" /\ (AppHasEnded \/ s.closed)
    /\ IF AppHasEnded THEN EntersCleanup(s, net.state)
       ELSE /\ runner' = "grace"
            /\ UNCHANGED <<s, app, reader, closer, line, queue, net>>
    /\ UNCHANGED <<wire, inbox, peer>>
GraceEnds ==
    /\ runner = "grace"       \* the application ended, or the time is over
    /\ EntersCleanup(s, net.state)
    /\ UNCHANGED <<wire, inbox, peer>>

\* The connection ends: its socket closes and no task is left.
Ended(how) ==
    /\ runner' = "over"
    /\ app' = [app EXCEPT !.pc = "done"]
    /\ reader' = [reader EXCEPT !.pc = "done"]
    /\ closer' = [k \in Closers |-> "done"]
    /\ line' = {} /\ inbox' = <<>>
    /\ UNCHANGED queue
    /\ net' = [net EXCEPT !.state = "closed", !.lost = how = "lost",
                          !.cut = @ \/ CutClose(Tasks \cup Closers)]
    /\ s' = IF runner = "handshake" THEN s ELSE MarkClosed(s)

\* The application has ended, or is cancelled because the grace period is over
\* a second time; a session that sent no close frame ends with one.
CleanupEnds ==
    /\ runner = "cleanup"
    /\ IF s.closeSent \/ ~s.handshake THEN Ended("served")
       ELSE /\ s' = [s EXCEPT !.closeSent = TRUE]
            /\ runner' = "closing"
            /\ app' = [app EXCEPT !.pc = "done"]
            /\ line' = Without("app") \cup {[by |-> "runner", item |-> "close"]}
            /\ UNCHANGED <<reader, closer, queue, inbox, net>>
    /\ UNCHANGED <<wire, peer>>

-----------------------------------------------------------------------------
\* The socket, the peer and the server.

\* The socket takes a write, and its task goes on.
SocketTakes(w) ==
    /\ wire' = IF net.state = "open" THEN Append(wire, w.item) ELSE wire
    /\ IF w.by = "runner" THEN Ended("served")
       ELSE /\ line' = line \ {w}
            /\ CASE w.by = "app" -> AppWrote(w.item) /\ UNCHANGED <<reader, closer>>
                 [] w.by = "reader" -> ReaderWrote(w.item) /\ UNCHANGED <<app, closer>>
                 [] OTHER ->
                       /\ SayGoodbye
                       /\ closer' = [closer EXCEPT ![w.by] = AfterDelivery("done")]
                       /\ UNCHANGED <<app, reader>>
            /\ UNCHANGED <<runner, inbox, net>>
    /\ UNCHANGED peer
SocketWrites == \E w \in line : SocketTakes(w)

\* Nothing is read from a socket whose reading is paused.
PeerSends(f) ==
    /\ net.state = "open" /\ ~s.readPaused /\ ~peer.closed
    /\ peer.sent < MaxFrames
    /\ inbox' = Append(inbox, f)
    /\ peer' = [sent |-> peer.sent + 1, closed |-> f = "close"]
    /\ UNCHANGED <<s, runner, app, reader, closer, line, wire, queue, net>>

\* The peer hangs up, or the transport that was aborted reports it.
ConnectionLost ==
    /\ net.state # "closed"
    /\ Ended("lost")
    /\ UNCHANGED <<wire, peer>>

\* A server that shuts down asks the connection to end, and asks again for as
\* long as it is there: first close_with, in a task of its own, and once the
\* session is closed the connection itself.
ServerShutsDown(k) ==
    /\ net.state # "closed"
    /\ closer[k] = "none" /\ k = CHOOSE j \in Closers : closer[j] = "none"
    /\ IF s.closed THEN Ended("lost")
       ELSE /\ net' = [net EXCEPT !.early = @ \/ ~Contains(wire, "101")]
            /\ IF s.closeSent
               THEN /\ SayGoodbye
                    /\ closer' = [closer EXCEPT ![k] = AfterDelivery("done")]
                    /\ UNCHANGED line
               ELSE /\ SendClose(k)
                    /\ closer' = [closer EXCEPT ![k] = "write"]
            /\ UNCHANGED <<runner, app, reader, inbox>>
    /\ UNCHANGED <<wire, peer>>

Next ==
    \/ \E m \in Messages : AppSends(m)
    \/ AppReceives
    \/ \E how \in {"return", "error", "fault"} : AppEnds(how)
    \/ ReaderStep
    \/ \E t \in Tasks \cup Closers : Puts(t)
    \/ HandshakeAnswered \/ HandshakeTimesOut
    \/ StopsServing \/ GraceEnds \/ CleanupEnds
    \/ SocketWrites
    \/ \E f \in Frames : PeerSends(f)
    \/ ConnectionLost
    \/ \E k \in Closers : ServerShutsDown(k)

\* The loop runs every task that can go on and every timer that is due; a
\* socket that is paused is resumed, because its peer reads on, or is lost.
\* Nothing is asked of the application.
Fairness ==
    /\ WF_vars(ReaderStep)
    /\ \A t \in Tasks \cup Closers : WF_vars(Puts(t))
    /\ WF_vars(HandshakeAnswered \/ HandshakeTimesOut)
    /\ WF_vars(StopsServing \/ GraceEnds \/ CleanupEnds)
    /\ WF_vars(SocketWrites)

Spec == Init /\ [][Next]_vars /\ Fairness

-----------------------------------------------------------------------------
Flags == [closed : BOOLEAN, answered : BOOLEAN, handshake : BOOLEAN,
          closeSent : BOOLEAN, rejecting : BOOLEAN, rejected : BOOLEAN,
          readPaused : BOOLEAN]

\* Every variable holds a value of its type, and neither the queue nor the line
\* of writers outgrows its bound: a task waits for one write at a time.
TypeOK ==
    /\ s \in Flags
    /\ runner \in {"handshake", "serving", "grace", "cleanup", "closing", "over"}
    /\ app \in [pc : {"run", "recv", "write", "put", "done"},
                over : BOOLEAN, sends : 0 .. MaxSends]
    /\ reader.pc \in {"none", "run", "write", "put", "done"}
    /\ reader.events \in Seq(Frames) /\ reader.holds \in Deliveries
    /\ closer \in [Closers -> {"none", "write", "put", "done"}]
    /\ line \subseteq [by : Tasks \cup Closers, item : Items]
    /\ \A w, v \in line : w.by = v.by => w = v
    /\ wire \in Seq(Items) /\ inbox \in Seq(Frames)
    /\ queue \in Seq(Deliveries) /\ Len(queue) <= QueueMax
    /\ peer \in [sent : 0 .. MaxFrames, closed : BOOLEAN]
    /\ net \in [state : {"open", "aborted", "closed"}, cut : BOOLEAN, early : BOOLEAN,
               lost : BOOLEAN]

\* Frames follow the answer to the handshake, although four tasks write them
\* and a paused socket lets them overtake each other: the data of the application
\* always, and the frames of the server unless it shut down before the answer,
\* which its close frame then precedes, or the application refused the handshake
\* too.  An application that never refuses gets one 101 on the wire; one that
\* closes twice, or closes and then accepts, has both answers written, which
\* nothing in the code prevents (websocket.py:430-438, 598-618, 639-670).
At(items) == {k \in DOMAIN wire : wire[k] \in items}
AnswerFirst ==
    /\ \A k \in At({"data", "pong", "close"}) :
        \/ \E i \in At({"101"}) : i < k
        \/ wire[k] # "data" /\ s.rejected
        \/ wire[k] = "close" /\ net.early
    /\ \A i, j \in At({"101"}) : i = j \/ s.rejected

\* Four tasks may end a session, and the peer gets one close frame: never two,
\* and not none either when a session whose handshake was accepted, and never
\* refused, ends on an open socket, unless the frame was still waiting for a
\* paused socket when its task was cancelled (websocket.py:729-746, 768-771).
OneFarewell ==
    /\ \A i, j \in At({"close"}) : i = j
    /\ runner = "over" /\ At({"101"}) # {} =>
        At({"close"}) # {} \/ net.cut \/ net.lost \/ s.rejected

\* Reading is paused only while the queue is full, so that the message whose
\* taking resumes it is there: an application that sleeps in receive never
\* waits for frames of a socket that nobody reads (websocket.py:567-579).
PausedForAReason ==
    s.readPaused => Full(queue)

\* A session that is closed, by either side or by an error, or whose
\* application has ended, is over some time later, with its tasks, even if the
\* application ignores it (websocket.py:430-451, 754-773).
NobodyLeft ==
    /\ runner = "over" /\ app.pc = "done" /\ reader.pc = "done"
    /\ \A k \in Closers : closer[k] = "done"
SessionEnds == s.closed \/ app.pc = "done" ~> NobodyLeft

\* A peer that closes sees the end of the session, unless the reader is waiting
\* for the application to take a message that came before (websocket.py:543-565).
PeerHeard == peer.closed ~> NobodyLeft \/ reader.pc = "put"
=============================================================================
