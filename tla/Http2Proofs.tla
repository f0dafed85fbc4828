--------------------------- MODULE Http2Proofs ---------------------------
(***************************************************************************)
(* What Http2Connection keeps, for any number of streams, any windows and  *)
(* any bounds.                                                             *)
(*                                                                         *)
(* A step of the connection is looked at from one stream at a time: Moves  *)
(* says all that a step can do to a stream, whoever takes it, and the      *)
(* invariants of a stream are shown to outlive each of these moves.  What  *)
(* the answer of a stream is made of is read off its line, the messages of *)
(* its application that the writer has not taken yet.                      *)
(***************************************************************************)
EXTENDS Http2Connection, ApplicationProofs

-----------------------------------------------------------------------------
Kinds == {"head", "data", "big", "end", "reset", "window", "goaway", "error"}
Streams == [live : BOOLEAN, ended : BOOLEAN, unacked : Nat]
Writers ==
    [pc : {"none", "run", "window", "woken", "paused", "resumed", "done", "failed", "silent"},
     started : BOOLEAN, discard : BOOLEAN, trailers : BOOLEAN,
     awaiting : BOOLEAN, left : Nat, ends : BOOLEAN, last : BOOLEAN]
Outputs ==
    [by : {"none", "app", "bare", "server"}, units : Nat,
     end : {"open", "ended", "reset"}]
NoOutput == [by |-> "none", units |-> 0, end |-> "open"]
DoneWriter == [NoWriter EXCEPT !.pc = "done"]
StoppedWriters == {[NoWriter EXCEPT !.pc = how] : how \in Stopped}

-----------------------------------------------------------------------------
\* What a step can do to stream i.

\* The units whose credit is out grow by n at most, on an open connection.
Owes(i, n) ==
    ~closed' => received'[i] - returned'[i] <= received[i] - returned[i] + n

\* An answer is broken off, or given, by the server itself.
BrokenOff(i) ==
    \/ out'[i] = out[i]
    \/ out[i].end = "open" /\ out'[i] = [out[i] EXCEPT !.end = "reset"]
    \/ /\ out[i].by = "none"
       /\ out'[i] = [by |-> "server", units |-> 1, end |-> "ended"]

Untouched(i) ==
    /\ ex'[i] = ex[i] /\ app'[i] = app[i] /\ stream'[i] = stream[i]
    /\ given'[i] = given[i] /\ out'[i] = out[i]
    /\ \/ writer'[i] = writer[i]
       \/ writer[i].pc = "window" /\ writer'[i] = [writer[i] EXCEPT !.pc = "woken"]
       \/ writer[i].pc = "paused" /\ writer'[i] = [writer[i] EXCEPT !.pc = "resumed"]
    /\ Owes(i, 0)

Refused(i) ==
    /\ ~Settled /\ Head(inbox) = Event("head", i)
    /\ ex'[i] = ex[i] /\ app'[i] = app[i] /\ stream'[i] = stream[i]
    /\ given'[i] = given[i] /\ writer'[i] = writer[i]
    /\ BrokenOff(i)
    /\ Owes(i, 0)

Begun(i) ==
    /\ ~Settled /\ Head(inbox) = Event("head", i)
    /\ ex'[i] = NewExchange /\ app'[i] = Started(app[i]) /\ writer'[i] = NewWriter
    /\ stream'[i] = [stream[i] EXCEPT !.live = TRUE]
    /\ given'[i] = given[i] /\ out'[i] = out[i]
    /\ Owes(i, 0)

\* Data for a request that goes on, and the end of one.
Fed(i) ==
    /\ stream[i].live
    /\ app'[i] = app[i] /\ writer'[i] = writer[i]
    /\ given'[i] = given[i] /\ out'[i] = out[i]
    /\ \/ /\ ~Settled /\ Head(inbox) = Event("data", i) /\ ~Gone(ex[i])
          /\ ex'[i] = Feed(ex[i], "data")
          /\ stream'[i] = [stream[i] EXCEPT !.unacked = stream[i].unacked + 1]
          /\ Owes(i, 1)
       \/ /\ ~Settled /\ Head(inbox) = Event("end", i)
          /\ ex'[i] = IF Gone(ex[i]) THEN ex[i] ELSE Feed(ex[i], "end")
          /\ IF ex[i].complete
             THEN stream'[i] = NoStream /\ Owes(i, - stream[i].unacked)
             ELSE /\ stream'[i] = [stream[i] EXCEPT !.ended = TRUE]
                  /\ Owes(i, 0)

\* The stream goes, with its tasks, and an open connection tells the peer.
TakenDown(i) ==
    /\ stream[i].live
    /\ app'[i] = Cancelled(app[i]) /\ stream'[i] = NoStream
    /\ given'[i] = given[i]
    /\ \E r \in {ex[i], NotifyDisconnect(ex[i])} :
        IF Over(writer[i]) THEN ex'[i] = r /\ writer'[i] = writer[i]
        ELSE ex'[i] = Completed(r) /\ writer'[i] = DoneWriter
    /\ BrokenOff(i)
    /\ Owes(i, - stream[i].unacked)
    /\ ~closed' /\ ~goaway' =>
        \/ out'[i].end # "open"
        \/ ~Settled /\ Head(inbox) = Event("reset", i)

\* The writer of the stream ends, somehow, or goes on as w.
Ending(i, r) ==
    /\ ex'[i] = Completed(r) /\ writer'[i] \in StoppedWriters
    /\ stream'[i] = IF ~stream[i].live THEN stream[i]
                    ELSE IF stream[i].ended THEN NoStream
                    ELSE [stream[i] EXCEPT !.unacked = 0]
    /\ Owes(i, - stream[i].unacked)
Going(i, w, r) ==
    /\ ex'[i] = r /\ writer'[i] = w /\ stream'[i] = stream[i]
    /\ Owes(i, 0)

\* It sends n units of what is left.
Sending(i, w, r) ==
    \E n \in 0 .. w.left :
        /\ out'[i] = [out[i] EXCEPT !.units = out[i].units + n,
                        !.end = IF w.ends /\ n = w.left THEN "ended" ELSE out[i].end]
        /\ \/ n = w.left /\ w.last /\ Ending(i, r)
           \/ n = w.left /\ ~w.last /\ Going(i, [w EXCEPT !.left = 0, !.pc = "run"], r)
           \/ Going(i, [w EXCEPT !.left = w.left - n, !.pc = "paused"], r)
           \/ n < w.left /\ Going(i, [w EXCEPT !.left = w.left - n, !.pc = "window"], r)

\* What a writer that took m is about to do.
Taking(i, m) ==
    [writer[i] EXCEPT !.left = IF m.data THEN Chunk[i] ELSE 0,
                      !.ends = ~m.more /\ ~writer[i].trailers,
                      !.last = ~m.more /\ ~writer[i].trailers,
                      !.awaiting = ~m.more /\ writer[i].trailers]

Written(i) ==
    /\ app'[i] = app[i] /\ given'[i] = given[i]
    /\ \/ /\ writer[i].pc = "run" /\ ex[i].send # <<>>
          /\ LET m == Head(ex[i].send)
                 none == m.framing = "none"
             IN  \/ /\ m.kind = "start" /\ ~closed
                    /\ out'[i] = [out[i] EXCEPT !.by = IF none THEN "bare" ELSE "app",
                                        !.end = IF none THEN "ended" ELSE out[i].end]
                    /\ Going(i, [writer[i] EXCEPT !.started = TRUE, !.discard = none,
                                            !.trailers = m.trailers /\ ~none],
                             Taken(ex[i]))
                 \/ /\ m.kind \in {"start", "trailers"}
                    /\ out'[i] = Rst(out[i]) \/ (out'[i] = out[i] /\ writer'[i].pc # "done")
                    /\ Ending(i, Taken(ex[i]))
                 \/ /\ m.kind = "body" /\ writer[i].discard
                    /\ out'[i] = out[i]
                    /\ IF ~m.more /\ ~writer[i].trailers THEN Ending(i, Taken(ex[i]))
                       ELSE Going(i, [Taking(i, m) EXCEPT !.left = 0], Taken(ex[i]))
                 \/ /\ m.kind = "body" /\ ~writer[i].discard /\ ~m.aborted
                    /\ Sending(i, Taking(i, m), Taken(ex[i]))
                 \/ /\ m.kind = "trailers"
                    /\ out'[i] = [out[i] EXCEPT !.end =
                                    IF writer[i].awaiting THEN "ended" ELSE out[i].end]
                    /\ Ending(i, Taken(ex[i]))
                    /\ writer'[i].pc = "done" => writer[i].awaiting \/ writer[i].discard
       \/ writer[i].pc \in {"woken", "resumed"} /\ Sending(i, writer[i], ex[i])
       \/ /\ writer[i].pc = "resumed" /\ out'[i] = out[i]
          /\ Going(i, [writer[i] EXCEPT !.pc = "paused"], ex[i])
       \/ /\ writer[i].pc \in {"woken", "run"} /\ goaway
          /\ out'[i] = out[i]
          /\ Ending(i, ex[i])

\* The application takes a message, or finds none.
Reads(i) ==
    /\ writer'[i] = writer[i] /\ given'[i] = given[i] /\ out'[i] = out[i]
    /\ \/ /\ app[i].pc \in {"run", "recv"} /\ ex[i].recv # <<>>
          /\ ex'[i] = Received(ex[i])
          /\ app'[i] = [app[i] EXCEPT !.pc = "run",
                !.got = IF Head(ex[i].recv) = "data" THEN app[i].got + 1 ELSE app[i].got,
                !.whole = app[i].whole \/ Head(ex[i].recv) = "end"]
          /\ IF Head(ex[i].recv) = "data" /\ ~closed
             THEN /\ stream'[i] = IF stream[i].unacked = 0 THEN stream[i]
                            ELSE [stream[i] EXCEPT !.unacked = stream[i].unacked - 1]
                  /\ Owes(i, -1)
             ELSE stream'[i] = stream[i] /\ Owes(i, 0)
       \/ /\ app[i].pc = "run" /\ ex[i].recv = <<>>
          /\ ex'[i] = ex[i] /\ stream'[i] = stream[i] /\ Owes(i, 0)
          /\ app'[i] = IF ReceiveAnswersAlone(ex[i]) THEN app[i]
                       ELSE [app[i] EXCEPT !.pc = "recv"]

Speaks(i) ==
    /\ writer'[i] = writer[i] /\ stream'[i] = stream[i] /\ out'[i] = out[i]
    /\ Owes(i, 0)
    /\ \/ \E m \in Says[i] :
            /\ app[i].pc = "run" /\ InPlace(ex[i], m) /\ InTurn(ex[i], m)
            /\ Queueing(i, Noted(ex[i], m), <<m>>,
                        [app[i] EXCEPT !.sends = app[i].sends + 1])
            /\ given'[i] = IF m.kind = "body" /\ m.data
                           THEN given[i] + Chunk[i] ELSE given[i]
       \/ \E how \in Endings :
            /\ app[i].pc = "run" /\ MayEnd(ex[i], how)
            /\ Queueing(i, Ended(ex[i], how), LastWords(ex[i], how),
                        [app[i] EXCEPT !.over = TRUE, !.gaveUp =
                            how # "return" /\ ex[i].started /\ ~ex[i].bodyEnded])
            /\ given'[i] = IF LastWords(ex[i], how) = Whole
                           THEN given[i] + Chunk[i] ELSE given[i]
       \/ /\ app[i].pc = "put" /\ ex[i].sendSpace
          /\ Queueing(i, ex[i], app[i].todo, app[i])
          /\ given'[i] = given[i]

Moves(i) ==
    \/ Untouched(i) \/ Refused(i) \/ Begun(i) \/ Fed(i) \/ TakenDown(i)
    \/ Written(i) \/ Reads(i) \/ Speaks(i)

-----------------------------------------------------------------------------
\* The inductive invariant.

Typed ==
    /\ ex \in [Requests -> Exchanges] /\ app \in [Requests -> Apps]
    /\ \A i \in Requests : Len(ex[i].send) <= SendMax
    /\ stream \in [Requests -> Streams] /\ writer \in [Requests -> Writers]
    /\ out \in [Requests -> Outputs]
    /\ given \in [Requests -> Nat]
    /\ received \in [Requests -> Nat] /\ returned \in [Requests -> Nat]
Around ==
    /\ peer \in [Requests -> [at : {"idle", "open", "ended", "reset"}, sent : Nat]]
    /\ inbox \in Seq([kind : Kinds, of : Requests \cup {0}])
    /\ outConn \in 0 .. Window
    /\ outStream \in [Requests -> Nat]
    /\ \A i \in Requests : outStream[i] <= StreamWindow[i]
    /\ writePaused \in BOOLEAN /\ goaway \in BOOLEAN
    /\ closed \in BOOLEAN /\ lost \in BOOLEAN
    /\ resets \in Nat /\ (closed \/ resets <= MaxResets)
    /\ trouble \in 0 .. MaxTrouble

\* The exchange, the stream and the tasks of a request agree on how far it is.
Sides(i) ==
    /\ writer[i].pc = "none" =>
        /\ ex[i] = NewExchange /\ app[i] = NoApp /\ stream[i] = NoStream
        /\ given[i] = 0 /\ out[i].by \in {"none", "server"}
    /\ writer[i].pc # "none" => app[i].pc # "none"
    /\ ~Over(writer[i]) => stream[i].live
    /\ ex[i].complete = (writer[i].pc \in Stopped)
    /\ ex[i].finished = ex[i].complete /\ ex[i].disconnected = ex[i].complete
    /\ stream[i].live => ~(stream[i].ended /\ ex[i].complete)
    /\ ~stream[i].live => stream[i] = NoStream

\* A head is in the inbox once, for a stream that nothing was done for yet.
FromPeer(i) == {Event("data", i), Event("big", i), Event("end", i)}
OfPeer(i) == FromPeer(i) \cup {Event("head", i), Event("reset", i)}
Mail(i) ==
    /\ peer[i].at = "idle" =>
        /\ writer[i].pc = "none" /\ out[i] = NoOutput
        /\ \A k \in DOMAIN inbox : inbox[k] \notin OfPeer(i)
    /\ \A k \in DOMAIN inbox : inbox[k] = Event("head", i) =>
        /\ writer[i].pc = "none" /\ out[i] = NoOutput
        /\ \A l \in DOMAIN inbox : inbox[l] = Event("head", i) => l = k
    /\ \A k \in DOMAIN inbox : inbox[k] = Event("reset", i) => peer[i].at = "reset"

\* The queue of a request has room for all that the peer can still send.
Roomy(i) ==
    /\ peer[i].sent <= Uploads[i]
    /\ (IF ex[i].disconnected THEN 0 ELSE Len(ex[i].recv)) + Count(inbox, FromPeer(i))
            <= peer[i].sent + (IF peer[i].at \in {"ended", "reset"} THEN 1 ELSE 0)
    /\ Len(ex[i].recv) <= RecvMax

\* The credit that is out is what the stream holds, and that can be read.
Credits(i) ==
    ~closed =>
        /\ received[i] - returned[i] <= stream[i].unacked
        /\ ex[i].complete => stream[i].unacked = 0
        /\ stream[i].live /\ ~ex[i].complete => stream[i].unacked <= Unread(i)

\* A writer sleeps while there is no credit, or until an event is handled, or while
\* the transport is paused.
Awake(i) ==
    /\ writer[i].pc = "window" =>
        CreditOf(i) = 0 \/ \E k \in DOMAIN inbox : inbox[k] = Event("window", 0)
    /\ writer[i].pc = "paused" => writePaused

Lost == lost => inbox = <<>> /\ Live = {}

\* How far the writer w of an answer is, with exchange r and output o: what it
\* was told of the answer ...
Ready(w, r, o) ==
    /\ w.last = w.ends
    /\ w.discard => /\ w.started /\ ~w.trailers /\ ~w.awaiting /\ w.left = 0
                    /\ ~w.ends /\ o.by = "bare" /\ o.end = "ended"
    /\ ~w.discard => o.by = (IF w.started THEN "app" ELSE "none")
    /\ ~w.started => ~w.trailers /\ ~w.awaiting /\ ~w.ends /\ w.left = 0 /\ o.units = 0
    /\ w.started => w.discard \/ w.trailers = r.announced
    /\ w.awaiting => w.trailers
\* ... and what it sent of the message it took.
Phase(w, r, o) ==
    /\ Ready(w, r, o)
    /\ w.pc = "run" => ~w.ends /\ w.left = 0
    /\ ~w.discard => o.end = (IF w.ends /\ w.left = 0 THEN "ended" ELSE "open")

\* A start message goes first, and only there.
Opening(L, w, r) ==
    /\ r.started = (w.started \/ L # <<>>)
    /\ ~r.started => ~r.announced /\ ~r.bodyEnded
    /\ ~w.started /\ L # <<>> => L[1].kind = "start" /\ L[1].trailers = r.announced
    /\ \A k \in DOMAIN L : L[k].kind = "start" => k = 1 /\ ~w.started

\* What ends the body goes last of the body, before the trailers.
Closed(w) == w.awaiting \/ w.ends
BodyLast(L, w, r, a) ==
    /\ \A j, k \in DOMAIN L : L[j] \in Final /\ L[k] \in Body => k <= j
    /\ Closed(w) => ~Has(L, Body)
    /\ Closed(w) \/ Has(L, Final) => (r.bodyEnded \/ a.over) /\ ~a.gaveUp
    /\ a.gaveUp => a.over

\* No unit is lost between the application and the peer: g of them were given,
\* c by each message that carries data.
Kept(L, w, o, g, c) ==
    ~w.discard => g = o.units + w.left + c * Count(L, Loaded)

Holds(L, w, r, a, o, g, c) ==
    Opening(L, w, r) /\ BodyLast(L, w, r, a) /\ Kept(L, w, o, g, c)
Answering(i) ==
    ~Over(writer[i]) =>
        /\ Phase(writer[i], ex[i], out[i]) /\ Waits(app[i])
        /\ Holds(Line(i), writer[i], ex[i], app[i], out[i], given[i], Chunk[i])

\* An answer that ended is whole, and stays so.
EndedWhole(i) ==
    out[i].by = "app" /\ out[i].end = "ended" =>
        /\ out[i].units = given[i] /\ ~app[i].gaveUp /\ ex[i].started
        /\ ex[i].bodyEnded \/ app[i].over \/ app[i].pc = "done"
        /\ app[i].over => app[i].pc \in {"put", "done"}

Told(i) ==
    ~closed /\ ~goaway /\ writer[i].pc = "done" =>
        out[i].end # "open" \/ peer[i].at = "reset"

Stream(i) ==
    /\ Sides(i) /\ Mail(i) /\ Roomy(i) /\ Credits(i) /\ Awake(i)
    /\ AsleepForAReason(i, ~Over(writer[i]))
    /\ Answering(i) /\ EndedWhole(i) /\ Told(i)
IInv == Typed /\ Around /\ Lost /\ \A i \in Requests : Stream(i)

-----------------------------------------------------------------------------
\* Every step moves every stream.

\* The functions on the streams stay functions on them.
Shaped ==
    /\ ex' = [i \in Requests |-> ex'[i]] /\ app' = [i \in Requests |-> app'[i]]
    /\ stream' = [i \in Requests |-> stream'[i]]
    /\ writer' = [i \in Requests |-> writer'[i]]
    /\ out' = [i \in Requests |-> out'[i]]
    /\ given' = [i \in Requests |-> given'[i]]
    /\ received' \in [Requests -> Nat] /\ returned' \in [Requests -> Nat]
Moved == Shaped /\ \A i \in Requests : Moves(i)

\* What the lemmas on the steps start from.
Base == Typed /\ Around /\ \A i \in Requests : Sides(i)

\* Steps that only change what is around the streams.
LEMMA QuietMoves ==
    ASSUME Base, UNCHANGED <<ex, app, stream, writer, out, given, received, returned>>
    PROVE  Moved
<1>1. Typed
  BY DEF Base
<1>2. Shaped
  BY <1>1 DEF Shaped, Typed
<1>3. ASSUME NEW i \in Requests PROVE Moves(i)
  BY <1>1 DEF Moves, Untouched, Owes, Typed
<1> QED BY <1>2, <1>3 DEF Moved

\* A stream whose tasks are cancelled, and one whose are not.
LEMMA CancelledFromActs ==
    ASSUME Typed, NEW S, NEW after, CancelledFrom(S, after), NEW i \in Requests
    PROVE  /\ i \in S =>
                /\ app'[i] = Cancelled(app[i]) /\ stream'[i] = NoStream
                /\ Over(writer[i]) => ex'[i] = after[i] /\ writer'[i] = writer[i]
                /\ ~Over(writer[i]) => ex'[i] = Completed(after[i]) /\ writer'[i] = DoneWriter
           /\ i \notin S =>
                /\ app'[i] = app[i] /\ stream'[i] = stream[i]
                /\ ex'[i] = after[i] /\ writer'[i] = writer[i]
BY DEF CancelledFrom, DoneWriter

\* The functions on the streams stay functions on them.
LEMMA CancelledFromShapes ==
    ASSUME Typed, NEW S, NEW after, CancelledFrom(S, after)
    PROVE  /\ ex' = [i \in Requests |-> ex'[i]] /\ app' = [i \in Requests |-> app'[i]]
           /\ stream' = [i \in Requests |-> stream'[i]]
           /\ writer' = [i \in Requests |-> writer'[i]]
BY DEF CancelledFrom

\* _cancel_all.
LEMMA ShutMoves ==
    ASSUME Base, NEW after, Shut(after), UNCHANGED <<out, given, received>>,
           \A i \in Requests :
                /\ after[i] \in {ex[i], NotifyDisconnect(ex[i])}
                /\ i \notin Live => after[i] = ex[i]
    PROVE  Moved
<1>1. Typed /\ closed' = TRUE /\ CancelledFrom(Live, after) /\ returned' = returned
  BY DEF Base, Shut
<1>2. Shaped
  BY <1>1, CancelledFromShapes DEF Shaped, Typed
<1>3. ASSUME NEW i \in Requests PROVE Moves(i)
  <2>1. CASE i \in Live
    <3>1. TakenDown(i)
      BY <1>1, <1>3, <2>1, CancelledFromActs DEF TakenDown, BrokenOff, Owes, Live
    <3> QED BY <3>1 DEF Moves
  <2>2. CASE i \notin Live
    <3>1. Untouched(i)
      BY <1>1, <1>3, <2>2, CancelledFromActs DEF Untouched, Owes
    <3> QED BY <3>1 DEF Moves
  <2> QED BY <2>1, <2>2
<1> QED BY <1>2, <1>3 DEF Moved

\* _reset_stream, of streams whose peer knows the end of them.
LEMMA ResetStreamsMoves ==
    ASSUME Base, NEW S, NEW more \in Nat, ResetStreams(S, more), UNCHANGED given,
           out' = [i \in Requests |-> out'[i]],
           received' \in [Requests -> Nat],
           \A i \in Requests :
              /\ i \notin S => received'[i] = received[i] /\ out'[i] = out[i]
              /\ i \in S \cap Live =>
                    /\ BrokenOff(i) /\ received'[i] <= received[i] + more
                    /\ ~closed' /\ ~goaway' => \/ out'[i].end # "open"
                                               \/ ~Settled /\ Head(inbox) = Event("reset", i)
              /\ i \in S \ Live =>
                    /\ out'[i] = out[i]
                    /\ ~closed' => received'[i] <= received[i]
    PROVE  Moved
<1> DEFINE known == S \cap Live
           told == [i \in Requests |-> IF i \in known THEN NotifyDisconnect(ex[i]) ELSE ex[i]]
           back == [i \in Requests |-> IF i \in known /\ ~closed'
                                       THEN returned[i] + stream[i].unacked + more
                                       ELSE returned[i]]
<1>1. PICK gone \in {known, Live} :
        /\ CancelledFrom(gone, told) /\ returned' = back
        /\ gone # known => closed' = TRUE
  BY DEF ResetStreams
<1>2. Typed /\ \A i \in Requests : told[i] = IF i \in known THEN NotifyDisconnect(ex[i]) ELSE ex[i]
  BY DEF Base
<1>3. returned' \in [Requests -> Nat]
  BY <1>1, <1>2 DEF Typed, Streams
<1>4. \A i \in Requests : Owes(i, IF i \in known THEN - stream[i].unacked ELSE 0)
  <2> SUFFICES ASSUME NEW i \in Requests, ~closed'
               PROVE  received'[i] - returned'[i] <= received[i] - returned[i]
                           + (IF i \in known THEN - stream[i].unacked ELSE 0)
    BY DEF Owes
  <2>1. /\ received'[i] \in Nat /\ received[i] \in Nat /\ returned[i] \in Nat
        /\ stream[i].unacked \in Nat
    BY <1>2 DEF Typed, Streams
  <2>2. returned'[i] = IF i \in known THEN returned[i] + stream[i].unacked + more ELSE returned[i]
    BY <1>1
  <2>3. received'[i] <= received[i] + (IF i \in known THEN more ELSE 0)
    BY <2>1
  <2> QED BY <2>1, <2>2, <2>3
<1>5. Shaped
  BY <1>1, <1>2, <1>3, CancelledFromShapes DEF Shaped, Typed
<1> HIDE DEF told, back
<1>6. ASSUME NEW i \in Requests PROVE Moves(i)
  <2>1. CASE i \in gone
    <3>1. TakenDown(i)
      <4>1. stream[i].live
        BY <1>1, <2>1 DEF Live
      <4>2. /\ app'[i] = Cancelled(app[i]) /\ stream'[i] = NoStream /\ given'[i] = given[i]
            /\ \E r \in {ex[i], NotifyDisconnect(ex[i])} :
                IF Over(writer[i]) THEN ex'[i] = r /\ writer'[i] = writer[i]
                ELSE ex'[i] = Completed(r) /\ writer'[i] = DoneWriter
        BY <1>1, <1>2, <2>1, CancelledFromActs
      <4>3. BrokenOff(i)
        BY <4>1 DEF BrokenOff, Live
      <4>4. Owes(i, - stream[i].unacked)
        BY <1>1, <1>4, <2>1 DEF Owes
      <4>5. ~closed' /\ ~goaway' => \/ out'[i].end # "open"
                                    \/ ~Settled /\ Head(inbox) = Event("reset", i)
        BY <1>1, <2>1
      <4> QED BY <4>1, <4>2, <4>3, <4>4, <4>5 DEF TakenDown
    <3> QED BY <3>1 DEF Moves
  <2>2. CASE i \notin gone
    <3>1. Untouched(i)
      <4>1. i \notin known /\ out'[i] = out[i]
        BY <1>1, <2>2
      <4>2. /\ ex'[i] = ex[i] /\ app'[i] = app[i] /\ stream'[i] = stream[i]
            /\ writer'[i] = writer[i]
        BY <1>1, <1>2, <2>2, <4>1, CancelledFromActs
      <4>3. Owes(i, 0)
        BY <1>4, <4>1
      <4> QED BY <4>1, <4>2, <4>3 DEF Untouched
    <3> QED BY <3>1 DEF Moves
  <2> QED BY <2>1, <2>2
<1> QED BY <1>5, <1>6 DEF Moved

\* Steps of one stream.
Alone(i) ==
    \A j \in Requests \ {i} :
        /\ ex'[j] = ex[j] /\ app'[j] = app[j] /\ stream'[j] = stream[j]
        /\ writer'[j] = writer[j] /\ out'[j] = out[j] /\ given'[j] = given[j]
        /\ received'[j] = received[j] /\ returned'[j] = returned[j]

\* A step that moves one stream and leaves the others alone.
LEMMA AloneMoves ==
    ASSUME Base, Shaped, NEW i \in Requests, Moves(i), Alone(i)
    PROVE  Moved
<1>1. ASSUME NEW j \in Requests \ {i} PROVE Untouched(j)
  BY <1>1 DEF Untouched, Owes, Alone, Base, Typed
<1> QED BY <1>1 DEF Moved, Moves

\* A request that is answered by the server, or reset.
LEMMA RefuseRequestMoves ==
    ASSUME Base, NEW i \in Requests, RefuseRequest(i)
    PROVE  Moved
<1>1. Typed /\ Around
  BY DEF Base
<1>2. Shaped /\ Alone(i)
  BY <1>1 DEF Typed, Shaped, Alone, RefuseRequest, RespondSimple, wire, Handles
<1>3. BrokenOff(i)
  BY <1>1 DEF Typed, Outputs, RefuseRequest, RespondSimple, wire, Rst, BrokenOff
<1>4. Refused(i)
  BY <1>1, <1>3 DEF Typed, Refused, RefuseRequest, Handles, Owes
<1> QED BY <1>2, <1>4, AloneMoves DEF Moves

\* _on_request: the stream and its tasks are made.
LEMMA OnRequestMoves ==
    ASSUME Base, NEW i \in Requests, OnRequest(i)
    PROVE  Moved
<1>1. Typed
  BY DEF Base
<1>2. Shaped /\ Alone(i)
  BY <1>1 DEF Typed, Shaped, Alone, OnRequest, wire, Handles
<1>3. Begun(i)
  BY <1>1 DEF Typed, Begun, OnRequest, wire, Handles, Owes
<1> QED BY <1>2, <1>3, AloneMoves DEF Moves

\* Credit that goes back on an open connection.
LEMMA CreditProperties ==
    ASSUME Typed, NEW i \in Requests, NEW n \in Nat, Credit(i, n)
    PROVE  /\ returned' \in [Requests -> Nat]
           /\ \A j \in Requests \ {i} : returned'[j] = returned[j]
           /\ returned'[i] = IF closed THEN returned[i] ELSE returned[i] + n
BY DEF Typed, Credit

\* _on_data: what is fed is owed, and all else is given back.
LEMMA OnDataMoves ==
    ASSUME Base, NEW i \in Requests, OnData(i)
    PROVE  Moved
<1>1. Typed /\ ~Settled /\ Head(inbox) = Event("data", i)
  BY DEF Base, OnData, Handles
<1>2. /\ received' = [received EXCEPT ![i] = received[i] + 1]
      /\ UNCHANGED <<app, writer, out, given, closed>>
  BY DEF OnData, wire, Handles
<1>3. CASE i \in Live /\ ~Gone(ex[i])
  <2>1. /\ ex' = [ex EXCEPT ![i] = Feed(ex[i], "data")]
        /\ stream' = [stream EXCEPT ![i].unacked = stream[i].unacked + 1]
        /\ UNCHANGED returned
    BY <1>1, <1>3 DEF OnData, Typed
  <2>5. received' \in [Requests -> Nat]
    BY <1>1, <1>2 DEF Typed
  <2>6. Shaped
    BY <1>1, <1>2, <2>1, <2>5 DEF Typed, Shaped
  <2>2. Shaped /\ Alone(i)
    BY <1>1, <1>2, <2>1, <2>6 DEF Typed, Alone
  <2>3. Owes(i, 1)
    BY <1>1, <1>2, <2>1 DEF Owes, Typed
  <2>4. Fed(i)
    BY <1>1, <1>2, <1>3, <2>1, <2>3 DEF Fed, Typed, Live
  <2> QED BY <2>2, <2>4, AloneMoves DEF Moves
<1>4. CASE ~ (i \in Live /\ ~Gone(ex[i]))
  <2>1. Credit(i, 1) /\ UNCHANGED <<ex, stream>>
    BY <1>4 DEF OnData
  <2>2. Shaped /\ Alone(i)
    BY <1>1, <1>2, <2>1, CreditProperties DEF Typed, Shaped, Alone
  <2>3. Owes(i, 0)
    <3>1. returned'[i] = IF closed THEN returned[i] ELSE returned[i] + 1
      BY <1>1, <2>1, CreditProperties
    <3>2. received'[i] = received[i] + 1
      BY <1>1, <1>2 DEF Typed
    <3> QED BY <1>1, <1>2, <3>1, <3>2 DEF Owes, Typed
  <2>4. Untouched(i)
    BY <1>2, <2>1, <2>3 DEF Untouched
  <2> QED BY <2>2, <2>4, AloneMoves DEF Moves
<1> QED BY <1>3, <1>4

\* An answer by the server leaves those of other streams as they are.
LEMMA RespondSimpleProperties ==
    ASSUME Typed, NEW i \in Requests, RespondSimple(i)
    PROVE  /\ out' = [j \in Requests |-> out'[j]]
           /\ \A j \in Requests \ {i} : out'[j] = out[j]
           /\ BrokenOff(i)
           /\ ~closed => out'[i].end # "open"
<1>1. CASE closed
  BY <1>1 DEF Typed, RespondSimple, wire, BrokenOff
<1>2. CASE ~closed /\ (out[i].by # "none" \/ outConn = 0 \/ outStream[i] = 0)
  <2>1. out' = [out EXCEPT ![i] = Rst(out[i])]
    BY <1>2 DEF RespondSimple
  <2> QED BY <1>2, <2>1 DEF Typed, Outputs, Rst, BrokenOff
<1>3. CASE ~closed /\ ~ (out[i].by # "none" \/ outConn = 0 \/ outStream[i] = 0)
  <2>1. out' = [out EXCEPT ![i] = [by |-> "server", units |-> 1, end |-> "ended"]]
    BY <1>3 DEF RespondSimple
  <2> QED BY <1>3, <2>1 DEF Typed, BrokenOff
<1> QED BY <1>1, <1>2, <1>3

\* _on_data, of a body that is too large: 413 and a reset.
LEMMA OnTooMuchDataMoves ==
    ASSUME Base, NEW i \in Requests, OnTooMuchData(i)
    PROVE  Moved
<1>1. Typed /\ closed \in BOOLEAN
  BY DEF Base, Around
<1>2. received' = [received EXCEPT ![i] = received[i] + 1] /\ UNCHANGED given
  BY DEF OnTooMuchData, Handles
<1>3. CASE i \in Live /\ ~ex[i].finished
  <2>1. RespondSimple(i) /\ ResetStreams({i}, 1)
    BY <1>3 DEF OnTooMuchData
  <2>2. closed => closed'
    BY <2>1 DEF ResetStreams
  <2>3. /\ out' = [j \in Requests |-> out'[j]]
        /\ \A j \in Requests \ {i} : out'[j] = out[j]
        /\ BrokenOff(i) /\ (~closed => out'[i].end # "open")
    BY <1>1, <2>1, RespondSimpleProperties
  <2>4. received' \in [Requests -> Nat] /\ received'[i] <= received[i] + 1
    BY <1>1, <1>2 DEF Typed
  <2>5. \A j \in Requests \ {i} : received'[j] = received[j]
    BY <1>1, <1>2 DEF Typed
  <2> QED BY <1>2, <1>3, <2>1, <2>2, <2>3, <2>4, <2>5, ResetStreamsMoves
<1>4. CASE ~ (i \in Live /\ ~ex[i].finished)
  <2>1. Credit(i, 1) /\ UNCHANGED <<ex, app, stream, writer, out, closed>>
    BY <1>4 DEF OnTooMuchData, wire
  <2>2. Shaped /\ Alone(i)
    BY <1>1, <1>2, <2>1, CreditProperties DEF Typed, Shaped, Alone
  <2>3. Owes(i, 0)
    <3>1. returned'[i] = IF closed THEN returned[i] ELSE returned[i] + 1
      BY <1>1, <2>1, CreditProperties
    <3>2. received'[i] = received[i] + 1
      BY <1>1, <1>2 DEF Typed
    <3> QED BY <1>1, <2>1, <3>1, <3>2 DEF Owes, Typed
  <2>4. Untouched(i)
    BY <1>2, <2>1, <2>3 DEF Untouched
  <2> QED BY <2>2, <2>4, AloneMoves DEF Moves
<1> QED BY <1>3, <1>4

\* What _finalize does to a stream and to its credit.
LEMMA OnStreamEndedMoves ==
    ASSUME Base, NEW i \in Requests, OnStreamEnded(i)
    PROVE  Moved
<1>1. /\ Typed /\ ~Settled /\ Head(inbox) = Event("end", i)
      /\ UNCHANGED <<app, writer, out, received, given>>
  BY DEF Base, OnStreamEnded, Handles, wire
<1>2. CASE i \notin Live
  <2>1. UNCHANGED <<ex, stream, returned>>
    BY <1>2 DEF OnStreamEnded
  <2> QED BY <1>1, <2>1, QuietMoves
<1>3. CASE i \in Live
  <2>1. ex' = IF Gone(ex[i]) THEN ex ELSE [ex EXCEPT ![i] = Feed(ex[i], "end")]
    BY <1>3 DEF OnStreamEnded
  <2>2. CASE ex[i].complete
    <3>1. /\ stream' = [stream EXCEPT ![i] = NoStream] /\ (closed => closed')
          /\ Credit(i, stream[i].unacked)
      BY <1>3, <2>2 DEF OnStreamEnded, Finalize
    <3>2. stream[i].unacked \in Nat
      BY <1>1 DEF Typed, Streams
    <3>3. /\ returned' \in [Requests -> Nat]
          /\ \A j \in Requests \ {i} : returned'[j] = returned[j]
          /\ returned'[i] = IF closed THEN returned[i] ELSE returned[i] + stream[i].unacked
      BY <1>1, <3>1, <3>2, CreditProperties
    <3>4. Shaped /\ Alone(i)
      BY <1>1, <2>1, <3>1, <3>3 DEF Typed, Shaped, Alone
    <3>5. Owes(i, - stream[i].unacked)
      BY <1>1, <3>1, <3>2, <3>3 DEF Owes, Typed
    <3>6. Fed(i)
      BY <1>1, <1>3, <2>1, <2>2, <3>1, <3>5 DEF Fed, Typed, Live
    <3> QED BY <3>4, <3>6, AloneMoves DEF Moves
  <2>3. CASE ~ex[i].complete
    <3>1. stream' = [stream EXCEPT ![i].ended = TRUE] /\ UNCHANGED <<closed, returned>>
      BY <1>3, <2>3 DEF OnStreamEnded
    <3>2. Shaped /\ Alone(i)
      BY <1>1, <2>1, <3>1 DEF Typed, Shaped, Alone
    <3>3. Fed(i)
      BY <1>1, <1>3, <2>1, <2>3, <3>1 DEF Fed, Typed, Live, Owes
    <3> QED BY <3>2, <3>3, AloneMoves DEF Moves
  <2> QED BY <2>2, <2>3
<1> QED BY <1>2, <1>3

\* _on_stream_reset: the stream goes, as its peer knows.
LEMMA OnStreamResetMoves ==
    ASSUME Base, NEW i \in Requests, OnStreamReset(i)
    PROVE  Moved
<1>1. /\ Typed /\ ~Settled /\ Head(inbox) = Event("reset", i)
      /\ UNCHANGED <<out, received, given>> /\ ResetStreams({i}, 0)
  BY DEF Base, OnStreamReset, Handles, wire
<1>2. \A j \in Requests : received'[j] <= received[j] + 0 /\ received'[j] <= received[j]
  BY <1>1 DEF Typed
<1>3. /\ out' = [j \in Requests |-> out'[j]] /\ received' \in [Requests -> Nat]
      /\ \A j \in Requests : BrokenOff(j) /\ out'[j] = out[j] /\ received'[j] = received[j]
  BY <1>1 DEF Typed, BrokenOff
<1> QED BY <1>1, <1>2, <1>3, ResetStreamsMoves

\* _on_window_updated wakes the writers that wait for credit.
LEMMA OnWindowUpdatedMoves ==
    ASSUME Base, OnWindowUpdated
    PROVE  Moved
<1>1. /\ Typed /\ writer' = Woken("window", "woken")
      /\ UNCHANGED <<ex, app, stream, out, received, returned, given>>
  BY DEF Base, OnWindowUpdated, Handles, wire
<1>2. Shaped
  BY <1>1 DEF Shaped, Typed, Woken
<1>3. ASSUME NEW i \in Requests PROVE Untouched(i)
  BY <1>1 DEF Untouched, Woken, Owes, Typed
<1> QED BY <1>2, <1>3 DEF Moved, Moves

\* resume_writing wakes the writers that wait for the transport.
LEMMA ResumeWritingMoves ==
    ASSUME Base, ResumeWriting
    PROVE  Moved
<1>1. /\ Typed /\ writer' = Woken("paused", "resumed")
      /\ UNCHANGED <<ex, app, stream, out, received, returned, given>>
  BY DEF Base, ResumeWriting, wire
<1>2. Shaped
  BY <1>1 DEF Shaped, Typed, Woken
<1>3. ASSUME NEW i \in Requests PROVE Untouched(i)
  BY <1>1 DEF Untouched, Woken, Owes, Typed
<1> QED BY <1>2, <1>3 DEF Moved, Moves

\* A GOAWAY takes down the streams above the last, or all of them.
LEMMA OnConnectionTerminatedMoves ==
    ASSUME Base, OnConnectionTerminated
    PROVE  Moved
<1>1. Typed /\ goaway' = TRUE /\ UNCHANGED <<out, received, given>>
  BY DEF Base, OnConnectionTerminated, Handles, wire
<1>2. CASE UNCHANGED <<ex, app, stream, writer, returned>>
  BY <1>1, <1>2, QuietMoves
<1>3. CASE Shut(ex)
  BY <1>1, <1>3, ShutMoves
<1>4. CASE \E last \in Requests \cup {0} :
              LET above == {i \in Live : i > last}
              IN  \/ Shut([i \in Requests |->
                        IF i \in above THEN NotifyDisconnect(ex[i]) ELSE ex[i]])
                  \/ ResetStreams(above, 0)
  <2>1. PICK last \in Requests \cup {0} :
              LET above == {i \in Live : i > last}
              IN  \/ Shut([i \in Requests |->
                        IF i \in above THEN NotifyDisconnect(ex[i]) ELSE ex[i]])
                  \/ ResetStreams(above, 0)
    BY <1>4
  <2> DEFINE above == {i \in Live : i > last}
             told == [i \in Requests |-> IF i \in above THEN NotifyDisconnect(ex[i]) ELSE ex[i]]
  <2>2. CASE Shut(told)
    <3>1. \A i \in Requests : /\ told[i] \in {ex[i], NotifyDisconnect(ex[i])}
                              /\ i \notin Live => told[i] = ex[i]
      OBVIOUS
    <3> HIDE DEF told
    <3> QED BY <1>1, <2>2, <3>1, ShutMoves
  <2>3. CASE ResetStreams(above, 0)
    <3>1. \A j \in Requests : received'[j] <= received[j] + 0 /\ received'[j] <= received[j]
      BY <1>1 DEF Typed
    <3> HIDE DEF above
    <3> QED BY <1>1, <2>3, <3>1, ResetStreamsMoves DEF Typed, BrokenOff
  <2> QED BY <2>1, <2>2, <2>3
<1> QED BY <1>2, <1>3, <1>4 DEF OnConnectionTerminated

-----------------------------------------------------------------------------
\* The steps of a writer.

\* All but the answer is as it should be after a step of the writer of i.
Rest(i) ==
    /\ UNCHANGED <<app, received, given>>
    /\ ex' = [j \in Requests |-> ex'[j]] /\ stream' = [j \in Requests |-> stream'[j]]
    /\ writer' = [j \in Requests |-> writer'[j]]
    /\ returned' \in [Requests -> Nat]
    /\ \A j \in Requests \ {i} :
        /\ ex'[j] = ex[j] /\ stream'[j] = stream[j]
        /\ writer'[j] = writer[j] /\ returned'[j] = returned[j]

\* The finally clause of a writer ends it, and gives back what was not read.
LEMMA FinishResponseActs ==
    ASSUME Base, NEW i \in Requests, NEW r, NEW how \in Stopped, FinishResponse(i, r, how),
           UNCHANGED <<received, given>>
    PROVE  Ending(i, r) /\ Rest(i) /\ (closed => closed') /\ writer'[i].pc = how
<1>1. /\ Typed /\ Sides(i) /\ UNCHANGED app
      /\ ex' = [ex EXCEPT ![i] = Completed(r)]
      /\ writer' = [writer EXCEPT ![i] = [NoWriter EXCEPT !.pc = how]]
      /\ [NoWriter EXCEPT !.pc = how].pc = how /\ [NoWriter EXCEPT !.pc = how] \in StoppedWriters
  BY DEF Base, FinishResponse, StoppedWriters, NoWriter
<1>2. CASE i \notin Live
  <2>1. UNCHANGED <<stream, closed, returned>> /\ stream[i].live = FALSE
    BY <1>1, <1>2 DEF FinishResponse, Live, Typed, Streams
  <2>2. stream[i].unacked = 0
    BY <1>1, <2>1 DEF Sides, NoStream
  <2>3. Owes(i, - stream[i].unacked)
    BY <1>1, <2>1, <2>2 DEF Owes, Typed
  <2> QED BY <1>1, <2>1, <2>3 DEF Ending, Rest, Typed
<1>3. CASE i \in Live
  <2>1. /\ Credit(i, stream[i].unacked) /\ (closed => closed')
        /\ stream' = [stream EXCEPT ![i] = IF stream[i].ended THEN NoStream
                                           ELSE [stream[i] EXCEPT !.unacked = 0]]
    BY <1>1, <1>3 DEF FinishResponse, Finalize, Typed
  <2>2. stream[i].unacked \in Nat /\ stream[i].live
    BY <1>1, <1>3 DEF Typed, Streams, Live
  <2>3. /\ returned' \in [Requests -> Nat]
        /\ \A j \in Requests \ {i} : returned'[j] = returned[j]
        /\ returned'[i] = IF closed THEN returned[i] ELSE returned[i] + stream[i].unacked
    BY <1>1, <2>1, <2>2, CreditProperties
  <2>4. Owes(i, - stream[i].unacked)
    BY <1>1, <2>1, <2>2, <2>3 DEF Owes, Typed
  <2>5. Ending(i, r)
    BY <1>1, <2>1, <2>2, <2>4 DEF Ending, Typed
  <2> QED BY <1>1, <2>1, <2>3, <2>5 DEF Rest, Typed
<1> QED BY <1>2, <1>3

\* A writer that goes on owes nothing more or less.
LEMMA ContinueActs ==
    ASSUME Base, NEW i \in Requests, NEW w, NEW r, Continue(i, w, r),
           UNCHANGED <<received, given>>
    PROVE  Going(i, w, r) /\ Rest(i) /\ (closed => closed')
<1>1. /\ Typed /\ ex' = [ex EXCEPT ![i] = r] /\ writer' = [writer EXCEPT ![i] = w]
      /\ UNCHANGED <<app, stream, closed, returned>>
  BY DEF Base, Continue
<1>2. Owes(i, 0)
  BY <1>1 DEF Owes, Typed
<1>3. Going(i, w, r)
  BY <1>1, <1>2 DEF Going, Typed
<1>4. Rest(i)
  BY <1>1 DEF Rest, Typed
<1> QED BY <1>1, <1>3, <1>4

\* The smaller of two numbers.
LEMMA MinOfTwo ==
    ASSUME NEW a \in Nat, NEW b \in Nat
    PROVE  Min({a, b}) \in Nat /\ Min({a, b}) = IF a <= b THEN a ELSE b
<1> DEFINE m == IF a <= b THEN a ELSE b
<1>1. m \in {a, b} /\ \A y \in {a, b} : m <= y
  OBVIOUS
<1>2. \A x \in {a, b} : (\A y \in {a, b} : x <= y) => x = m
  OBVIOUS
<1>3. Min({a, b}) = m
  BY <1>1, <1>2 DEF Min
<1> QED BY <1>3

\* What a writer sends leaves the windows where they may be.
LEMMA SendOnActs ==
    ASSUME Base, NEW i \in Requests, NEW w \in Writers, NEW r, SendOn(i, w, r),
           UNCHANGED <<received, given>>
    PROVE  /\ Sending(i, w, r) /\ Rest(i) /\ (closed => closed')
           /\ out' = [j \in Requests |-> out'[j]]
           /\ \A j \in Requests \ {i} : out'[j] = out[j]
           /\ \E n \in Nat :
                /\ n <= outConn /\ n <= outStream[i]
                /\ outConn' = outConn - n
                /\ outStream' = [outStream EXCEPT ![i] = outStream[i] - n]
                /\ writer'[i].pc = "window" => n = outConn \/ n = outStream[i]
           /\ writer'[i].pc = "paused" => writePaused
<1> DEFINE n == Min({CreditOf(i), w.left})
           rest == w.left - n
           pc == IF n > 0 /\ writePaused THEN "paused"
                 ELSE IF rest > 0 THEN "window" ELSE "run"
           after == [w EXCEPT !.left = rest, !.pc = pc]
<1>1. /\ Typed /\ outConn \in Nat /\ outStream[i] \in Nat /\ w.left \in Nat
      /\ outStream \in [Requests -> Nat]
  BY ConnectionAssumption DEF Base, Around, Writers
<1>2. /\ CreditOf(i) \in Nat
      /\ CreditOf(i) = IF outConn <= outStream[i] THEN outConn ELSE outStream[i]
  BY <1>1, MinOfTwo DEF CreditOf
<1>3. n \in Nat /\ n = IF CreditOf(i) <= w.left THEN CreditOf(i) ELSE w.left
  BY <1>1, <1>2, MinOfTwo
<1>4. /\ out' = [out EXCEPT ![i] = [out[i] EXCEPT !.units = out[i].units + n,
                        !.end = IF EndsWith(w, rest) THEN "ended" ELSE out[i].end]]
      /\ outConn' = outConn - n
      /\ outStream' = [outStream EXCEPT ![i] = outStream[i] - n]
      /\ IF pc = "run" THEN Proceed(i, after, r) ELSE Continue(i, after, r)
  BY <1>1 DEF SendOn, Typed, Writers
<1> HIDE DEF n
<1>5. /\ n \in 0 .. w.left /\ n <= outConn /\ n <= outStream[i]
      /\ rest > 0 => n = outConn \/ n = outStream[i]
  BY <1>1, <1>2, <1>3
<1>6. /\ out' = [j \in Requests |-> out'[j]]
      /\ \A j \in Requests \ {i} : out'[j] = out[j]
      /\ out'[i] = [out[i] EXCEPT !.units = out[i].units + n,
                        !.end = IF w.ends /\ n = w.left THEN "ended" ELSE out[i].end]
  <2>1. (w.ends /\ rest = 0) <=> (w.ends /\ n = w.left)
    BY <1>1, <1>3
  <2> QED BY <1>1, <1>4, <2>1 DEF Typed, EndsWith
<1>7. after.last = w.last /\ after.pc = pc
  BY DEF Writers
<1>8. CASE pc = "run"
  <2>1. n = w.left /\ after = [w EXCEPT !.left = 0, !.pc = "run"]
    <3>1. rest = 0 /\ n = w.left
      BY <1>1, <1>3, <1>8
    <3> HIDE DEF pc, rest
    <3> QED BY <1>8, <3>1
  <2>2. CASE w.last
    <3>1. FinishResponse(i, r, "done")
      BY <1>4, <1>7, <1>8, <2>2 DEF Proceed
    <3>2. Ending(i, r) /\ Rest(i) /\ (closed => closed') /\ writer'[i].pc = "done"
      BY <3>1, FinishResponseActs DEF Stopped
    <3>3. writer'[i].pc \notin {"window", "paused"}
      BY <3>2
    <3>4. Sending(i, w, r)
      BY <1>5, <1>6, <2>1, <2>2, <3>2 DEF Sending
    <3> QED BY <1>3, <1>4, <1>5, <1>6, <3>2, <3>3, <3>4
  <2>3. CASE ~w.last
    <3>1. Continue(i, after, r)
      BY <1>4, <1>7, <1>8, <2>3 DEF Proceed
    <3>2. Going(i, after, r) /\ Rest(i) /\ (closed => closed')
      BY <3>1, ContinueActs
    <3>3. writer'[i].pc = "run"
      BY <1>7, <1>8, <3>2 DEF Going
    <3>4. Sending(i, w, r)
      BY <1>5, <1>6, <2>1, <2>3, <3>2 DEF Sending
    <3> QED BY <1>3, <1>4, <1>5, <1>6, <3>2, <3>3, <3>4
  <2> QED BY <2>2, <2>3
<1>9. CASE pc # "run"
  <2>1. Continue(i, after, r)
    BY <1>4, <1>9
  <2>2. Going(i, after, r) /\ Rest(i) /\ (closed => closed')
    BY <2>1, ContinueActs
  <2>3. writer'[i].pc = pc
    BY <1>7, <2>2 DEF Going
  <2>4. Sending(i, w, r)
    <3>1. pc = "paused" \/ (pc = "window" /\ n < w.left)
      BY <1>1, <1>3, <1>9
    <3>2. Going(i, [w EXCEPT !.left = w.left - n, !.pc = pc], r)
      BY <2>2
    <3> HIDE DEF pc
    <3> QED BY <1>5, <1>6, <3>1, <3>2 DEF Sending
  <2>5. (pc = "window" => rest > 0) /\ (pc = "paused" => writePaused)
    OBVIOUS
  <2> QED BY <1>3, <1>4, <1>5, <1>6, <2>2, <2>3, <2>4, <2>5
<1> QED BY <1>8, <1>9

\* A step of a writer that is one of its moves moves its stream only.
LEMMA WriterMoves ==
    ASSUME Base, NEW i \in Requests, Written(i), Rest(i),
           out' = [j \in Requests |-> out'[j]],
           \A j \in Requests \ {i} : out'[j] = out[j]
    PROVE  Moved
<1>1. Shaped /\ Alone(i)
  BY DEF Base, Typed, Shaped, Alone, Rest
<1> QED BY <1>1, AloneMoves DEF Moves

\* What a writer takes is a message of the application.
LEMMA HeadIsMessage ==
    ASSUME Typed, NEW i \in Requests, ex[i].send # <<>>
    PROVE  /\ Head(ex[i].send) \in Messages /\ ex[i].send \in Seq(Messages)
           /\ Head(ex[i].send).kind = "start" =>
                Head(ex[i].send) \in [kind : {"start"}, framing : Framings, trailers : BOOLEAN]
           /\ Head(ex[i].send).kind = "body" => Head(ex[i].send) \in Body
<1>1. ex[i].send \in Seq(Messages)
  BY DEF Typed, Exchanges
<1>2. Head(ex[i].send) \in Messages
  BY <1>1, HeadTailProperties
<1> DEFINE m == Head(ex[i].send)
<1>3. /\ m.kind = "start" => m \in [kind : {"start"}, framing : Framings, trailers : BOOLEAN]
      /\ m.kind = "body" => m \in Body
  <2> HIDE DEF m
  <2>1. m \in Messages
    BY <1>2 DEF m
  <2> QED BY <2>1 DEF Messages, Body, Interim, Trailers
<1> QED BY <1>1, <1>2, <1>3

\* The head of an answer goes out.
LEMMA TakeStartMoves ==
    ASSUME Base, NEW i \in Requests, TakeStart(i)
    PROVE  Moved
<1> DEFINE m == Head(ex[i].send)
           none == m.framing = "none"
           w == [writer[i] EXCEPT !.started = TRUE, !.discard = none,
                                  !.trailers = m.trailers /\ ~none]
<1>1. /\ Typed /\ writer[i].pc = "run" /\ ex[i].send # <<>> /\ m.kind = "start" /\ ~closed
      /\ UNCHANGED <<received, given>>
      /\ Continue(i, w, Taken(ex[i]))
      /\ out' = [out EXCEPT ![i] = [out[i] EXCEPT !.by = IF none THEN "bare" ELSE "app",
                                          !.end = IF none THEN "ended" ELSE out[i].end]]
  BY DEF Base, Typed, TakeStart, Takes, outside
<1>2. Going(i, w, Taken(ex[i])) /\ Rest(i)
  BY <1>1, ContinueActs
<1>3. /\ out' = [j \in Requests |-> out'[j]]
      /\ \A j \in Requests \ {i} : out'[j] = out[j]
      /\ out'[i] = [out[i] EXCEPT !.by = IF none THEN "bare" ELSE "app",
                                          !.end = IF none THEN "ended" ELSE out[i].end]
  BY <1>1 DEF Typed
<1>4. Written(i)
  BY <1>1, <1>2, <1>3 DEF Written, Rest
<1> QED BY <1>2, <1>3, <1>4, WriterMoves

\* A head or a trailer section that h2 refuses ends the writer, with a reset; one
\* that cannot be read ends it with none.
LEMMA BlockRefusedMoves ==
    ASSUME Base, NEW i \in Requests, BlockRefused(i) \/ WriterFails(i) \/ StartDropped(i)
    PROVE  Moved
<1>1. /\ Typed /\ writer[i].pc = "run" /\ ex[i].send # <<>>
      /\ Head(ex[i].send).kind \in {"start", "trailers"}
      /\ UNCHANGED <<received, given>>
  BY DEF Base, BlockRefused, WriterFails, StartDropped, TakesBlock, Takes, outside
<1>2. /\ Ending(i, Taken(ex[i])) /\ Rest(i)
      /\ \/ out' = [out EXCEPT ![i] = Rst(out[i])]
         \/ out' = out /\ writer'[i].pc # "done"
  <2>1. CASE BlockRefused(i)
    <3>1. FinishResponse(i, Taken(ex[i]), "done") /\ out' = [out EXCEPT ![i] = Rst(out[i])]
      BY <2>1 DEF BlockRefused
    <3> QED BY <1>1, <3>1, FinishResponseActs DEF Stopped
  <2>2. CASE WriterFails(i)
    <3>1. FinishResponse(i, Taken(ex[i]), "failed") /\ out' = out
      BY <2>2 DEF WriterFails, wire
    <3> QED BY <1>1, <3>1, FinishResponseActs DEF Stopped
  <2>3. CASE StartDropped(i)
    <3>1. FinishResponse(i, Taken(ex[i]), "done") /\ out' = out /\ closed
      BY <2>3 DEF StartDropped, wire
    <3>2. Rst(out[i]) = out[i]
      BY <3>1 DEF Rst
    <3>3. out' = [out EXCEPT ![i] = Rst(out[i])]
      BY <1>1, <3>1, <3>2 DEF Typed
    <3> QED BY <1>1, <3>1, <3>3, FinishResponseActs DEF Stopped
  <2> QED BY <2>1, <2>2, <2>3
<1>3. /\ out' = [j \in Requests |-> out'[j]]
      /\ out'[i] = Rst(out[i]) \/ (out'[i] = out[i] /\ writer'[i].pc # "done")
      /\ \A j \in Requests \ {i} : out'[j] = out[j]
  BY <1>1, <1>2 DEF Typed
<1>4. Written(i)
  BY <1>1, <1>2, <1>3 DEF Written, Rest
<1> QED BY <1>2, <1>3, <1>4, WriterMoves

\* The writer is set for the message it takes.
LEMMA TakingIsWriter ==
    ASSUME NEW i \in Requests, writer[i] \in Writers, NEW m \in Body
    PROVE  Taking(i, m) \in Writers
<1>1. Chunk[i] \in Nat
  BY ConnectionAssumption
<1> DEFINE left == IF m.data THEN Chunk[i] ELSE 0
           ends == ~m.more /\ ~writer[i].trailers
           awaiting == ~m.more /\ writer[i].trailers
<1>2. left \in Nat /\ ends \in BOOLEAN /\ awaiting \in BOOLEAN
  BY <1>1 DEF Body, Writers
<1>3. Taking(i, m) = [writer[i] EXCEPT !.left = left, !.ends = ends, !.last = ends,
                                       !.awaiting = awaiting]
  BY DEF Taking
<1> HIDE DEF left, ends, awaiting
<1> QED BY <1>1, <1>2, <1>3 DEF Writers

\* A message of the body is sent, discarded, or breaks the answer off.
LEMMA TakeBodyMoves ==
    ASSUME Base, NEW i \in Requests, TakeBody(i)
    PROVE  Moved
<1> DEFINE m == Head(ex[i].send)
           w == Taking(i, m)
<1>1. /\ Typed /\ writer[i].pc = "run" /\ ex[i].send # <<>> /\ m.kind = "body"
      /\ UNCHANGED <<received, given>>
      /\ Sides(i)
  BY DEF Base, TakeBody, Takes, outside
<1>2. m \in Body /\ w \in Writers
  <2>1. m \in Body /\ writer[i] \in Writers
    BY <1>1, HeadIsMessage DEF Typed
  <2> QED BY <2>1, TakingIsWriter
<1>3. /\ w.discard = writer[i].discard /\ w.last = (~m.more /\ ~writer[i].trailers)
      /\ [w EXCEPT !.left = 0].last = w.last
  BY <1>1 DEF Taking, Typed, Writers
<1>4. IF w.discard
      THEN Proceed(i, [w EXCEPT !.left = 0], Taken(ex[i])) /\ UNCHANGED out
      ELSE IF m.aborted
      THEN /\ out' = [out EXCEPT ![i] = Rst(out[i])]
           /\ ResetStreams({i}, 0)
      ELSE SendOn(i, w, Taken(ex[i]))
  BY DEF TakeBody, Taking, wire
<1> HIDE DEF w
<1>5. CASE w.discard
  <2>1. out' = [j \in Requests |-> out'[j]] /\ \A j \in Requests : out'[j] = out[j]
    BY <1>1, <1>4, <1>5 DEF Typed
  <2>2. CASE w.last
    <3>1. Ending(i, Taken(ex[i])) /\ Rest(i)
      BY <1>1, <1>3, <1>4, <1>5, <2>2, FinishResponseActs DEF Proceed, Stopped
    <3>2. Written(i)
      BY <1>1, <1>3, <1>5, <2>1, <2>2, <3>1 DEF Written, Rest
    <3> QED BY <2>1, <3>1, <3>2, WriterMoves
  <2>3. CASE ~w.last
    <3>1. Going(i, [w EXCEPT !.left = 0], Taken(ex[i])) /\ Rest(i)
      BY <1>1, <1>3, <1>4, <1>5, <2>3, ContinueActs DEF Proceed
    <3>2. Written(i)
      BY <1>1, <1>3, <1>5, <2>1, <2>3, <3>1 DEF Written, Rest, w
    <3> QED BY <2>1, <3>1, <3>2, WriterMoves
  <2> QED BY <2>2, <2>3
<1>6. CASE ~w.discard /\ m.aborted
  <2>1. /\ out' = [j \in Requests |-> out'[j]] /\ out'[i] = Rst(out[i])
        /\ \A j \in Requests \ {i} : out'[j] = out[j]
        /\ ResetStreams({i}, 0)
    BY <1>1, <1>4, <1>6 DEF Typed
  <2>2. i \in Live
    BY <1>1 DEF Sides, Over, Stopped, Live
  <2>3. BrokenOff(i) /\ (~closed => out'[i].end # "open")
    BY <1>1, <2>1 DEF BrokenOff, Rst, Typed, Outputs
  <2>4. closed => closed'
    BY <2>1, <1>1 DEF ResetStreams, Base, Around
  <2>5. \A j \in Requests : received'[j] = received[j] /\ received'[j] <= received[j] + 0
    BY <1>1 DEF Typed
  <2>6. received' \in [Requests -> Nat]
    BY <1>1 DEF Typed
  <2> QED BY <1>1, <2>1, <2>2, <2>3, <2>4, <2>5, <2>6, ResetStreamsMoves
<1>7. CASE ~w.discard /\ ~m.aborted
  <2>1. SendOn(i, w, Taken(ex[i]))
    BY <1>4, <1>7
  <2>2. /\ Sending(i, w, Taken(ex[i])) /\ Rest(i) /\ out' = [j \in Requests |-> out'[j]]
        /\ \A j \in Requests \ {i} : out'[j] = out[j]
    BY <1>1, <1>2, <2>1, SendOnActs
  <2>3. Written(i)
    BY <1>1, <1>3, <1>7, <2>2 DEF Written, Rest, w
  <2> QED BY <2>2, <2>3, WriterMoves
<1> QED BY <1>5, <1>6, <1>7

\* Trailers end the writer, and the answer if a section was opened for them.
LEMMA TakeTrailersMoves ==
    ASSUME Base, NEW i \in Requests, TakeTrailers(i)
    PROVE  Moved
<1> DEFINE how == IF writer[i].awaiting \/ writer[i].discard THEN "done" ELSE "silent"
<1>1. /\ Typed /\ writer[i].pc = "run" /\ ex[i].send # <<>>
      /\ Head(ex[i].send).kind = "trailers"
      /\ UNCHANGED <<received, given>>
      /\ FinishResponse(i, Taken(ex[i]), how) /\ how \in Stopped
      /\ out' = [out EXCEPT ![i] = [out[i] EXCEPT !.end =
                                    IF writer[i].awaiting THEN "ended" ELSE out[i].end]]
  BY DEF Base, Typed, TakeTrailers, Takes, outside, Stopped
<1>2. Ending(i, Taken(ex[i])) /\ Rest(i) /\ writer'[i].pc = how
  BY <1>1, FinishResponseActs
<1>3. /\ out' = [j \in Requests |-> out'[j]]
      /\ \A j \in Requests \ {i} : out'[j] = out[j]
      /\ out'[i] = [out[i] EXCEPT !.end =
                                    IF writer[i].awaiting THEN "ended" ELSE out[i].end]
  BY <1>1 DEF Typed
<1>4. Written(i)
  BY <1>1, <1>2, <1>3 DEF Written, Rest
<1> QED BY <1>2, <1>3, <1>4, WriterMoves

\* A writer that slept goes on with what it has left.
LEMMA GoesOnMoves ==
    ASSUME Base, NEW i \in Requests, GoesOn(i)
    PROVE  Moved
<1>1. /\ Typed /\ writer[i].pc \in {"woken", "resumed"} /\ writer[i] \in Writers
      /\ UNCHANGED <<received, given>> /\ SendOn(i, writer[i], ex[i])
  BY DEF Base, Typed, GoesOn, outside
<1>2. /\ Sending(i, writer[i], ex[i]) /\ Rest(i) /\ out' = [j \in Requests |-> out'[j]]
      /\ \A j \in Requests \ {i} : out'[j] = out[j]
  BY <1>1, SendOnActs
<1>3. Written(i)
  BY <1>1, <1>2 DEF Written, Rest
<1> QED BY <1>2, <1>3, WriterMoves

\* A writer that was woken finds the transport paused anew.
LEMMA SleepsOnMoves ==
    ASSUME Base, NEW i \in Requests, SleepsOn(i)
    PROVE  Moved
<1>1. /\ Typed /\ writer[i].pc = "resumed"
      /\ UNCHANGED <<received, given, out>>
      /\ Continue(i, [writer[i] EXCEPT !.pc = "paused"], ex[i])
  BY DEF Base, SleepsOn, outside, wire
<1>2. Going(i, [writer[i] EXCEPT !.pc = "paused"], ex[i]) /\ Rest(i)
  BY <1>1, ContinueActs
<1>3. out' = [j \in Requests |-> out'[j]] /\ \A j \in Requests : out'[j] = out[j]
  BY <1>1 DEF Typed
<1>4. Written(i)
  BY <1>1, <1>2, <1>3 DEF Written, Rest
<1> QED BY <1>2, <1>3, <1>4, WriterMoves

\* A writer gives up on a peer that said GOAWAY.
LEMMA SendRefusedMoves ==
    ASSUME Base, NEW i \in Requests, SendRefused(i)
    PROVE  Moved
<1>1. /\ Typed /\ writer[i].pc \in {"woken", "run"} /\ goaway
      /\ UNCHANGED <<received, given, out>> /\ FinishResponse(i, ex[i], "done")
  BY DEF Base, SendRefused, outside, wire
<1>2. Ending(i, ex[i]) /\ Rest(i)
  BY <1>1, FinishResponseActs DEF Stopped
<1>3. out' = [j \in Requests |-> out'[j]] /\ \A j \in Requests : out'[j] = out[j]
  BY <1>1 DEF Typed
<1>4. Written(i)
  BY <1>1, <1>2, <1>3 DEF Written, Rest
<1> QED BY <1>2, <1>3, <1>4, WriterMoves

-----------------------------------------------------------------------------
\* The steps of an application, of the watchdog and of the transport.

\* receive takes a message and gives its credit back, or finds none.
LEMMA ReceiveMoves ==
    ASSUME Base, NEW i \in Requests, Receive(i)
    PROVE  Moved
<1> DEFINE r == ex[i]
           data == Head(r.recv) = "data"
<1>1. /\ Typed /\ (Receives(i, r) \/ WakesInReceive(i))
      /\ UNCHANGED <<writer, out, received, given, closed>>
  BY DEF Base, Receive, wire, outside
<1>2. Acknowledges(i) /\ stream[i].unacked \in Nat
  BY DEF Base, Receive, Typed, Streams
<1>3. CASE r.recv # <<>>
  <2>1. /\ app[i].pc \in {"run", "recv"}
        /\ ex' = [ex EXCEPT ![i] = Received(r)]
        /\ app' = [app EXCEPT ![i] = [app[i] EXCEPT !.pc = "run",
                          !.got = IF data THEN app[i].got + 1 ELSE app[i].got,
                          !.whole = app[i].whole \/ Head(r.recv) = "end"]]
    BY <1>1, <1>3 DEF Receive, Receives, WakesInReceive, Took, Typed, Apps
  <2>2. CASE data /\ ~closed
    <3>1. /\ Credit(i, 1)
          /\ stream' = IF stream[i].unacked = 0 THEN stream
                       ELSE [stream EXCEPT ![i] = [stream[i] EXCEPT !.unacked = stream[i].unacked - 1]]
      BY <1>1, <1>2, <1>3, <2>2 DEF Acknowledges, Typed
    <3>2. /\ returned' \in [Requests -> Nat]
          /\ \A j \in Requests \ {i} : returned'[j] = returned[j]
          /\ returned'[i] = returned[i] + 1
      BY <1>1, <2>2, <3>1, CreditProperties
    <3>3. Shaped /\ Alone(i)
      BY <1>1, <2>1, <3>1, <3>2 DEF Shaped, Alone, Typed
    <3>4. Owes(i, -1)
      BY <1>1, <3>2 DEF Owes, Typed
    <3>5. Reads(i)
      BY <1>1, <1>3, <2>1, <2>2, <3>1, <3>4 DEF Reads, Typed
    <3> QED BY <3>3, <3>5, AloneMoves DEF Moves
  <2>3. CASE ~ (data /\ ~closed)
    <3>1. UNCHANGED <<stream, returned>>
      BY <1>2, <2>3 DEF Acknowledges
    <3>2. Shaped /\ Alone(i)
      BY <1>1, <2>1, <3>1 DEF Shaped, Alone, Typed
    <3>3. Owes(i, 0)
      BY <1>1, <3>1 DEF Owes, Typed
    <3>4. Reads(i)
      BY <1>1, <1>3, <2>1, <2>3, <3>1, <3>3 DEF Reads, Typed
    <3> QED BY <3>2, <3>4, AloneMoves DEF Moves
  <2> QED BY <2>2, <2>3
<1>4. CASE r.recv = <<>>
  <2>1. /\ app[i].pc = "run" /\ ex' = [ex EXCEPT ![i] = r]
        /\ app' = [app EXCEPT ![i] = IF ReceiveAnswersAlone(r) THEN app[i]
                                     ELSE [app[i] EXCEPT !.pc = "recv"]]
    BY <1>1, <1>4 DEF Receive, Receives, WakesInReceive, Typed
  <2>2. UNCHANGED <<stream, returned>>
    BY <1>2, <1>4 DEF Acknowledges
  <2>3. Shaped /\ Alone(i)
    BY <1>1, <2>1, <2>2 DEF Shaped, Alone, Typed
  <2>4. Owes(i, 0)
    BY <1>1, <2>2 DEF Owes, Typed
  <2>5. Reads(i)
    BY <1>1, <1>4, <2>1, <2>2, <2>4 DEF Reads, Typed
  <2> QED BY <2>3, <2>5, AloneMoves DEF Moves
<1> QED BY <1>3, <1>4

\* send, the end of an application, and a send that goes on.
LEMMA AppStepMoves ==
    ASSUME Base, NEW i \in Requests, AppStep(i)
    PROVE  Moved
<1>1. /\ Typed
      /\ UNCHANGED <<stream, writer, out, received, returned>>
  BY DEF Base, AppStep, wire
<1>2. Owes(i, 0)
  BY <1>1 DEF Owes, Typed
<1>3. ASSUME /\ ex' = [j \in Requests |-> ex'[j]] /\ app' = [j \in Requests |-> app'[j]]
             /\ \A j \in Requests \ {i} : ex'[j] = ex[j] /\ app'[j] = app[j]
             /\ given' = [j \in Requests |-> given'[j]]
             /\ \A j \in Requests \ {i} : given'[j] = given[j]
             /\ Speaks(i)
      PROVE  Moved
  <2>1. Shaped /\ Alone(i)
    BY <1>1, <1>3 DEF Shaped, Alone, Typed
  <2> QED BY <1>3, <2>1, AloneMoves DEF Moves
<1>4. CASE \E m \in Says[i] :
            /\ Sends(i, m)
            /\ given' = IF m.kind = "body" /\ m.data
                        THEN [given EXCEPT ![i] = @ + Chunk[i]] ELSE given
  <2>1. PICK m \in Says[i] :
            /\ Sends(i, m)
            /\ given' = IF m.kind = "body" /\ m.data
                        THEN [given EXCEPT ![i] = @ + Chunk[i]] ELSE given
    BY <1>4
  <2>2. /\ app[i].pc = "run" /\ InPlace(ex[i], m) /\ InTurn(ex[i], m)
        /\ Queue(i, Noted(ex[i], m), <<m>>, [app[i] EXCEPT !.sends = app[i].sends + 1])
    BY <1>1, <2>1 DEF Sends, Typed, Apps
  <2>3. /\ given' = [j \in Requests |-> given'[j]]
        /\ \A j \in Requests \ {i} : given'[j] = given[j]
        /\ given'[i] = IF m.kind = "body" /\ m.data THEN given[i] + Chunk[i] ELSE given[i]
    BY <1>1, <2>1 DEF Typed
  <2>4. Queueing(i, Noted(ex[i], m), <<m>>, [app[i] EXCEPT !.sends = app[i].sends + 1])
    BY <1>1, <2>2, QueueActs DEF Typed
  <2>5. Speaks(i)
    BY <1>1, <1>2, <2>2, <2>3, <2>4 DEF Speaks
  <2> QED BY <1>1, <1>3, <2>2, <2>3, <2>5, QueueActs DEF Typed
<1>5. CASE \E how \in Endings :
            /\ Ends(i, how)
            /\ given' = IF LastWords(ex[i], how) = Whole
                        THEN [given EXCEPT ![i] = @ + Chunk[i]] ELSE given
  <2>1. PICK how \in Endings :
            /\ Ends(i, how)
            /\ given' = IF LastWords(ex[i], how) = Whole
                        THEN [given EXCEPT ![i] = @ + Chunk[i]] ELSE given
    BY <1>5
  <2> DEFINE gaveUp == how # "return" /\ ex[i].started /\ ~ex[i].bodyEnded
             a == [app[i] EXCEPT !.over = TRUE, !.gaveUp = gaveUp]
  <2>2. /\ app[i].pc = "run" /\ MayEnd(ex[i], how)
        /\ Queue(i, Ended(ex[i], how), LastWords(ex[i], how), a)
    BY <2>1 DEF Ends
  <2>3. /\ given' = [j \in Requests |-> given'[j]]
        /\ \A j \in Requests \ {i} : given'[j] = given[j]
        /\ given'[i] = IF LastWords(ex[i], how) = Whole THEN given[i] + Chunk[i] ELSE given[i]
    BY <1>1, <2>1 DEF Typed
  <2>4. Queueing(i, Ended(ex[i], how), LastWords(ex[i], how), a)
    BY <1>1, <2>2, QueueActs DEF Typed
  <2>5. Speaks(i)
    BY <1>1, <1>2, <2>2, <2>3, <2>4 DEF Speaks
  <2> QED BY <1>1, <1>3, <2>2, <2>3, <2>5, QueueActs DEF Typed
<1>6. CASE WakesInSend(i) /\ UNCHANGED given
  <2>1. /\ app[i].pc = "put" /\ ex[i].sendSpace
        /\ Queue(i, ex[i], app[i].todo, app[i])
    BY <1>6 DEF WakesInSend
  <2>2. Queueing(i, ex[i], app[i].todo, app[i])
    BY <1>1, <2>1, QueueActs DEF Typed
  <2>3. /\ given' = [j \in Requests |-> given'[j]]
        /\ \A j \in Requests : given'[j] = given[j]
    BY <1>1, <1>6 DEF Typed
  <2>4. Speaks(i)
    BY <1>1, <1>2, <2>1, <2>2, <2>3 DEF Speaks
  <2> QED BY <1>1, <1>3, <2>1, <2>3, <2>4, QueueActs DEF Typed
<1> QED BY <1>4, <1>5, <1>6 DEF AppStep

\* A stream that is too late is reset.
LEMMA StreamDeadlineMoves ==
    ASSUME Base, NEW i \in Requests, StreamDeadline(i)
    PROVE  Moved
<1>1. /\ Typed /\ i \in Live /\ ResetStreams({i}, 0) /\ UNCHANGED <<received, given>>
      /\ out' = [out EXCEPT ![i] = Rst(out[i])]
  BY DEF Base, StreamDeadline, outside
<1>2. /\ out' = [j \in Requests |-> out'[j]] /\ out'[i] = Rst(out[i])
      /\ \A j \in Requests \ {i} : out'[j] = out[j]
  BY <1>1 DEF Typed
<1>3. BrokenOff(i) /\ (~closed => out'[i].end # "open")
  BY <1>1, <1>2 DEF BrokenOff, Rst, Typed, Outputs
<1>4. closed => closed'
  BY <1>1 DEF ResetStreams, Base, Around
<1>5. \A j \in Requests : received'[j] = received[j] /\ received'[j] <= received[j] + 0
  BY <1>1 DEF Typed
<1>6. received' \in [Requests -> Nat]
  BY <1>1 DEF Typed
<1>7. ~closed' => out'[i].end # "open"
  BY <1>3, <1>4
<1>8. \A j \in Requests :
        /\ j \notin {i} => received'[j] = received[j] /\ out'[j] = out[j]
        /\ j \in {i} \cap Live =>
              /\ BrokenOff(j) /\ received'[j] <= received[j] + 0
              /\ ~closed' /\ ~goaway' =>
                    out'[j].end # "open" \/ (~Settled /\ Head(inbox) = Event("reset", j))
        /\ j \in {i} \ Live =>
              out'[j] = out[j] /\ (~closed' => received'[j] <= received[j])
  BY <1>1, <1>2, <1>3, <1>5, <1>7
<1> QED BY <1>1, <1>2, <1>6, <1>8, ResetStreamsMoves

\* connection_lost takes all streams down.
LEMMA ConnectionLostMoves ==
    ASSUME Base, ConnectionLost
    PROVE  Moved
<1> DEFINE told == [i \in Requests |-> IF i \in Live THEN NotifyDisconnect(ex[i]) ELSE ex[i]]
<1>1. Shut(told) /\ UNCHANGED <<out, given, received>>
  BY DEF ConnectionLost, wire
<1>2. \A i \in Requests : /\ told[i] \in {ex[i], NotifyDisconnect(ex[i])}
                          /\ i \notin Live => told[i] = ex[i]
  OBVIOUS
<1> HIDE DEF told
<1> QED BY <1>1, <1>2, ShutMoves

\* Whatever step is taken.
LEMMA NextMoves ==
    ASSUME Base, [Next]_vars
    PROVE  Moved
<1>1. CASE UNCHANGED vars
  BY <1>1, QuietMoves DEF vars
<1>2. CASE Peer \/ PauseWriting \/ ForgetResets
           \/ (\E i \in Requests : PeerResets(i) \/ PeerUploads(i, "big"))
           \/ (\E i \in Requests \cup {0} : PeerLeaves("goaway", i))
           \/ PeerLeaves("error", 0)
  <2>1. UNCHANGED <<ex, app, stream, writer, out, given, received, returned>>
    BY <1>2 DEF Peer, PeerOpens, PeerUploads, PeerEnds, PeerResets, PeerGrants, PeerLeaves,
                Arrives, PauseWriting, ForgetResets, wire
  <2> QED BY <2>1, QuietMoves
<1>3. CASE IdleTimeout \/ Close
  <2>1. Shut(ex) /\ UNCHANGED <<out, given, received>>
    BY <1>3 DEF IdleTimeout, Close, wire, outside
  <2> QED BY <2>1, ShutMoves
<1>4. ASSUME NEW i \in Requests,
             \/ OnRequest(i) \/ OnData(i) \/ OnTooMuchData(i) \/ OnStreamEnded(i)
             \/ OnStreamReset(i) \/ RefuseRequest(i) \/ StreamDeadline(i)
      PROVE  Moved
  BY <1>4, OnRequestMoves, OnDataMoves, OnTooMuchDataMoves, OnStreamEndedMoves,
     OnStreamResetMoves, RefuseRequestMoves, StreamDeadlineMoves
<1>5. ASSUME NEW i \in Requests, Writer(i) \/ BlockRefused(i) \/ WriterFails(i) PROVE Moved
  BY <1>5, TakeStartMoves, TakeBodyMoves, TakeTrailersMoves, GoesOnMoves, SleepsOnMoves,
     SendRefusedMoves, BlockRefusedMoves DEF Writer
<1>6. ASSUME NEW i \in Requests, Receive(i) \/ AppStep(i) PROVE Moved
  BY <1>6, ReceiveMoves, AppStepMoves
<1>7. CASE OnWindowUpdated \/ OnConnectionTerminated \/ ConnectionLost \/ ResumeWriting
  BY <1>7, OnWindowUpdatedMoves, OnConnectionTerminatedMoves, ConnectionLostMoves,
     ResumeWritingMoves
<1>8. CASE Handler
  BY <1>4, <1>7, <1>8 DEF Handler
<1>9. CASE Trouble
  BY <1>2, <1>4, <1>5, <1>9 DEF Trouble
<1> QED BY <1>1, <1>2, <1>3, <1>5, <1>6, <1>7, <1>8, <1>9 DEF Next

-----------------------------------------------------------------------------
\* A move keeps the types.

TypedOf(i) ==
    /\ ex[i] \in Exchanges /\ app[i] \in Apps /\ Len(ex[i].send) <= SendMax
    /\ stream[i] \in Streams /\ writer[i] \in Writers /\ out[i] \in Outputs
    /\ given[i] \in Nat

\* What is assumed of the constants, of one stream.
LEMMA ConstantsOf ==
    ASSUME NEW i \in Requests
    PROVE  Chunk[i] \in Nat /\ Chunk[i] > 0 /\ Uploads[i] \in Nat /\ StreamWindow[i] \in Nat
           /\ Says[i] \subseteq Messages /\ Interim \notin Says[i] /\ RecvMax >= Uploads[i] + 2
           /\ RecvMax \in Nat /\ SendMax \in Nat /\ SendMax > 0
BY ConnectionAssumption, ApplicationAssumption, QueueAssumption

\* The writer of a stream ends, or goes on.
LEMMA EndingTyped ==
    ASSUME NEW i \in Requests, TypedOf(i), NEW r \in Exchanges, Len(r.send) <= SendMax, Ending(i, r)
    PROVE  ex'[i] \in Exchanges /\ Len(ex'[i].send) <= SendMax
           /\ writer'[i] \in Writers /\ stream'[i] \in Streams
<1>1. StoppedWriters \subseteq Writers
  <2>1. ASSUME NEW how \in Stopped PROVE [NoWriter EXCEPT !.pc = how] \in Writers
    BY DEF Stopped, NoWriter, Writers
  <2> QED BY <2>1 DEF StoppedWriters
<1>2. stream'[i] \in Streams
  BY DEF Ending, TypedOf, Streams, NoStream
<1> QED BY <1>1, <1>2, CompletedActs DEF Ending, SameAnswer

\* What a writer sends is a number of units.
LEMMA SendingTyped ==
    ASSUME NEW i \in Requests, TypedOf(i), NEW w \in Writers,
           NEW r \in Exchanges, Len(r.send) <= SendMax, Sending(i, w, r)
    PROVE  ex'[i] \in Exchanges /\ Len(ex'[i].send) <= SendMax
           /\ writer'[i] \in Writers /\ stream'[i] \in Streams /\ out'[i] \in Outputs
<1>1. PICK n \in 0 .. w.left :
        /\ out'[i] = [out[i] EXCEPT !.units = out[i].units + n,
                        !.end = IF w.ends /\ n = w.left THEN "ended" ELSE out[i].end]
        /\ \/ n = w.left /\ w.last /\ Ending(i, r)
           \/ n = w.left /\ ~w.last /\ Going(i, [w EXCEPT !.left = 0, !.pc = "run"], r)
           \/ Going(i, [w EXCEPT !.left = w.left - n, !.pc = "paused"], r)
           \/ n < w.left /\ Going(i, [w EXCEPT !.left = w.left - n, !.pc = "window"], r)
  BY DEF Sending
<1>2. w.left \in Nat /\ w.left - n \in Nat
  BY DEF Writers
<1>3. out'[i] \in Outputs
  <2>1. out[i].units + n \in Nat
    BY <1>2 DEF TypedOf, Outputs
  <2> QED BY <1>1, <2>1 DEF TypedOf, Outputs
<1>4. CASE Ending(i, r)
  BY <1>3, <1>4, EndingTyped
<1>5. ASSUME NEW v \in Writers, Going(i, v, r)
      PROVE  ex'[i] \in Exchanges /\ Len(ex'[i].send) <= SendMax
             /\ writer'[i] \in Writers /\ stream'[i] \in Streams
  BY <1>5 DEF Going, TypedOf
<1>6. /\ [w EXCEPT !.left = 0, !.pc = "run"] \in Writers
      /\ [w EXCEPT !.left = w.left - n, !.pc = "paused"] \in Writers
      /\ [w EXCEPT !.left = w.left - n, !.pc = "window"] \in Writers
  BY <1>2 DEF Writers
<1> QED BY <1>1, <1>3, <1>4, <1>5, <1>6

\* What a writer does.
LEMMA WrittenTyped ==
    ASSUME NEW i \in Requests, TypedOf(i), Written(i)
    PROVE  TypedOf(i)'
<1>1. /\ app'[i] \in Apps /\ given'[i] \in Nat
      /\ ex[i] \in Exchanges /\ Len(ex[i].send) <= SendMax /\ writer[i] \in Writers
  BY DEF Written, TypedOf
<1>2. CASE writer[i].pc \in {"woken", "resumed"} /\ Sending(i, writer[i], ex[i])
  BY <1>1, <1>2, SendingTyped DEF TypedOf
<1>3. CASE out'[i] = out[i] /\ Ending(i, ex[i])
  BY <1>1, <1>3, EndingTyped DEF TypedOf
<1>4. CASE out'[i] = out[i] /\ Going(i, [writer[i] EXCEPT !.pc = "paused"], ex[i])
  <2>1. [writer[i] EXCEPT !.pc = "paused"] \in Writers
    BY <1>1 DEF Writers
  <2> QED BY <1>1, <1>4, <2>1 DEF Going, TypedOf
<1>5. CASE ex[i].send # <<>>
  <2> DEFINE m == Head(ex[i].send)
             r == Taken(ex[i])
             w == writer[i]
             none == m.framing = "none"
             with == m.trailers /\ ~none
  <2>1. m \in Messages /\ r \in Exchanges /\ Len(r.send) <= SendMax
    <3>1. Len(ex[i].send) \in Nat
      BY <1>1, LenProperties DEF Exchanges
    <3> QED BY <1>1, <1>5, <3>1, TakenActs, ConstantsOf
  <2>2. m.kind = "body" => m \in Body
    <3> HIDE DEF m
    <3> QED BY <2>1 DEF Messages, Body, Interim, Trailers
  <2>3. CASE out'[i] = Rst(out[i]) /\ Ending(i, r)
    <3>1. out'[i] \in Outputs
      BY <2>3 DEF Rst, TypedOf, Outputs
    <3> QED BY <1>1, <2>1, <2>3, <3>1, EndingTyped DEF TypedOf
  <2>4. CASE /\ m.kind = "start"
             /\ out'[i] = [out[i] EXCEPT !.by = IF none THEN "bare" ELSE "app",
                                 !.end = IF none THEN "ended" ELSE out[i].end]
             /\ Going(i, [w EXCEPT !.started = TRUE, !.discard = none, !.trailers = with], r)
    <3>1. out'[i] \in Outputs
      BY <2>4 DEF TypedOf, Outputs
    <3>2. none \in BOOLEAN /\ with \in BOOLEAN
      OBVIOUS
    <3>3. [w EXCEPT !.started = TRUE, !.discard = none, !.trailers = with] \in Writers
      <4> HIDE DEF none, with, m
      <4> QED BY <1>1, <3>2 DEF Writers
    <3> QED BY <1>1, <2>1, <2>4, <3>1, <3>3 DEF Going, TypedOf
  <2>5. CASE /\ m.kind = "body" /\ out'[i] = out[i]
             /\ Going(i, [Taking(i, m) EXCEPT !.left = 0], r)
    <3>1. Taking(i, m) \in Writers
      BY <1>1, <2>5, <2>2, TakingIsWriter
    <3>2. [Taking(i, m) EXCEPT !.left = 0] \in Writers
      BY <3>1 DEF Writers
    <3> QED BY <1>1, <2>1, <2>5, <3>2 DEF Going, TypedOf
  <2>6. CASE m.kind = "body" /\ Sending(i, Taking(i, m), r)
    <3>1. Taking(i, m) \in Writers
      BY <1>1, <2>6, <2>2, TakingIsWriter
    <3> QED BY <1>1, <2>1, <2>6, <3>1, SendingTyped DEF TypedOf
  <2>7. CASE /\ out'[i] = [out[i] EXCEPT !.end = IF w.awaiting THEN "ended" ELSE out[i].end]
             /\ Ending(i, r)
    <3>1. out'[i] \in Outputs
      BY <2>7 DEF TypedOf, Outputs
    <3> QED BY <1>1, <2>1, <2>7, <3>1, EndingTyped DEF TypedOf
  <2>8. CASE out'[i] = out[i] /\ Ending(i, r)
    BY <1>1, <2>1, <2>8, EndingTyped DEF TypedOf
  <2> HIDE DEF m, r, w, none, with
  <2> QED BY <1>2, <1>3, <1>4, <2>3, <2>4, <2>5, <2>6, <2>7, <2>8
          DEF Written, m, r, w, none, with
<1> QED BY <1>2, <1>3, <1>5, <1>4 DEF Written

\* An application that speaks queues some messages, having noted them.
LEMMA SpeaksQueues ==
    ASSUME NEW i \in Requests, TypedOf(i), Speaks(i)
    PROVE  \E r \in Exchanges, todo \in Seq(Messages), a \in Apps :
                /\ Queueing(i, r, todo, a) /\ SameState(ex[i], r)
                /\ r.send = ex[i].send /\ r.recv = ex[i].recv
<1> DEFINE P == \E r \in Exchanges, todo \in Seq(Messages), a \in Apps :
                /\ Queueing(i, r, todo, a) /\ SameState(ex[i], r)
                /\ r.send = ex[i].send /\ r.recv = ex[i].recv
<1>1. ex[i] \in Exchanges /\ app[i] \in Apps
  BY DEF TypedOf
<1>2. ASSUME NEW m \in Says[i],
             Queueing(i, Noted(ex[i], m), <<m>>, [app[i] EXCEPT !.sends = app[i].sends + 1])
      PROVE  P
  <2>1. m \in Messages /\ <<m>> \in Seq(Messages)
    BY ConstantsOf, Pair
  <2>2. [app[i] EXCEPT !.sends = app[i].sends + 1] \in Apps
    BY <1>1 DEF Apps
  <2>3. /\ Noted(ex[i], m) \in Exchanges /\ SameState(ex[i], Noted(ex[i], m))
        /\ Noted(ex[i], m).send = ex[i].send /\ Noted(ex[i], m).recv = ex[i].recv
    BY <1>1, <2>1, NotedActs
  <2> QED BY <1>2, <2>1, <2>2, <2>3
<1>3. ASSUME NEW how \in Endings,
             Queueing(i, Ended(ex[i], how), LastWords(ex[i], how),
                      [app[i] EXCEPT !.over = TRUE, !.gaveUp =
                            how # "return" /\ ex[i].started /\ ~ex[i].bodyEnded])
      PROVE  P
  <2> DEFINE up == how # "return" /\ ex[i].started /\ ~ex[i].bodyEnded
  <2>1. up \in BOOLEAN
    BY <1>1 DEF Exchanges
  <2>2. [app[i] EXCEPT !.over = TRUE, !.gaveUp = up] \in Apps
    <3> HIDE DEF up
    <3> QED BY <1>1, <2>1 DEF Apps
  <2>3. LastWords(ex[i], how) \in Seq(Messages)
    BY <1>1, LastWordsAreMessages
  <2> QED BY <1>1, <1>3, <2>2, <2>3, EndedActs
<1>4. ASSUME Queueing(i, ex[i], app[i].todo, app[i]) PROVE P
  <2>1. app[i].todo \in Seq(Messages) /\ SameState(ex[i], ex[i])
    BY <1>1 DEF Apps, SameState
  <2> QED BY <1>1, <1>4, <2>1
<1> HIDE DEF P
<1>5. P
  BY <1>2, <1>3, <1>4 DEF Speaks
<1> QED BY <1>5 DEF P

\* An application that speaks keeps the types.
LEMMA SpeaksTyped ==
    ASSUME NEW i \in Requests, TypedOf(i), Speaks(i)
    PROVE  TypedOf(i)'
<1>1. /\ Len(ex[i].send) <= SendMax /\ given[i] \in Nat
      /\ writer'[i] = writer[i] /\ stream'[i] = stream[i] /\ out'[i] = out[i]
  BY DEF Speaks, TypedOf
<1>2. given'[i] \in Nat
  <2>1. given'[i] \in {given[i], given[i] + Chunk[i]}
    BY DEF Speaks
  <2> QED BY <1>1, <2>1, ConstantsOf
<1>3. ex'[i] \in Exchanges /\ Len(ex'[i].send) <= SendMax /\ app'[i] \in Apps
  BY <1>1, SpeaksQueues, QueueingTyped
<1> QED BY <1>1, <1>2, <1>3 DEF TypedOf

\* Whatever is done to a stream.
LEMMA MovesTyped ==
    ASSUME NEW i \in Requests, TypedOf(i), Moves(i)
    PROVE  TypedOf(i)'
<1>1. /\ ex[i] \in Exchanges /\ Len(ex[i].send) <= SendMax /\ app[i] \in Apps
      /\ stream[i] \in Streams /\ writer[i] \in Writers /\ out[i] \in Outputs
      /\ given[i] \in Nat
  BY DEF TypedOf
<1>2. BrokenOff(i) => out'[i] \in Outputs
  BY <1>1 DEF BrokenOff, Outputs
<1>3. CASE Untouched(i) \/ Refused(i)
  BY <1>1, <1>2, <1>3 DEF Untouched, Refused, TypedOf, Writers
<1>4. CASE Begun(i)
  <2>1. NewExchange \in Exchanges /\ Len(NewExchange.send) <= SendMax
    BY ConstantsOf, EmptySeq DEF NewExchange, Exchanges
  <2>2. NewWriter \in Writers /\ Started(app[i]) \in Apps
        /\ [stream[i] EXCEPT !.live = TRUE] \in Streams
    BY <1>1 DEF NewWriter, NoWriter, Writers, Started, Apps, Streams
  <2> QED BY <1>1, <1>4, <2>1, <2>2 DEF Begun, TypedOf
<1>5. CASE Fed(i)
  <2>1. \A x \in {"data", "end"} :
            Feed(ex[i], x) \in Exchanges /\ Feed(ex[i], x).send = ex[i].send
    BY <1>1, FeedActs DEF RequestMessages, SameAnswer
  <2>2. ex'[i] \in {ex[i], Feed(ex[i], "data"), Feed(ex[i], "end")}
    BY <1>5 DEF Fed
  <2>3. stream'[i] \in Streams
    <3>1. stream'[i] \in {[stream[i] EXCEPT !.unacked = stream[i].unacked + 1], NoStream,
                          [stream[i] EXCEPT !.ended = TRUE]}
      BY <1>5 DEF Fed
    <3>2. stream[i].unacked + 1 \in Nat
      BY <1>1 DEF Streams
    <3>3. /\ [stream[i] EXCEPT !.unacked = stream[i].unacked + 1] \in Streams
          /\ [stream[i] EXCEPT !.ended = TRUE] \in Streams
      BY <1>1, <3>2 DEF Streams
    <3>4. NoStream \in Streams
      BY DEF Streams, NoStream
    <3> QED BY <3>1, <3>3, <3>4
  <2>4. ex'[i] \in Exchanges /\ Len(ex'[i].send) <= SendMax
    BY <1>1, <2>1, <2>2
  <2> QED BY <1>1, <1>5, <2>3, <2>4 DEF Fed, TypedOf
<1>6. CASE TakenDown(i)
  <2>1. PICK r \in {ex[i], NotifyDisconnect(ex[i])} :
            IF Over(writer[i]) THEN ex'[i] = r /\ writer'[i] = writer[i]
            ELSE ex'[i] = Completed(r) /\ writer'[i] = DoneWriter
    BY <1>6 DEF TakenDown
  <2>2. r \in Exchanges /\ r.send = ex[i].send
    BY <1>1, NotifyDisconnectActs DEF SameAnswer
  <2>3. Completed(r) \in Exchanges /\ Completed(r).send = ex[i].send
    BY <2>2, CompletedActs DEF SameAnswer
  <2>4. DoneWriter \in Writers /\ NoStream \in Streams
    BY DEF DoneWriter, NoWriter, Writers, NoStream, Streams
  <2>5. Cancelled(app[i]) \in Apps
    BY <1>1, EmptySeq DEF Cancelled, Apps
  <2>6. ex'[i] \in Exchanges /\ ex'[i].send = ex[i].send /\ writer'[i] \in Writers
    BY <1>1, <2>1, <2>2, <2>3, <2>4
  <2> QED BY <1>1, <1>2, <1>6, <2>4, <2>5, <2>6 DEF TakenDown, TypedOf
<1>7. CASE Reads(i)
  <2>1. app'[i] \in Apps
    <3>1. app[i].got + 1 \in Nat /\ app[i].whole \in BOOLEAN
      BY <1>1 DEF Apps
    <3> DEFINE whole == app[i].whole \/ Head(ex[i].recv) = "end"
               got == IF Head(ex[i].recv) = "data" THEN app[i].got + 1 ELSE app[i].got
    <3>2. whole \in BOOLEAN /\ got \in Nat
      BY <1>1, <3>1 DEF Apps
    <3>3. app'[i] \in {app[i], [app[i] EXCEPT !.pc = "recv"],
                       [app[i] EXCEPT !.pc = "run", !.got = got, !.whole = whole]}
      BY <1>7 DEF Reads
    <3> HIDE DEF whole, got
    <3> QED BY <1>1, <3>2, <3>3 DEF Apps
  <2>2. ex'[i] \in Exchanges /\ ex'[i].send = ex[i].send
    BY <1>1, <1>7, ReceivedActs DEF Reads, SameAnswer
  <2>3. stream'[i] \in Streams
    BY <1>1, <1>7 DEF Reads, Streams
  <2> QED BY <1>1, <1>7, <2>1, <2>2, <2>3 DEF Reads, TypedOf
<1> QED BY <1>3, <1>4, <1>5, <1>6, <1>7, WrittenTyped, SpeaksTyped DEF Moves

\* So a step keeps the types of all streams.
LEMMA TypedStays ==
    ASSUME Typed, Moved
    PROVE  Typed'
<1>1. ASSUME NEW i \in Requests PROVE TypedOf(i)'
  <2>1. TypedOf(i)
    BY DEF Typed, TypedOf
  <2> QED BY <2>1, MovesTyped DEF Moved
<1> QED BY <1>1 DEF Typed, TypedOf, Moved, Shaped

-----------------------------------------------------------------------------
\* What is around the streams, and what it never takes back.

Envelopes == [kind : Kinds, of : Requests \cup {0}]

\* The windows are drained, and a writer that goes to sleep has drained one.
Drained ==
    /\ outConn' \in Nat /\ outConn' <= outConn
    /\ outStream' \in [Requests -> Nat]
    /\ \A i \in Requests : outStream'[i] <= outStream[i]
Beds == {"window", "paused"}
Sleeping(i) ==
    /\ writer'[i].pc = "window" =>
        \/ writer[i].pc = "window" /\ (Settled \/ Head(inbox) # Event("window", 0))
        \/ outConn' = 0 \/ outStream'[i] = 0
    /\ writer'[i].pc = "paused" => writePaused' \/ (writer[i].pc = "paused" /\ ~writePaused)

\* What was closed, left or lost stays so.
Onward ==
    /\ goaway' \in BOOLEAN /\ (goaway => goaway')
    /\ closed' \in BOOLEAN /\ (closed => closed')
    /\ resets' \in Nat /\ (closed' \/ resets' <= MaxResets)

\* An event is handled, or a task or a callback runs between the batches.
Handled == ~Settled /\ inbox' = Tail(inbox)
Stepped ==
    /\ Onward /\ Drained /\ \A i \in Requests : Sleeping(i)
    /\ peer' = peer /\ writePaused' \in BOOLEAN /\ lost' \in BOOLEAN
    /\ \/ Handled /\ lost' = lost
       \/ Settled /\ inbox' = inbox /\ (lost' = lost \/ Live' = {})

\* An event that is handled leaves the others, in order.
LEMMA RestOfInbox ==
    ASSUME Around, inbox # <<>>
    PROVE  /\ Head(inbox) = inbox[1] /\ Tail(inbox) \in Seq(Envelopes)
           /\ Len(inbox) \in Nat /\ 1 \in DOMAIN inbox
           /\ \A k \in DOMAIN Tail(inbox) : k + 1 \in DOMAIN inbox /\ Tail(inbox)[k] = inbox[k + 1]
           /\ \A k \in DOMAIN inbox : k # 1 =>
                k - 1 \in DOMAIN Tail(inbox) /\ Tail(inbox)[k - 1] = inbox[k]
<1>1. inbox \in Seq(Envelopes)
  BY DEF Around, Envelopes
<1>2. /\ Len(inbox) \in Nat \ {0} /\ DOMAIN inbox = 1 .. Len(inbox)
      /\ Tail(inbox) \in Seq(Envelopes)
      /\ Len(Tail(inbox)) = Len(inbox) - 1
      /\ \A k \in 1 .. Len(Tail(inbox)) : Tail(inbox)[k] = inbox[k + 1]
  BY <1>1, HeadTailProperties, EmptySeq, LenProperties
<1>3. DOMAIN Tail(inbox) = 1 .. Len(inbox) - 1
  BY <1>2, LenProperties
<1>4. Head(inbox) = inbox[1]
  BY <1>1
<1>5. \A k \in DOMAIN inbox : k # 1 =>
                k - 1 \in DOMAIN Tail(inbox) /\ Tail(inbox)[k - 1] = inbox[k]
  <2> SUFFICES ASSUME NEW k \in DOMAIN inbox, k # 1
               PROVE  k - 1 \in DOMAIN Tail(inbox) /\ Tail(inbox)[k - 1] = inbox[k]
    OBVIOUS
  <2>1. k - 1 \in DOMAIN Tail(inbox) /\ k = (k - 1) + 1
    BY <1>2, <1>3
  <2> QED BY <1>2, <1>3, <2>1
<1> QED BY <1>2, <1>3, <1>4, <1>5

\* And one that arrives goes behind them.
LEMMA MoreInInbox ==
    ASSUME Around, NEW e \in Envelopes
    PROVE  LET more == Append(inbox, e)
           IN  /\ more \in Seq(Envelopes)
               /\ DOMAIN more = DOMAIN inbox \cup {Len(inbox) + 1}
               /\ Len(inbox) + 1 \notin DOMAIN inbox /\ more[Len(inbox) + 1] = e
               /\ \A k \in DOMAIN inbox : more[k] = inbox[k]
<1> DEFINE more == Append(inbox, e)
<1>1. inbox \in Seq(Envelopes)
  BY DEF Around, Envelopes
<1>2. /\ more \in Seq(Envelopes) /\ Len(more) = Len(inbox) + 1
      /\ \A k \in 1 .. Len(inbox) : more[k] = inbox[k] /\ more[Len(inbox) + 1] = e
      /\ more[Len(inbox) + 1] = e
  BY <1>1, AppendProperties
<1>3. DOMAIN inbox = 1 .. Len(inbox) /\ Len(inbox) \in Nat /\ DOMAIN more = 1 .. Len(inbox) + 1
  BY <1>1, <1>2, LenProperties
<1>4. 1 .. Len(inbox) + 1 = (1 .. Len(inbox)) \cup {Len(inbox) + 1}
  BY <1>3
<1> QED BY <1>2, <1>3, <1>4

\* Nothing sleeps for the windows that stay as they are.
LEMMA SameWindows ==
    ASSUME Around, UNCHANGED <<outConn, outStream>>
    PROVE  Drained
<1>1. outConn \in Nat /\ outStream \in [Requests -> Nat]
  BY ConnectionAssumption DEF Around
<1> QED BY <1>1 DEF Drained

\* A line that the server answers with takes a unit of each window.
LEMMA RespondSimpleDrains ==
    ASSUME Around, NEW i \in Requests, RespondSimple(i)
    PROVE  Drained
<1>1. outConn \in Nat /\ outStream \in [Requests -> Nat]
  BY ConnectionAssumption DEF Around
<1>2. CASE UNCHANGED <<outConn, outStream>>
  BY <1>2, SameWindows
<1>3. CASE /\ outConn # 0 /\ outStream[i] # 0
           /\ outConn' = outConn - 1 /\ outStream' = [outStream EXCEPT ![i] = outStream[i] - 1]
  BY <1>1, <1>3 DEF Drained
<1> QED BY <1>2, <1>3 DEF RespondSimple, wire

\* Cancelling wakes nobody, and puts nobody to sleep.
LEMMA CancelledSleeps ==
    ASSUME Typed, NEW S, NEW after, CancelledFrom(S, after)
    PROVE  \A i \in Requests : writer'[i].pc \in Beds => writer[i].pc = writer'[i].pc
<1>1. DoneWriter.pc \notin Beds
  BY DEF DoneWriter, NoWriter, Beds
<1> QED BY <1>1, CancelledFromActs

\* Taking streams down counts the resets, and closes when they are too many.
LEMMA ResetStreamsOnward ==
    ASSUME Base, NEW S \in SUBSET Requests, NEW more, ResetStreams(S, more),
           goaway' \in BOOLEAN, goaway => goaway'
    PROVE  Onward /\ \A i \in Requests : writer'[i].pc \in Beds => writer[i].pc = writer'[i].pc
<1>1. Typed /\ Around
  BY DEF Base
<1>2. Cardinality(S) \in Nat
  <2>1. IsFiniteSet(S)
    BY FS_Subset, ApplicationAssumption
  <2> QED BY <2>1, FS_CardinalityType
<1>3. /\ resets' = resets + Cardinality(S)
      /\ closed' = (closed \/ (~closed /\ resets' > MaxResets))
  BY DEF ResetStreams
<1>4. resets \in Nat /\ closed \in BOOLEAN /\ MaxResets \in Nat
  BY <1>1, ConnectionAssumption DEF Around
<1>5. resets' \in Nat /\ closed' \in BOOLEAN
  BY <1>2, <1>3, <1>4
<1>6. (closed => closed') /\ (closed' \/ resets' <= MaxResets)
  <2>1. resets' > MaxResets \/ resets' <= MaxResets
    BY <1>4, <1>5
  <2> QED BY <1>3, <2>1
<1>7. \E gone, after : CancelledFrom(gone, after)
  BY DEF ResetStreams
<1> QED BY <1>1, <1>5, <1>6, <1>7, CancelledSleeps DEF Onward

\* _cancel_all closes the connection for good and leaves no stream.
LEMMA ShutOnward ==
    ASSUME Base, NEW after, Shut(after), goaway' \in BOOLEAN, goaway => goaway'
    PROVE  /\ Onward /\ Live' = {}
           /\ \A i \in Requests : writer'[i].pc \in Beds => writer[i].pc = writer'[i].pc
<1>1. Typed /\ Around
  BY DEF Base
<1>2. closed' = TRUE /\ resets' = resets /\ CancelledFrom(Live, after)
  BY DEF Shut
<1>3. \A i \in Requests : ~stream'[i].live
  <2>1. \A i \in Requests : stream'[i] = NoStream \/ (i \notin Live /\ stream'[i] = stream[i])
    BY <1>1, <1>2, CancelledFromActs
  <2> QED BY <2>1 DEF NoStream, Live
<1>4. Live' = {}
  BY <1>3 DEF Live
<1> QED BY <1>1, <1>2, <1>4, CancelledSleeps DEF Onward, Around

\* Where nothing of this changes.
LEMMA SameOnward ==
    ASSUME Around, UNCHANGED <<goaway, closed, resets>>
    PROVE  Onward
BY DEF Around, Onward

\* The last stream of a peer that is leaving closes the connection.
LEMMA FinalizeOnward ==
    ASSUME Around, NEW i, Finalize(i), UNCHANGED <<goaway, resets>>
    PROVE  Onward
<1>1. closed' = (closed \/ (goaway /\ Live = {i}))
  BY DEF Finalize
<1>2. closed' \in BOOLEAN
  BY <1>1 DEF Around
<1> QED BY <1>1, <1>2 DEF Around, Onward

\* The steps that handle an event.
LEMMA HandlerSteps ==
    ASSUME Base, Handler \/ \E i \in Requests : RefuseRequest(i)
    PROVE  Stepped
<1>1. Typed /\ Around /\ lost \in BOOLEAN /\ writePaused \in BOOLEAN
  BY DEF Base, Around
<1>2. ASSUME NEW kind, NEW i, Handles(kind, i)
      PROVE  Handled /\ UNCHANGED <<peer, lost, writePaused>> /\ Head(inbox) = Event(kind, i)
  BY <1>2 DEF Handles, Handled
<1>3. ASSUME NEW kind, NEW i, Handles(kind, i), kind # "window", Onward, Drained,
             \A j \in Requests : writer'[j].pc \in Beds => writer[j].pc = writer'[j].pc
      PROVE  Stepped
  <2>1. Event(kind, i) # Event("window", 0)
    BY <1>3 DEF Event
  <2> QED BY <1>1, <1>2, <1>3, <2>1 DEF Stepped, Sleeping, Beds
<1>4. ASSUME NEW i \in Requests, RefuseRequest(i) PROVE Stepped
  <2>1. Handles("head", i) /\ RespondSimple(i) /\ UNCHANGED <<writer, goaway, resets, closed>>
    BY <1>4 DEF RefuseRequest
  <2> QED BY <1>1, <1>3, <2>1, SameOnward, RespondSimpleDrains
<1>5. ASSUME NEW i \in Requests, OnRequest(i) PROVE Stepped
  <2>1. /\ Handles("head", i) /\ UNCHANGED <<outConn, outStream, goaway, resets, closed>>
        /\ writer' = [writer EXCEPT ![i] = NewWriter]
    BY <1>5 DEF OnRequest, wire
  <2>2. \A j \in Requests : writer'[j].pc \in Beds => writer[j].pc = writer'[j].pc
    BY <1>1, <2>1 DEF NewWriter, NoWriter, Beds, Typed
  <2> QED BY <1>1, <1>3, <2>1, <2>2, SameOnward, SameWindows
<1>6. ASSUME NEW i \in Requests, OnData(i) PROVE Stepped
  <2>1. Handles("data", i) /\ UNCHANGED <<writer, outConn, outStream, goaway, resets, closed>>
    BY <1>6 DEF OnData, wire
  <2> QED BY <1>1, <1>3, <2>1, SameOnward, SameWindows
<1>7. ASSUME NEW i \in Requests, OnTooMuchData(i) PROVE Stepped
  <2>1. Handles("big", i) /\ UNCHANGED goaway
    BY <1>7 DEF OnTooMuchData
  <2>2. CASE RespondSimple(i) /\ ResetStreams({i}, 1)
    <3>1. {i} \in SUBSET Requests /\ goaway' \in BOOLEAN
      BY <1>1, <2>1 DEF Around
    <3> QED BY <1>1, <1>3, <2>1, <2>2, <3>1, ResetStreamsOnward, RespondSimpleDrains
  <2>3. CASE UNCHANGED <<writer, outConn, outStream, resets, closed>>
    BY <1>1, <1>3, <2>1, <2>3, SameOnward, SameWindows
  <2> QED BY <1>7, <2>2, <2>3 DEF OnTooMuchData, wire
<1>8. ASSUME NEW i \in Requests, OnStreamEnded(i) PROVE Stepped
  <2>1. Handles("end", i) /\ UNCHANGED <<writer, outConn, outStream, goaway, resets>>
    BY <1>8 DEF OnStreamEnded, wire
  <2>2. UNCHANGED closed \/ Finalize(i)
    BY <1>8 DEF OnStreamEnded
  <2>3. Onward
    BY <1>1, <2>1, <2>2, SameOnward, FinalizeOnward
  <2> QED BY <1>1, <1>3, <2>1, <2>3, SameWindows
<1>9. ASSUME NEW i \in Requests, OnStreamReset(i) PROVE Stepped
  <2>1. Handles("reset", i) /\ UNCHANGED <<outConn, outStream, goaway>> /\ ResetStreams({i}, 0)
    BY <1>9 DEF OnStreamReset, wire
  <2>2. {i} \in SUBSET Requests /\ goaway' \in BOOLEAN
    BY <1>1, <2>1 DEF Around
  <2> QED BY <1>1, <1>3, <2>1, <2>2, ResetStreamsOnward, SameWindows
<1>10. ASSUME OnWindowUpdated PROVE Stepped
  <2>1. /\ Handles("window", 0) /\ UNCHANGED <<outConn, outStream, goaway, resets, closed>>
        /\ writer' = Woken("window", "woken")
    BY <1>10 DEF OnWindowUpdated, wire
  <2>2. \A i \in Requests : /\ writer'[i].pc # "window"
                            /\ writer'[i].pc = "paused" => writer[i].pc = "paused"
    BY <1>1, <2>1 DEF Woken, Typed, Writers
  <2> QED BY <1>1, <1>2, <2>1, <2>2, SameOnward, SameWindows DEF Stepped, Sleeping, Beds
<1>11. ASSUME OnConnectionTerminated PROVE Stepped
  <2>1. goaway' = TRUE /\ UNCHANGED <<outConn, outStream>>
    BY <1>11 DEF OnConnectionTerminated, wire
  <2>2. CASE Handles("error", 0) /\ closed /\ UNCHANGED <<writer, resets, closed>>
    <3>1. Onward
      BY <1>1, <2>1, <2>2 DEF Onward, Around
    <3> QED BY <1>1, <1>3, <2>1, <2>2, <3>1, SameWindows
  <2>3. ASSUME NEW kind \in {"error", "goaway"}, NEW i, Handles(kind, i),
               (\E after : Shut(after)) \/ \E S \in SUBSET Requests : ResetStreams(S, 0)
        PROVE  Stepped
    <3>1. Onward /\ \A j \in Requests : writer'[j].pc \in Beds => writer[j].pc = writer'[j].pc
      BY <2>1, <2>3, ShutOnward, ResetStreamsOnward
    <3> QED BY <1>1, <1>3, <2>1, <2>3, <3>1, SameWindows
  <2>4. \A last : {i \in Live : i > last} \in SUBSET Requests
    BY DEF Live
  <2> QED BY <1>11, <2>2, <2>3, <2>4 DEF OnConnectionTerminated
<1> QED BY <1>4, <1>5, <1>6, <1>7, <1>8, <1>9, <1>10, <1>11 DEF Handler

\* The steps of a writer.
LEMMA WriterSteps ==
    ASSUME Base, NEW i \in Requests, Writer(i) \/ BlockRefused(i) \/ WriterFails(i)
    PROVE  Stepped
<1>1. /\ Typed /\ Around /\ lost \in BOOLEAN /\ writePaused \in BOOLEAN
      /\ goaway \in BOOLEAN /\ closed \in BOOLEAN
      /\ outConn \in Nat /\ outStream \in [Requests -> Nat]
  BY ConnectionAssumption DEF Base, Around
<1>2. Settled /\ UNCHANGED <<peer, inbox, writePaused, goaway, lost, received, given>>
  BY DEF Writer, BlockRefused, WriterFails, StartDropped, TakesBlock, TakeStart, TakeBody,
         TakeTrailers, GoesOn, SleepsOn, SendRefused, Takes, outside
<1>3. ASSUME Onward, Drained, \A j \in Requests : Sleeping(j)
      PROVE  Stepped
  BY <1>1, <1>2, <1>3 DEF Stepped
<1>4. ASSUME NEW r, NEW how \in Stopped, FinishResponse(i, r, how),
             UNCHANGED <<outConn, outStream>>
      PROVE  Stepped
  <2>1. UNCHANGED resets /\ writer' = [writer EXCEPT ![i] = [NoWriter EXCEPT !.pc = how]]
    BY <1>4 DEF FinishResponse
  <2>2. UNCHANGED closed \/ Finalize(i)
    BY <1>4 DEF FinishResponse
  <2>3. Onward
    BY <1>1, <1>2, <2>1, <2>2, SameOnward, FinalizeOnward
  <2>4. \A j \in Requests : Sleeping(j)
    <3>1. [NoWriter EXCEPT !.pc = how].pc \notin {"window", "paused"}
      BY <1>4 DEF Stopped, NoWriter
    <3> QED BY <1>1, <1>2, <2>1, <3>1 DEF Sleeping, Typed
  <2> QED BY <1>1, <1>3, <1>4, <2>3, <2>4, SameWindows
<1>5. ASSUME NEW w \in Writers, NEW r, Continue(i, w, r),
             w.pc # "window", w.pc = "paused" => writePaused, UNCHANGED <<outConn, outStream>>
      PROVE  Stepped
  <2>1. UNCHANGED <<closed, resets>> /\ writer' = [writer EXCEPT ![i] = w]
    BY <1>5 DEF Continue
  <2>2. \A j \in Requests : Sleeping(j)
    BY <1>1, <1>2, <1>5, <2>1 DEF Sleeping, Typed
  <2> QED BY <1>1, <1>2, <1>3, <1>5, <2>1, <2>2, SameOnward, SameWindows
<1>6. ASSUME NEW w \in Writers, NEW r, SendOn(i, w, r)
      PROVE  Stepped
  <2>1. /\ Rest(i)
        /\ \E n \in Nat :
            /\ n <= outConn /\ n <= outStream[i]
            /\ outConn' = outConn - n
            /\ outStream' = [outStream EXCEPT ![i] = outStream[i] - n]
            /\ writer'[i].pc = "window" => n = outConn \/ n = outStream[i]
        /\ writer'[i].pc = "paused" => writePaused
    BY <1>2, <1>6, SendOnActs
  <2>2. PICK n \in Nat :
            /\ n <= outConn /\ n <= outStream[i]
            /\ outConn' = outConn - n
            /\ outStream' = [outStream EXCEPT ![i] = outStream[i] - n]
            /\ writer'[i].pc = "window" => n = outConn \/ n = outStream[i]
    BY <2>1
  <2>3. Drained
    BY <1>1, <2>2 DEF Drained
  <2>4. \A j \in Requests : Sleeping(j)
    <3> SUFFICES ASSUME NEW j \in Requests PROVE Sleeping(j)
      OBVIOUS
    <3>1. CASE j = i
      BY <1>1, <1>2, <2>1, <2>2, <3>1 DEF Sleeping
    <3>2. CASE j # i
      BY <1>2, <2>1, <3>2 DEF Sleeping, Rest
    <3> QED BY <3>1, <3>2
  <2>5. resets' = resets /\ (closed' = closed \/ Finalize(i))
    BY <1>6 DEF SendOn, Proceed, Continue, FinishResponse
  <2>6. Onward
    BY <1>1, <1>2, <2>5, SameOnward, FinalizeOnward
  <2> QED BY <1>3, <2>3, <2>4, <2>6
<1>7. CASE \/ BlockRefused(i) \/ WriterFails(i) \/ StartDropped(i)
           \/ TakeTrailers(i) \/ SendRefused(i)
  <2>1. \E r, how : FinishResponse(i, r, how) /\ how \in Stopped /\ UNCHANGED <<outConn, outStream>>
    BY <1>7 DEF BlockRefused, WriterFails, StartDropped, TakeTrailers, SendRefused, wire, Stopped
  <2> QED BY <1>4, <2>1
<1>11. CASE SleepsOn(i)
  <2>1. /\ Continue(i, [writer[i] EXCEPT !.pc = "paused"], ex[i]) /\ writePaused
        /\ UNCHANGED <<outConn, outStream>>
    BY <1>11 DEF SleepsOn, wire
  <2>2. [writer[i] EXCEPT !.pc = "paused"] \in Writers /\ [writer[i] EXCEPT !.pc = "paused"].pc = "paused"
    BY <1>1 DEF Typed, Writers
  <2> QED BY <1>5, <2>1, <2>2
<1>8. CASE GoesOn(i)
  BY <1>1, <1>6, <1>8 DEF GoesOn, Typed
<1>9. CASE TakeStart(i)
  <2> DEFINE m == Head(ex[i].send)
             none == m.framing = "none"
             with == m.trailers /\ ~none
             w == [writer[i] EXCEPT !.started = TRUE, !.discard = none, !.trailers = with]
  <2>1. /\ writer[i].pc = "run" /\ UNCHANGED <<outConn, outStream>> /\ Continue(i, w, Taken(ex[i]))
    BY <1>9 DEF TakeStart, Takes
  <2>2. none \in BOOLEAN /\ with \in BOOLEAN
    OBVIOUS
  <2>3. writer[i] \in Writers
    BY <1>1 DEF Typed
  <2>4. w \in Writers /\ w.pc = "run"
    <3> HIDE DEF none, with
    <3> QED BY <2>1, <2>2, <2>3 DEF Writers
  <2> HIDE DEF w
  <2> QED BY <1>5, <2>1, <2>4
<1>10. CASE TakeBody(i)
  <2> DEFINE m == Head(ex[i].send)
             w == Taking(i, m)
  <2>1. /\ writer[i].pc = "run" /\ ex[i].send # <<>> /\ m.kind = "body"
        /\ \/ Proceed(i, [w EXCEPT !.left = 0], Taken(ex[i])) /\ UNCHANGED <<outConn, outStream>>
           \/ ResetStreams({i}, 0) /\ UNCHANGED <<outConn, outStream>>
           \/ SendOn(i, w, Taken(ex[i]))
    BY <1>10 DEF TakeBody, Takes, Taking, wire
  <2>2. w \in Writers /\ [w EXCEPT !.left = 0] \in Writers /\ [w EXCEPT !.left = 0].pc = "run"
    <3>1. writer[i] \in Writers /\ m \in Body
      BY <1>1, <2>1, HeadIsMessage DEF Typed
    <3>2. w \in Writers
      BY <3>1, TakingIsWriter
    <3>3. w.pc = "run"
      BY <2>1, <3>1 DEF Taking, Writers
    <3> HIDE DEF w
    <3> QED BY <3>2, <3>3 DEF Writers
  <2> HIDE DEF w, m
  <2>3. CASE Proceed(i, [w EXCEPT !.left = 0], Taken(ex[i])) /\ UNCHANGED <<outConn, outStream>>
    BY <1>4, <1>5, <2>2, <2>3 DEF Proceed, Stopped
  <2>4. CASE ResetStreams({i}, 0) /\ UNCHANGED <<outConn, outStream>>
    <3>1. {i} \in SUBSET Requests /\ goaway' \in BOOLEAN /\ (goaway => goaway')
      BY <1>1, <1>2
    <3>2. Onward /\ \A j \in Requests : writer'[j].pc \in Beds => writer[j].pc = writer'[j].pc
      BY <2>4, <3>1, ResetStreamsOnward
    <3> QED BY <1>1, <1>2, <1>3, <2>4, <3>2, SameWindows DEF Sleeping, Beds
  <2>5. CASE SendOn(i, w, Taken(ex[i]))
    BY <1>6, <2>2, <2>5
  <2> QED BY <2>1, <2>3, <2>4, <2>5
<1> QED BY <1>7, <1>8, <1>9, <1>10, <1>11 DEF Writer

\* The steps of an application, of the watchdog and of the transport.
LEMMA TaskSteps ==
    ASSUME Base,
           \/ \E i \in Requests : Receive(i) \/ AppStep(i) \/ StreamDeadline(i)
           \/ IdleTimeout \/ Close \/ ConnectionLost
           \/ PauseWriting \/ ResumeWriting \/ (~closed /\ ForgetResets)
    PROVE  Stepped
<1>1. /\ Typed /\ Around /\ lost \in BOOLEAN /\ writePaused \in BOOLEAN
      /\ goaway \in BOOLEAN /\ closed \in BOOLEAN
  BY DEF Base, Around
<1>2. ASSUME Settled, UNCHANGED <<peer, inbox, outConn, outStream>>, Onward,
             writePaused' \in {writePaused, TRUE}, lost' \in BOOLEAN, lost' = lost \/ Live' = {},
             \A j \in Requests : writer'[j].pc \in Beds => writer[j].pc = writer'[j].pc
      PROVE  Stepped
  <2>1. ASSUME NEW j \in Requests PROVE Sleeping(j)
    <3>1. writer'[j].pc = "window" => writer[j].pc = "window"
      BY <1>2 DEF Beds
    <3>2. writer'[j].pc = "paused" => writer[j].pc = "paused"
      BY <1>2 DEF Beds
    <3>3. writePaused => writePaused'
      BY <1>2
    <3> QED BY <1>2, <3>1, <3>2, <3>3 DEF Sleeping
  <2>2. writePaused' \in BOOLEAN
    BY <1>1, <1>2
  <2> QED BY <1>1, <1>2, <2>1, <2>2, SameWindows DEF Stepped
<1>3. ASSUME NEW i \in Requests, Receive(i) \/ AppStep(i) PROVE Stepped
  <2>1. /\ Settled /\ UNCHANGED <<peer, inbox, outConn, outStream, goaway, closed, resets>>
        /\ UNCHANGED <<writePaused, lost, writer>>
    BY <1>3 DEF Receive, AppStep, outside, wire
  <2> QED BY <1>1, <1>2, <2>1, SameOnward
<1>4. ASSUME NEW i \in Requests, StreamDeadline(i) PROVE Stepped
  <2>1. /\ Settled /\ UNCHANGED <<peer, inbox, outConn, outStream, goaway>>
        /\ UNCHANGED <<writePaused, lost>> /\ ResetStreams({i}, 0)
    BY <1>4 DEF StreamDeadline, outside
  <2>2. {i} \in SUBSET Requests /\ goaway' \in BOOLEAN
    BY <1>1, <2>1
  <2>3. Onward /\ \A j \in Requests : writer'[j].pc \in Beds => writer[j].pc = writer'[j].pc
    BY <2>1, <2>2, ResetStreamsOnward
  <2> QED BY <1>1, <1>2, <2>1, <2>3
<1>5. CASE IdleTimeout \/ Close \/ ConnectionLost
  <2>1. /\ Settled /\ UNCHANGED <<peer, inbox, outConn, outStream, goaway>>
        /\ UNCHANGED writePaused /\ (lost' = lost \/ lost' = TRUE) /\ \E after : Shut(after)
    BY <1>5 DEF IdleTimeout, Close, ConnectionLost, outside, wire
  <2>2. goaway' \in BOOLEAN
    BY <1>1, <2>1
  <2>3. /\ Onward /\ Live' = {}
        /\ \A j \in Requests : writer'[j].pc \in Beds => writer[j].pc = writer'[j].pc
    BY <2>1, <2>2, ShutOnward
  <2> QED BY <1>1, <1>2, <2>1, <2>3
<1>6. CASE PauseWriting
  <2>1. /\ Settled /\ UNCHANGED <<peer, inbox, outConn, outStream, goaway, closed, resets>>
        /\ UNCHANGED <<lost, writer>> /\ writePaused' = TRUE
    BY <1>6 DEF PauseWriting, wire
  <2> QED BY <1>1, <1>2, <2>1, SameOnward
<1>8. CASE ResumeWriting
  <2>1. /\ Settled /\ UNCHANGED <<peer, inbox, outConn, outStream, goaway, closed, resets>>
        /\ UNCHANGED lost /\ writePaused' = FALSE /\ writer' = Woken("paused", "resumed")
    BY <1>8 DEF ResumeWriting, wire
  <2>2. \A i \in Requests : /\ writer'[i].pc # "paused"
                            /\ writer'[i].pc = "window" => writer[i].pc = "window"
    BY <1>1, <2>1 DEF Woken, Typed, Writers
  <2> QED BY <1>1, <2>1, <2>2, SameOnward, SameWindows DEF Stepped, Sleeping
<1>7. CASE ~closed /\ ForgetResets
  <2>1. /\ Settled /\ UNCHANGED <<peer, inbox, outConn, outStream, goaway, closed>>
        /\ UNCHANGED <<lost, writer, writePaused>> /\ resets' = 0
    BY <1>7 DEF ForgetResets, wire
  <2>2. Onward
    BY <1>1, <2>1, ConnectionAssumption DEF Onward
  <2> QED BY <1>1, <1>2, <2>1, <2>2
<1> QED BY <1>3, <1>4, <1>5, <1>6, <1>7, <1>8

\* An event arrives, with what it says of the peer and the windows.
ArrivedOf(e) ==
    /\ inbox' = Append(inbox, e) /\ ~closed /\ ~lost
    /\ UNCHANGED <<ex, app, stream, writer, out, writePaused, goaway, resets,
                   closed, lost, received, returned, given>>
    /\ \/ /\ e.kind \in {"head", "data", "big", "end", "reset"} /\ e.of \in Requests
          /\ UNCHANGED <<outConn, outStream>>
          /\ \/ /\ e.kind = "head" /\ peer[e.of].at = "idle"
                /\ peer' = [peer EXCEPT ![e.of].at = "open"]
             \/ /\ e.kind \in {"data", "big"} /\ peer[e.of].at = "open"
                /\ peer[e.of].sent < Uploads[e.of]
                /\ peer' = [peer EXCEPT ![e.of].sent = peer[e.of].sent + 1]
             \/ /\ e.kind = "end" /\ peer[e.of].at = "open"
                /\ peer' = [peer EXCEPT ![e.of].at = "ended"]
             \/ /\ e.kind = "reset" /\ peer[e.of].at \in {"open", "ended"}
                /\ peer' = [peer EXCEPT ![e.of].at = "reset"]
       \/ /\ e.kind \in {"window", "goaway", "error"} /\ peer' = peer
          /\ e # Event("window", 0) => UNCHANGED <<outConn, outStream>>
          /\ outConn' \in {outConn, Window}
          /\ outStream' = [i \in Requests |-> outStream'[i]]
          /\ \A i \in Requests : outStream'[i] \in {outStream[i], StreamWindow[i]}
Arrived == \E e \in Envelopes : ArrivedOf(e)

\* What the peer does puts one event behind those of the batch.
LEMMA PeerArrives ==
    ASSUME Base,
           \/ Peer
           \/ \E i \in Requests : PeerResets(i) \/ PeerUploads(i, "big")
           \/ \E i \in Requests \cup {0} : PeerLeaves("goaway", i)
           \/ PeerLeaves("error", 0)
    PROVE  Arrived
<1>1. /\ Around /\ outStream \in [Requests -> Nat]
      /\ peer \in [Requests -> [at : {"idle", "open", "ended", "reset"}, sent : Nat]]
  BY DEF Base, Around
<1>2. ASSUME NEW kind \in Kinds, NEW i \in Requests \cup {0}, Arrives(kind, i)
      PROVE  /\ Event(kind, i) \in Envelopes /\ Event(kind, i).kind = kind /\ Event(kind, i).of = i
             /\ inbox' = Append(inbox, Event(kind, i)) /\ ~closed /\ ~lost
             /\ UNCHANGED <<ex, app, stream, writer, out, writePaused, goaway, resets,
                   closed, lost, received, returned, given>>
  BY <1>2 DEF Arrives, Event, Envelopes
<1>3. ASSUME NEW i \in Requests, PeerOpens(i) PROVE Arrived
  <2>1. Arrives("head", i) /\ "head" \in Kinds
    BY <1>3 DEF PeerOpens, Kinds
  <2>2. /\ peer[i].at = "idle" /\ UNCHANGED <<outConn, outStream>>
        /\ peer' = [peer EXCEPT ![i].at = "open"]
    BY <1>3 DEF PeerOpens
  <2>3. ArrivedOf(Event("head", i))
    BY <1>2, <2>1, <2>2 DEF ArrivedOf
  <2> QED BY <1>2, <2>1, <2>3 DEF Arrived
<1>4. ASSUME NEW i \in Requests, NEW kind \in {"data", "big"}, PeerUploads(i, kind) PROVE Arrived
  <2>1. Arrives(kind, i) /\ kind \in Kinds
    BY <1>4 DEF PeerUploads, Kinds
  <2>2. /\ peer[i].at = "open" /\ peer[i].sent < Uploads[i] /\ UNCHANGED <<outConn, outStream>>
        /\ peer' = [peer EXCEPT ![i].sent = peer[i].sent + 1]
    BY <1>1, <1>4 DEF PeerUploads
  <2>3. ArrivedOf(Event(kind, i))
    <3> DEFINE e == Event(kind, i)
    <3>1. /\ e.kind = kind /\ e.of = i /\ inbox' = Append(inbox, e) /\ ~closed /\ ~lost
          /\ UNCHANGED <<ex, app, stream, writer, out, writePaused, goaway, resets,
                         closed, lost, received, returned, given>>
      BY <1>2, <2>1
    <3> HIDE DEF e
    <3>2. ArrivedOf(e)
      BY <1>4, <2>2, <3>1 DEF ArrivedOf
    <3> QED BY <3>2 DEF e
  <2> QED BY <1>2, <2>1, <2>3 DEF Arrived
<1>5. ASSUME NEW i \in Requests, PeerEnds(i) PROVE Arrived
  <2>1. Arrives("end", i) /\ "end" \in Kinds
    BY <1>5 DEF PeerEnds, Kinds
  <2>2. /\ peer[i].at = "open" /\ UNCHANGED <<outConn, outStream>>
        /\ peer' = [peer EXCEPT ![i].at = "ended"]
    BY <1>5 DEF PeerEnds
  <2>3. ArrivedOf(Event("end", i))
    BY <1>2, <2>1, <2>2 DEF ArrivedOf
  <2> QED BY <1>2, <2>1, <2>3 DEF Arrived
<1>6. ASSUME NEW i \in Requests, PeerResets(i) PROVE Arrived
  <2>1. Arrives("reset", i) /\ "reset" \in Kinds
    BY <1>6 DEF PeerResets, Kinds
  <2>2. /\ peer[i].at \in {"open", "ended"} /\ UNCHANGED <<outConn, outStream>>
        /\ peer' = [peer EXCEPT ![i].at = "reset"]
    BY <1>6 DEF PeerResets
  <2>3. ArrivedOf(Event("reset", i))
    BY <1>2, <2>1, <2>2 DEF ArrivedOf
  <2> QED BY <1>2, <2>1, <2>3 DEF Arrived
<1>7. ASSUME PeerGrants PROVE Arrived
  <2>1. Arrives("window", 0) /\ "window" \in Kinds /\ peer' = peer
    BY <1>7 DEF PeerGrants, Kinds
  <2>2. PICK i \in Requests :
        \/ outConn' = Window /\ UNCHANGED outStream
        \/ outStream' = [outStream EXCEPT ![i] = StreamWindow[i]] /\ UNCHANGED outConn
    BY <1>7 DEF PeerGrants
  <2>3. /\ outConn' \in {outConn, Window}
        /\ outStream' = [j \in Requests |-> outStream'[j]]
        /\ \A j \in Requests : outStream'[j] \in {outStream[j], StreamWindow[j]}
    BY <1>1, <2>2
  <2>4. ArrivedOf(Event("window", 0))
    BY <1>2, <2>1, <2>3 DEF ArrivedOf
  <2> QED BY <1>2, <2>1, <2>4 DEF Arrived
<1>8. ASSUME NEW kind \in {"goaway", "error"}, NEW i \in Requests \cup {0}, PeerLeaves(kind, i)
      PROVE  Arrived
  <2>1. Arrives(kind, i) /\ kind \in Kinds /\ UNCHANGED <<peer, outConn, outStream>>
    BY <1>8 DEF PeerLeaves, Kinds
  <2>2. ArrivedOf(Event(kind, i))
    BY <1>1, <1>2, <1>8, <2>1 DEF ArrivedOf
  <2> QED BY <1>2, <2>1, <2>2 DEF Arrived
<1> QED BY <1>3, <1>4, <1>5, <1>6, <1>7, <1>8 DEF Peer

\* Whatever step is taken, an event arrives, or one is handled, or a task runs.
LEMMA NextSteps ==
    ASSUME Base, Next
    PROVE  Stepped \/ Arrived
<1>1. CASE Peer \/ Handler \/ ResumeWriting
  BY <1>1, PeerArrives, HandlerSteps, TaskSteps
<1>2. CASE \E i \in Requests : Writer(i) \/ Receive(i) \/ AppStep(i)
  BY <1>2, WriterSteps, TaskSteps
<1>3. CASE ConnectionLost \/ (~closed /\ (IdleTimeout \/ Close \/ ForgetResets \/ PauseWriting))
  BY <1>3, TaskSteps
<1>4. CASE Trouble
  <2>1. \/ \E i \in Requests : PeerResets(i) \/ PeerUploads(i, "big")
        \/ \E i \in Requests : RefuseRequest(i)
        \/ \E i \in Requests : BlockRefused(i) \/ WriterFails(i)
        \/ \E i \in Requests : StreamDeadline(i)
        \/ \E i \in Requests \cup {0} : PeerLeaves("goaway", i)
        \/ PeerLeaves("error", 0)
    BY <1>4 DEF Trouble
  <2> QED BY <2>1, PeerArrives, HandlerSteps, TaskSteps, WriterSteps
<1> QED BY <1>1, <1>2, <1>3, <1>4 DEF Next

\* What is around the streams keeps its types.
LEMMA AroundStays ==
    ASSUME Base, Next
    PROVE  Around'
<1>1. Around /\ Base
  BY DEF Base
<1>2. trouble' \in 0 .. MaxTrouble
  <2>1. trouble \in 0 .. MaxTrouble /\ MaxTrouble \in Nat
    BY <1>1, ConnectionAssumption DEF Around
  <2>2. trouble' = trouble \/ (trouble < MaxTrouble /\ trouble' = trouble + 1)
    BY DEF Next, Trouble
  <2> QED BY <2>1, <2>2
<1>3. CASE Arrived
  <2>1. PICK e \in Envelopes : ArrivedOf(e)
    BY <1>3 DEF Arrived
  <2>2. inbox' \in Seq(Envelopes)
    BY <1>1, <2>1, MoreInInbox DEF ArrivedOf, Envelopes
  <2>3. peer' \in [Requests -> [at : {"idle", "open", "ended", "reset"}, sent : Nat]]
    <3>1. peer \in [Requests -> [at : {"idle", "open", "ended", "reset"}, sent : Nat]]
      BY <1>1 DEF Around
    <3>2. CASE peer' = peer
      BY <3>1, <3>2
    <3>3. ASSUME NEW at \in {"open", "ended", "reset"}, e.of \in Requests,
                 peer' = [peer EXCEPT ![e.of].at = at]
          PROVE  peer' \in [Requests -> [at : {"idle", "open", "ended", "reset"}, sent : Nat]]
      BY <3>1, <3>3
    <3>4. CASE e.of \in Requests /\ peer' = [peer EXCEPT ![e.of].sent = peer[e.of].sent + 1]
      <4>1. peer[e.of].sent + 1 \in Nat
        BY <3>1, <3>4
      <4> QED BY <3>1, <3>4, <4>1
    <3> QED BY <2>1, <3>2, <3>3, <3>4 DEF ArrivedOf
  <2>4. /\ outConn' \in 0 .. Window /\ outStream' \in [Requests -> Nat]
        /\ \A i \in Requests : outStream'[i] <= StreamWindow[i]
    <3>1. /\ outConn' \in {outConn, Window}
          /\ outStream' = [i \in Requests |-> outStream'[i]]
          /\ \A i \in Requests : outStream'[i] \in {outStream[i], StreamWindow[i]}
      BY <1>1, <2>1 DEF ArrivedOf, Around
    <3>2. Window \in Nat /\ \A i \in Requests : StreamWindow[i] \in Nat
      BY ConnectionAssumption
    <3>3. outConn' \in 0 .. Window
      BY <1>1, <3>1, <3>2 DEF Around
    <3>4. \A i \in Requests : outStream'[i] \in Nat /\ outStream'[i] <= StreamWindow[i]
      <4> SUFFICES ASSUME NEW i \in Requests
                   PROVE  outStream'[i] \in Nat /\ outStream'[i] <= StreamWindow[i]
        OBVIOUS
      <4>1. outStream[i] \in Nat /\ outStream[i] <= StreamWindow[i] /\ StreamWindow[i] \in Nat
        BY <1>1, <3>2 DEF Around
      <4> QED BY <3>1, <4>1
    <3> QED BY <3>1, <3>3, <3>4
  <2> QED BY <1>1, <1>2, <2>1, <2>2, <2>3, <2>4 DEF ArrivedOf, Around, Envelopes
<1>4. CASE Stepped
  <2>1. inbox' \in Seq(Envelopes)
    BY <1>1, <1>4, RestOfInbox DEF Stepped, Handled, Settled, Around, Envelopes
  <2>2. /\ outConn' \in 0 .. Window /\ outStream' \in [Requests -> Nat]
        /\ \A i \in Requests : outStream'[i] <= StreamWindow[i]
    <3>1. Window \in Nat /\ \A i \in Requests : StreamWindow[i] \in Nat
      BY ConnectionAssumption
    <3>2. outConn \in 0 .. Window /\ outConn' \in Nat /\ outConn' <= outConn
      BY <1>1, <1>4 DEF Around, Stepped, Drained
    <3>3. /\ outStream' \in [Requests -> Nat]
          /\ \A i \in Requests : outStream'[i] <= outStream[i] /\ outStream[i] <= StreamWindow[i]
                                 /\ outStream'[i] \in Nat /\ outStream[i] \in Nat
      BY <1>1, <1>4 DEF Around, Stepped, Drained
    <3> QED BY <3>1, <3>2, <3>3
  <2> QED BY <1>1, <1>2, <1>4, <2>1, <2>2 DEF Stepped, Onward, Around, Envelopes
<1> QED BY <1>3, <1>4, NextSteps

-----------------------------------------------------------------------------
\* The exchange, the stream and the tasks of a request stay in agreement.

\* A head that is handled is of a stream that nothing was done for.
LEMMA HeadIsOfNew ==
    ASSUME Around, NEW i \in Requests, Mail(i), ~Settled, Head(inbox) = Event("head", i)
    PROVE  writer[i].pc = "none" /\ out[i] = NoOutput
BY RestOfInbox DEF Mail, Settled

\* Nothing but a head moves a stream that nothing was done for.
LEMMA NewIsUntouched ==
    ASSUME NEW i \in Requests, TypedOf(i), Sides(i), writer[i].pc = "none", Moves(i)
    PROVE  Untouched(i) \/ Refused(i) \/ Begun(i)
<1>1. app[i].pc = "none" /\ stream[i].live = FALSE
  BY DEF Sides, NoApp, NoStream
<1> QED BY <1>1 DEF Moves, Fed, TakenDown, Written, Reads, Speaks

\* However a writer ends, it is stopped.
LEMMA EndingStops ==
    ASSUME NEW i \in Requests, NEW r, Ending(i, r)
    PROVE  writer'[i].pc \in Stopped
<1>1. PICK how \in Stopped : writer'[i] = [NoWriter EXCEPT !.pc = how]
  BY DEF Ending, StoppedWriters
<1> QED BY <1>1 DEF NoWriter

\* A writer that ended leaves the exchange over, and no stream that is over.
LEMMA EndingSides ==
    ASSUME NEW i \in Requests, TypedOf(i), Sides(i), NEW r \in Exchanges, Ending(i, r),
           app'[i] = app[i], writer[i].pc # "none"
    PROVE  Sides(i)'
<1>1. writer'[i].pc \in Stopped /\ app'[i].pc # "none"
  BY EndingStops DEF Ending, Sides
<1>2. ex'[i].complete /\ ex'[i].finished /\ ex'[i].disconnected
      /\ ex'[i].complete = TRUE /\ ex'[i].finished = TRUE /\ ex'[i].disconnected = TRUE
  <2>1. ex'[i] = Completed(r) /\ ex'[i] \in Exchanges
    BY CompletedActs DEF Ending
  <2> QED BY <2>1, CompletedActs DEF Exchanges
<1>3. /\ stream'[i].live => ~stream'[i].ended
      /\ ~stream'[i].live => stream'[i] = NoStream
  BY DEF Ending, Sides, NoStream, TypedOf, Streams
<1> QED BY <1>1, <1>2, <1>3 DEF Sides, Over, Stopped

\* One that goes on leaves them as they were.
LEMMA GoingSides ==
    ASSUME NEW i \in Requests, TypedOf(i), Sides(i), NEW w \in Writers, NEW r, Going(i, w, r),
           SameState(ex[i], r), app'[i] = app[i], ~Over(writer[i]), ~Over(w)
    PROVE  Sides(i)'
BY DEF Going, SameState, Sides, Over, Stopped

\* A writer that sends stays with its exchange and its stream.
LEMMA SendingSides ==
    ASSUME NEW i \in Requests, TypedOf(i), Sides(i), NEW w \in Writers,
           NEW r \in Exchanges, Sending(i, w, r),
           SameState(ex[i], r), app'[i] = app[i], ~Over(writer[i])
    PROVE  Sides(i)'
<1>1. PICK n \in 0 .. w.left :
           \/ n = w.left /\ w.last /\ Ending(i, r)
           \/ n = w.left /\ ~w.last /\ Going(i, [w EXCEPT !.left = 0, !.pc = "run"], r)
           \/ Going(i, [w EXCEPT !.left = w.left - n, !.pc = "paused"], r)
           \/ n < w.left /\ Going(i, [w EXCEPT !.left = w.left - n, !.pc = "window"], r)
  BY DEF Sending
<1>2. w.left \in Nat /\ w.left - n \in Nat
  BY DEF Writers
<1>3. \A v \in {[w EXCEPT !.left = 0, !.pc = "run"], [w EXCEPT !.left = w.left - n, !.pc = "paused"],
                [w EXCEPT !.left = w.left - n, !.pc = "window"]} : v \in Writers /\ ~Over(v)
  <2>1. ASSUME NEW pc \in {"run", "paused", "window"}, NEW left \in Nat
        PROVE  /\ [w EXCEPT !.left = left, !.pc = pc] \in Writers
               /\ ~Over([w EXCEPT !.left = left, !.pc = pc])
    BY DEF Writers, Over, Stopped
  <2>2. 0 \in Nat
    OBVIOUS
  <2>3. /\ [w EXCEPT !.left = 0, !.pc = "run"] \in Writers
        /\ ~Over([w EXCEPT !.left = 0, !.pc = "run"])
    BY <2>1, <2>2
  <2>4. /\ [w EXCEPT !.left = w.left - n, !.pc = "paused"] \in Writers
        /\ ~Over([w EXCEPT !.left = w.left - n, !.pc = "paused"])
    BY <1>2, <2>1
  <2>5. /\ [w EXCEPT !.left = w.left - n, !.pc = "window"] \in Writers
        /\ ~Over([w EXCEPT !.left = w.left - n, !.pc = "window"])
    BY <1>2, <2>1
  <2> QED BY <2>3, <2>4, <2>5
<1>4. CASE Ending(i, r)
  BY <1>4, EndingSides DEF Over, Stopped
<1>5. CASE \E v \in {[w EXCEPT !.left = 0, !.pc = "run"], [w EXCEPT !.left = w.left - n, !.pc = "paused"],
                [w EXCEPT !.left = w.left - n, !.pc = "window"]} : Going(i, v, r)
  BY <1>3, <1>5, GoingSides
<1> QED BY <1>1, <1>4, <1>5

\* So does a writer whatever it does.
LEMMA WrittenSides ==
    ASSUME NEW i \in Requests, TypedOf(i), Sides(i), Written(i)
    PROVE  Sides(i)'
<1>1. /\ app'[i] = app[i] /\ ex[i] \in Exchanges /\ writer[i] \in Writers
      /\ ~Over(writer[i]) /\ writer[i].pc # "none" /\ SameState(ex[i], ex[i])
  BY DEF Written, TypedOf, Over, Stopped, SameState
<1>2. CASE Sending(i, writer[i], ex[i])
  BY <1>1, <1>2, SendingSides
<1>3. CASE Ending(i, ex[i])
  BY <1>1, <1>3, EndingSides
<1>4. CASE Going(i, [writer[i] EXCEPT !.pc = "paused"], ex[i])
  <2> DEFINE w == [writer[i] EXCEPT !.pc = "paused"]
  <2>1. w \in Writers /\ w.pc = "paused"
    BY <1>1 DEF Writers
  <2>2. ~Over(w) /\ Going(i, w, ex[i])
    BY <1>4, <2>1 DEF Over, Stopped
  <2> HIDE DEF w
  <2> QED BY <1>1, <2>1, <2>2, GoingSides
<1>5. CASE writer[i].pc = "run" /\ ex[i].send # <<>>
  <2> DEFINE m == Head(ex[i].send)
             none == m.framing = "none"
             with == m.trailers /\ ~none
             w == [writer[i] EXCEPT !.started = TRUE, !.discard = none, !.trailers = with]
  <2>1. Taken(ex[i]) \in Exchanges /\ SameState(ex[i], Taken(ex[i])) /\ m \in Messages
    BY <1>1, <1>5, TakenActs
  <2>2. w \in Writers /\ ~Over(w)
    <3>1. none \in BOOLEAN /\ with \in BOOLEAN
      OBVIOUS
    <3> HIDE DEF none, with
    <3> QED BY <1>1, <1>5, <3>1 DEF Writers, Over, Stopped
  <2>3. m.kind = "body" => /\ Taking(i, m) \in Writers
                           /\ [Taking(i, m) EXCEPT !.left = 0] \in Writers
                           /\ ~Over([Taking(i, m) EXCEPT !.left = 0])
    <3> SUFFICES ASSUME m.kind = "body"
                 PROVE  /\ Taking(i, m) \in Writers
                        /\ [Taking(i, m) EXCEPT !.left = 0] \in Writers
                        /\ ~Over([Taking(i, m) EXCEPT !.left = 0])
      OBVIOUS
    <3>1. m \in Body
      <4> HIDE DEF m
      <4> QED BY <2>1 DEF Messages, Body, Interim, Trailers
    <3>2. Taking(i, m) \in Writers
      BY <1>1, <3>1, TakingIsWriter
    <3>3. Taking(i, m).pc = "run"
      BY <1>1, <1>5 DEF Taking, Writers
    <3> QED BY <3>2, <3>3 DEF Writers, Over, Stopped
  <2>4. CASE Ending(i, Taken(ex[i]))
    BY <1>1, <2>1, <2>4, EndingSides
  <2>5. CASE Going(i, w, Taken(ex[i]))
    <3> HIDE DEF w
    <3> QED BY <1>1, <2>1, <2>2, <2>5, GoingSides
  <2>6. CASE m.kind = "body" /\ Going(i, [Taking(i, m) EXCEPT !.left = 0], Taken(ex[i]))
    BY <1>1, <2>1, <2>3, <2>6, GoingSides
  <2>7. CASE m.kind = "body" /\ Sending(i, Taking(i, m), Taken(ex[i]))
    BY <1>1, <2>1, <2>3, <2>7, SendingSides
  <2> QED BY <1>2, <1>3, <1>4, <2>4, <2>5, <2>6, <2>7 DEF Written
<1> QED BY <1>2, <1>3, <1>5, <1>4 DEF Written

\* What an application queues changes nothing of how far the exchange is.
LEMMA SpeaksSides ==
    ASSUME NEW i \in Requests, TypedOf(i), Speaks(i)
    PROVE  /\ SameState(ex[i], ex'[i]) /\ ex'[i].recv = ex[i].recv
           /\ app[i].pc \in {"run", "put"} /\ app'[i].pc # "none"
           /\ Sides(i) => Sides(i)'
<1>1. ex[i] \in Exchanges /\ Len(ex[i].send) <= SendMax
  BY DEF TypedOf
<1>2. PICK r \in Exchanges, todo \in Seq(Messages), a \in Apps :
                /\ Queueing(i, r, todo, a) /\ SameState(ex[i], r)
                /\ r.send = ex[i].send /\ r.recv = ex[i].recv
  BY SpeaksQueues
<1>3. SameState(ex[i], ex'[i]) /\ ex'[i].recv = ex[i].recv
  <2>1. Len(r.send) <= SendMax
    BY <1>1, <1>2
  <2>2. SameState(r, Enqueued(r, todo)) /\ Enqueued(r, todo).recv = r.recv
    BY <2>1, EnqueuedActs
  <2> QED BY <1>2, <2>2 DEF Queueing, SameState
<1>4. app'[i].pc # "none"
  BY <1>2 DEF Queueing, Apps
<1>5. app[i].pc \in {"run", "put"} /\ writer'[i] = writer[i] /\ stream'[i] = stream[i]
  BY DEF Speaks
<1>6. Sides(i) => Sides(i)'
  <2>1. Sides(i) => writer[i].pc # "none"
    BY <1>5 DEF Sides, NoApp
  <2> QED BY <1>3, <1>4, <1>5, <2>1 DEF Sides, SameState
<1> QED BY <1>3, <1>4, <1>5, <1>6

\* Whatever is done to a stream.
LEMMA SidesStay ==
    ASSUME Around, NEW i \in Requests, TypedOf(i), Sides(i), Mail(i), Moves(i)
    PROVE  Sides(i)'
<1>1. /\ ex[i] \in Exchanges /\ app[i] \in Apps /\ stream[i] \in Streams
      /\ writer[i] \in Writers
  BY DEF TypedOf
<1>2. CASE Untouched(i)
  <2>1. \/ writer'[i] = writer[i]
        \/ writer[i].pc = "window" /\ writer'[i].pc = "woken"
        \/ writer[i].pc = "paused" /\ writer'[i].pc = "resumed"
    BY <1>1, <1>2 DEF Untouched, Writers
  <2> QED BY <1>2, <2>1 DEF Untouched, Sides, Over, Stopped
<1>3. CASE Refused(i)
  <2>1. writer[i].pc = "none" /\ out[i] = NoOutput
    BY <1>3, HeadIsOfNew DEF Refused
  <2>2. out'[i].by \in {"none", "server"}
    BY <1>3, <2>1 DEF Refused, BrokenOff, NoOutput
  <2> QED BY <1>3, <2>1, <2>2 DEF Refused, Sides
<1>4. CASE Begun(i)
  <2>1. writer[i].pc = "none"
    BY <1>4, HeadIsOfNew DEF Begun
  <2>2. stream[i] = NoStream /\ app[i] = NoApp
    BY <2>1 DEF Sides
  <2>3. /\ writer'[i].pc = "run" /\ app'[i].pc = "run" /\ stream'[i].live /\ ~stream'[i].ended
        /\ ex'[i] = NewExchange
    BY <1>4, <2>2 DEF Begun, NewWriter, NoWriter, Started, NoApp, NoStream
  <2>4. ex'[i].complete = FALSE /\ ex'[i].finished = FALSE /\ ex'[i].disconnected = FALSE
    BY <2>3 DEF NewExchange
  <2>5. /\ ex'[i].complete = (writer'[i].pc \in Stopped)
        /\ ex'[i].finished = ex'[i].complete /\ ex'[i].disconnected = ex'[i].complete
    <3>1. (writer'[i].pc \in Stopped) = FALSE
      BY <2>3 DEF Stopped
    <3> QED BY <2>4, <3>1
  <2>6. app'[i].pc # "none" /\ writer'[i].pc # "none"
    BY <2>3
  <2> QED BY <2>3, <2>5, <2>6 DEF Sides
<1>5. CASE Fed(i)
  <2>1. writer[i].pc # "none"
    BY <1>5 DEF Fed, Sides, NoStream
  <2>2. SameState(ex[i], ex'[i])
    <3>1. ex'[i] \in {ex[i], Feed(ex[i], "data"), Feed(ex[i], "end")}
      BY <1>5 DEF Fed
    <3> QED BY <1>1, <3>1, FeedActs DEF RequestMessages, SameState
  <2>3. /\ stream'[i].live => ~(stream'[i].ended /\ ex'[i].complete)
        /\ ~stream'[i].live => stream'[i] = NoStream
        /\ stream'[i].live \/ ex[i].complete
    BY <1>1, <1>5, <2>2 DEF Fed, Sides, SameState, NoStream, Streams
  <2> QED BY <1>5, <2>1, <2>2, <2>3 DEF Fed, Sides, SameState, Over, Stopped
<1>6. CASE TakenDown(i)
  <2>1. PICK r \in {ex[i], NotifyDisconnect(ex[i])} :
            IF Over(writer[i]) THEN ex'[i] = r /\ writer'[i] = writer[i]
            ELSE ex'[i] = Completed(r) /\ writer'[i] = DoneWriter
    BY <1>6 DEF TakenDown
  <2>2. writer[i].pc # "none" /\ stream'[i] = NoStream /\ app'[i].pc = "done"
    BY <1>1, <1>6 DEF TakenDown, Sides, NoStream, Cancelled, Apps
  <2>3. /\ r \in Exchanges /\ r.complete = ex[i].complete
        /\ (r = ex[i] \/ (r.finished /\ r.disconnected))
    BY <1>1, NotifyDisconnectActs
  <2>4. writer'[i].pc \in Stopped
    BY <2>1, <2>2 DEF DoneWriter, NoWriter, Over, Stopped
  <2>5. /\ ex'[i] \in Exchanges /\ ex'[i].complete /\ ex'[i].finished /\ ex'[i].disconnected
    BY <1>1, <2>1, <2>2, <2>3, CompletedActs DEF Sides, Over, Stopped, Exchanges
  <2>6. ex'[i].complete = TRUE /\ ex'[i].finished = TRUE /\ ex'[i].disconnected = TRUE
    BY <2>5 DEF Exchanges
  <2>7. stream'[i].live = FALSE
    BY <2>2 DEF NoStream
  <2>8. /\ ex'[i].complete = (writer'[i].pc \in Stopped)
        /\ ex'[i].finished = ex'[i].complete /\ ex'[i].disconnected = ex'[i].complete
    BY <2>4, <2>6
  <2>9. app'[i].pc # "none" /\ writer'[i].pc # "none" /\ Over(writer'[i])
    BY <2>2, <2>4 DEF Over, Stopped
  <2> QED BY <2>2, <2>7, <2>8, <2>9 DEF Sides
<1>7. CASE Reads(i)
  <2>1. writer[i].pc # "none"
    BY <1>7 DEF Reads, Sides, NoApp
  <2>2. SameState(ex[i], ex'[i])
    BY <1>1, <1>7, ReceivedActs DEF Reads, SameState
  <2>3. app'[i].pc # "none"
    BY <1>1, <1>7 DEF Reads, Apps
  <2>4. /\ stream'[i].live = stream[i].live /\ stream'[i].ended = stream[i].ended
        /\ stream[i] = NoStream => stream'[i] = NoStream
    BY <1>1, <1>7 DEF Reads, Streams, NoStream
  <2> QED BY <1>7, <2>1, <2>2, <2>3, <2>4 DEF Reads, Sides, SameState
<1> QED BY <1>2, <1>3, <1>4, <1>5, <1>6, <1>7, WrittenSides, SpeaksSides DEF Moves

-----------------------------------------------------------------------------
\* What the inbox tells of a stream.

\* A stream that was never opened has nothing done for it.
LEMMA MailStays ==
    ASSUME Base, Moved, NEW i \in Requests, Mail(i), Stepped \/ Arrived
    PROVE  Mail(i)'
<1>1. Around /\ Typed /\ TypedOf(i) /\ Sides(i) /\ Moves(i)
  BY DEF Base, Typed, TypedOf, Moved
<1>2. CASE Stepped
  <2>1. peer' = peer
    BY <1>2 DEF Stepped
  <2>2. /\ \A k \in DOMAIN inbox' : \E l \in DOMAIN inbox : inbox'[k] = inbox[l]
        /\ \A k \in DOMAIN inbox' : inbox'[k] = Event("head", i) =>
                \A l \in DOMAIN inbox' : inbox'[l] = Event("head", i) => l = k
        /\ (\E k \in DOMAIN inbox' : inbox'[k] = Event("head", i)) =>
                Settled \/ Head(inbox) # Event("head", i)
    <3>1. CASE inbox' = inbox /\ Settled
      BY <3>1 DEF Mail
    <3>2. CASE Handled
      <4>1. inbox # <<>> /\ inbox' = Tail(inbox)
        BY <3>2 DEF Handled, Settled
      <4>2. \A k \in DOMAIN inbox' :
                k \in Nat \ {0} /\ k + 1 \in DOMAIN inbox /\ inbox'[k] = inbox[k + 1]
        <5>1. \A k \in DOMAIN Tail(inbox) : k \in Nat \ {0}
          BY <1>1, <4>1, RestOfInbox, LenProperties
        <5> QED BY <1>1, <4>1, <5>1, RestOfInbox
      <4>3. 1 \in DOMAIN inbox /\ Head(inbox) = inbox[1]
        BY <1>1, <4>1, RestOfInbox
      <4>4. \A k \in DOMAIN inbox' : inbox'[k] = Event("head", i) =>
                \A l \in DOMAIN inbox' : inbox'[l] = Event("head", i) => l = k
        <5> SUFFICES ASSUME NEW k \in DOMAIN inbox', inbox'[k] = Event("head", i),
                            NEW l \in DOMAIN inbox', inbox'[l] = Event("head", i)
                     PROVE  l = k
          OBVIOUS
        <5>1. l + 1 = k + 1
          BY <4>2 DEF Mail
        <5> QED BY <4>2, <5>1
      <4>5. ASSUME NEW k \in DOMAIN inbox', inbox'[k] = Event("head", i)
            PROVE  Head(inbox) # Event("head", i)
        <5>1. Head(inbox) = Event("head", i) => k + 1 = 1
          BY <4>2, <4>3, <4>5 DEF Mail
        <5> QED BY <4>2, <4>5, <5>1
      <4> QED BY <4>2, <4>4, <4>5
    <3> QED BY <1>2, <3>1, <3>2 DEF Stepped
  <2>3. ASSUME writer[i].pc = "none", out[i] = NoOutput, Settled \/ Head(inbox) # Event("head", i)
        PROVE  writer'[i].pc = "none" /\ out'[i] = NoOutput
    <3>1. Untouched(i)
      BY <1>1, <2>3, NewIsUntouched DEF Refused, Begun
    <3> QED BY <2>3, <3>1 DEF Untouched
  <2>4. peer'[i].at = "idle" =>
            /\ writer'[i].pc = "none" /\ out'[i] = NoOutput
            /\ \A k \in DOMAIN inbox' : inbox'[k] \notin OfPeer(i)
    <3> SUFFICES ASSUME peer[i].at = "idle"
                 PROVE  /\ writer'[i].pc = "none" /\ out'[i] = NoOutput
                        /\ \A k \in DOMAIN inbox' : inbox'[k] \notin OfPeer(i)
      BY <2>1
    <3>1. /\ writer[i].pc = "none" /\ out[i] = NoOutput
          /\ \A k \in DOMAIN inbox : inbox[k] \notin OfPeer(i)
      BY DEF Mail
    <3>2. Settled \/ Head(inbox) # Event("head", i)
      BY <1>1, <3>1, RestOfInbox DEF Settled, OfPeer
    <3> QED BY <2>2, <2>3, <3>1, <3>2
  <2>5. \A k \in DOMAIN inbox' : inbox'[k] = Event("head", i) =>
            writer'[i].pc = "none" /\ out'[i] = NoOutput
    BY <2>2, <2>3 DEF Mail
  <2>6. \A k \in DOMAIN inbox' : inbox'[k] = Event("reset", i) => peer'[i].at = "reset"
    BY <2>1, <2>2 DEF Mail
  <2> QED BY <2>2, <2>4, <2>5, <2>6 DEF Mail, OfPeer, FromPeer
<1>3. CASE Arrived
  <2>1. PICK e \in Envelopes : ArrivedOf(e)
    BY <1>3 DEF Arrived
  <2>2. /\ DOMAIN inbox' = DOMAIN inbox \cup {Len(inbox) + 1}
        /\ Len(inbox) + 1 \notin DOMAIN inbox /\ inbox'[Len(inbox) + 1] = e
        /\ \A k \in DOMAIN inbox : inbox'[k] = inbox[k]
        /\ writer' = writer /\ out' = out
    BY <1>1, <2>1, MoreInInbox DEF ArrivedOf
  <2>3. /\ e = Event("head", i) => peer[i].at = "idle" /\ peer'[i].at = "open"
        /\ e = Event("reset", i) => peer'[i].at = "reset"
        /\ peer'[i].at = "idle" => peer[i].at = "idle" /\ e \notin OfPeer(i)
        /\ peer[i].at = "reset" => peer'[i].at = "reset"
    <3>1. peer \in [Requests -> [at : {"idle", "open", "ended", "reset"}, sent : Nat]]
      BY <1>1 DEF Around
    <3>2. /\ e = Event("head", i) => e.kind = "head" /\ e.of = i
          /\ e = Event("reset", i) => e.kind = "reset" /\ e.of = i
          /\ e \in OfPeer(i) => e.kind \in {"head", "data", "big", "end", "reset"} /\ e.of = i
      BY DEF Event, OfPeer, FromPeer
    <3>3. CASE e.of \in Requests /\ e.of # i
      BY <2>1, <3>1, <3>2, <3>3 DEF ArrivedOf
    <3>4. CASE e.kind \in {"window", "goaway", "error"} /\ peer' = peer
      BY <3>1, <3>2, <3>4
    <3>5. CASE e.of = i /\ e.kind \in {"head", "data", "big", "end", "reset"}
      BY <2>1, <3>1, <3>2, <3>5 DEF ArrivedOf
    <3> QED BY <2>1, <3>3, <3>4, <3>5 DEF ArrivedOf
  <2>4. peer'[i].at = "idle" => /\ writer'[i].pc = "none" /\ out'[i] = NoOutput
                                /\ \A k \in DOMAIN inbox' : inbox'[k] \notin OfPeer(i)
    BY <2>2, <2>3 DEF Mail
  <2>5. \A k \in DOMAIN inbox' : inbox'[k] = Event("head", i) =>
            /\ writer'[i].pc = "none" /\ out'[i] = NoOutput
            /\ \A l \in DOMAIN inbox' : inbox'[l] = Event("head", i) => l = k
    <3>1. CASE e = Event("head", i)
      <4>1. \A k \in DOMAIN inbox : inbox[k] # Event("head", i)
        BY <2>3, <3>1 DEF Mail, OfPeer
      <4> QED BY <2>2, <2>3, <3>1, <4>1 DEF Mail
    <3>2. CASE e # Event("head", i)
      BY <2>2, <3>2 DEF Mail
    <3> QED BY <3>1, <3>2
  <2>6. \A k \in DOMAIN inbox' : inbox'[k] = Event("reset", i) => peer'[i].at = "reset"
    BY <2>2, <2>3 DEF Mail
  <2> QED BY <2>4, <2>5, <2>6 DEF Mail, OfPeer, FromPeer
<1> QED BY <1>2, <1>3

-----------------------------------------------------------------------------
\* The queue of a request has room for what the peer still sends.

Ahead(i) == IF ex[i].disconnected THEN 0 ELSE Len(ex[i].recv)

\* Only what is handled for a stream that goes on makes its queue longer.
LEMMA MovesAhead ==
    ASSUME NEW i \in Requests, TypedOf(i), Sides(i), Sides(i)', Moves(i), Len(ex[i].recv) <= RecvMax
    PROVE  /\ Ahead(i) \in Nat /\ Ahead(i)' \in Nat
           /\ \/ Ahead(i)' <= Ahead(i) /\ Len(ex'[i].recv) <= RecvMax
              \/ /\ ~Settled /\ Head(inbox) \in FromPeer(i)
                 /\ Ahead(i)' = Ahead(i) + 1 /\ Len(ex'[i].recv) = Ahead(i) + 1
<1>1. /\ ex[i] \in Exchanges /\ writer[i] \in Writers /\ TypedOf(i)' /\ RecvMax \in Nat
      /\ ex'[i] \in Exchanges
  <2>1. TypedOf(i)'
    BY MovesTyped
  <2> QED BY <2>1, ConstantsOf DEF TypedOf
<1>2. /\ Len(ex[i].recv) \in Nat /\ Len(ex'[i].recv) \in Nat
      /\ Ahead(i) \in Nat /\ Ahead(i)' \in Nat
  <2>1. Len(ex[i].recv) \in Nat /\ Len(ex'[i].recv) \in Nat
    BY <1>1, LenProperties DEF Exchanges
  <2> QED BY <2>1 DEF Ahead
<1>3. CASE ex'[i].recv = ex[i].recv /\ ex'[i].disconnected = ex[i].disconnected
  BY <1>2, <1>3 DEF Ahead
<1>4. CASE Untouched(i) \/ Refused(i)
  BY <1>3, <1>4 DEF Untouched, Refused
<1>5. CASE Begun(i)
  BY <1>1, <1>2, <1>5, EmptySeq DEF Begun, NewExchange, Ahead
<1>6. CASE Fed(i)
  <2>1. CASE ex'[i] = ex[i]
    BY <1>3, <2>1
  <2>2. CASE ex'[i] # ex[i]
    <3>1. PICK x \in {"data", "end"} :
            /\ ~Settled /\ Head(inbox) = Event(x, i) /\ ~Gone(ex[i]) /\ ex'[i] = Feed(ex[i], x)
      BY <1>6, <2>2 DEF Fed
    <3>2. x \in RequestMessages /\ Head(inbox) \in FromPeer(i)
      BY <3>1 DEF RequestMessages, FromPeer
    <3>3. /\ ex'[i].recv = Append(ex[i].recv, x) /\ ~ex[i].disconnected
          /\ ex'[i].disconnected = ex[i].disconnected
      BY <1>1, <3>1, <3>2, FeedActs DEF SameState, Gone
    <3>4. Len(ex'[i].recv) = Len(ex[i].recv) + 1
      BY <1>1, <3>2, <3>3, AppendProperties DEF Exchanges
    <3> QED BY <1>2, <3>1, <3>2, <3>3, <3>4 DEF Ahead
  <2> QED BY <2>1, <2>2
<1>7. CASE ex'[i].disconnected /\ Len(ex'[i].recv) <= RecvMax
  BY <1>2, <1>7 DEF Ahead
<1>8. CASE TakenDown(i)
  <2>1. PICK r \in {ex[i], NotifyDisconnect(ex[i])} : ex'[i] = r \/ ex'[i] = Completed(r)
    BY <1>8 DEF TakenDown
  <2>2. r \in Exchanges /\ Len(r.recv) <= RecvMax
    BY <1>1, NotifyDisconnectActs
  <2>3. ex'[i] = ex[i] \/ ex'[i].disconnected
    BY <1>1, <2>1, <2>2, NotifyDisconnectActs, CompletedActs
  <2>4. Len(ex'[i].recv) <= RecvMax
    BY <2>1, <2>2, CompletedActs
  <2> QED BY <1>3, <1>7, <2>3, <2>4
<1>9. CASE Written(i)
  <2>1. ex'[i] \in {ex[i], Taken(ex[i])} \/ (\E r : Ending(i, r) /\ r \in {ex[i], Taken(ex[i])})
    BY <1>9 DEF Written, Sending, Going
  <2>2. ex[i].send # <<>> \/ ex'[i] = ex[i] \/ Ending(i, ex[i])
    BY <1>9 DEF Written, Sending, Going
  <2>3. CASE ex'[i] \in {ex[i], Taken(ex[i])} /\ (ex[i].send # <<>> \/ ex'[i] = ex[i])
    BY <1>1, <1>3, <2>3, TakenActs DEF SameState
  <2>4. CASE \E r : Ending(i, r) /\ (r = ex[i] \/ (r = Taken(ex[i]) /\ ex[i].send # <<>>))
    <3>1. PICK r : Ending(i, r) /\ (r = ex[i] \/ (r = Taken(ex[i]) /\ ex[i].send # <<>>))
      BY <2>4
    <3>2. r \in Exchanges /\ Len(r.recv) <= RecvMax
      BY <1>1, <3>1, TakenActs
    <3> QED BY <1>7, <3>1, <3>2, CompletedActs DEF Ending
  <2> QED BY <2>1, <2>2, <2>3, <2>4
<1>10. CASE Reads(i)
  <2>1. CASE ex'[i] = ex[i]
    BY <1>3, <2>1
  <2>2. CASE ex[i].recv # <<>> /\ ex'[i] = Received(ex[i])
    BY <1>1, <1>2, <2>2, ReceivedActs DEF SameState, Ahead
  <2> QED BY <1>10, <2>1, <2>2 DEF Reads
<1>11. CASE Speaks(i)
  BY <1>3, <1>11, SpeaksSides DEF SameState
<1> QED BY <1>4, <1>5, <1>6, <1>8, <1>9, <1>10, <1>11 DEF Moves

\* So the queue keeps its room.
LEMMA RoomyStays ==
    ASSUME Base, Moved, NEW i \in Requests, Sides(i)', Roomy(i), Stepped \/ Arrived
    PROVE  Roomy(i)'
<1> DEFINE over == IF peer[i].at \in {"ended", "reset"} THEN 1 ELSE 0
<1>1. Around /\ Typed /\ TypedOf(i) /\ Sides(i) /\ Moves(i)
  BY DEF Base, Typed, TypedOf, Moved
<1>2. /\ inbox \in Seq(Envelopes) /\ Count(inbox, FromPeer(i)) \in Nat
      /\ peer \in [Requests -> [at : {"idle", "open", "ended", "reset"}, sent : Nat]]
  <2>1. inbox \in Seq(Envelopes)
    BY <1>1 DEF Around, Envelopes
  <2> QED BY <1>1, <2>1, CountIsNatural DEF Around
<1>3. /\ peer[i].sent \in Nat /\ Uploads[i] \in Nat /\ RecvMax \in Nat
      /\ RecvMax >= Uploads[i] + 2 /\ over \in {0, 1}
  BY <1>2, ConstantsOf
<1>4. /\ peer[i].sent <= Uploads[i] /\ Len(ex[i].recv) <= RecvMax
      /\ Ahead(i) + Count(inbox, FromPeer(i)) <= peer[i].sent + over
  BY DEF Roomy, Ahead
<1>5. /\ Ahead(i) \in Nat /\ Ahead(i)' \in Nat
      /\ \/ Ahead(i)' <= Ahead(i) /\ Len(ex'[i].recv) <= RecvMax
         \/ /\ ~Settled /\ Head(inbox) \in FromPeer(i)
            /\ Ahead(i)' = Ahead(i) + 1 /\ Len(ex'[i].recv) = Ahead(i) + 1
  BY <1>1, <1>4, MovesAhead
<1>6. CASE Stepped
  <2>1. peer' = peer
    BY <1>6 DEF Stepped
  <2>2. CASE Settled /\ inbox' = inbox
    <3>1. Ahead(i)' <= Ahead(i) /\ Len(ex'[i].recv) <= RecvMax
      BY <1>5, <2>2
    <3>2. Ahead(i)' + Count(inbox', FromPeer(i)) <= peer[i].sent + over
      BY <1>2, <1>3, <1>4, <1>5, <2>2, <3>1
    <3> QED BY <1>4, <2>1, <3>1, <3>2 DEF Roomy, Ahead
  <2>3. CASE Handled
    <3> DEFINE one == IF Head(inbox) \in FromPeer(i) THEN 1 ELSE 0
    <3>1. inbox # <<>> /\ inbox' = Tail(inbox)
      BY <2>3 DEF Handled, Settled
    <3>2. Count(inbox, FromPeer(i)) = Count(inbox', FromPeer(i)) + one
      BY <1>2, <3>1, CountTail
    <3>3. Count(inbox', FromPeer(i)) \in Nat
      <4>1. inbox' \in Seq(Envelopes)
        BY <1>2, <3>1, HeadTailProperties
      <4> QED BY <4>1, CountIsNatural
    <3>4. one \in {0, 1} /\ (one = 0 => Ahead(i)' <= Ahead(i) /\ Len(ex'[i].recv) <= RecvMax)
          /\ (one = 1 => \/ Ahead(i)' <= Ahead(i) /\ Len(ex'[i].recv) <= RecvMax
                         \/ Ahead(i)' = Ahead(i) + 1 /\ Len(ex'[i].recv) = Ahead(i) + 1)
      BY <1>5
    <3> HIDE DEF one, over
    <3>5. Ahead(i)' + Count(inbox', FromPeer(i)) <= peer[i].sent + over
      <4> DEFINE a == Ahead(i)
                 b == Ahead(i)'
                 p == Count(inbox, FromPeer(i))
                 q == Count(inbox', FromPeer(i))
                 s == peer[i].sent
      <4>1. /\ a \in Nat /\ b \in Nat /\ p \in Nat /\ q \in Nat /\ s \in Nat
            /\ one \in {0, 1} /\ over \in {0, 1}
            /\ b <= a + one /\ p = q + one /\ a + p <= s + over
        BY <1>2, <1>3, <1>4, <1>5, <3>2, <3>3, <3>4
      <4>2. b + q <= s + over
        <5> HIDE DEF a, b, p, q, s
        <5> QED BY <4>1
      <4> QED BY <4>2
    <3>6. Len(ex'[i].recv) <= RecvMax
      <4>1. CASE one = 0
        BY <3>4, <4>1
      <4>2. CASE one = 1 /\ Len(ex'[i].recv) = Ahead(i) + 1
        <5>1. Ahead(i) + 1 <= peer[i].sent + over
          BY <1>2, <1>3, <1>4, <1>5, <3>2, <3>3, <4>2
        <5> QED BY <1>3, <1>4, <1>5, <4>2, <5>1
      <4> QED BY <3>4, <4>1, <4>2
    <3> QED BY <1>4, <2>1, <3>5, <3>6 DEF Roomy, Ahead, over
  <2> QED BY <1>6, <2>2, <2>3 DEF Stepped
<1>7. CASE Arrived
  <2>1. PICK e \in Envelopes : ArrivedOf(e)
    BY <1>7 DEF Arrived
  <2> DEFINE one == IF e \in FromPeer(i) THEN 1 ELSE 0
             done == IF peer'[i].at \in {"ended", "reset"} THEN 1 ELSE 0
  <2>2. inbox' = Append(inbox, e) /\ ex' = ex
    BY <2>1 DEF ArrivedOf
  <2>3. Count(inbox', FromPeer(i)) = Count(inbox, FromPeer(i)) + one
    BY <1>2, <2>2, CountAppend
  <2>4. /\ peer'[i].sent \in Nat /\ peer'[i].sent <= Uploads[i]
        /\ peer[i].sent + over + one <= peer'[i].sent + done
    <3>1. e \in FromPeer(i) => e.kind \in {"data", "big", "end"} /\ e.of = i
      BY DEF Event, FromPeer
    <3>2. peer[i].at \in {"idle", "open", "ended", "reset"} /\ peer[i].sent \in Nat
      BY <1>2
    <3>3. CASE e.of \in Requests /\ e.of # i
      <4>1. peer'[i] = peer[i] /\ one = 0
        BY <1>2, <2>1, <3>1, <3>3 DEF ArrivedOf
      <4> QED BY <1>3, <1>4, <4>1
    <3>4. CASE e.kind \in {"window", "goaway", "error"} /\ peer' = peer
      <4>1. one = 0
        BY <3>1, <3>4
      <4> QED BY <1>3, <1>4, <3>4, <4>1
    <3>5. CASE e.of = i /\ e.kind \in {"head", "reset"}
      <4>1. one = 0 /\ peer'[i].sent = peer[i].sent /\ (over = 1 => done = 1) /\ done \in {0, 1}
        BY <1>2, <2>1, <3>1, <3>5 DEF ArrivedOf
      <4> QED BY <1>3, <1>4, <4>1
    <3>6. CASE e.of = i /\ e.kind \in {"data", "big"}
      <4>1. /\ peer[i].at = "open" /\ peer[i].sent < Uploads[i]
            /\ peer'[i] = [peer[i] EXCEPT !.sent = peer[i].sent + 1]
        BY <1>2, <2>1, <3>6 DEF ArrivedOf
      <4>2. over = 0 /\ done = 0 /\ peer'[i].sent = peer[i].sent + 1 /\ one \in {0, 1}
        BY <3>2, <4>1
      <4> QED BY <1>3, <4>1, <4>2
    <3>7. CASE e.of = i /\ e.kind = "end"
      <4>1. over = 0 /\ done = 1 /\ peer'[i].sent = peer[i].sent /\ one \in {0, 1}
        BY <1>2, <2>1, <3>7 DEF ArrivedOf
      <4> QED BY <1>3, <1>4, <4>1
    <3> QED BY <2>1, <3>3, <3>4, <3>5, <3>6, <3>7 DEF ArrivedOf
  <2>5. Ahead(i)' = Ahead(i) /\ Len(ex'[i].recv) <= RecvMax /\ done \in {0, 1} /\ one \in {0, 1}
    BY <1>4, <2>2 DEF Ahead
  <2>6. Ahead(i)' + Count(inbox', FromPeer(i)) <= peer'[i].sent + done
    <3> DEFINE a == Ahead(i)
               p == Count(inbox, FromPeer(i))
               q == peer'[i].sent
               s == peer[i].sent
    <3>1. /\ a \in Nat /\ p \in Nat /\ q \in Nat /\ s \in Nat
          /\ one \in {0, 1} /\ done \in {0, 1} /\ over \in {0, 1}
          /\ a + p <= s + over /\ s + over + one <= q + done
          /\ Ahead(i)' = a /\ Count(inbox', FromPeer(i)) = p + one
      BY <1>2, <1>3, <1>4, <1>5, <2>3, <2>4, <2>5
    <3> HIDE DEF one, done, over, a, p, s
    <3>2. a + (p + one) <= q + done
      <4> HIDE DEF q
      <4> QED BY <3>1
    <3> QED BY <3>1, <3>2
  <2> QED BY <2>4, <2>5, <2>6 DEF Roomy, Ahead
<1> QED BY <1>6, <1>7

-----------------------------------------------------------------------------
\* Nobody sleeps through what he waits for.

\* There is no credit where one of the two windows is used up.
LEMMA NoCredit ==
    ASSUME Around, NEW i \in Requests
    PROVE  /\ outConn \in Nat /\ outStream[i] \in Nat
           /\ CreditOf(i) = 0 <=> outConn = 0 \/ outStream[i] = 0
<1>1. outConn \in Nat /\ outStream[i] \in Nat
  BY ConnectionAssumption DEF Around
<1>2. CreditOf(i) = IF outConn <= outStream[i] THEN outConn ELSE outStream[i]
  BY <1>1, MinOfTwo DEF CreditOf
<1> QED BY <1>1, <1>2

\* A writer that waits for credit has none, or an event tells it soon; one that waits
\* for the transport finds it paused.
LEMMA AwakeStays ==
    ASSUME Base, Around', NEW i \in Requests, Awake(i), Stepped \/ Arrived
    PROVE  Awake(i)'
<1>1. Around
  BY DEF Base
<1>2. (outConn' = 0 \/ outStream'[i] = 0) => CreditOf(i)' = 0
  <2>1. outConn' \in Nat /\ outStream'[i] \in Nat
    BY ConnectionAssumption DEF Around
  <2>2. CreditOf(i)' = IF outConn' <= outStream'[i] THEN outConn' ELSE outStream'[i]
    BY <2>1, MinOfTwo DEF CreditOf
  <2> QED BY <2>1, <2>2
<1>3. writer'[i].pc = "paused" => writePaused'
  <2>1. CASE Stepped
    BY <2>1 DEF Stepped, Sleeping, Awake
  <2>2. CASE Arrived
    BY <2>2 DEF Arrived, ArrivedOf, Awake
  <2> QED BY <2>1, <2>2
<1> SUFFICES ASSUME writer'[i].pc = "window"
             PROVE  CreditOf(i)' = 0 \/ \E k \in DOMAIN inbox' : inbox'[k] = Event("window", 0)
  BY <1>3 DEF Awake
<1>4. CASE Stepped
  <2>1. CASE outConn' = 0 \/ outStream'[i] = 0
    BY <1>2, <2>1
  <2>2. CASE writer[i].pc = "window" /\ (Settled \/ Head(inbox) # Event("window", 0))
    <3>1. CASE CreditOf(i) = 0
      <4>1. /\ outConn \in Nat /\ outStream[i] \in Nat /\ (outConn = 0 \/ outStream[i] = 0)
            /\ outConn' \in Nat /\ outStream'[i] \in Nat
            /\ outConn' <= outConn /\ outStream'[i] <= outStream[i]
        BY <1>1, <1>4, <3>1, NoCredit DEF Stepped, Drained
      <4>2. outConn' = 0 \/ outStream'[i] = 0
        BY <4>1
      <4> QED BY <1>2, <4>2
    <3>2. CASE \E k \in DOMAIN inbox : inbox[k] = Event("window", 0)
      <4>1. PICK k \in DOMAIN inbox : inbox[k] = Event("window", 0)
        BY <3>2
      <4>2. CASE inbox' = inbox
        BY <4>1, <4>2
      <4>3. CASE Handled
        <5>1. inbox # <<>> /\ inbox' = Tail(inbox) /\ Head(inbox) # Event("window", 0)
          BY <2>2, <4>3 DEF Handled, Settled
        <5>2. k # 1
          BY <1>1, <4>1, <5>1, RestOfInbox
        <5>3. k - 1 \in DOMAIN inbox' /\ inbox'[k - 1] = inbox[k]
          BY <1>1, <5>1, <5>2, RestOfInbox
        <5> QED BY <4>1, <5>3
      <4> QED BY <1>4, <4>2, <4>3 DEF Stepped
    <3> QED BY <2>2, <3>1, <3>2 DEF Awake
  <2> QED BY <1>4, <2>1, <2>2 DEF Stepped, Sleeping, Beds
<1>5. CASE Arrived
  <2>1. PICK e \in Envelopes : ArrivedOf(e)
    BY <1>5 DEF Arrived
  <2>2. /\ DOMAIN inbox' = DOMAIN inbox \cup {Len(inbox) + 1} /\ inbox'[Len(inbox) + 1] = e
        /\ \A k \in DOMAIN inbox : inbox'[k] = inbox[k]
        /\ writer' = writer
    BY <1>1, <2>1, MoreInInbox DEF ArrivedOf
  <2>3. CASE e = Event("window", 0)
    BY <2>2, <2>3
  <2>4. CASE e # Event("window", 0)
    <3>1. UNCHANGED <<outConn, outStream>>
      BY <2>1, <2>4 DEF ArrivedOf
    <3>2. CreditOf(i)' = CreditOf(i)
      BY <3>1 DEF CreditOf
    <3> QED BY <2>2, <3>2 DEF Awake
  <2> QED BY <2>3, <2>4
<1> QED BY <1>4, <1>5

\* Between the batches no stream begins.
LEMMA NoneBegins ==
    ASSUME NEW i \in Requests, TypedOf(i), Sides(i), Moves(i), Settled, ~stream[i].live
    PROVE  ~stream'[i].live
<1>1. CASE Untouched(i) \/ Speaks(i)
  BY <1>1 DEF Untouched, Speaks
<1>2. CASE Written(i)
  BY <1>2 DEF Written, Sending, Ending, Going
<1>3. CASE Reads(i)
  BY <1>3 DEF Reads, TypedOf, Streams
<1> QED BY <1>1, <1>2, <1>3 DEF Moves, Refused, Begun, Fed, TakenDown

\* Once the transport is gone there are no streams, and no events.
LEMMA LostStays ==
    ASSUME Base, Moved, Lost, Stepped \/ Arrived
    PROVE  Lost'
<1>1. CASE Arrived
  BY <1>1 DEF Arrived, ArrivedOf, Lost
<1>2. CASE Stepped /\ lost' = lost /\ lost
  <2>1. inbox = <<>> /\ Live = {} /\ Settled
    BY <1>2 DEF Lost, Settled
  <2>2. inbox' = inbox
    BY <1>2, <2>1 DEF Stepped, Handled
  <2>3. \A i \in Requests : ~stream'[i].live
    <3> SUFFICES ASSUME NEW i \in Requests PROVE ~stream'[i].live
      OBVIOUS
    <3>1. TypedOf(i) /\ Sides(i) /\ Moves(i) /\ ~stream[i].live
      BY <2>1 DEF Base, Typed, TypedOf, Moved, Live
    <3> QED BY <2>1, <3>1, NoneBegins
  <2> QED BY <2>1, <2>2, <2>3 DEF Lost, Live
<1>3. CASE Stepped /\ lost' # lost
  BY <1>3 DEF Stepped, Lost, Settled
<1> QED BY <1>1, <1>2, <1>3 DEF Lost

-----------------------------------------------------------------------------
\* The credit that is out can still be read.

\* The queue of a request counts its pieces of data.
LEMMA UnreadIs ==
    ASSUME NEW i \in Requests
    PROVE  Unread(i) = Count(ex[i].recv, {"data"}) /\ Unread(i)' = Count(ex'[i].recv, {"data"})
BY DEF Unread, Count

\* What the stream holds covers what is owed, whatever is done to it.
LEMMA CreditsStay ==
    ASSUME Base, Moved, Onward, NEW i \in Requests, Mail(i), Credits(i)
    PROVE  Credits(i)'
<1>1. /\ TypedOf(i) /\ Sides(i) /\ Moves(i)
      /\ received[i] \in Nat /\ returned[i] \in Nat /\ received'[i] \in Nat /\ returned'[i] \in Nat
  BY DEF Base, Typed, TypedOf, Moved, Shaped
<1>2. /\ ex[i] \in Exchanges /\ stream[i] \in Streams /\ stream[i].unacked \in Nat
      /\ ex[i].recv \in Seq(RequestMessages) /\ TypedOf(i)'
  BY <1>1, MovesTyped DEF TypedOf, Streams, Exchanges
<1>3. ex'[i] \in Exchanges /\ stream'[i] \in Streams /\ stream'[i].unacked \in Nat
  BY <1>2 DEF TypedOf, Streams
<1> SUFFICES ASSUME ~closed'
             PROVE  /\ received'[i] - returned'[i] <= stream'[i].unacked
                    /\ ex'[i].complete => stream'[i].unacked = 0
                    /\ stream'[i].live /\ ~ex'[i].complete => stream'[i].unacked <= Unread(i)'
  BY DEF Credits
<1>4. /\ received[i] - returned[i] <= stream[i].unacked
      /\ ex[i].complete => stream[i].unacked = 0
      /\ stream[i].live /\ ~ex[i].complete => stream[i].unacked <= Unread(i)
  BY DEF Credits, Onward
<1>5. /\ Unread(i) = Count(ex[i].recv, {"data"}) /\ Unread(i)' = Count(ex'[i].recv, {"data"})
      /\ Unread(i) \in Nat /\ Unread(i)' \in Nat
  <2>1. ex'[i].recv \in Seq(RequestMessages)
    BY <1>3 DEF Exchanges
  <2>2. Count(ex[i].recv, {"data"}) \in Nat /\ Count(ex'[i].recv, {"data"}) \in Nat
    BY <1>2, <2>1, CountIsNatural
  <2>3. Unread(i) = Count(ex[i].recv, {"data"}) /\ Unread(i)' = Count(ex'[i].recv, {"data"})
    BY UnreadIs
  <2> QED BY <2>2, <2>3
<1>6. CASE /\ Owes(i, 0) /\ stream'[i].unacked = stream[i].unacked
           /\ stream'[i].live = stream[i].live /\ ex'[i].complete = ex[i].complete
           /\ Unread(i)' = Unread(i)
  BY <1>1, <1>2, <1>4, <1>6 DEF Owes
<1>7. CASE Owes(i, - stream[i].unacked) /\ stream'[i].unacked = 0
  <2>1. received'[i] - returned'[i] <= 0
    BY <1>1, <1>2, <1>4, <1>7 DEF Owes
  <2> QED BY <1>5, <1>7, <2>1
<1>8. CASE Untouched(i) \/ Refused(i)
  BY <1>5, <1>6, <1>8 DEF Untouched, Refused
<1>9. CASE Begun(i)
  <2>1. writer[i].pc = "none"
    BY <1>9, HeadIsOfNew DEF Begun, Base
  <2>2. stream[i] = NoStream /\ ex[i] = NewExchange
    BY <1>1, <2>1 DEF Sides
  <2>3. Unread(i)' = Unread(i)
    BY <1>5, <1>9, <2>2 DEF Begun
  <2>4. stream'[i].unacked = 0 /\ stream[i].unacked = 0
    BY <1>9, <2>2 DEF Begun, NoStream
  <2> QED BY <1>5, <1>7, <1>9, <2>4 DEF Begun, Owes
<1>10. CASE Fed(i)
  <2>1. CASE /\ ~Gone(ex[i]) /\ ex'[i] = Feed(ex[i], "data")
             /\ stream'[i] = [stream[i] EXCEPT !.unacked = stream[i].unacked + 1]
             /\ Owes(i, 1)
    <3>1. ex'[i].recv = Append(ex[i].recv, "data") /\ ex'[i].complete = ex[i].complete
      BY <1>2, <2>1, FeedActs DEF RequestMessages, SameState
    <3>2. Count(ex'[i].recv, {"data"}) = Count(ex[i].recv, {"data"}) + 1
      <4>1. "data" \in RequestMessages /\ "data" \in {"data"}
        BY DEF RequestMessages
      <4> QED BY <1>2, <3>1, <4>1, CountAppend
    <3>3. ~ex[i].complete /\ stream[i].live
      BY <1>1, <1>10, <2>1 DEF Gone, Sides, Fed
    <3>4. stream'[i].unacked = stream[i].unacked + 1
      BY <1>2, <2>1 DEF Streams
    <3>5. Unread(i)' = Unread(i) + 1
      BY <1>5, <3>2
    <3>6. received'[i] - returned'[i] <= received[i] - returned[i] + 1
      BY <1>1, <2>1 DEF Owes
    <3>7. received'[i] - returned'[i] <= stream'[i].unacked
      BY <1>1, <1>2, <1>4, <3>4, <3>6
    <3>8. stream'[i].unacked <= Unread(i)'
      BY <1>2, <1>3, <1>4, <1>5, <3>3, <3>4, <3>5
    <3> QED BY <3>1, <3>3, <3>7, <3>8
  <2>2. CASE stream'[i] = NoStream /\ Owes(i, - stream[i].unacked)
    BY <1>7, <2>2 DEF NoStream
  <2>3. CASE /\ ex'[i] = IF Gone(ex[i]) THEN ex[i] ELSE Feed(ex[i], "end")
             /\ stream'[i] = [stream[i] EXCEPT !.ended = TRUE] /\ Owes(i, 0)
    <3>1. CASE ex'[i] = ex[i]
      BY <1>2, <1>5, <1>6, <2>3, <3>1 DEF Streams
    <3>2. CASE ex'[i] = Feed(ex[i], "end")
      <4>1. "end" \in RequestMessages /\ "end" \notin {"data"}
        BY DEF RequestMessages
      <4>2. /\ SameState(ex[i], Feed(ex[i], "end"))
            /\ Feed(ex[i], "end").recv = Append(ex[i].recv, "end")
        BY <1>2, <4>1, FeedActs
      <4>3. ex'[i].recv = Append(ex[i].recv, "end") /\ ex'[i].complete = ex[i].complete
        BY <3>2, <4>2 DEF SameState
      <4>4. Count(ex'[i].recv, {"data"}) = Count(ex[i].recv, {"data"}) + 0
        BY <1>2, <4>1, <4>3, CountAppend
      <4> QED BY <1>2, <1>5, <1>6, <2>3, <4>3, <4>4 DEF Streams
    <3> QED BY <2>3, <3>1, <3>2
  <2> QED BY <1>10, <2>1, <2>2, <2>3 DEF Fed
<1>11. CASE TakenDown(i)
  BY <1>7, <1>11 DEF TakenDown, NoStream
<1>12. ASSUME NEW r, Ending(i, r) PROVE stream'[i].unacked = 0 /\ Owes(i, - stream[i].unacked)
  BY <1>1, <1>2, <1>12 DEF Ending, Sides, NoStream, Streams
<1>13. ASSUME NEW w, NEW r, Going(i, w, r), SameState(ex[i], r), r.recv = ex[i].recv
       PROVE  /\ Owes(i, 0) /\ stream'[i].unacked = stream[i].unacked
              /\ stream'[i].live = stream[i].live /\ ex'[i].complete = ex[i].complete
              /\ Unread(i)' = Unread(i)
  BY <1>5, <1>13 DEF Going, SameState
<1>14. CASE Written(i)
  <2>1. \/ \E r : Ending(i, r)
        \/ \E w : Going(i, w, ex[i])
        \/ \E w : Going(i, w, Taken(ex[i])) /\ ex[i].send # <<>>
    BY <1>14 DEF Written, Sending
  <2>2. SameState(ex[i], ex[i])
    BY DEF SameState
  <2>3. ex[i].send # <<>> => SameState(ex[i], Taken(ex[i])) /\ Taken(ex[i]).recv = ex[i].recv
    BY <1>2, TakenActs
  <2> QED BY <1>6, <1>7, <1>12, <1>13, <2>1, <2>2, <2>3
<1>15. CASE Reads(i)
  <2>1. CASE ex'[i] = ex[i] /\ stream'[i] = stream[i] /\ Owes(i, 0)
    BY <1>5, <1>6, <2>1
  <2>2. CASE ex[i].recv # <<>> /\ ex'[i] = Received(ex[i])
    <3> DEFINE one == IF Head(ex[i].recv) \in {"data"} THEN 1 ELSE 0
    <3>1. ex'[i].recv = Tail(ex[i].recv) /\ ex'[i].complete = ex[i].complete
      BY <1>2, <2>2, ReceivedActs DEF SameState
    <3>2. Count(ex[i].recv, {"data"}) = Count(ex'[i].recv, {"data"}) + one
      BY <1>2, <2>2, <3>1, CountTail
    <3>3. CASE Head(ex[i].recv) # "data"
      <4>1. stream'[i] = stream[i] /\ Owes(i, 0) /\ one = 0
        BY <1>15, <2>2, <3>3 DEF Reads
      <4>2. Unread(i)' = Unread(i)
        BY <1>5, <3>2, <4>1
      <4> QED BY <1>6, <3>1, <4>1, <4>2
    <3>4. CASE Head(ex[i].recv) = "data"
      <4>1. ~closed
        BY DEF Onward
      <4>2. /\ Owes(i, -1) /\ one = 1
            /\ stream'[i] = IF stream[i].unacked = 0 THEN stream[i]
                            ELSE [stream[i] EXCEPT !.unacked = stream[i].unacked - 1]
        BY <1>15, <2>2, <3>4, <4>1 DEF Reads
      <4>3. /\ stream'[i].live = stream[i].live
            /\ stream'[i].unacked = IF stream[i].unacked = 0 THEN 0 ELSE stream[i].unacked - 1
        BY <1>2, <4>2 DEF Streams
      <4>4. Unread(i) = Unread(i)' + 1
        BY <1>5, <3>2, <4>2
      <4>5. received'[i] - returned'[i] <= received[i] - returned[i] - 1
        BY <1>1, <4>2 DEF Owes
      <4>6. received'[i] - returned'[i] <= stream'[i].unacked
        BY <1>1, <1>2, <1>3, <1>4, <4>3, <4>5
      <4>7. ex'[i].complete => stream'[i].unacked = 0
        BY <1>4, <3>1, <4>3
      <4>8. stream'[i].live /\ ~ex'[i].complete => stream'[i].unacked <= Unread(i)'
        BY <1>2, <1>3, <1>4, <1>5, <3>1, <4>3, <4>4
      <4> QED BY <4>6, <4>7, <4>8
    <3> QED BY <3>3, <3>4
  <2> QED BY <1>15, <2>1, <2>2 DEF Reads
<1>16. CASE Speaks(i)
  <2>1. ex'[i].recv = ex[i].recv /\ ex'[i].complete = ex[i].complete
    BY <1>1, <1>16, SpeaksSides DEF SameState
  <2>2. Owes(i, 0) /\ stream'[i] = stream[i]
    BY <1>16 DEF Speaks
  <2> QED BY <1>5, <1>6, <2>1, <2>2
<1> QED BY <1>1, <1>8, <1>9, <1>10, <1>11, <1>14, <1>15, <1>16 DEF Moves

-----------------------------------------------------------------------------
\* An application sleeps only for somebody who is still there.

\* Whatever is done to a stream, with its writer or without.
LEMMA AsleepStays ==
    ASSUME Around, NEW i \in Requests, TypedOf(i), Sides(i), Sides(i)', Mail(i), Moves(i),
           AsleepForAReason(i, ~Over(writer[i]))
    PROVE  AsleepForAReason(i, ~Over(writer[i]))'
<1> DEFINE Fine == /\ app'[i].pc = "recv" /\ ex'[i].recv = <<>> => ~Gone(ex'[i])
                   /\ app'[i].pc = "put" /\ ~ex'[i].sendSpace =>
                        Room(ex'[i]) = 0 /\ ~Over(writer'[i])
<1> SUFFICES Fine
  BY DEF AsleepForAReason
<1>1. /\ ex[i] \in Exchanges /\ app[i] \in Apps /\ writer[i] \in Writers
      /\ ex[i].recv \in Seq(RequestMessages) /\ Len(ex[i].send) <= SendMax
      /\ TypedOf(i)'
  BY MovesTyped DEF TypedOf, Exchanges
<1>2. /\ app[i].pc = "recv" /\ ex[i].recv = <<>> => ~Gone(ex[i])
      /\ app[i].pc = "put" /\ ~ex[i].sendSpace => Room(ex[i]) = 0 /\ ~Over(writer[i])
  BY DEF AsleepForAReason
<1>3. CASE ex'[i] = ex[i] /\ app'[i] = app[i] /\ (Over(writer'[i]) => Over(writer[i]))
  BY <1>2, <1>3
<1>4. CASE app'[i].pc \notin {"recv", "put"}
  BY <1>4
<1>5. CASE Untouched(i) \/ Refused(i)
  <2>1. Over(writer'[i]) => Over(writer[i])
    BY <1>1, <1>5 DEF Untouched, Refused, Over, Stopped, Writers
  <2> QED BY <1>3, <1>5, <2>1 DEF Untouched, Refused
<1>6. CASE Begun(i)
  <2>1. app'[i].pc = "run"
    BY <1>1, <1>6 DEF Begun, Started, Apps
  <2> QED BY <1>4, <2>1
<1>7. CASE Fed(i)
  <2>1. app'[i] = app[i] /\ writer'[i] = writer[i]
    BY <1>7 DEF Fed
  <2>2. CASE ex'[i] = ex[i]
    BY <1>3, <2>1, <2>2
  <2>3. CASE \E x \in {"data", "end"} : ex'[i] = Feed(ex[i], x)
    <3>1. PICK x \in {"data", "end"} : ex'[i] = Feed(ex[i], x)
      BY <2>3
    <3>2. /\ x \in RequestMessages /\ ex'[i].recv = Append(ex[i].recv, x)
          /\ ex'[i].send = ex[i].send /\ ex'[i].sendSpace = ex[i].sendSpace
      <4>1. x \in RequestMessages
        BY DEF RequestMessages
      <4> QED BY <1>1, <3>1, <4>1, FeedActs DEF SameAnswer
    <3>3. ex'[i].recv # <<>>
      BY <1>1, <3>2, AppendProperties
    <3> QED BY <1>2, <2>1, <3>2, <3>3 DEF Room
  <2> QED BY <1>7, <2>2, <2>3 DEF Fed
<1>8. CASE TakenDown(i)
  <2>1. app'[i].pc = "done"
    BY <1>1, <1>8 DEF TakenDown, Cancelled, Apps
  <2> QED BY <1>4, <2>1
<1>9. CASE Written(i)
  <2>1. app'[i] = app[i] /\ ~Over(writer[i])
    BY <1>9 DEF Written, Over, Stopped
  <2>2. ~ex[i].disconnected /\ ~ex[i].finished
    BY <2>1 DEF Sides, Over, Stopped
  <2>3. ASSUME NEW r \in Exchanges, Ending(i, r), SameState(ex[i], r) PROVE Fine
    <3>1. ex'[i] = Completed(r) /\ ~r.disconnected
      BY <2>2, <2>3 DEF Ending, SameState
    <3>2. ex'[i].recv # <<>> /\ ex'[i].sendSpace
      BY <3>1, CompletedActs
    <3> QED BY <3>2
  <2>4. ex[i].send # <<>> => Taken(ex[i]) \in Exchanges /\ SameState(ex[i], Taken(ex[i]))
                             /\ Taken(ex[i]).sendSpace /\ Taken(ex[i]).recv = ex[i].recv
    BY <1>1, TakenActs
  <2>5. SameState(ex[i], ex[i])
    BY DEF SameState
  <2>6. CASE \E r : Ending(i, r) /\ (r = ex[i] \/ (r = Taken(ex[i]) /\ ex[i].send # <<>>))
    BY <1>1, <2>3, <2>4, <2>5, <2>6
  <2>7. CASE ex[i].send # <<>> /\ ex'[i] = Taken(ex[i])
    <3>1. ex'[i].sendSpace /\ ex'[i].recv = ex[i].recv /\ SameState(ex[i], ex'[i])
      BY <2>4, <2>7
    <3> QED BY <2>2, <3>1 DEF SameState, Gone
  <2>8. CASE ex'[i] = ex[i] /\ ~Over(writer'[i])
    BY <1>3, <2>1, <2>8
  <2>9. \/ \E r : Ending(i, r) /\ (r = ex[i] \/ (r = Taken(ex[i]) /\ ex[i].send # <<>>))
        \/ ex[i].send # <<>> /\ ex'[i] = Taken(ex[i])
        \/ ex'[i] = ex[i]
    BY <1>9 DEF Written, Sending, Going
  <2>10. ex'[i] = ex[i] => ~Over(writer'[i])
    <3>1. writer[i].pc \notin Stopped /\ app'[i].pc # "none"
      BY <2>1 DEF Sides, Over, Stopped
    <3>2. ex'[i] = ex[i] => writer'[i].pc \notin Stopped
      BY <3>1 DEF Sides
    <3>3. writer'[i].pc # "none"
      BY <3>1 DEF Sides, NoApp
    <3> QED BY <3>2, <3>3 DEF Over, Stopped
  <2> QED BY <2>6, <2>7, <2>8, <2>9, <2>10
<1>10. CASE Reads(i)
  <2>1. app'[i].pc = "run" \/ (app'[i].pc = "recv" /\ ex'[i] = ex[i] /\ ~ReceiveAnswersAlone(ex[i])
                               /\ ex[i].recv = <<>>)
    BY <1>1, <1>10 DEF Reads, Apps
  <2>2. CASE app'[i].pc = "recv" /\ ex'[i] = ex[i] /\ ~ReceiveAnswersAlone(ex[i]) /\ ex[i].recv = <<>>
    BY <2>2 DEF ReceiveAnswersAlone, Sides, Gone
  <2> QED BY <1>4, <2>1, <2>2
<1>11. CASE Speaks(i)
  <2>1. PICK r \in Exchanges, todo \in Seq(Messages), a \in Apps :
                /\ Queueing(i, r, todo, a) /\ SameState(ex[i], r)
                /\ r.send = ex[i].send /\ r.recv = ex[i].recv
    BY <1>11, SpeaksQueues
  <2>2. writer'[i] = writer[i] /\ app[i].pc # "none"
    BY <1>11, SpeaksSides DEF Speaks
  <2>3. app'[i].pc = IF Unsent(r, todo) # <<>> THEN "put" ELSE IF a.over THEN "done" ELSE "run"
    BY <2>1 DEF Queueing, Apps
  <2>4. Unsent(r, todo) # <<>> => Len(ex'[i].send) = SendMax /\ ~r.finished
    <3>1. Len(r.send) <= SendMax
      BY <1>1, <2>1
    <3>2. Unsent(r, todo) # <<>> => Len(Enqueued(r, todo).send) = SendMax /\ ~r.finished
      BY <3>1, EnqueuedActs
    <3> QED BY <2>1, <3>2 DEF Queueing
  <2>5. ~r.finished => ~Over(writer'[i])
    <3>1. r.finished = ex[i].finished /\ ex[i].finished = (writer[i].pc \in Stopped)
      BY <2>1 DEF SameState, Sides
    <3>2. writer[i].pc # "none"
      BY <2>2 DEF Sides, NoApp
    <3> QED BY <2>2, <3>1, <3>2 DEF Over, Stopped
  <2> QED BY <2>3, <2>4, <2>5, ConstantsOf DEF Room
<1> QED BY <1>5, <1>6, <1>7, <1>8, <1>9, <1>10, <1>11 DEF Moves

-----------------------------------------------------------------------------
\* The writer takes a message off the line.

\* Nothing that carries data is left where no message of the body is.
LEMMA NoBodyNoData ==
    ASSUME NEW L \in Seq(Messages), ~Has(L, Body)
    PROVE  Count(L, Loaded) = 0
<1>1. Loaded \subseteq Body
  BY DEF Loaded, Body
<1>2. \A k \in DOMAIN L : L[k] \notin Loaded
  BY <1>1 DEF Has
<1> QED BY <1>2, CountIsNatural

\* What the line still holds once its first message was taken.
LEMMA RestOfLine ==
    ASSUME NEW L \in Seq(Messages), L # <<>>, NEW w \in Writers, NEW r \in Exchanges,
           NEW a \in Apps, Opening(L, w, r), BodyLast(L, w, r, a)
    PROVE  LET m == Head(L)
               R == Tail(L)
           IN  /\ m \in Messages /\ R \in Seq(Messages)
               /\ r.started
               /\ ~w.started => m.kind = "start" /\ m.trailers = r.announced
               /\ m.kind = "start" => ~w.started
               /\ \A k \in DOMAIN R : R[k].kind # "start"
               /\ Has(L, Final) <=> m \in Final \/ Has(R, Final)
               /\ Has(L, Body) <=> m \in Body \/ Has(R, Body)
               /\ \A j, k \in DOMAIN R : R[j] \in Final /\ R[k] \in Body => k <= j
               /\ m \in Final => ~Has(R, Body)
<1> DEFINE m == Head(L)
           R == Tail(L)
<1>1. /\ Len(L) \in Nat \ {0} /\ DOMAIN L = 1 .. Len(L) /\ m = L[1] /\ m \in Messages
      /\ R \in Seq(Messages) /\ DOMAIN R = 1 .. Len(L) - 1
      /\ \A k \in 1 .. Len(L) - 1 : R[k] = L[k + 1]
  BY TailPoints
<1>2. 1 \in DOMAIN L /\ \A k \in DOMAIN R : k + 1 \in DOMAIN L /\ k + 1 # 1 /\ R[k] = L[k + 1]
  BY <1>1
<1>3. \A k \in DOMAIN L : k # 1 => k - 1 \in DOMAIN R /\ R[k - 1] = L[k]
  <2> SUFFICES ASSUME NEW k \in DOMAIN L, k # 1 PROVE k - 1 \in DOMAIN R /\ R[k - 1] = L[k]
    OBVIOUS
  <2>1. k - 1 \in DOMAIN R /\ (k - 1) + 1 = k
    BY <1>1
  <2> QED BY <1>1, <2>1
<1> HIDE DEF m, R
<1>4. ASSUME NEW S PROVE Has(L, S) <=> m \in S \/ Has(R, S)
  BY <1>1, <1>2, <1>3 DEF Has
<1>5. /\ r.started /\ (~w.started => m.kind = "start" /\ m.trailers = r.announced)
      /\ m.kind = "start" => ~w.started
      /\ \A k \in DOMAIN R : R[k].kind # "start"
  BY <1>1, <1>2 DEF Opening
<1>6. ASSUME NEW j \in DOMAIN R, NEW k \in DOMAIN R, R[j] \in Final, R[k] \in Body
      PROVE  k <= j
  <2>1. k + 1 <= j + 1
    BY <1>2, <1>6 DEF BodyLast
  <2> QED BY <1>1, <2>1
<1>7. ASSUME m \in Final, NEW k \in DOMAIN R, R[k] \in Body PROVE FALSE
  <2>1. k + 1 <= 1
    BY <1>1, <1>2, <1>7 DEF BodyLast
  <2> QED BY <1>1, <2>1
<1> QED BY <1>1, <1>4, <1>5, <1>6, <1>7 DEF m, R, Has

\* The start of the answer says whether there will be a body, and trailers.
LEMMA StartOffLine ==
    ASSUME NEW L \in Seq(Messages), L # <<>>, Head(L).kind = "start",
           NEW w \in Writers, NEW r \in Exchanges, NEW a \in Apps, NEW o \in Outputs,
           NEW g \in Nat, NEW c \in Nat, w.pc = "run",
           Phase(w, r, o), Holds(L, w, r, a, o, g, c),
           NEW none \in BOOLEAN, NEW v \in Writers, NEW u,
           v.pc = w.pc, v.started, v.discard = none,
           v.trailers <=> Head(L).trailers /\ ~none, v.awaiting = w.awaiting,
           v.ends = w.ends, v.last = w.last, v.left = w.left,
           u.by = IF none THEN "bare" ELSE "app", u.units = o.units,
           u.end = IF none THEN "ended" ELSE o.end
    PROVE  /\ ~w.started /\ ~w.discard /\ o.by = "none" /\ o.end = "open"
           /\ Phase(v, r, u) /\ Holds(Tail(L), v, r, a, u, g, c)
<1> DEFINE m == Head(L)
<1>1. /\ Len(L) \in Nat \ {0} /\ DOMAIN L = 1 .. Len(L) /\ m = L[1] /\ m \in Messages
      /\ Tail(L) \in Seq(Messages) /\ DOMAIN Tail(L) = 1 .. Len(L) - 1
      /\ \A k \in 1 .. Len(L) - 1 : Tail(L)[k] = L[k + 1]
  BY TailPoints
<1>2. ~w.started /\ m.trailers = r.announced
  BY <1>1 DEF Holds, Opening
<1>3. ~w.discard /\ ~w.trailers /\ ~w.awaiting /\ ~w.ends /\ ~w.last /\ w.left = 0
      /\ o.by = "none" /\ o.end = "open" /\ o.units = 0
  BY <1>2 DEF Phase, Ready
<1>4. m.trailers \in BOOLEAN /\ m \notin Body /\ m \notin Final /\ m # Trailers /\ m \notin Loaded
  <2> HIDE DEF m
  <2>1. m.kind = "start"
    BY DEF m
  <2> QED BY <1>1, <2>1, KindsOfMessages
<1>5. v.trailers <=> m.trailers /\ ~none
  OBVIOUS
<1> HIDE DEF m
<1>6. ~none => v.trailers = r.announced
  <2>1. v.trailers \in BOOLEAN /\ r.announced \in BOOLEAN
    BY DEF Writers, Exchanges
  <2> QED BY <1>2, <1>4, <1>5, <2>1
<1>7. /\ v.started /\ v.discard = none /\ (none => ~v.trailers) /\ v.pc = "run"
      /\ ~v.awaiting /\ ~v.ends /\ ~v.last /\ v.left = 0
      /\ u.units = 0 /\ u.by = (IF none THEN "bare" ELSE "app")
      /\ u.end = (IF none THEN "ended" ELSE "open")
  BY <1>3, <1>5
<1>8. Phase(v, r, u)
  <2>1. v.last = v.ends
    BY <1>7 DEF Writers
  <2> QED BY <1>6, <1>7, <2>1 DEF Phase, Ready
<1>9. /\ r.started /\ \A k \in DOMAIN Tail(L) : Tail(L)[k].kind # "start"
      /\ Has(L, Final) <=> Has(Tail(L), Final)
      /\ \A j, k \in DOMAIN Tail(L) : Tail(L)[j] \in Final /\ Tail(L)[k] \in Body => k <= j
  BY <1>3, <1>4, RestOfLine DEF Holds, m
<1>10. Opening(Tail(L), v, r)
  BY <1>7, <1>9 DEF Opening
<1>11. BodyLast(Tail(L), v, r, a)
  BY <1>7, <1>9 DEF Holds, BodyLast, Closed
<1>12. Kept(Tail(L), v, u, g, c)
  <2>1. Count(L, Loaded) = Count(Tail(L), Loaded) + 0
    BY <1>4, CountTail DEF m
  <2>2. Count(Tail(L), Loaded) \in Nat
    BY <1>1, CountIsNatural
  <2>3. g = o.units + w.left + c * Count(L, Loaded)
    BY <1>3 DEF Holds, Kept
  <2>4. Count(L, Loaded) = Count(Tail(L), Loaded)
    BY <2>1, <2>2
  <2> QED BY <1>3, <1>7, <2>3, <2>4 DEF Kept
<1> QED BY <1>2, <1>3, <1>8, <1>10, <1>11, <1>12 DEF Holds

\* One message more is c units more.
LEMMA OneMore ==
    ASSUME NEW c \in Nat, NEW n \in Nat
    PROVE  c * (n + 1) = c * n + c /\ c * n \in Nat
OBVIOUS

\* A writer that takes a piece of the body was started before.
LEMMA BodyComesLater ==
    ASSUME NEW L \in Seq(Messages), L # <<>>, Head(L).kind # "start",
           NEW w \in Writers, NEW r \in Exchanges, NEW a \in Apps, NEW o \in Outputs,
           w.pc = "run", Phase(w, r, o), Opening(L, w, r), BodyLast(L, w, r, a)
    PROVE  /\ w.started /\ r.started /\ ~w.ends /\ w.left = 0
           /\ w.discard => /\ ~w.trailers /\ ~w.awaiting /\ o.by = "bare" /\ o.end = "ended"
           /\ ~w.discard => w.trailers = r.announced /\ o.by = "app" /\ o.end = "open"
<1>1. w.started /\ r.started
  BY RestOfLine
<1> QED BY <1>1 DEF Phase, Ready

\* What it took of the body goes out next, and is the last of it if it says so.
LEMMA BodyOffLine ==
    ASSUME NEW L \in Seq(Messages), L # <<>>, Head(L).kind = "body", ~Head(L).aborted,
           NEW w \in Writers, NEW r \in Exchanges, NEW a \in Apps, NEW o \in Outputs,
           NEW g \in Nat, NEW c \in Nat, w.pc = "run", ~w.discard,
           Phase(w, r, o), Holds(L, w, r, a, o, g, c),
           NEW x \in Writers, x.pc = w.pc, x.started = w.started, x.discard = w.discard,
           x.trailers = w.trailers, x.left = IF Head(L).data THEN c ELSE 0,
           x.ends <=> ~Head(L).more /\ ~w.trailers,
           x.last <=> ~Head(L).more /\ ~w.trailers,
           x.awaiting <=> ~Head(L).more /\ w.trailers
    PROVE  Ready(x, r, o) /\ o.end = "open" /\ Holds(Tail(L), x, r, a, o, g, c)
<1> DEFINE m == Head(L)
           R == Tail(L)
<1>1. Opening(L, w, r) /\ BodyLast(L, w, r, a) /\ Kept(L, w, o, g, c)
  BY DEF Holds
<1>2. /\ w.started /\ r.started /\ ~w.ends /\ w.left = 0
      /\ w.trailers = r.announced /\ o.by = "app" /\ o.end = "open"
  BY <1>1, BodyComesLater
<1>3. /\ m \in Messages /\ R \in Seq(Messages) /\ \A k \in DOMAIN R : R[k].kind # "start"
      /\ Has(L, Final) <=> m \in Final \/ Has(R, Final)
      /\ Has(L, Body) <=> m \in Body \/ Has(R, Body)
      /\ \A j, k \in DOMAIN R : R[j] \in Final /\ R[k] \in Body => k <= j
      /\ m \in Final => ~Has(R, Body)
  BY <1>1, RestOfLine
<1>4. m.kind = "body" /\ ~m.aborted
  OBVIOUS
<1>5. /\ x.pc = w.pc /\ x.started = w.started /\ x.discard = w.discard
      /\ x.trailers = w.trailers /\ x.left = IF m.data THEN c ELSE 0
      /\ x.ends <=> ~m.more /\ ~w.trailers
      /\ x.last <=> ~m.more /\ ~w.trailers
      /\ x.awaiting <=> ~m.more /\ w.trailers
  OBVIOUS
<1>6. Count(L, Loaded) = Count(R, Loaded) + (IF m \in Loaded THEN 1 ELSE 0)
      /\ Count(R, Loaded) \in Nat
  BY <1>3, CountTail, CountIsNatural
<1> HIDE DEF m, R
<1>7. /\ m \in Body /\ (m \in Final <=> ~m.more) /\ (m \in Loaded <=> m.data)
      /\ m.more \in BOOLEAN /\ m.data \in BOOLEAN
  BY <1>3, <1>4, KindsOfMessages
<1>8. ~w.awaiting
  BY <1>1, <1>3, <1>7 DEF BodyLast, Closed
<1>9. Closed(x) <=> ~m.more
  BY <1>5 DEF Closed
<1>10. Ready(x, r, o)
  <2>1. x.last = x.ends
    BY <1>5 DEF Writers
  <2>2. x.awaiting => x.trailers
    BY <1>5
  <2> QED BY <1>2, <1>5, <2>1, <2>2 DEF Ready
<1>11. Opening(R, x, r)
  BY <1>2, <1>3, <1>5 DEF Opening
<1>12. BodyLast(R, x, r, a)
  <2>1. Closed(x) => ~Has(R, Body)
    BY <1>3, <1>7, <1>9
  <2>2. Closed(x) \/ Has(R, Final) => Has(L, Final)
    BY <1>3, <1>7, <1>9
  <2> QED BY <1>1, <1>3, <2>1, <2>2 DEF BodyLast
<1>13. Kept(R, x, o, g, c)
  <2>1. g = o.units + w.left + c * Count(L, Loaded)
    BY <1>1 DEF Kept
  <2>2. o.units \in Nat
    BY DEF Outputs
  <2>3. CASE m.data
    <3>1. c * (Count(R, Loaded) + 1) = c * Count(R, Loaded) + c /\ c * Count(R, Loaded) \in Nat
      BY <1>6, OneMore
    <3> QED BY <1>2, <1>5, <1>6, <1>7, <2>1, <2>2, <2>3, <3>1 DEF Kept
  <2>4. CASE ~m.data
    <3>1. Count(L, Loaded) = Count(R, Loaded)
      BY <1>6, <1>7, <2>4
    <3> QED BY <1>2, <1>5, <2>1, <2>4, <3>1 DEF Kept
  <2> QED BY <2>3, <2>4
<1> QED BY <1>2, <1>10, <1>11, <1>12, <1>13 DEF Holds, R

\* A writer that discards what it takes goes on until the end of it.
LEMMA BodyDiscarded ==
    ASSUME NEW L \in Seq(Messages), L # <<>>, Head(L).kind = "body", Head(L).more,
           NEW w \in Writers, NEW r \in Exchanges, NEW a \in Apps, NEW o \in Outputs,
           NEW g \in Nat, NEW c \in Nat, w.pc = "run", w.discard,
           Phase(w, r, o), Holds(L, w, r, a, o, g, c),
           NEW x \in Writers, x.pc = w.pc, x.started = w.started, x.discard = w.discard,
           x.trailers = w.trailers, x.left = 0, ~x.ends, ~x.last, ~x.awaiting
    PROVE  Phase(x, r, o) /\ Holds(Tail(L), x, r, a, o, g, c)
<1> DEFINE R == Tail(L)
<1>1. Opening(L, w, r) /\ BodyLast(L, w, r, a)
  BY DEF Holds
<1>2. /\ w.started /\ r.started /\ ~w.trailers /\ o.by = "bare" /\ o.end = "ended"
  BY <1>1, BodyComesLater
<1>3. /\ R \in Seq(Messages) /\ \A k \in DOMAIN R : R[k].kind # "start"
      /\ Has(R, Final) => Has(L, Final)
      /\ \A j, k \in DOMAIN R : R[j] \in Final /\ R[k] \in Body => k <= j
  BY <1>1, RestOfLine
<1> HIDE DEF R
<1>4. Phase(x, r, o)
  <2>1. x.last = x.ends
    BY DEF Writers
  <2> QED BY <1>2, <2>1 DEF Phase, Ready
<1>5. Opening(R, x, r)
  BY <1>2, <1>3 DEF Opening
<1>6. BodyLast(R, x, r, a)
  BY <1>1, <1>3 DEF BodyLast, Closed
<1>7. Kept(R, x, o, g, c)
  BY DEF Kept
<1> QED BY <1>4, <1>5, <1>6, <1>7 DEF Holds, R

\* What a writer sends comes off what is left of the message it took, and the
\* answer ends with the last of it.
LEMMA SendingKeeps ==
    ASSUME NEW L \in Seq(Messages), NEW x \in Writers, NEW r \in Exchanges, NEW a \in Apps,
           NEW o \in Outputs, NEW g \in Nat, NEW c \in Nat,
           Ready(x, r, o), Holds(L, x, r, a, o, g, c),
           ~x.discard => o.end = "open" \/ (x.ends /\ x.left = 0 /\ o.end = "ended"),
           NEW n \in 0 .. x.left,
           NEW v \in Writers, v.started = x.started, v.discard = x.discard,
           v.trailers = x.trailers, v.awaiting = x.awaiting, v.ends = x.ends,
           v.last = x.last, v.left = x.left - n, v.pc = "run" => n = x.left /\ ~x.last,
           NEW u, u.by = o.by, u.units = o.units + n,
           u.end = IF x.ends /\ n = x.left THEN "ended" ELSE o.end
    PROVE  Phase(v, r, u) /\ Holds(L, v, r, a, u, g, c)
<1>1. x.left \in Nat /\ o.units \in Nat
  BY DEF Writers, Outputs
<1>2. x.discard => n = 0 /\ ~x.ends /\ x.left = 0
  BY <1>1 DEF Ready
<1>3. ~x.started => n = 0
  BY <1>1 DEF Ready
<1>4. v.left = 0 <=> n = x.left
  BY <1>1
<1>5. Ready(v, r, u)
  <2>1. v.last = v.ends /\ (v.awaiting => v.trailers)
        /\ (v.started => v.discard \/ v.trailers = r.announced)
    BY DEF Ready
  <2>2. v.discard => /\ v.started /\ ~v.trailers /\ ~v.awaiting /\ v.left = 0
                     /\ ~v.ends /\ u.by = "bare" /\ u.end = "ended"
    BY <1>2 DEF Ready
  <2>3. ~v.discard => u.by = (IF v.started THEN "app" ELSE "none")
    BY DEF Ready
  <2>4. ~v.started => ~v.trailers /\ ~v.awaiting /\ ~v.ends /\ v.left = 0 /\ u.units = 0
    <3>1. ~x.started => ~x.trailers /\ ~x.awaiting /\ ~x.ends /\ x.left = 0 /\ o.units = 0
      BY DEF Ready
    <3>2. ~x.started => x.left - n = 0 /\ o.units + n = 0
      BY <1>3, <3>1
    <3> QED BY <3>1, <3>2
  <2> QED BY <2>1, <2>2, <2>3, <2>4 DEF Ready
<1>6. Phase(v, r, u)
  <2>1. ~v.discard => u.end = (IF v.ends /\ v.left = 0 THEN "ended" ELSE "open")
    BY <1>1, <1>4
  <2>2. v.pc = "run" => ~v.ends /\ v.left = 0
    BY <1>4 DEF Ready
  <2> QED BY <1>5, <2>1, <2>2 DEF Phase
<1>7. Kept(L, v, u, g, c)
  <2> SUFFICES ASSUME ~v.discard PROVE g = u.units + v.left + c * Count(L, Loaded)
    BY DEF Kept
  <2>1. g = o.units + x.left + c * Count(L, Loaded)
    BY DEF Holds, Kept
  <2>2. o.units + x.left = u.units + v.left
    BY <1>1
  <2> QED BY <2>1, <2>2
<1>8. Opening(L, v, r) /\ BodyLast(L, v, r, a)
  BY DEF Holds, Opening, BodyLast, Closed
<1> QED BY <1>6, <1>7, <1>8 DEF Holds

-----------------------------------------------------------------------------
\* What can be read off a line of an answer that is at its end.

\* All that was given of an answer went out when it ended, and no more follows.
LEMMA EndIsWhole ==
    ASSUME NEW L \in Seq(Messages), NEW w \in Writers, NEW r \in Exchanges, NEW a \in Apps,
           NEW o \in Outputs, NEW g \in Nat, NEW c \in Nat,
           Phase(w, r, o), Holds(L, w, r, a, o, g, c), o.by = "app", o.end = "ended"
    PROVE  o.units = g /\ ~a.gaveUp /\ r.started /\ (r.bodyEnded \/ a.over)
<1>1. w.started /\ ~w.discard /\ w.ends /\ w.left = 0
  BY DEF Phase, Ready
<1>2. ~Has(L, Body) /\ (r.bodyEnded \/ a.over) /\ ~a.gaveUp
  BY <1>1 DEF Holds, BodyLast, Closed
<1>3. o.units \in Nat /\ c * 0 = 0
  BY DEF Outputs
<1>4. g = o.units
  BY <1>1, <1>2, <1>3, NoBodyNoData DEF Holds, Kept
<1> QED BY <1>1, <1>2, <1>4 DEF Holds, Opening

\* So is an answer that waits for the trailers.  One that does not, and discards
\* nothing, is left open by them.
LEMMA TrailersEnd ==
    ASSUME NEW L \in Seq(Messages), L # <<>>, Head(L).kind = "trailers",
           NEW w \in Writers, NEW r \in Exchanges, NEW a \in Apps,
           NEW o \in Outputs, NEW g \in Nat, NEW c \in Nat, w.pc = "run",
           Phase(w, r, o), Holds(L, w, r, a, o, g, c)
    PROVE  /\ w.awaiting => o.units = g /\ ~a.gaveUp /\ r.started /\ (r.bodyEnded \/ a.over)
           /\ ~w.awaiting => o.by = "bare" \/ o.end = "open"
           /\ w.discard => o.end = "ended"
<1>1. /\ w.started /\ r.started /\ ~w.ends /\ w.left = 0
      /\ w.discard => /\ ~w.trailers /\ ~w.awaiting /\ o.by = "bare" /\ o.end = "ended"
      /\ ~w.discard => w.trailers = r.announced /\ o.by = "app" /\ o.end = "open"
  BY BodyComesLater DEF Holds
<1>2. ASSUME w.awaiting
      PROVE  o.units = g /\ ~a.gaveUp /\ (r.bodyEnded \/ a.over)
  <2>1. ~Has(L, Body) /\ (r.bodyEnded \/ a.over) /\ ~a.gaveUp
    BY <1>2 DEF Holds, BodyLast, Closed
  <2>2. o.units \in Nat /\ c * 0 = 0
    BY DEF Outputs
  <2>3. g = o.units
    BY <1>1, <1>2, <2>1, <2>2, NoBodyNoData DEF Holds, Kept
  <2> QED BY <2>1, <2>3
<1> QED BY <1>1, <1>2

-----------------------------------------------------------------------------
\* The application puts a message on the line.

\* A start message.
LEMMA StartOnLine ==
    ASSUME NEW L \in Seq(Messages), NEW m \in Messages, m.kind = "start",
           NEW w \in Writers, NEW r \in Exchanges, NEW e \in Exchanges, NEW a \in Apps,
           NEW o \in Outputs, NEW g \in Nat, NEW c \in Nat,
           Phase(w, r, o), Holds(L, w, r, a, o, g, c),
           ~r.started, e.started, e.announced = m.trailers, e.bodyEnded = r.bodyEnded
    PROVE  /\ L = <<>> /\ ~r.announced /\ ~r.bodyEnded
           /\ Phase(w, e, o) /\ Holds(Append(L, m), w, e, a, o, g, c)
<1> DEFINE R == Append(L, m)
<1>1. ~w.started /\ L = <<>> /\ ~r.announced /\ ~r.bodyEnded
  BY DEF Holds, Opening
<1>2. ~w.discard /\ ~w.awaiting /\ ~w.ends
  BY <1>1 DEF Phase, Ready
<1>3. m \notin Body /\ m \notin Final /\ m \notin Loaded /\ m # Trailers
  BY KindsOfMessages
<1>4. /\ R \in Seq(Messages) /\ R # <<>> /\ R[1] = m /\ \A k \in DOMAIN R : k = 1 /\ R[k] = m
  <2>1. /\ R \in Seq(Messages) /\ R # <<>> /\ R[1] = m /\ Len(L) = 0
        /\ DOMAIN R = 1 .. Len(L) + 1
    BY <1>1, MoreOnLine
  <2>2. DOMAIN R = 1 .. 1
    BY <2>1
  <2> QED BY <2>1, <2>2
<1>5. Count(R, Loaded) = Count(L, Loaded)
  <2>1. Count(R, Loaded) = Count(L, Loaded) + 0
    BY <1>3, CountAppend
  <2>2. Count(L, Loaded) \in Nat
    BY CountIsNatural
  <2> HIDE DEF R
  <2> QED BY <2>1, <2>2
<1> HIDE DEF R
<1>6. Phase(w, e, o)
  BY <1>1 DEF Phase, Ready
<1>7. Opening(R, w, e)
  <2>1. e.started = (w.started \/ R # <<>>)
    BY <1>4 DEF Exchanges
  <2> QED BY <1>1, <1>4, <2>1 DEF Opening
<1>8. BodyLast(R, w, e, a)
  BY <1>2, <1>3, <1>4 DEF Holds, BodyLast, Closed, Has
<1>9. Kept(R, w, o, g, c)
  BY <1>5 DEF Holds, Kept
<1> QED BY <1>1, <1>6, <1>7, <1>8, <1>9 DEF Holds, R

\* A message behind the start, which leaves the exchange and the application as
\* e and b.
LEMMA LaterOnLine ==
    ASSUME NEW L \in Seq(Messages), NEW m \in Messages, m.kind # "start",
           NEW w \in Writers, NEW r \in Exchanges, NEW e \in Exchanges,
           NEW a \in Apps, NEW b \in Apps,
           NEW o \in Outputs, NEW g \in Nat, NEW h \in Nat, NEW c \in Nat,
           Phase(w, r, o), Holds(L, w, r, a, o, g, c),
           r.started, e.started, e.announced = r.announced, r.bodyEnded => e.bodyEnded,
           a.over => b.over, b.gaveUp => b.over,
           b.gaveUp => a.gaveUp \/ (~r.bodyEnded /\ ~a.over),
           m \in Body => ~r.bodyEnded /\ ~a.over,
           m \in Final => (e.bodyEnded \/ b.over) /\ ~b.gaveUp,
           h = IF m \in Loaded THEN g + c ELSE g
    PROVE  Phase(w, e, o) /\ Holds(Append(L, m), w, e, b, o, h, c)
<1> DEFINE R == Append(L, m)
           n == Len(L) + 1
<1>1. /\ R \in Seq(Messages) /\ R # <<>> /\ R[1] = (IF L = <<>> THEN m ELSE L[1])
      /\ Len(L) \in Nat /\ DOMAIN L = 1 .. Len(L) /\ DOMAIN R = 1 .. n
      /\ R[n] = m /\ \A k \in DOMAIN L : R[k] = L[k]
      /\ \A S : Has(R, S) <=> Has(L, S) \/ m \in S
  BY MoreOnLine
<1>2. n \in DOMAIN R /\ \A k \in DOMAIN R : k \in DOMAIN L \/ k = n
  BY <1>1
<1>3. Opening(L, w, r) /\ BodyLast(L, w, r, a) /\ Kept(L, w, o, g, c)
  BY DEF Holds
<1>4. Count(R, Loaded) = Count(L, Loaded) + (IF m \in Loaded THEN 1 ELSE 0)
      /\ Count(L, Loaded) \in Nat
  <2>1. Count(R, Loaded) = Count(L, Loaded) + (IF m \in Loaded THEN 1 ELSE 0)
    BY CountAppend
  <2>2. Count(L, Loaded) \in Nat
    BY CountIsNatural
  <2> HIDE DEF R
  <2> QED BY <2>1, <2>2
<1>5. (Has(R, Final) <=> Has(L, Final) \/ m \in Final) /\ (Has(R, Body) <=> Has(L, Body) \/ m \in Body)
  BY <1>1
<1>6. m \in Body => ~Closed(w) /\ ~Has(L, Final)
  BY <1>3 DEF BodyLast
<1> HIDE DEF R
<1>7. Phase(w, e, o)
  BY DEF Phase, Ready
<1>8. Opening(R, w, e)
  <2>1. e.started = (w.started \/ R # <<>>)
    BY <1>1 DEF Exchanges
  <2>2. L # <<>> \/ w.started
    BY <1>3 DEF Opening
  <2>3. ~w.started => R[1].kind = "start" /\ R[1].trailers = e.announced
    BY <1>1, <1>3, <2>2 DEF Opening
  <2>4. \A k \in DOMAIN R : R[k].kind = "start" => k = 1 /\ ~w.started
    BY <1>1, <1>2, <1>3 DEF Opening
  <2> QED BY <2>1, <2>3, <2>4 DEF Opening
<1>9. BodyLast(R, w, e, b)
  <2>1. ASSUME NEW j \in DOMAIN R, NEW k \in DOMAIN R, R[j] \in Final, R[k] \in Body
        PROVE  k <= j
    <3>1. CASE j = n
      BY <1>1, <3>1
    <3>2. CASE j \in DOMAIN L
      <4>1. Has(L, Final)
        BY <1>1, <2>1, <3>2 DEF Has
      <4>2. k \in DOMAIN L
        BY <1>1, <1>2, <1>6, <2>1, <4>1
      <4> QED BY <1>1, <1>3, <2>1, <3>2, <4>2 DEF BodyLast
    <3> QED BY <1>2, <3>1, <3>2
  <2>2. Closed(w) => ~Has(R, Body)
    BY <1>3, <1>5, <1>6 DEF BodyLast
  <2>3. Closed(w) \/ Has(R, Final) => (e.bodyEnded \/ b.over) /\ ~b.gaveUp
    BY <1>3, <1>5 DEF BodyLast
  <2> QED BY <2>1, <2>2, <2>3 DEF BodyLast
<1>10. Kept(R, w, o, h, c)
  <2> SUFFICES ASSUME ~w.discard PROVE h = o.units + w.left + c * Count(R, Loaded)
    BY DEF Kept
  <2>1. g = o.units + w.left + c * Count(L, Loaded) /\ o.units \in Nat /\ w.left \in Nat
    BY <1>3 DEF Kept, Outputs, Writers
  <2>2. c * (Count(L, Loaded) + 1) = c * Count(L, Loaded) + c /\ c * Count(L, Loaded) \in Nat
    BY <1>4, OneMore
  <2>3. CASE m \in Loaded
    <3> DEFINE p == c * Count(L, Loaded)
    <3>1. Count(R, Loaded) = Count(L, Loaded) + 1 /\ h = g + c
      BY <1>4, <2>3
    <3>2. c * Count(R, Loaded) = p + c /\ p \in Nat /\ g = o.units + w.left + p
      BY <2>1, <2>2, <3>1
    <3> HIDE DEF p
    <3> QED BY <2>1, <3>1, <3>2
  <2>4. CASE m \notin Loaded
    <3>1. Count(R, Loaded) = Count(L, Loaded)
      BY <1>4, <2>4
    <3> QED BY <2>1, <2>4, <3>1
  <2> QED BY <2>3, <2>4
<1> QED BY <1>7, <1>8, <1>9, <1>10 DEF Holds, R

\* No message: the application may only have ended, or waited.
LEMMA NothingOnLine ==
    ASSUME NEW L \in Seq(Messages), NEW w \in Writers, NEW r \in Exchanges, NEW e \in Exchanges,
           NEW a \in Apps, NEW b \in Apps, NEW o \in Outputs, NEW g \in Nat, NEW c \in Nat,
           Phase(w, r, o), Holds(L, w, r, a, o, g, c),
           e.started = r.started, e.announced = r.announced, e.bodyEnded = r.bodyEnded,
           a.over => b.over, b.gaveUp => a.gaveUp
    PROVE  Phase(w, e, o) /\ Holds(L, w, e, b, o, g, c)
<1>1. Phase(w, e, o)
  BY DEF Phase, Ready
<1>2. Opening(L, w, e) /\ Kept(L, w, o, g, c)
  BY DEF Holds, Opening
<1>3. BodyLast(L, w, e, b)
  BY DEF Holds, BodyLast
<1> QED BY <1>1, <1>2, <1>3 DEF Holds

-----------------------------------------------------------------------------
\* The line of a stream, and what a step does to it.

\* A writer takes the first of its line.
LEMMA LineTaken ==
    ASSUME NEW i \in Requests, TypedOf(i), ex[i].send # <<>>,
           app'[i] = app[i], ex'[i].send = Tail(ex[i].send)
    PROVE  /\ Line(i) \in Seq(Messages) /\ Line(i) # <<>>
           /\ Head(Line(i)) = Head(ex[i].send) /\ Line(i)' = Tail(Line(i))
<1>1. ex[i].send \in Seq(Messages) /\ app[i].todo \in Seq(Messages)
  BY DEF TypedOf, Exchanges, Apps
<1> DEFINE s == ex[i].send
           t == app[i].todo
<1>2. s \o t \in Seq(Messages)
  BY <1>1, ConcatProperties
<1>3. s \o t # <<>> /\ Head(s \o t) = Head(s) /\ Tail(s \o t) = Tail(s) \o t
  BY <1>1, HeadOfBoth
<1> QED BY <1>2, <1>3 DEF Line

\* An application queues behind it, as long as its answer is not over.
LEMMA LineQueued ==
    ASSUME NEW i \in Requests, TypedOf(i), NEW r \in Exchanges, NEW todo \in Seq(Messages),
           NEW a \in Apps, Queueing(i, r, todo, a),
           ~r.finished, r.send = ex[i].send
    PROVE  /\ Line(i)' = ex[i].send \o todo /\ SameFlags(r, ex'[i])
           /\ app'[i].over = a.over /\ app'[i].gaveUp = a.gaveUp /\ Waits(app'[i])
BY QueuedLine DEF TypedOf

\* With nothing said, the line is what the queue holds.
LEMMA LineOfQueue ==
    ASSUME NEW i \in Requests, TypedOf(i), app[i].todo = <<>>
    PROVE  Line(i) = ex[i].send /\ Line(i) \in Seq(Messages)
<1>1. ex[i].send \in Seq(Messages)
  BY DEF TypedOf, Exchanges
<1>2. ex[i].send \o <<>> = ex[i].send
  BY <1>1, ConcatEmptySeq
<1> QED BY <1>1, <1>2 DEF Line

\* A stream whose writer is at work, whatever its application sends.
LEMMA SendsAnswering ==
    ASSUME NEW i \in Requests, TypedOf(i), Sides(i), Answering(i), ~Over(writer[i]),
           NEW m \in Says[i], app[i].pc = "run", InPlace(ex[i], m), InTurn(ex[i], m),
           Queueing(i, Noted(ex[i], m), <<m>>, [app[i] EXCEPT !.sends = app[i].sends + 1]),
           writer'[i] = writer[i], out'[i] = out[i],
           given'[i] = IF m.kind = "body" /\ m.data THEN given[i] + Chunk[i] ELSE given[i]
    PROVE  Answering(i)'
<1> DEFINE w == writer[i]
           r == ex[i]
           e == Noted(ex[i], m)
           a == app[i]
           b == [app[i] EXCEPT !.sends = app[i].sends + 1]
           o == out[i]
           g == given[i]
           c == Chunk[i]
           L == ex[i].send
           R == Append(L, m)
<1>1. w \in Writers /\ r \in Exchanges /\ a \in Apps /\ o \in Outputs /\ g \in Nat /\ c \in Nat
  BY ConstantsOf DEF TypedOf
<1>2. m \in Messages /\ m.kind # "interim"
  BY ConstantsOf, KindsOfMessages
<1>3. ~a.over /\ a.todo = <<>> /\ Phase(w, r, o) /\ Holds(Line(i), w, r, a, o, g, c)
  BY DEF Answering, Waits
<1>4. L \in Seq(Messages) /\ Holds(L, w, r, a, o, g, c)
  BY <1>3, LineOfQueue
<1>5. b \in Apps /\ b.over = a.over /\ b.gaveUp = a.gaveUp
  BY <1>1 DEF Apps
<1>6. /\ e \in Exchanges /\ ~e.finished /\ e.send = r.send
  <2>1. ~r.finished
    BY DEF Sides, Over, Stopped
  <2> QED BY <1>1, <1>2, <2>1, NotedActs DEF SameState
<1>7. /\ Line(i)' = R /\ SameFlags(e, ex'[i])
      /\ app'[i].over = a.over /\ app'[i].gaveUp = a.gaveUp /\ Waits(app'[i])
  <2>1. <<m>> \in Seq(Messages)
    BY <1>2, Pair
  <2>2. Line(i)' = ex[i].send \o <<m>> /\ SameFlags(e, ex'[i])
        /\ app'[i].over = b.over /\ app'[i].gaveUp = b.gaveUp /\ Waits(app'[i])
    BY <1>5, <1>6, <2>1, LineQueued
  <2>3. L \o <<m>> = R
    BY <1>2, <1>4, AppendIsConcat
  <2> QED BY <1>5, <2>2, <2>3
<1>8. ex'[i] \in Exchanges /\ app'[i] \in Apps
  <2>1. <<m>> \in Seq(Messages) /\ Len(e.send) <= SendMax
    BY <1>2, <1>6, Pair DEF TypedOf
  <2> QED BY <1>5, <1>6, <2>1, QueueingTyped
<1>9. InPlace(r, m) /\ InTurn(r, m)
  OBVIOUS
<1>10. given'[i] = (IF m.kind = "body" /\ m.data THEN g + c ELSE g) /\ given'[i] \in Nat
  BY <1>1
<1> DEFINE h == given'[i]
<1>11. Phase(w, e, o) /\ Holds(R, w, e, a, o, h, c)
  <2> HIDE DEF w, r, e, a, b, o, g, c, L, h
  <2>1. CASE m.kind = "start"
    <3>1. /\ ~r.started /\ e.started /\ e.announced = m.trailers /\ e.bodyEnded = r.bodyEnded
      BY <1>1, <1>2, <1>9, <2>1, NotedFlags DEF InPlace, e, r
    <3>2. h = g
      BY <1>10, <2>1 DEF h
    <3> QED BY <1>1, <1>2, <1>3, <1>4, <1>6, <2>1, <3>1, <3>2, StartOnLine
  <2>2. CASE m.kind = "body"
    <3>1. r.started /\ ~r.bodyEnded
      BY <1>9, <2>2 DEF InPlace, InTurn
    <3>2. /\ e.started = r.started /\ e.announced = r.announced
          /\ e.bodyEnded <=> r.bodyEnded \/ m \in Final
      BY <1>1, <1>2, <2>2, NotedFlags DEF e, r
    <3>3. (m \in Loaded <=> m.data) /\ m.data \in BOOLEAN /\ m # Trailers
      BY <1>2, <2>2, KindsOfMessages
    <3>4. h = IF m \in Loaded THEN g + c ELSE g
      BY <1>10, <2>2, <3>3 DEF h
    <3>5. ~a.gaveUp
      BY <1>3, <1>4 DEF Holds, BodyLast
    <3>6. h \in Nat /\ m.kind # "start"
      BY <1>10, <2>2 DEF h
    <3>7. /\ r.started /\ e.started /\ e.announced = r.announced
          /\ r.bodyEnded => e.bodyEnded
          /\ a.over => a.over
          /\ a.gaveUp => a.over
          /\ a.gaveUp => a.gaveUp \/ (~r.bodyEnded /\ ~a.over)
          /\ m \in Body => ~r.bodyEnded /\ ~a.over
          /\ m \in Final => (e.bodyEnded \/ a.over) /\ ~a.gaveUp
      BY <1>3, <3>1, <3>2, <3>3, <3>5
    <3> QED BY <1>1, <1>2, <1>3, <1>4, <1>6, <3>4, <3>6, <3>7, LaterOnLine
  <2>3. CASE m.kind = "trailers"
    <3>1. r.started
      BY <1>9, <2>3 DEF InPlace, InTurn
    <3>2. e.started = r.started /\ e.announced = r.announced /\ e.bodyEnded
      BY <1>1, <1>2, <2>3, NotedFlags DEF e, r
    <3>3. m \notin Body /\ m \notin Final /\ m \notin Loaded /\ m.kind # "start"
      BY <1>2, <2>3, KindsOfMessages
    <3>4. h = IF m \in Loaded THEN g + c ELSE g
      BY <1>10, <2>3, <3>3 DEF h
    <3>5. h \in Nat /\ (a.gaveUp => a.over)
      BY <1>1, <1>3, <1>4, <1>10 DEF h, Holds, BodyLast
    <3> QED BY <1>1, <1>2, <1>3, <1>4, <1>6, <3>1, <3>2, <3>3, <3>4, <3>5, LaterOnLine
  <2> QED BY <1>2, <2>1, <2>2, <2>3, KindsOfMessages
<1>12. R \in Seq(Messages) /\ h \in Nat
  BY <1>2, <1>4, <1>10, MoreOnLine
<1>13. Phase(w, ex'[i], o) /\ Holds(R, w, ex'[i], app'[i], o, h, c)
  <2> HIDE DEF w, e, a, o, c, R, h
  <2> QED BY <1>1, <1>6, <1>7, <1>8, <1>11, <1>12, NothingOnLine DEF SameFlags
<1> QED BY <1>7, <1>13 DEF Answering

\* ... and whatever run_app sends when the application ends.
LEMMA EndsAnswering ==
    ASSUME NEW i \in Requests, TypedOf(i), Sides(i), Answering(i), ~Over(writer[i]),
           NEW how \in Endings, app[i].pc = "run", MayEnd(ex[i], how),
           NEW up \in BOOLEAN, up <=> how # "return" /\ ex[i].started /\ ~ex[i].bodyEnded,
           Queueing(i, Ended(ex[i], how), LastWords(ex[i], how),
                    [app[i] EXCEPT !.over = TRUE, !.gaveUp = up]),
           writer'[i] = writer[i], out'[i] = out[i],
           given'[i] = IF LastWords(ex[i], how) = Whole THEN given[i] + Chunk[i] ELSE given[i]
    PROVE  Answering(i)'
<1> DEFINE w == writer[i]
           r == ex[i]
           e == Ended(ex[i], how)
           a == app[i]
           b == [app[i] EXCEPT !.over = TRUE, !.gaveUp = up]
           o == out[i]
           g == given[i]
           h == given'[i]
           c == Chunk[i]
           L == ex[i].send
           todo == LastWords(ex[i], how)
           R == L \o todo
<1>1. w \in Writers /\ r \in Exchanges /\ a \in Apps /\ o \in Outputs /\ g \in Nat /\ c \in Nat
  BY ConstantsOf DEF TypedOf
<1>2. todo \in Seq(Messages)
  BY <1>1, LastWordsAreMessages
<1>3. ~a.over /\ a.todo = <<>> /\ Phase(w, r, o) /\ Holds(Line(i), w, r, a, o, g, c)
  BY DEF Answering, Waits
<1>4. L \in Seq(Messages) /\ Holds(L, w, r, a, o, g, c)
  BY <1>3, LineOfQueue
<1>5. b \in Apps /\ b.over /\ b.gaveUp = up
  BY <1>1 DEF Apps
<1>6. /\ e \in Exchanges /\ ~e.finished /\ e.send = r.send
      /\ e.started <=> r.started \/ todo # <<>>
      /\ e.announced = r.announced /\ e.bodyEnded = r.bodyEnded
  <2>1. ~r.finished
    BY DEF Sides, Over, Stopped
  <2>2. /\ e \in Exchanges /\ SameState(r, e) /\ e.send = r.send
        /\ e.started = (r.started \/ todo # <<>>)
        /\ e.announced = r.announced /\ e.bodyEnded = r.bodyEnded
    BY <1>1, EndedActs
  <2> HIDE DEF e, todo
  <2>3. e.started <=> r.started \/ todo # <<>>
    BY <2>2
  <2> QED BY <2>1, <2>2, <2>3 DEF SameState
<1>7. /\ Line(i)' = R /\ SameFlags(e, ex'[i])
      /\ app'[i].over = b.over /\ app'[i].gaveUp = b.gaveUp /\ Waits(app'[i])
  BY <1>2, <1>5, <1>6, LineQueued
<1>8. ex'[i] \in Exchanges /\ app'[i] \in Apps
  <2>1. Len(e.send) <= SendMax
    BY <1>6 DEF TypedOf
  <2> QED BY <1>2, <1>5, <1>6, <2>1, QueueingTyped
<1>9. h = (IF todo = Whole THEN g + c ELSE g) /\ h \in Nat
  BY <1>1
<1>10. /\ up <=> how # "return" /\ r.started /\ ~r.bodyEnded
       /\ ~r.started => ~r.announced /\ ~r.bodyEnded
       /\ ~a.gaveUp
  BY <1>3, <1>4 DEF Holds, Opening, BodyLast
<1>11. \/ /\ todo = <<>>
          /\ r.started
          /\ how # "return" => r.bodyEnded
       \/ /\ todo = <<Trailers>>
          /\ r.started /\ r.announced /\ ~r.trailersSent
          /\ how # "return" => r.bodyEnded
       \/ /\ todo = <<BodyMessage(FALSE, FALSE)>>
          /\ r.started /\ ~r.bodyEnded /\ how = "return"
       \/ /\ todo = <<AbortedEnd>>
          /\ r.started /\ ~r.bodyEnded /\ how # "return"
       \/ todo = Whole /\ ~r.started
       \/ todo = Opens /\ ~r.started
  <2>1. ~r.complete
    BY DEF Sides, Over, Stopped
  <2> QED BY <1>1, <1>10, <2>1, LastWordsAre
<1>13. /\ StartMessage("none", FALSE) \in Messages /\ StartMessage("chunked", FALSE) \in Messages
       /\ BodyMessage(FALSE, FALSE) \in Messages /\ BodyMessage(TRUE, FALSE) \in Messages
       /\ AbortedEnd \in Messages /\ Trailers \in Messages
  BY DEF Messages, StartMessage, BodyMessage, AbortedEnd, Trailers, Interim, Framings
<1> HIDE DEF w, r, e, a, b, o, g, h, c, L, todo
\* One message, behind the start.
<1>14. ASSUME NEW m \in Messages, todo = <<m>>, r.started, m.kind # "start", m \notin Loaded,
              m \in Body => ~r.bodyEnded, m \in Final => ~up
       PROVE  Phase(w, e, o) /\ Holds(R, w, e, b, o, h, c)
  <2>1. L \o <<m>> = Append(L, m)
    BY <1>4, AppendIsConcat
  <2>2. todo # Whole
    BY <1>14 DEF Whole
  <2>3. /\ e.started /\ e.announced = r.announced /\ (r.bodyEnded => e.bodyEnded)
        /\ (a.over => b.over) /\ (b.gaveUp => b.over)
        /\ (b.gaveUp => a.gaveUp \/ (~r.bodyEnded /\ ~a.over))
        /\ (m \in Body => ~r.bodyEnded /\ ~a.over)
        /\ (m \in Final => (e.bodyEnded \/ b.over) /\ ~b.gaveUp)
    BY <1>3, <1>5, <1>6, <1>10, <1>14
  <2>4. h = IF m \in Loaded THEN g + c ELSE g
    BY <1>9, <1>14, <2>2
  <2>5. Phase(w, e, o) /\ Holds(Append(L, m), w, e, b, o, h, c)
    BY <1>1, <1>3, <1>4, <1>5, <1>6, <1>9, <1>14, <2>3, <2>4, LaterOnLine
  <2> QED BY <1>14, <2>1, <2>5
\* A start and all of a body.
<1>15. ASSUME NEW m \in Messages, NEW l \in Messages, todo = <<m, l>>, ~r.started,
              m.kind = "start", m.trailers = FALSE, l \in Final,
              l \in Loaded <=> todo = Whole
       PROVE  Phase(w, e, o) /\ Holds(R, w, e, b, o, h, c)
  <2>1. ~r.announced /\ ~r.bodyEnded /\ e.started
    BY <1>6, <1>10, <1>15
  <2>2. L = <<>> /\ Phase(w, e, o) /\ Holds(Append(L, m), w, e, a, o, g, c)
    <3>1. e.announced = m.trailers /\ e.bodyEnded = r.bodyEnded
      BY <1>1, <1>6, <1>15, <2>1 DEF Exchanges
    <3> QED BY <1>1, <1>3, <1>4, <1>6, <1>15, <2>1, <3>1, StartOnLine
  <2>3. Append(L, m) \in Seq(Messages)
    BY <1>4, <1>15, MoreOnLine
  <2>4. /\ l.kind # "start" /\ l # Trailers /\ l \in Body
    BY <1>15, KindsOfMessages
  <2>5. /\ ~e.bodyEnded /\ ~e.announced /\ ~a.over /\ b.over /\ ~b.gaveUp
    BY <1>1, <1>3, <1>5, <1>6, <1>10, <1>15, <2>1
  <2>6. h = IF l \in Loaded THEN g + c ELSE g
    BY <1>9, <1>15
  <2>7. Phase(w, e, o) /\ Holds(Append(Append(L, m), l), w, e, b, o, h, c)
    BY <1>1, <1>5, <1>6, <1>9, <2>1, <2>2, <2>3, <2>4, <2>5, <2>6, LaterOnLine
  <2>8. Append(Append(L, m), l) = R
    <3>1. Append(<<>>, m) = <<m>> /\ Append(<<m>>, l) = <<m, l>> /\ <<m, l>> \in Seq(Messages)
      <4>1. Append(<<m>>, l) = <<m, l>> /\ <<m, l>> \in Seq(Messages)
        BY Pair
      <4>2. Append(<<>>, m) = <<>> \o <<m>> /\ <<>> \o <<m>> = <<m>>
        BY EmptySeq, AppendIsConcat, ConcatEmptySeq, Pair
      <4> QED BY <4>1, <4>2
    <3>2. <<>> \o <<m, l>> = <<m, l>>
      BY <3>1, ConcatEmptySeq
    <3> QED BY <1>15, <2>2, <3>1, <3>2
  <2> QED BY <2>7, <2>8
<1>16. Phase(w, e, o) /\ Holds(R, w, e, b, o, h, c)
  <2>1. CASE todo = <<>> /\ r.started /\ (how # "return" => r.bodyEnded)
    <3>1. R = L /\ h = g
      BY <1>4, <1>9, <2>1, ConcatEmptySeq DEF Whole
    <3>2. e.started = r.started
      BY <1>1, <1>6, <2>1 DEF Exchanges
    <3>3. (a.over => b.over) /\ (b.gaveUp => a.gaveUp)
      BY <1>3, <1>5, <1>10, <2>1
    <3> QED BY <1>1, <1>3, <1>4, <1>5, <1>6, <3>1, <3>2, <3>3, NothingOnLine
  <2>2. CASE /\ todo = <<Trailers>> /\ r.started /\ r.announced /\ ~r.trailersSent
             /\ how # "return" => r.bodyEnded
    <3>1. /\ Trailers \notin Body /\ Trailers \notin Final /\ Trailers \notin Loaded
          /\ Trailers.kind # "start"
      BY <1>13, KindsOfMessages DEF Trailers
    <3> QED BY <1>13, <1>14, <2>2, <3>1
  <2>3. CASE todo = <<BodyMessage(FALSE, FALSE)>> /\ r.started /\ ~r.bodyEnded /\ how = "return"
    <3>1. /\ BodyMessage(FALSE, FALSE) \notin Loaded /\ BodyMessage(FALSE, FALSE) # Trailers
          /\ BodyMessage(FALSE, FALSE).kind # "start"
      BY DEF BodyMessage, Loaded, Trailers
    <3> QED BY <1>10, <1>13, <1>14, <2>3, <3>1
  <2>4. CASE todo = <<AbortedEnd>> /\ r.started /\ ~r.bodyEnded /\ how # "return"
    <3>1. /\ AbortedEnd \notin Loaded /\ AbortedEnd # Trailers /\ AbortedEnd \notin Final
          /\ AbortedEnd.kind # "start"
      BY DEF AbortedEnd, Loaded, Trailers, Final
    <3> QED BY <1>13, <1>14, <2>4, <3>1
  <2>5. CASE todo = Whole /\ ~r.started
    <3>1. /\ StartMessage("chunked", FALSE).kind = "start"
          /\ StartMessage("chunked", FALSE).trailers = FALSE
          /\ BodyMessage(TRUE, FALSE) \in Final /\ BodyMessage(TRUE, FALSE) \in Loaded
      BY DEF StartMessage, BodyMessage, Loaded, Final
    <3> QED BY <1>13, <1>15, <2>5, <3>1 DEF Whole
  <2>6. CASE todo = Opens /\ ~r.started
    <3>1. /\ StartMessage("none", FALSE).kind = "start"
          /\ StartMessage("none", FALSE).trailers = FALSE
          /\ BodyMessage(FALSE, FALSE) \in Final /\ BodyMessage(FALSE, FALSE) \notin Loaded
      BY DEF StartMessage, BodyMessage, Loaded, Final
    <3>2. Opens # Whole
      <4>1. Opens[1].framing = "none" /\ Whole[1].framing = "chunked"
        BY DEF Opens, Whole, StartMessage
      <4> QED BY <4>1
    <3> QED BY <1>13, <1>15, <2>6, <3>1, <3>2 DEF Opens
  <2> QED BY <1>11, <2>1, <2>2, <2>3, <2>4, <2>5, <2>6
<1>17. R \in Seq(Messages)
  BY <1>2, <1>4, ConcatProperties
<1>18. Phase(w, ex'[i], o) /\ Holds(R, w, ex'[i], app'[i], o, h, c)
  <2>1. (b.over => app'[i].over) /\ (app'[i].gaveUp => b.gaveUp)
    BY <1>7
  <2> HIDE DEF R
  <2> QED BY <1>1, <1>5, <1>6, <1>7, <1>8, <1>9, <1>16, <1>17, <2>1, NothingOnLine DEF SameFlags
<1> QED BY <1>7, <1>18 DEF Answering, w, o, h, c

\* An application that waited for room goes on with what it had left.
LEMMA WakesAnswering ==
    ASSUME NEW i \in Requests, TypedOf(i), Sides(i), Answering(i), ~Over(writer[i]),
           Queueing(i, ex[i], app[i].todo, app[i]),
           writer'[i] = writer[i], out'[i] = out[i], given'[i] = given[i]
    PROVE  Answering(i)'
<1> DEFINE w == writer[i]
           r == ex[i]
           a == app[i]
           o == out[i]
           g == given[i]
           c == Chunk[i]
           L == Line(i)
<1>1. /\ w \in Writers /\ r \in Exchanges /\ a \in Apps /\ o \in Outputs /\ g \in Nat
      /\ c \in Nat /\ a.todo \in Seq(Messages) /\ r.send \in Seq(Messages)
      /\ Len(r.send) <= SendMax
  BY ConstantsOf DEF TypedOf, Apps, Exchanges
<1>2. Phase(w, r, o) /\ Holds(L, w, r, a, o, g, c)
  BY DEF Answering
<1>3. ~r.finished
  BY DEF Sides, Over, Stopped
<1>4. /\ L' = L /\ SameFlags(r, ex'[i])
      /\ app'[i].over = a.over /\ app'[i].gaveUp = a.gaveUp /\ Waits(app'[i])
  <2>1. /\ Line(i)' = ex[i].send \o app[i].todo /\ SameFlags(r, ex'[i])
        /\ app'[i].over = a.over /\ app'[i].gaveUp = a.gaveUp /\ Waits(app'[i])
    BY <1>1, <1>3, LineQueued
  <2> QED BY <2>1 DEF Line
<1>5. L \in Seq(Messages)
  BY <1>1, ConcatProperties DEF Line
<1>6. ex'[i] \in Exchanges /\ app'[i] \in Apps
  BY <1>1, QueueingTyped
<1>7. Phase(w, ex'[i], o) /\ Holds(L, w, ex'[i], app'[i], o, g, c)
  <2> HIDE DEF w, r, a, o, g, c, L
  <2> QED BY <1>1, <1>2, <1>4, <1>5, <1>6, NothingOnLine DEF SameFlags
<1> QED BY <1>4, <1>7 DEF Answering

-----------------------------------------------------------------------------
\* A writer keeps to its line, and tells the peer how the answer ends.

\* What was given of an answer is what went out of it, and no more will.
AllSent(i) ==
    /\ out'[i].units = given[i] /\ ~app[i].gaveUp /\ ex[i].started
    /\ ex[i].bodyEnded \/ app[i].over

\* Where a step leaves a writer that it ends.
Finishes(i) ==
    writer'[i].pc \in Stopped =>
        /\ out'[i].by = "app" /\ out'[i].end = "ended" => out'[i] = out[i] \/ AllSent(i)
        /\ writer'[i].pc = "done" /\ ~closed /\ ~goaway => out'[i].end # "open"

\* A writer that sends what it has.
LEMMA SendingActs ==
    ASSUME NEW i \in Requests, TypedOf(i), NEW L \in Seq(Messages), NEW x \in Writers,
           NEW r \in Exchanges, Len(r.send) <= SendMax, SameFlags(ex[i], r),
           Sending(i, x, r), x.pc \notin Stopped,
           Ready(x, r, out[i]), Holds(L, x, r, app[i], out[i], given[i], Chunk[i]),
           ~x.discard => out[i].end = "open" \/ (x.ends /\ x.left = 0 /\ out[i].end = "ended")
    PROVE  /\ writer'[i].pc \notin Stopped =>
                /\ ex'[i] = r /\ Phase(writer'[i], r, out'[i])
                /\ Holds(L, writer'[i], r, app[i], out'[i], given[i], Chunk[i])
           /\ Finishes(i)
<1> DEFINE a == app[i]
           o == out[i]
           u == out'[i]
           g == given[i]
           c == Chunk[i]
<1>1. a \in Apps /\ o \in Outputs /\ g \in Nat /\ c \in Nat /\ u \in Outputs
  BY ConstantsOf, SendingTyped DEF TypedOf
<1>2. PICK n \in 0 .. x.left :
        /\ out'[i] = [out[i] EXCEPT !.units = out[i].units + n,
                        !.end = IF x.ends /\ n = x.left THEN "ended" ELSE out[i].end]
        /\ \/ n = x.left /\ x.last /\ Ending(i, r)
           \/ n = x.left /\ ~x.last /\ Going(i, [x EXCEPT !.left = 0, !.pc = "run"], r)
           \/ Going(i, [x EXCEPT !.left = x.left - n, !.pc = "paused"], r)
           \/ n < x.left /\ Going(i, [x EXCEPT !.left = x.left - n, !.pc = "window"], r)
  BY DEF Sending
<1>3. x.left \in Nat /\ x.left - n \in Nat
  BY DEF Writers
<1>4. /\ u.by = o.by /\ u.units = o.units + n
      /\ u.end = IF x.ends /\ n = x.left THEN "ended" ELSE o.end
  BY <1>1, <1>2 DEF Outputs
<1>5. /\ Ready(x, r, o) /\ Holds(L, x, r, a, o, g, c)
      /\ ~x.discard => o.end = "open" \/ (x.ends /\ x.left = 0 /\ o.end = "ended")
  OBVIOUS
<1>6. ASSUME NEW q \in {"run", "paused", "window"}, q = "run" => n = x.left /\ ~x.last
      PROVE  LET v == [x EXCEPT !.left = x.left - n, !.pc = q]
             IN  v \in Writers /\ v.pc = q /\ Phase(v, r, u) /\ Holds(L, v, r, a, u, g, c)
  <2> DEFINE v == [x EXCEPT !.left = x.left - n, !.pc = q]
  <2>1. /\ v \in Writers /\ v.started = x.started /\ v.discard = x.discard
        /\ v.trailers = x.trailers /\ v.awaiting = x.awaiting /\ v.ends = x.ends
        /\ v.last = x.last /\ v.left = x.left - n /\ v.pc = q
    BY <1>3 DEF Writers
  <2> HIDE DEF v, a, o, u, g, c
  <2>2. Phase(v, r, u) /\ Holds(L, v, r, a, u, g, c)
    BY <1>1, <1>4, <1>5, <1>6, <2>1, SendingKeeps
  <2> QED BY <2>1, <2>2 DEF v
<1>7. CASE n = x.left /\ x.last /\ Ending(i, r)
  <2>1. writer'[i].pc \in Stopped
    BY <1>7, EndingStops
  <2>2. x.ends /\ u.end = "ended"
    BY <1>4, <1>5, <1>7 DEF Ready
  <2>3. u.by = "app" => u.units = g /\ ~a.gaveUp /\ r.started /\ (r.bodyEnded \/ a.over)
    <3> DEFINE v == [x EXCEPT !.left = x.left - n, !.pc = "paused"]
    <3>1. v \in Writers /\ Phase(v, r, u) /\ Holds(L, v, r, a, u, g, c)
      BY <1>6
    <3> HIDE DEF v, a, o, u, g, c
    <3> QED BY <1>1, <2>2, <3>1, EndIsWhole
  <2>4. Finishes(i)
    BY <2>2, <2>3 DEF Finishes, AllSent, SameFlags
  <2> QED BY <2>1, <2>4
<1>8. ASSUME NEW q \in {"run", "paused", "window"}, q = "run" => n = x.left /\ ~x.last,
             Going(i, [x EXCEPT !.left = x.left - n, !.pc = q], r)
      PROVE  /\ ex'[i] = r /\ Phase(writer'[i], r, out'[i])
             /\ Holds(L, writer'[i], r, app[i], out'[i], given[i], Chunk[i])
             /\ writer'[i].pc \notin Stopped
  <2>1. ex'[i] = r /\ writer'[i] = [x EXCEPT !.left = x.left - n, !.pc = q]
    BY <1>8 DEF Going
  <2>2. q \notin Stopped
    BY <1>8 DEF Stopped
  <2> QED BY <1>6, <1>8, <2>1, <2>2
<1>9. n = x.left => x.left - n = 0
  BY <1>3
<1>10. CASE n = x.left /\ ~x.last /\ Going(i, [x EXCEPT !.left = 0, !.pc = "run"], r)
  BY <1>8, <1>9, <1>10 DEF Finishes
<1>11. CASE Going(i, [x EXCEPT !.left = x.left - n, !.pc = "paused"], r)
  BY <1>8, <1>11 DEF Finishes
<1>12. CASE Going(i, [x EXCEPT !.left = x.left - n, !.pc = "window"], r)
  BY <1>8, <1>12 DEF Finishes
<1> QED BY <1>2, <1>7, <1>10, <1>11, <1>12

\* Whatever a writer does.
LEMMA WrittenAnswering ==
    ASSUME NEW i \in Requests, TypedOf(i), Sides(i), Answering(i), Written(i)
    PROVE  Answering(i)' /\ Finishes(i) /\ SameFlags(ex[i], ex'[i])
<1> DEFINE w == writer[i]
           r == ex[i]
           a == app[i]
           o == out[i]
           g == given[i]
           c == Chunk[i]
           s == ex[i].send
           L == Line(i)
           R == Tail(L)
           m == Head(ex[i].send)
           e == Taken(ex[i])
<1>1. /\ w \in Writers /\ r \in Exchanges /\ a \in Apps /\ o \in Outputs /\ g \in Nat
      /\ c \in Nat /\ a.todo \in Seq(Messages) /\ s \in Seq(Messages)
      /\ Len(s) \in Nat /\ Len(s) <= SendMax
  BY ConstantsOf, LenProperties DEF TypedOf, Apps, Exchanges
<1>2. ~Over(w) /\ app'[i] = a /\ given'[i] = g
  BY DEF Written, Over, Stopped
<1>3. L \in Seq(Messages) /\ Phase(w, r, o) /\ Waits(a) /\ Holds(L, w, r, a, o, g, c)
  <2>1. L \in Seq(Messages)
    BY <1>1, ConcatProperties DEF Line
  <2> QED BY <1>2, <2>1 DEF Answering
<1>4. s # <<>> =>
        /\ e \in Exchanges /\ SameFlags(r, e) /\ e.send = Tail(s) /\ m \in Messages
        /\ Len(e.send) <= SendMax
  <2> SUFFICES ASSUME s # <<>>
               PROVE  /\ e \in Exchanges /\ SameFlags(r, e) /\ e.send = Tail(s)
                      /\ m \in Messages /\ Len(e.send) <= SendMax
    OBVIOUS
  <2>1. /\ e \in Exchanges /\ SameFlags(r, e) /\ e.send = Tail(s) /\ m \in Messages
        /\ Len(e.send) = Len(s) - 1
    BY <1>1, TakenActs
  <2> HIDE DEF e, m, s
  <2> QED BY <1>1, <2>1, ConstantsOf
<1>5. s # <<>> => L # <<>> /\ Head(L) = m /\ R \in Seq(Messages)
  <2> SUFFICES ASSUME s # <<>> PROVE L # <<>> /\ Head(L) = m /\ R \in Seq(Messages)
    OBVIOUS
  <2>1. L # <<>> /\ Head(L) = m
    BY <1>1, HeadOfBoth DEF Line
  <2> QED BY <1>3, <2>1, TailPoints
<1>6. s # <<>> /\ ex'[i] = e => Line(i)' = R
  <2> SUFFICES ASSUME s # <<>>, ex'[i] = e PROVE Line(i)' = R
    OBVIOUS
  <2>1. ex'[i].send = Tail(ex[i].send) /\ app'[i] = app[i]
    BY <1>2, <1>4
  <2>2. Line(i)' = Tail(Line(i))
    BY <2>1, LineTaken
  <2> QED BY <2>2
<1>7. SameFlags(r, r)
  BY DEF SameFlags
<1> DEFINE Fine == Answering(i)' /\ Finishes(i) /\ SameFlags(ex[i], ex'[i])
<1> SUFFICES Fine
  OBVIOUS
\* A writer that ends leaves nothing to answer.
<1>8. ASSUME NEW x \in Exchanges, SameFlags(r, x), Ending(i, x),
             out'[i].by = "app" /\ out'[i].end = "ended" => out'[i] = o \/ AllSent(i),
             writer'[i].pc = "done" /\ ~closed /\ ~goaway => out'[i].end # "open"
      PROVE  Fine
  <2>1. writer'[i].pc \in Stopped /\ ex'[i] = Completed(x)
    BY <1>8, EndingStops DEF Ending
  <2>2. SameFlags(ex[i], ex'[i])
    BY <1>8, <2>1, CompletedActs DEF SameAnswer, SameFlags
  <2> QED BY <1>8, <2>1, <2>2 DEF Answering, Over, Stopped, Finishes
<1>9. ASSUME s # <<>>, NEW v, Going(i, v, e), ~Over(v),
             Phase(v, r, out'[i]), Holds(R, v, r, a, out'[i], g, c)
      PROVE  Fine
  <2>1. ex'[i] = e /\ writer'[i] = v
    BY <1>9 DEF Going
  <2>2. Line(i)' = R
    BY <1>6, <1>9, <2>1
  <2>3. Phase(v, e, out'[i]) /\ Holds(R, v, e, a, out'[i], g, c)
    BY <1>4, <1>9 DEF SameFlags, Phase, Ready, Holds, Opening, BodyLast
  <2>4. Answering(i)'
    BY <1>2, <1>3, <2>1, <2>2, <2>3 DEF Answering
  <2> QED BY <1>4, <1>9, <2>1, <2>4 DEF Finishes, Over, Stopped
\* A writer that sends what it took, or what it had left.
<1>10. ASSUME NEW x \in Writers, Sending(i, x, e), s # <<>>, x.pc = "run",
              Ready(x, r, o), Holds(R, x, r, a, o, g, c), o.end = "open"
       PROVE  Fine
  <2>1. Ready(x, e, o) /\ Holds(R, x, e, a, o, g, c)
    BY <1>4, <1>10 DEF SameFlags, Ready, Holds, Opening, BodyLast
  <2>2. /\ writer'[i].pc \notin Stopped =>
              /\ ex'[i] = e /\ Phase(writer'[i], e, out'[i])
              /\ Holds(R, writer'[i], e, a, out'[i], g, c)
        /\ Finishes(i)
    <3> HIDE DEF L, e, R
    <3>1. /\ R \in Seq(Messages) /\ e \in Exchanges /\ Len(e.send) <= SendMax
          /\ SameFlags(ex[i], e)
      BY <1>4, <1>5, <1>10
    <3>2. x.pc \notin Stopped
      BY <1>10 DEF Stopped
    <3> QED BY <1>10, <2>1, <3>1, <3>2, SendingActs
  <2>3. writer'[i].pc \notin Stopped => Fine
    BY <1>2, <1>3, <1>4, <1>6, <1>10, <2>2 DEF Answering
  <2>4. writer'[i].pc \in Stopped => Fine
    <3>1. ex'[i] = e \/ ex'[i] = Completed(e)
      BY <1>10 DEF Sending, Going, Ending
    <3>2. SameFlags(ex[i], ex'[i])
      BY <1>4, <1>10, <3>1, CompletedActs DEF SameAnswer, SameFlags
    <3> QED BY <2>2, <3>2 DEF Answering, Over, Stopped
  <2> QED BY <2>3, <2>4
<1>11. CASE w.pc \in {"woken", "resumed"} /\ Sending(i, w, r)
  <2>1. Ready(w, r, o) /\ (~w.discard => o.end = "open" \/ (w.ends /\ w.left = 0 /\ o.end = "ended"))
    BY <1>3 DEF Phase
  <2>2. /\ writer'[i].pc \notin Stopped =>
              /\ ex'[i] = r /\ Phase(writer'[i], r, out'[i])
              /\ Holds(L, writer'[i], r, a, out'[i], g, c)
        /\ Finishes(i)
    <3> HIDE DEF L
    <3>1. w.pc \notin Stopped
      BY <1>11 DEF Stopped
    <3> QED BY <1>1, <1>3, <1>7, <1>11, <2>1, <3>1, SendingActs
  <2>3. writer'[i].pc \notin Stopped => Fine
    <3>1. ASSUME ex'[i] = r PROVE Line(i)' = L
      BY <1>2, <3>1 DEF Line
    <3> QED BY <1>2, <1>3, <1>7, <2>2, <3>1 DEF Answering
  <2>4. writer'[i].pc \in Stopped => Fine
    <3>1. ex'[i] = r \/ ex'[i] = Completed(r)
      BY <1>11 DEF Sending, Going, Ending
    <3>2. SameFlags(ex[i], ex'[i])
      BY <1>1, <1>7, <3>1, CompletedActs DEF SameAnswer, SameFlags
    <3> QED BY <2>2, <3>2 DEF Answering, Over, Stopped
  <2> QED BY <2>3, <2>4
<1>12. CASE goaway /\ out'[i] = o /\ Ending(i, r)
  BY <1>1, <1>7, <1>8, <1>12
\* A writer that finds the transport paused anew sleeps on.
<1>13. CASE w.pc = "resumed" /\ out'[i] = o /\ Going(i, [w EXCEPT !.pc = "paused"], r)
  <2> DEFINE v == [w EXCEPT !.pc = "paused"]
  <2>1. /\ v.started = w.started /\ v.discard = w.discard /\ v.trailers = w.trailers
        /\ v.awaiting = w.awaiting /\ v.left = w.left /\ v.ends = w.ends /\ v.last = w.last
        /\ v.pc = "paused"
    BY <1>1 DEF Writers
  <2>2. ex'[i] = r /\ writer'[i] = v
    BY <1>13 DEF Going
  <2>3. Line(i)' = L
    BY <1>2, <2>2 DEF Line
  <2> HIDE DEF v, L
  <2>4. Phase(v, r, o)
    BY <1>3, <2>1 DEF Phase, Ready
  <2>5. Holds(L, v, r, a, o, g, c)
    <3>1. Opening(L, w, r) /\ BodyLast(L, w, r, a) /\ Kept(L, w, o, g, c)
      BY <1>3 DEF Holds
    <3> QED BY <2>1, <3>1 DEF Holds, Opening, BodyLast, Closed, Kept
  <2>6. ~Over(v) /\ v.pc \notin Stopped
    BY <2>1 DEF Over, Stopped
  <2>7. Answering(i)'
    BY <1>2, <1>3, <1>13, <2>2, <2>3, <2>4, <2>5 DEF Answering
  <2> QED BY <1>7, <2>2, <2>6, <2>7 DEF Finishes
<1>14. CASE w.pc = "run" /\ s # <<>>
  <2> DEFINE none == m.framing = "none"
  <2>1. /\ m.kind = "start" => o.by = "none" /\ o.end = "open"
        /\ m.kind \in {"body", "trailers"} =>
              /\ w.started /\ r.started /\ ~w.ends /\ w.left = 0
              /\ w.discard => ~w.trailers /\ ~w.awaiting /\ o.by = "bare" /\ o.end = "ended"
              /\ ~w.discard => w.trailers = r.announced /\ o.by = "app" /\ o.end = "open"
    <3>1. CASE m.kind = "start"
      <4>1. ~w.started
        BY <1>1, <1>3, <1>5, <1>14, <3>1, RestOfLine DEF Holds
      <4> QED BY <1>3, <1>14, <3>1, <4>1 DEF Phase, Ready
    <3>2. CASE m.kind # "start"
      <4> HIDE DEF L
      <4> QED BY <1>1, <1>3, <1>5, <1>14, <3>2, BodyComesLater DEF Holds
    <3> QED BY <3>1, <3>2
  <2>2. CASE /\ m.kind = "start" /\ ~closed
             /\ out'[i] = [out[i] EXCEPT !.by = IF none THEN "bare" ELSE "app",
                                 !.end = IF none THEN "ended" ELSE out[i].end]
             /\ Going(i, [writer[i] EXCEPT !.started = TRUE, !.discard = none,
                                     !.trailers = m.trailers /\ ~none], Taken(ex[i]))
    <3> DEFINE with == m.trailers /\ ~none
               v == [writer[i] EXCEPT !.started = TRUE, !.discard = none, !.trailers = with]
               u == out'[i]
    <3>1. none \in BOOLEAN /\ with \in BOOLEAN /\ (with <=> Head(L).trailers /\ ~none)
      BY <1>5, <1>14
    <3>2. /\ v \in Writers /\ v.pc = w.pc /\ v.started /\ v.discard = none /\ v.trailers = with
          /\ v.awaiting = w.awaiting /\ v.ends = w.ends /\ v.last = w.last /\ v.left = w.left
      <4> HIDE DEF none, with
      <4> QED BY <1>1, <3>1 DEF Writers
    <3>3. /\ u.by = (IF none THEN "bare" ELSE "app") /\ u.units = o.units
          /\ u.end = IF none THEN "ended" ELSE o.end
      <4> HIDE DEF none
      <4> QED BY <1>1, <2>2 DEF Outputs
    <3>4. Head(L).kind = "start" /\ L # <<>>
      BY <1>5, <1>14, <2>2
    <3>5. Going(i, v, e)
      BY <2>2
    <3> HIDE DEF v, u, none, with, L
    <3>6. Phase(v, r, u) /\ Holds(R, v, r, a, u, g, c)
      <4> HIDE DEF w, r, a, o, g, c
      <4>1. v.trailers <=> Head(L).trailers /\ ~none
        BY <3>1, <3>2
      <4> QED BY <1>1, <1>3, <1>14, <3>1, <3>2, <3>3, <3>4, <4>1, StartOffLine
    <3>7. ~Over(v)
      BY <1>14, <3>2 DEF Over, Stopped
    <3> QED BY <1>9, <1>14, <3>5, <3>6, <3>7 DEF u
  <2>3. CASE /\ m.kind \in {"start", "trailers"} /\ Ending(i, Taken(ex[i]))
             /\ out'[i] = Rst(out[i]) \/ (out'[i] = out[i] /\ writer'[i].pc # "done")
    <3>1. out'[i] = o \/ out'[i].end = "reset"
      BY <1>1, <2>3 DEF Rst, Outputs
    <3>2. writer'[i].pc = "done" /\ ~closed => out'[i].end # "open"
      BY <1>1, <2>3 DEF Rst, Outputs
    <3> QED BY <1>4, <1>8, <1>14, <2>3, <3>1, <3>2
  <2>4. CASE /\ m.kind = "body" /\ writer[i].discard /\ out'[i] = out[i]
             /\ IF ~m.more /\ ~writer[i].trailers THEN Ending(i, Taken(ex[i]))
                ELSE Going(i, [Taking(i, m) EXCEPT !.left = 0], Taken(ex[i]))
    <3>1. CASE ~m.more
      <4>1. Ending(i, e) /\ out'[i].by = "bare" /\ out'[i].end = "ended"
        BY <2>1, <2>4, <3>1
      <4> QED BY <1>4, <1>8, <1>14, <4>1
    <3>2. CASE m.more
      <4> DEFINE v == [Taking(i, m) EXCEPT !.left = 0]
      <4>1. Going(i, v, e)
        BY <2>4, <3>2
      <4>2. Taking(i, m) \in Writers
        <5>1. m \in Body
          BY <1>4, <1>14, <2>4, KindsOfMessages
        <5> QED BY <1>1, <5>1, TakingIsWriter
      <4>3. /\ v \in Writers /\ v.pc = w.pc /\ v.started = w.started /\ v.discard = w.discard
            /\ v.trailers = w.trailers /\ v.left = 0 /\ ~v.ends /\ ~v.last /\ ~v.awaiting
        <5> DEFINE x == Taking(i, m)
        <5>1. /\ x.pc = w.pc /\ x.started = w.started /\ x.discard = w.discard
              /\ x.trailers = w.trailers
              /\ x.ends <=> ~m.more /\ ~w.trailers
              /\ x.last <=> ~m.more /\ ~w.trailers
              /\ x.awaiting <=> ~m.more /\ w.trailers
          BY <1>1 DEF Taking, Writers
        <5>2. ~x.ends /\ ~x.last /\ ~x.awaiting
          BY <3>2, <5>1
        <5> HIDE DEF x
        <5> QED BY <4>2, <5>1, <5>2 DEF Writers, x
      <4>4. Phase(v, r, o) /\ Holds(R, v, r, a, o, g, c)
        <5>1. L # <<>> /\ Head(L).kind = "body" /\ Head(L).more
          BY <1>5, <1>14, <2>4, <3>2
        <5> HIDE DEF v, L, r, a, o, g, c
        <5> QED BY <1>1, <1>3, <1>14, <2>4, <4>3, <5>1, BodyDiscarded
      <4> HIDE DEF v
      <4>5. ~Over(v)
        BY <1>14, <4>3 DEF Over, Stopped
      <4> QED BY <1>9, <1>14, <2>4, <4>1, <4>4, <4>5
    <3> QED BY <3>1, <3>2
  <2>5. CASE /\ m.kind = "body" /\ ~writer[i].discard /\ ~m.aborted
             /\ Sending(i, Taking(i, m), Taken(ex[i]))
    <3> DEFINE x == Taking(i, m)
    <3>1. x \in Writers
      <4>1. m \in Body
        BY <1>4, <1>14, <2>5, KindsOfMessages
      <4> QED BY <1>1, <4>1, TakingIsWriter
    <3>2. /\ x.pc = w.pc /\ x.started = w.started /\ x.discard = w.discard
          /\ x.trailers = w.trailers /\ x.left = IF m.data THEN c ELSE 0
          /\ x.ends <=> ~m.more /\ ~w.trailers
          /\ x.last <=> ~m.more /\ ~w.trailers
          /\ x.awaiting <=> ~m.more /\ w.trailers
      BY <1>1 DEF Taking, Writers
    <3>3. L # <<>> /\ Head(L) = m
      BY <1>5, <1>14
    <3>4. Ready(x, r, o) /\ o.end = "open" /\ Holds(R, x, r, a, o, g, c)
      <4> HIDE DEF x, L, w, r, a, o, g, c, m
      <4>1. ~w.discard /\ Head(L).kind = "body" /\ ~Head(L).aborted
        BY <2>5, <3>3 DEF w
      <4>2. /\ x.left = IF Head(L).data THEN c ELSE 0
            /\ x.ends <=> ~Head(L).more /\ ~w.trailers
            /\ x.last <=> ~Head(L).more /\ ~w.trailers
            /\ x.awaiting <=> ~Head(L).more /\ w.trailers
        BY <3>2, <3>3
      <4> QED BY <1>1, <1>3, <1>14, <3>1, <3>2, <3>3, <4>1, <4>2, BodyOffLine
    <3>5. Sending(i, x, e) /\ x.pc = "run"
      BY <1>14, <2>5, <3>2
    <3> HIDE DEF x
    <3> QED BY <1>10, <1>14, <3>1, <3>4, <3>5
  <2>6. CASE /\ m.kind = "trailers" /\ Ending(i, Taken(ex[i]))
             /\ out'[i] = [out[i] EXCEPT !.end = IF writer[i].awaiting THEN "ended" ELSE out[i].end]
             /\ writer'[i].pc = "done" => writer[i].awaiting \/ writer[i].discard
    <3>1. /\ w.awaiting => o.units = g /\ ~a.gaveUp /\ r.started /\ (r.bodyEnded \/ a.over)
          /\ ~w.awaiting => o.by = "bare" \/ o.end = "open"
          /\ w.discard => o.end = "ended"
      <4>1. L # <<>> /\ Head(L).kind = "trailers"
        BY <1>5, <1>14, <2>6
      <4> HIDE DEF L, w, r, a, o, g, c
      <4> QED BY <1>1, <1>3, <1>14, <4>1, TrailersEnd
    <3>2. out'[i].by = o.by /\ out'[i].units = o.units
          /\ out'[i].end = IF w.awaiting THEN "ended" ELSE o.end
      BY <1>1, <2>6 DEF Outputs
    <3>3. out'[i].by = "app" /\ out'[i].end = "ended" => AllSent(i)
      BY <3>1, <3>2 DEF AllSent
    <3>4. writer'[i].pc = "done" => out'[i].end # "open"
      BY <2>6, <3>1, <3>2
    <3> QED BY <1>4, <1>8, <1>14, <2>6, <3>3, <3>4
  <2>7. \/ /\ m.kind = "start" /\ ~closed
           /\ out'[i] = [out[i] EXCEPT !.by = IF none THEN "bare" ELSE "app",
                                 !.end = IF none THEN "ended" ELSE out[i].end]
           /\ Going(i, [writer[i] EXCEPT !.started = TRUE, !.discard = none,
                                     !.trailers = m.trailers /\ ~none], Taken(ex[i]))
        \/ /\ m.kind \in {"start", "trailers"} /\ Ending(i, Taken(ex[i]))
           /\ out'[i] = Rst(out[i]) \/ (out'[i] = out[i] /\ writer'[i].pc # "done")
        \/ /\ m.kind = "body" /\ writer[i].discard /\ out'[i] = out[i]
           /\ IF ~m.more /\ ~writer[i].trailers THEN Ending(i, Taken(ex[i]))
              ELSE Going(i, [Taking(i, m) EXCEPT !.left = 0], Taken(ex[i]))
        \/ /\ m.kind = "body" /\ ~writer[i].discard /\ ~m.aborted
           /\ Sending(i, Taking(i, m), Taken(ex[i]))
        \/ /\ m.kind = "trailers" /\ Ending(i, Taken(ex[i]))
           /\ out'[i] = [out[i] EXCEPT !.end = IF writer[i].awaiting THEN "ended" ELSE out[i].end]
           /\ writer'[i].pc = "done" => writer[i].awaiting \/ writer[i].discard
        \/ goaway /\ out'[i] = o /\ Ending(i, r)
    BY <1>14 DEF Written
  <2> HIDE DEF Fine, m, none
  <2> QED BY <1>12, <2>2, <2>3, <2>4, <2>5, <2>6, <2>7
<1> HIDE DEF Fine
<1> QED BY <1>11, <1>12, <1>13, <1>14 DEF Written

-----------------------------------------------------------------------------
\* A move keeps what is known of an answer.

\* Where neither the line nor what was said of the answer changes.
LEMMA SameAnswering ==
    ASSUME NEW i \in Requests, TypedOf(i), TypedOf(i)', Answering(i), ~Over(writer[i]),
           SameAnswer(ex[i], ex'[i]), app'[i].todo = app[i].todo,
           app'[i].over = app[i].over, app'[i].gaveUp = app[i].gaveUp, Waits(app'[i]),
           NEW pc \in {writer[i].pc, "woken", "resumed"},
           writer'[i] = [writer[i] EXCEPT !.pc = pc],
           UNCHANGED <<out[i], given[i]>>
    PROVE  Answering(i)'
<1> DEFINE w == writer[i]
           v == writer'[i]
           r == ex[i]
           e == ex'[i]
           a == app[i]
           b == app'[i]
           o == out[i]
           g == given[i]
           c == Chunk[i]
           L == Line(i)
<1>1. /\ w \in Writers /\ v \in Writers /\ r \in Exchanges /\ e \in Exchanges
      /\ a \in Apps /\ b \in Apps /\ o \in Outputs /\ g \in Nat /\ c \in Nat
      /\ a.todo \in Seq(Messages) /\ r.send \in Seq(Messages)
  BY ConstantsOf DEF TypedOf, Apps, Exchanges
<1>2. L \in Seq(Messages) /\ L' = L
  <2>1. L \in Seq(Messages)
    BY <1>1, ConcatProperties DEF Line
  <2> QED BY <2>1 DEF Line, SameAnswer
<1>3. Phase(w, r, o) /\ Holds(L, w, r, a, o, g, c)
  BY DEF Answering
<1>4. /\ v.started = w.started /\ v.discard = w.discard /\ v.trailers = w.trailers
      /\ v.awaiting = w.awaiting /\ v.left = w.left /\ v.ends = w.ends /\ v.last = w.last
      /\ v.pc \in {w.pc, "woken", "resumed"}
  BY <1>1 DEF Writers
<1>5. /\ e.started = r.started /\ e.announced = r.announced /\ e.bodyEnded = r.bodyEnded
      /\ a.over => b.over
      /\ b.gaveUp => a.gaveUp
  BY DEF SameAnswer, SameFlags
<1>6. Phase(w, e, o) /\ Holds(L, w, e, b, o, g, c)
  <2> HIDE DEF w, r, e, a, b, o, g, c, L
  <2> QED BY <1>1, <1>2, <1>3, <1>5, NothingOnLine
<1>7. Phase(v, e, o)
  <2> HIDE DEF w, v, e, o
  <2>1. Phase(w, e, o)
    BY <1>6
  <2>2. Ready(v, e, o)
    BY <1>4, <2>1 DEF Phase, Ready
  <2> QED BY <1>4, <2>1, <2>2 DEF Phase
<1>8. Holds(L, v, e, b, o, g, c)
  <2> HIDE DEF w, v, e, b, o, g, c, L
  <2>1. Opening(L, w, e) /\ BodyLast(L, w, e, b) /\ Kept(L, w, o, g, c)
    BY <1>6 DEF Holds
  <2>2. Opening(L, v, e) /\ Kept(L, v, o, g, c)
    BY <1>4, <2>1 DEF Opening, Kept
  <2>3. BodyLast(L, v, e, b)
    BY <1>4, <2>1 DEF BodyLast, Closed
  <2> QED BY <2>2, <2>3 DEF Holds
<1> QED BY <1>2, <1>7, <1>8 DEF Answering

\* An answer that was just begun has an empty line.
LEMMA BegunAnswering ==
    ASSUME NEW i \in Requests, TypedOf(i), Sides(i), Begun(i),
           writer[i].pc = "none", out[i] = NoOutput
    PROVE  Answering(i)'
<1> DEFINE w == writer'[i]
           e == ex'[i]
           b == app'[i]
           o == out'[i]
           g == given'[i]
           c == Chunk[i]
<1>1. /\ w.pc = "run" /\ ~w.started /\ ~w.discard /\ ~w.trailers /\ ~w.awaiting
      /\ w.left = 0 /\ ~w.ends /\ ~w.last /\ w.last = w.ends /\ w.started = FALSE
  BY DEF Begun, NewWriter, NoWriter
<1>2. /\ e.send = <<>> /\ ~e.started /\ ~e.announced /\ ~e.bodyEnded /\ e.started = FALSE
  BY DEF Begun, NewExchange
<1>3. b.todo = <<>> /\ ~b.over /\ ~b.gaveUp
  BY DEF Begun, Sides, Started, NoApp
<1>4. o.by = "none" /\ o.units = 0 /\ o.end = "open" /\ g = 0 /\ c \in Nat
  BY ConstantsOf DEF Begun, Sides, NoOutput
<1>5. <<>> \in Seq(Messages) /\ <<>> \o <<>> = <<>>
  BY EmptySeq, ConcatEmptySeq
<1>6. Line(i)' = <<>>
  BY <1>2, <1>3, <1>5 DEF Line
<1> HIDE DEF w, e, b, o, g, c
<1>7. \A k \in DOMAIN <<>> : FALSE
  BY <1>5, LenProperties, EmptySeq
<1>8. Count(<<>>, Loaded) = 0
  BY <1>5, <1>7, CountIsNatural
<1>9. Phase(w, e, o)
  BY <1>1, <1>4 DEF Phase, Ready
<1>10. Opening(<<>>, w, e)
  BY <1>1, <1>2, <1>7 DEF Opening
<1>11. BodyLast(<<>>, w, e, b)
  BY <1>1, <1>2, <1>3, <1>7 DEF BodyLast, Closed, Has
<1>12. Kept(<<>>, w, o, g, c)
  BY <1>1, <1>4, <1>8 DEF Kept
<1>13. Waits(b)
  BY <1>3 DEF Waits
<1> QED BY <1>6, <1>9, <1>10, <1>11, <1>12, <1>13 DEF Answering, Holds, w, e, b, o, g, c

\* Whatever is done to a stream.
LEMMA AnsweringStays ==
    ASSUME Around, NEW i \in Requests, TypedOf(i), Sides(i), Mail(i), Moves(i), Answering(i)
    PROVE  Answering(i)'
<1>1. /\ ex[i] \in Exchanges /\ app[i] \in Apps /\ writer[i] \in Writers /\ TypedOf(i)'
  BY MovesTyped DEF TypedOf
<1>2. CASE Over(writer'[i])
  BY <1>2 DEF Answering
<1>3. ~Over(writer[i]) => Waits(app[i])
  BY DEF Answering
<1>4. SameAnswer(ex[i], ex[i])
  BY DEF SameAnswer, SameFlags
<1>5. CASE Untouched(i) /\ ~Over(writer'[i])
  <2>1. /\ ~Over(writer[i]) /\ ex'[i] = ex[i] /\ app'[i] = app[i]
        /\ out'[i] = out[i] /\ given'[i] = given[i]
    BY <1>1, <1>5 DEF Untouched, Over, Stopped, Writers
  <2>2. PICK pc \in {writer[i].pc, "woken", "resumed"} : writer'[i] = [writer[i] EXCEPT !.pc = pc]
    BY <1>1, <1>5 DEF Untouched, Writers
  <2> QED BY <1>1, <1>3, <1>4, <2>1, <2>2, SameAnswering
<1>6. CASE Refused(i)
  <2>1. writer[i].pc = "none" /\ writer'[i] = writer[i]
    BY <1>6, HeadIsOfNew DEF Refused
  <2> QED BY <1>2, <2>1 DEF Over, Stopped
<1>7. CASE Begun(i)
  BY <1>7, HeadIsOfNew, BegunAnswering DEF Begun
<1>8. CASE Fed(i) /\ ~Over(writer'[i])
  <2>1. /\ ~Over(writer[i]) /\ app'[i] = app[i] /\ writer'[i] = writer[i]
        /\ out'[i] = out[i] /\ given'[i] = given[i]
    BY <1>8 DEF Fed
  <2>2. \A x \in {"data", "end"} : SameAnswer(ex[i], Feed(ex[i], x))
    BY <1>1, FeedActs DEF RequestMessages
  <2>3. SameAnswer(ex[i], ex'[i])
    BY <1>4, <1>8, <2>2 DEF Fed
  <2>4. writer'[i] = [writer[i] EXCEPT !.pc = writer[i].pc]
    BY <1>1, <2>1 DEF Writers
  <2> QED BY <1>1, <1>3, <2>1, <2>3, <2>4, SameAnswering
<1>9. CASE TakenDown(i)
  <2>1. Over(writer'[i])
    BY <1>9 DEF TakenDown, Over, Stopped, DoneWriter, NoWriter
  <2> QED BY <1>2, <2>1
<1>10. CASE Written(i)
  BY <1>10, WrittenAnswering
<1>11. CASE Reads(i) /\ ~Over(writer'[i])
  <2>1. /\ ~Over(writer[i]) /\ writer'[i] = writer[i] /\ out'[i] = out[i] /\ given'[i] = given[i]
    BY <1>11 DEF Reads
  <2>2. SameAnswer(ex[i], ex'[i])
    BY <1>1, <1>4, <1>11, ReceivedActs DEF Reads
  <2>3. app[i].pc \in {"run", "recv"}
    BY <1>11 DEF Reads
  <2>4. app'[i].todo = app[i].todo /\ app'[i].over = app[i].over /\ app'[i].gaveUp = app[i].gaveUp
    <3> DEFINE whole == app[i].whole \/ Head(ex[i].recv) = "end"
               got == IF Head(ex[i].recv) = "data" THEN app[i].got + 1 ELSE app[i].got
    <3>1. app'[i] \in {app[i], [app[i] EXCEPT !.pc = "recv"],
                       [app[i] EXCEPT !.pc = "run", !.got = got, !.whole = whole]}
      BY <1>11 DEF Reads
    <3> HIDE DEF whole, got
    <3> QED BY <1>1, <3>1 DEF Apps
  <2>5. Waits(app'[i])
    BY <1>3, <2>1, <2>3, <2>4 DEF Waits
  <2>6. writer'[i] = [writer[i] EXCEPT !.pc = writer[i].pc]
    BY <1>1, <2>1 DEF Writers
  <2> QED BY <1>1, <2>1, <2>2, <2>4, <2>5, <2>6, SameAnswering
<1>12. CASE Speaks(i) /\ ~Over(writer'[i])
  <2>1. ~Over(writer[i]) /\ writer'[i] = writer[i] /\ out'[i] = out[i]
    BY <1>12 DEF Speaks
  <2>2. ASSUME NEW m \in Says[i],
               app[i].pc = "run", InPlace(ex[i], m), InTurn(ex[i], m),
               Queueing(i, Noted(ex[i], m), <<m>>,
                        [app[i] EXCEPT !.sends = app[i].sends + 1]),
               given'[i] = IF m.kind = "body" /\ m.data
                           THEN given[i] + Chunk[i] ELSE given[i]
        PROVE  Answering(i)'
    BY <2>1, <2>2, SendsAnswering
  <2>3. ASSUME NEW how \in Endings, app[i].pc = "run", MayEnd(ex[i], how),
               Queueing(i, Ended(ex[i], how), LastWords(ex[i], how),
                        [app[i] EXCEPT !.over = TRUE, !.gaveUp =
                            how # "return" /\ ex[i].started /\ ~ex[i].bodyEnded]),
               given'[i] = IF LastWords(ex[i], how) = Whole
                           THEN given[i] + Chunk[i] ELSE given[i]
        PROVE  Answering(i)'
    <3> DEFINE up == how # "return" /\ ex[i].started /\ ~ex[i].bodyEnded
    <3>1. up \in BOOLEAN /\ (up <=> how # "return" /\ ex[i].started /\ ~ex[i].bodyEnded)
      OBVIOUS
    <3>2. Queueing(i, Ended(ex[i], how), LastWords(ex[i], how),
                   [app[i] EXCEPT !.over = TRUE, !.gaveUp = up])
      BY <2>3
    <3> HIDE DEF up
    <3> QED BY <2>1, <2>3, <3>1, <3>2, EndsAnswering
  <2>4. ASSUME Queueing(i, ex[i], app[i].todo, app[i]), given'[i] = given[i]
        PROVE  Answering(i)'
    BY <2>1, <2>4, WakesAnswering
  <2> QED BY <1>12, <2>2, <2>3, <2>4 DEF Speaks
<1> QED BY <1>2, <1>5, <1>6, <1>7, <1>8, <1>9, <1>10, <1>11, <1>12 DEF Moves

-----------------------------------------------------------------------------
\* An answer that ended stays whole.

\* What is queued changes nothing that was said of the answer.
LEMMA QueueingKeeps ==
    ASSUME NEW i \in Requests, NEW r \in Exchanges, Len(r.send) <= SendMax,
           NEW todo \in Seq(Messages), NEW a \in Apps, Queueing(i, r, todo, a)
    PROVE  /\ SameFlags(r, ex'[i])
           /\ app'[i].over = a.over /\ app'[i].gaveUp = a.gaveUp
           /\ a.over => app'[i].pc \in {"put", "done"}
<1>1. SameFlags(r, Enqueued(r, todo)) /\ Unsent(r, todo) \in Seq(Messages)
  BY EnqueuedActs
<1>2. ex'[i] = Enqueued(r, todo)
  BY DEF Queueing
<1>3. SameFlags(r, ex'[i])
  BY <1>1, <1>2
<1> DEFINE u == Unsent(r, todo)
           pc == IF u # <<>> THEN "put" ELSE IF a.over THEN "done" ELSE "run"
<1>4. app'[i] = [a EXCEPT !.todo = u, !.pc = pc] /\ (a.over => pc \in {"put", "done"})
  BY DEF Queueing
<1> HIDE DEF u, pc
<1>5. /\ app'[i].over = a.over /\ app'[i].gaveUp = a.gaveUp
      /\ a.over => app'[i].pc \in {"put", "done"}
  BY <1>4 DEF Apps
<1> QED BY <1>3, <1>5

\* An application can still speak once its answer ended, but not of the answer.
LEMMA SpeaksOfNothing ==
    ASSUME NEW i \in Requests, TypedOf(i), Speaks(i), EndedWhole(i),
           out[i].by = "app", out[i].end = "ended"
    PROVE  EndedWhole(i)'
<1> DEFINE r == ex[i]
           a == app[i]
<1>1. /\ out[i].units = given[i] /\ ~a.gaveUp /\ r.started
      /\ r.bodyEnded \/ a.over \/ a.pc = "done"
      /\ a.over => a.pc \in {"put", "done"}
  BY DEF EndedWhole
<1>2. r \in Exchanges /\ a \in Apps /\ Len(r.send) <= SendMax /\ a.todo \in Seq(Messages)
  BY DEF TypedOf, Apps
<1> DEFINE Fine == /\ given'[i] = given[i] /\ ~app'[i].gaveUp /\ ex'[i].started
                   /\ ex'[i].bodyEnded \/ app'[i].over \/ app'[i].pc = "done"
                   /\ app'[i].over => app'[i].pc \in {"put", "done"}
<1>3. out'[i] = out[i]
  BY DEF Speaks
<1>4. Fine => EndedWhole(i)'
  BY <1>1, <1>3 DEF EndedWhole
<1>5. ASSUME NEW m \in Says[i], a.pc = "run", InPlace(r, m), InTurn(r, m),
             Queueing(i, Noted(r, m), <<m>>, [a EXCEPT !.sends = a.sends + 1]),
             given'[i] = IF m.kind = "body" /\ m.data THEN given[i] + Chunk[i] ELSE given[i]
      PROVE  Fine
  <2>1. m \in Messages /\ <<m>> \in Seq(Messages)
    BY ConstantsOf, Pair
  <2>2. ~a.over /\ r.bodyEnded
    BY <1>1, <1>5
  <2>3. m.kind # "body"
    BY <1>5, <2>2 DEF InTurn
  <2>4. /\ Noted(r, m) \in Exchanges /\ Noted(r, m).send = r.send
        /\ Noted(r, m).started /\ Noted(r, m).bodyEnded
    BY <1>1, <1>2, <2>1, <2>2, NotedActs
  <2> DEFINE b == [a EXCEPT !.sends = a.sends + 1]
             e == Noted(r, m)
  <2>5. b \in Apps /\ b.over = a.over /\ b.gaveUp = a.gaveUp
    BY <1>2 DEF Apps
  <2>6. Queueing(i, e, <<m>>, b) /\ Len(e.send) <= SendMax /\ e \in Exchanges
    BY <1>2, <1>5, <2>4
  <2>7. e.started /\ e.bodyEnded
    BY <2>4
  <2> HIDE DEF b, e
  <2>8. /\ SameFlags(e, ex'[i])
        /\ app'[i].over = b.over /\ app'[i].gaveUp = b.gaveUp
    BY <2>1, <2>5, <2>6, QueueingKeeps
  <2> QED BY <1>1, <1>5, <2>2, <2>3, <2>5, <2>7, <2>8 DEF SameFlags
<1>6. ASSUME NEW how \in Endings, a.pc = "run",
             Queueing(i, Ended(r, how), LastWords(r, how),
                      [a EXCEPT !.over = TRUE, !.gaveUp = how # "return" /\ r.started /\ ~r.bodyEnded]),
             given'[i] = IF LastWords(r, how) = Whole THEN given[i] + Chunk[i] ELSE given[i]
      PROVE  Fine
  <2>1. ~a.over /\ r.bodyEnded
    BY <1>1, <1>6
  <2> DEFINE up == how # "return" /\ r.started /\ ~r.bodyEnded
             b == [a EXCEPT !.over = TRUE, !.gaveUp = up]
             e == Ended(r, how)
             todo == LastWords(r, how)
  <2>2. up = FALSE
    BY <2>1
  <2>3. b \in Apps /\ b.over /\ ~b.gaveUp
    <3> HIDE DEF up
    <3> QED BY <1>2, <2>2 DEF Apps
  <2>4. e \in Exchanges /\ e.send = r.send /\ e.started /\ e.bodyEnded
    <3>1. /\ e \in Exchanges /\ e.send = r.send /\ e.bodyEnded = r.bodyEnded
          /\ e.started = (r.started \/ todo # <<>>)
      <4> HIDE DEF r
      <4> QED BY <1>2, EndedActs
    <3> HIDE DEF e, todo
    <3> QED BY <1>1, <2>1, <3>1
  <2>5. todo \in Seq(Messages)
    BY <1>2, LastWordsAreMessages
  <2>6. todo # Whole
    <3>1. todo = <<>> \/ todo = <<Trailers>>
      BY <1>1, <1>2, <2>1 DEF LastWords, Closing, Endings
    <3>2. Len(<<>>) = 0 /\ Len(<<Trailers>>) = 1
      OBVIOUS
    <3>3. Len(Whole) = 2 /\ Whole # <<>>
      BY DEF Whole
    <3> HIDE DEF todo
    <3>4. CASE todo = <<>>
      BY <3>3, <3>4
    <3>5. CASE todo = <<Trailers>>
      <4>1. Len(todo) = 1
        BY <3>2, <3>5
      <4> QED BY <3>3, <4>1
    <3> QED BY <3>1, <3>4, <3>5
  <2>7. Queueing(i, e, todo, b) /\ Len(e.send) <= SendMax
    BY <1>2, <1>6, <2>4
  <2>8. given'[i] = given[i]
    BY <1>6, <2>6
  <2> HIDE DEF up, b, e, todo
  <2>9. /\ SameFlags(e, ex'[i])
        /\ app'[i].over = b.over /\ app'[i].gaveUp = b.gaveUp
        /\ b.over => app'[i].pc \in {"put", "done"}
    BY <2>3, <2>4, <2>5, <2>7, QueueingKeeps
  <2> QED BY <2>3, <2>4, <2>8, <2>9 DEF SameFlags
<1>7. ASSUME a.pc = "put", Queueing(i, r, a.todo, a), given'[i] = given[i]
      PROVE  Fine
  <2>1. r.bodyEnded \/ a.over
    BY <1>1, <1>7
  <2>2. /\ SameFlags(r, ex'[i])
        /\ app'[i].over = a.over /\ app'[i].gaveUp = a.gaveUp
        /\ a.over => app'[i].pc \in {"put", "done"}
    <3> HIDE DEF r, a
    <3> QED BY <1>2, <1>7, QueueingKeeps
  <2> QED BY <1>1, <1>7, <2>1, <2>2 DEF SameFlags
<1> HIDE DEF Fine
<1>8. Fine
  BY <1>5, <1>6, <1>7 DEF Speaks
<1> QED BY <1>4, <1>8

\* Whatever is done to a stream.
LEMMA EndedWholeStays ==
    ASSUME Around, NEW i \in Requests, TypedOf(i), Sides(i), Sides(i)', Mail(i), Moves(i),
           Answering(i), Answering(i)', EndedWhole(i)
    PROVE  EndedWhole(i)'
<1>1. /\ ex[i] \in Exchanges /\ app[i] \in Apps /\ writer[i] \in Writers /\ out[i] \in Outputs
      /\ TypedOf(i)'
  BY MovesTyped DEF TypedOf
<1> SUFFICES ASSUME out'[i].by = "app", out'[i].end = "ended"
             PROVE  EndedWhole(i)'
  BY DEF EndedWhole
<1>2. CASE ~Over(writer'[i])
  <2> DEFINE w == writer'[i]
             r == ex'[i]
             a == app'[i]
             o == out'[i]
             g == given'[i]
             c == Chunk[i]
             L == r.send \o a.todo
  <2>1. Phase(w, r, o) /\ Waits(a) /\ Holds(L, w, r, a, o, g, c)
    BY <1>2 DEF Answering, Line
  <2>2. /\ w \in Writers /\ r \in Exchanges /\ a \in Apps /\ o \in Outputs /\ g \in Nat /\ c \in Nat
        /\ r.send \in Seq(Messages) /\ a.todo \in Seq(Messages)
    BY <1>1, ConstantsOf DEF TypedOf, Exchanges, Apps
  <2>3. L \in Seq(Messages)
    BY <2>2, ConcatProperties
  <2>4. o.by = "app" /\ o.end = "ended"
    OBVIOUS
  <2>5. o.units = g /\ ~a.gaveUp /\ r.started /\ (r.bodyEnded \/ a.over)
    <3> HIDE DEF w, r, a, o, g, c, L
    <3> QED BY <2>1, <2>2, <2>3, <2>4, EndIsWhole
  <2>6. a.over => a.pc \in {"put", "done"}
    BY <2>1 DEF Waits
  <2> QED BY <2>5, <2>6 DEF EndedWhole
<1>3. CASE writer'[i].pc = "none"
  BY <1>3 DEF Sides
<1>4. CASE writer'[i].pc \in Stopped
  <2>1. CASE ex'[i] = ex[i] /\ app'[i] = app[i] /\ given'[i] = given[i] /\ out'[i] = out[i]
    BY <2>1 DEF EndedWhole
  <2>2. CASE Refused(i)
    <3>1. writer[i].pc = "none" /\ writer'[i] = writer[i]
      BY <2>2, HeadIsOfNew DEF Refused
    <3> QED BY <1>4, <3>1 DEF Stopped
  <2>3. CASE Begun(i)
    BY <1>4, <2>3 DEF Begun, NewWriter, NoWriter, Stopped
  <2>4. CASE Fed(i)
    <3>1. app'[i] = app[i] /\ given'[i] = given[i] /\ out'[i] = out[i]
      BY <2>4 DEF Fed
    <3>2. \A x \in {"data", "end"} : SameFlags(ex[i], Feed(ex[i], x))
      BY <1>1, FeedActs DEF RequestMessages, SameAnswer
    <3>3. SameFlags(ex[i], ex'[i])
      BY <2>4, <3>2 DEF Fed, SameFlags
    <3> QED BY <3>1, <3>3 DEF EndedWhole, SameFlags
  <2>5. CASE TakenDown(i)
    <3>1. out'[i] = out[i]
      <4>1. \/ out'[i] = out[i] \/ out'[i] = [out[i] EXCEPT !.end = "reset"]
            \/ out'[i] = [by |-> "server", units |-> 1, end |-> "ended"]
        BY <2>5 DEF TakenDown, BrokenOff
      <4> QED BY <1>1, <4>1 DEF Outputs
    <3>2. given'[i] = given[i] /\ app'[i].pc = "done" /\ app'[i].gaveUp = app[i].gaveUp
      BY <1>1, <2>5 DEF TakenDown, Cancelled, Apps
    <3>3. ex'[i].started = ex[i].started
      <4>1. PICK r \in {ex[i], NotifyDisconnect(ex[i])} : ex'[i] = r \/ ex'[i] = Completed(r)
        BY <2>5 DEF TakenDown
      <4>2. r \in Exchanges /\ r.started = ex[i].started
        BY <1>1, NotifyDisconnectActs DEF SameAnswer, SameFlags
      <4> QED BY <4>1, <4>2, CompletedActs DEF SameAnswer, SameFlags
    <3> QED BY <3>1, <3>2, <3>3 DEF EndedWhole
  <2>6. CASE Written(i)
    <3>1. Finishes(i) /\ SameFlags(ex[i], ex'[i]) /\ app'[i] = app[i] /\ given'[i] = given[i]
      BY <2>6, WrittenAnswering DEF Written
    <3>2. ~Over(writer[i]) /\ Waits(app[i])
      BY <2>6 DEF Written, Over, Stopped, Answering
    <3>3. CASE out'[i] = out[i]
      BY <3>1, <3>3 DEF EndedWhole, SameFlags
    <3>4. CASE AllSent(i)
      BY <3>1, <3>2, <3>4 DEF EndedWhole, AllSent, SameFlags, Waits
    <3> QED BY <1>4, <3>1, <3>3, <3>4 DEF Finishes
  <2>7. CASE Reads(i)
    <3>1. out'[i] = out[i] /\ given'[i] = given[i] /\ app[i].pc \in {"run", "recv"}
      BY <2>7 DEF Reads
    <3>2. SameFlags(ex[i], ex'[i])
      BY <1>1, <2>7, ReceivedActs DEF Reads, SameAnswer, SameFlags
    <3>3. app'[i].over = app[i].over /\ app'[i].gaveUp = app[i].gaveUp
      <4> DEFINE whole == app[i].whole \/ Head(ex[i].recv) = "end"
                 got == IF Head(ex[i].recv) = "data" THEN app[i].got + 1 ELSE app[i].got
      <4>1. app'[i] \in {app[i], [app[i] EXCEPT !.pc = "recv"],
                         [app[i] EXCEPT !.pc = "run", !.got = got, !.whole = whole]}
        BY <2>7 DEF Reads
      <4> HIDE DEF whole, got
      <4> QED BY <1>1, <4>1 DEF Apps
    <3> QED BY <3>1, <3>2, <3>3 DEF EndedWhole, SameFlags
  <2>8. CASE Speaks(i)
    <3>1. out'[i] = out[i]
      BY <2>8 DEF Speaks
    <3> QED BY <2>8, <3>1, SpeaksOfNothing
  <2> QED BY <2>1, <2>2, <2>3, <2>4, <2>5, <2>6, <2>7, <2>8 DEF Moves, Untouched
<1>5. Over(writer'[i]) <=> writer'[i].pc = "none" \/ writer'[i].pc \in Stopped
  BY DEF Over, Stopped
<1> QED BY <1>2, <1>3, <1>4, <1>5

-----------------------------------------------------------------------------
\* The peer is told.

\* As long as it listens, it learns the end of every stream whose writer ended
\* as it should.
LEMMA ToldStays ==
    ASSUME Base, Moved, NEW i \in Requests, Mail(i), Answering(i), Told(i), Stepped \/ Arrived
    PROVE  Told(i)'
<1>1. Around /\ TypedOf(i) /\ Sides(i) /\ Moves(i)
  BY DEF Base, Typed, TypedOf, Moved
<1>2. CASE Arrived
  <2>1. peer \in [Requests -> [at : {"idle", "open", "ended", "reset"}, sent : Nat]]
    BY <1>1 DEF Around
  <2>2. UNCHANGED <<closed, goaway, writer, out>>
    BY <1>2 DEF Arrived, ArrivedOf
  <2>3. peer[i].at = "reset" => peer'[i].at = "reset"
    BY <1>2, <2>1 DEF Arrived, ArrivedOf
  <2> QED BY <2>2, <2>3 DEF Told
<1>3. CASE Stepped
  <2> SUFFICES ASSUME ~closed', ~goaway', writer'[i].pc = "done"
               PROVE  out'[i].end # "open" \/ peer[i].at = "reset"
    BY <1>3 DEF Told, Stepped
  <2>1. ~closed /\ ~goaway
    BY <1>3 DEF Stepped, Onward
  <2>2. CASE writer[i].pc = "done" /\ out'[i] = out[i]
    BY <2>1, <2>2 DEF Told
  <2>3. CASE Untouched(i)
    <3>1. writer'[i] = writer[i]
      BY <1>1, <2>3 DEF Untouched, TypedOf, Writers
    <3> QED BY <2>2, <2>3, <3>1 DEF Untouched
  <2>4. CASE Refused(i)
    <3>1. writer[i].pc = "none" /\ writer'[i] = writer[i]
      BY <1>1, <2>4, HeadIsOfNew DEF Refused
    <3> QED BY <3>1
  <2>5. CASE Begun(i)
    BY <2>5 DEF Begun, NewWriter, NoWriter
  <2>6. CASE TakenDown(i)
    <3>1. CASE out'[i].end # "open"
      BY <3>1
    <3>2. CASE ~Settled /\ Head(inbox) = Event("reset", i)
      <4>1. 1 \in DOMAIN inbox /\ inbox[1] = Event("reset", i)
        BY <1>1, <3>2, RestOfInbox DEF Settled
      <4> QED BY <4>1 DEF Mail
    <3> QED BY <2>6, <3>1, <3>2 DEF TakenDown
  <2>7. CASE Written(i)
    BY <1>1, <2>1, <2>7, WrittenAnswering DEF Finishes, Stopped
  <2>8. CASE Fed(i) \/ Reads(i) \/ Speaks(i)
    BY <2>2, <2>8 DEF Fed, Reads, Speaks
  <2> QED BY <1>1, <2>3, <2>4, <2>5, <2>6, <2>7, <2>8 DEF Moves
<1> QED BY <1>2, <1>3

-----------------------------------------------------------------------------
\* The invariant holds, first and always.

\* Nothing has happened to a stream at first.
LEMMA FirstStreams ==
    ASSUME Init, NEW i \in Requests
    PROVE  Stream(i)
<1>1. /\ peer[i].at = "idle" /\ peer[i].sent = 0 /\ inbox = <<>> /\ stream[i] = NoStream
      /\ writer[i] = NoWriter /\ ex[i] = NewExchange /\ app[i] = NoApp /\ out[i] = NoOutput
      /\ given[i] = 0 /\ received[i] = 0 /\ returned[i] = 0
  BY DEF Init, NoOutput
<1>2. /\ writer[i].pc = "none" /\ Over(writer[i]) /\ app[i].pc = "none"
      /\ stream[i].unacked = 0 /\ ~stream[i].live
  BY <1>1 DEF NoWriter, Over, Stopped, NoApp, NoStream
<1>3. /\ ~ex[i].complete /\ ~ex[i].finished /\ ~ex[i].disconnected /\ ex[i].recv = <<>>
      /\ ex[i].complete = FALSE /\ ex[i].finished = FALSE /\ ex[i].disconnected = FALSE
  BY <1>1 DEF NewExchange
<1>4. /\ inbox \in Seq(Envelopes) /\ \A k \in DOMAIN inbox : FALSE
      /\ Count(inbox, FromPeer(i)) = 0 /\ Len(ex[i].recv) = 0
  <2>1. inbox \in Seq(Envelopes) /\ DOMAIN inbox = {}
    BY <1>1, EmptySeq, LenProperties
  <2>2. Len(ex[i].recv) = 0
    BY <1>3
  <2> QED BY <2>1, <2>2, CountIsNatural
<1>5. Sides(i)
  <2>1. out[i].by \in {"none", "server"} /\ (writer[i].pc \in Stopped) = FALSE
    BY <1>1, <1>2 DEF NoOutput, Stopped
  <2> QED BY <1>1, <1>2, <1>3, <2>1 DEF Sides
<1>6. Mail(i)
  BY <1>1, <1>2, <1>4 DEF Mail
<1>7. Roomy(i)
  <2>1. Uploads[i] \in Nat /\ RecvMax \in Nat
    BY ConstantsOf
  <2> QED BY <1>1, <1>3, <1>4, <2>1 DEF Roomy
<1>8. Credits(i)
  BY <1>1, <1>2, <1>3 DEF Credits
<1>9. Awake(i) /\ AsleepForAReason(i, ~Over(writer[i]))
  BY <1>2 DEF Awake, AsleepForAReason
<1>10. Answering(i) /\ EndedWhole(i) /\ Told(i)
  BY <1>1, <1>2 DEF Answering, EndedWhole, Told, NoOutput
<1> QED BY <1>5, <1>6, <1>7, <1>8, <1>9, <1>10 DEF Stream

\* Init.
LEMMA InitIInv ==
    ASSUME Init
    PROVE  IInv
<1>1. /\ NewExchange \in Exchanges /\ Len(NewExchange.send) <= SendMax /\ NoApp \in Apps
      /\ NoStream \in Streams /\ NoWriter \in Writers /\ NoOutput \in Outputs
  <2>1. <<>> \in Seq(RequestMessages) /\ <<>> \in Seq(Messages)
    BY EmptySeq
  <2>2. NewExchange \in Exchanges /\ NoApp \in Apps
    BY <2>1 DEF NewExchange, Exchanges, NoApp, Apps
  <2>3. Len(NewExchange.send) <= SendMax
    BY QueueAssumption DEF NewExchange
  <2>4. NoStream \in Streams /\ NoWriter \in Writers /\ NoOutput \in Outputs
    BY DEF NoStream, Streams, NoWriter, Writers, NoOutput, Outputs
  <2> QED BY <2>2, <2>3, <2>4
<1>2. Typed
  BY <1>1 DEF Init, Typed, NoOutput
<1>3. Around
  <2>1. peer \in [Requests -> [at : {"idle", "open", "ended", "reset"}, sent : Nat]]
    BY DEF Init
  <2>2. inbox \in Seq([kind : Kinds, of : Requests \cup {0}])
    BY EmptySeq DEF Init
  <2>3. /\ outConn \in 0 .. Window /\ outStream \in [Requests -> Nat]
        /\ \A i \in Requests : outStream[i] <= StreamWindow[i]
    BY ConnectionAssumption DEF Init
  <2>4. /\ writePaused \in BOOLEAN /\ goaway \in BOOLEAN
        /\ closed \in BOOLEAN /\ lost \in BOOLEAN
        /\ resets \in Nat /\ (closed \/ resets <= MaxResets)
        /\ trouble \in 0 .. MaxTrouble
    <3>1. MaxResets \in Nat /\ MaxTrouble \in Nat
      BY ConnectionAssumption
    <3>2. /\ writePaused = FALSE /\ goaway = FALSE /\ resets = 0 /\ closed = FALSE
          /\ lost = FALSE /\ trouble = 0
      BY DEF Init
    <3>3. /\ writePaused \in BOOLEAN /\ goaway \in BOOLEAN
          /\ closed \in BOOLEAN /\ lost \in BOOLEAN
      BY <3>2, Zenon
    <3>4. resets \in Nat /\ resets <= MaxResets /\ trouble \in 0 .. MaxTrouble
      BY <3>1, <3>2
    <3> QED BY <3>3, <3>4
  <2> QED BY <2>1, <2>2, <2>3, <2>4 DEF Around
<1>4. Lost
  BY DEF Init, Lost
<1> QED BY <1>2, <1>3, <1>4, FirstStreams DEF IInv

\* Where nothing changes.
LEMMA StutterIInv ==
    ASSUME IInv, UNCHANGED vars
    PROVE  IInv'
<1>1. /\ ex' = ex /\ app' = app /\ peer' = peer /\ inbox' = inbox /\ stream' = stream
      /\ writer' = writer /\ out' = out /\ outConn' = outConn /\ outStream' = outStream
      /\ writePaused' = writePaused /\ goaway' = goaway /\ resets' = resets
      /\ closed' = closed /\ lost' = lost /\ received' = received /\ returned' = returned
      /\ given' = given /\ trouble' = trouble
  BY DEF vars
<1>2. Typed'
  BY <1>1 DEF IInv, Typed
<1>3. Around' /\ Lost'
  BY <1>1 DEF IInv, Around, Lost, Live
<1>4. ASSUME NEW i \in Requests PROVE Stream(i)'
  <2>1. Stream(i)
    BY DEF IInv
  <2>2. Sides(i)' /\ Mail(i)' /\ Roomy(i)'
    BY <1>1, <2>1 DEF Stream, Sides, Mail, Roomy
  <2>3. Credits(i)' /\ Awake(i)'
    BY <1>1, <2>1 DEF Stream, Credits, Unread, Awake, CreditOf
  <2>4. AsleepForAReason(i, ~Over(writer[i]))' /\ Answering(i)' /\ EndedWhole(i)' /\ Told(i)'
    BY <1>1, <2>1 DEF Stream, AsleepForAReason, Answering, Line, EndedWhole, Told
  <2> QED BY <2>2, <2>3, <2>4 DEF Stream
<1> QED BY <1>2, <1>3, <1>4 DEF IInv

\* Next: what is around the streams first, then each stream by how it moves.
LEMMA NextIInv ==
    ASSUME IInv, [Next]_vars
    PROVE  IInv'
<1>1. CASE UNCHANGED vars
  BY <1>1, StutterIInv
<1>2. CASE Next
  <2>1. Base /\ Lost /\ \A i \in Requests : Stream(i)
    BY DEF IInv, Base, Stream
  <2>2. Moved /\ Around' /\ (Stepped \/ Arrived)
    BY <1>2, <2>1, NextMoves, AroundStays, NextSteps
  <2>3. Typed'
    BY <2>1, <2>2, TypedStays DEF Base
  <2>4. Lost'
    BY <2>1, <2>2, LostStays
  <2>5. Onward
    BY <2>1, <2>2, SameOnward DEF Stepped, Arrived, ArrivedOf, Base
  <2>6. ASSUME NEW i \in Requests PROVE Stream(i)'
    <3>1. /\ TypedOf(i) /\ Moves(i) /\ Around /\ Sides(i) /\ Mail(i) /\ Roomy(i) /\ Credits(i)
          /\ Awake(i) /\ AsleepForAReason(i, ~Over(writer[i]))
          /\ Answering(i) /\ EndedWhole(i) /\ Told(i)
      BY <2>1, <2>2 DEF Base, Typed, TypedOf, Moved, Stream
    <3>2. Sides(i)'
      BY <3>1, SidesStay
    <3>3. Mail(i)' /\ Roomy(i)'
      BY <2>1, <2>2, <3>1, <3>2, MailStays, RoomyStays
    <3>4. Credits(i)' /\ Awake(i)'
      BY <2>1, <2>2, <2>5, <3>1, CreditsStay, AwakeStays
    <3>5. AsleepForAReason(i, ~Over(writer[i]))'
      BY <3>1, <3>2, AsleepStays
    <3>6. Answering(i)'
      BY <3>1, AnsweringStays
    <3>7. EndedWhole(i)'
      BY <3>1, <3>2, <3>6, EndedWholeStays
    <3>8. Told(i)'
      BY <2>1, <2>2, <3>1, ToldStays
    <3> QED BY <3>2, <3>3, <3>4, <3>5, <3>6, <3>7, <3>8 DEF Stream
  <2> QED BY <2>2, <2>3, <2>4, <2>6 DEF IInv
<1> QED BY <1>1, <1>2

\* The inductive invariant of the connection.
THEOREM Invariant == Spec => []IInv
<1>1. Init => IInv
  BY InitIInv
<1>2. IInv /\ [Next]_vars => IInv'
  BY NextIInv
<1> QED BY <1>1, <1>2, PTL DEF Spec

-----------------------------------------------------------------------------
\* What it means for the properties of the connection.

\* Every variable of the connection keeps its type: no queue outgrows its bound,
\* no window goes below zero, and the resets of an open connection stay below
\* the number that closes it.  (utils.py:689-748, http2.py:80-150)
THEOREM TypeCorrect == Spec => []TypeOK
<1>1. IInv => TypeOK
  <2> SUFFICES ASSUME IInv PROVE TypeOK
    OBVIOUS
  <2>1. Typed /\ Around /\ \A i \in Requests : Len(ex[i].recv) <= RecvMax
    BY DEF IInv, Stream, Roomy
  <2>2. ApplicationTypeOK
    BY <2>1 DEF ApplicationTypeOK, Typed, Apps
  <2>3. \A i \in Requests : outStream[i] \in 0 .. StreamWindow[i]
    <3>1. \A i \in Requests : outStream[i] \in Nat /\ outStream[i] <= StreamWindow[i]
      BY <2>1 DEF Around
    <3> QED BY <3>1, ConstantsOf
  <2> QED BY <2>1, <2>2, <2>3 DEF TypeOK, Typed, Around, Kinds, Streams, Writers, Stopped, Outputs
<1> QED BY <1>1, Invariant, PTL

\* The peer may send again all that no application can still read, on an open
\* connection and whatever became of the streams.  (_on_data, _reset_stream,
\* _finalize, _write_response)
THEOREM CreditComesBack == Spec => []NoCreditLost
<1>1. IInv => NoCreditLost
  <2> SUFFICES ASSUME IInv, ~closed, NEW i \in Requests
               PROVE  received[i] - returned[i] <=
                          IF i \in Live /\ ~ex[i].complete THEN Unread(i) ELSE 0
    BY DEF NoCreditLost
  <2>1. /\ received[i] - returned[i] <= stream[i].unacked
        /\ ex[i].complete => stream[i].unacked = 0
        /\ stream[i].live /\ ~ex[i].complete => stream[i].unacked <= Unread(i)
    BY DEF IInv, Stream, Credits
  <2>2. ~stream[i].live => stream[i].unacked = 0
    BY DEF IInv, Stream, Sides, NoStream
  <2>3. /\ received[i] \in Nat /\ returned[i] \in Nat /\ stream[i].unacked \in Nat
        /\ Unread(i) \in Nat
    <3>1. received[i] \in Nat /\ returned[i] \in Nat /\ stream[i].unacked \in Nat
      BY DEF IInv, Typed, Streams
    <3>2. ex[i].recv \in Seq(RequestMessages)
      BY DEF IInv, Typed, Exchanges
    <3>3. Count(ex[i].recv, {"data"}) \in Nat
      BY <3>2, CountIsNatural
    <3> QED BY <3>1, <3>3, UnreadIs
  <2>4. received[i] - returned[i] \in Int
    BY <2>3
  <2> QED BY <2>1, <2>2, <2>3, <2>4 DEF Live
<1> QED BY <1>1, Invariant, PTL

\* No task sleeps through the event it waits for, although all the writers of a
\* connection share two of them: of the peer's credit, and of the transport.
\* (_wait_for_window, _wait_writable, resume_writing, utils.py:764-813)
THEOREM NoneOversleeps == Spec => []NoMissedWakeUp
<1>1. IInv => NoMissedWakeUp
  <2> SUFFICES ASSUME IInv PROVE NoMissedWakeUp
    OBVIOUS
  <2>1. ASSUME Settled, NEW i \in Requests, writer[i].pc = "window"
        PROVE  CreditOf(i) = 0
    <3>1. \A k \in DOMAIN inbox : FALSE
      BY <2>1, EmptySeq, LenProperties DEF Settled
    <3> QED BY <2>1, <3>1 DEF IInv, Stream, Awake
  <2>2. \A i \in Requests : AsleepForAReason(i, ~Over(writer[i]))
    BY DEF IInv, Stream
  <2>3. \A i \in Requests : writer[i].pc = "paused" => writePaused
    BY DEF IInv, Stream, Awake
  <2> QED BY <2>1, <2>2, <2>3 DEF NoMissedWakeUp
<1> QED BY <1>1, Invariant, PTL

\* The peer learns the end of every stream that the server has forgotten, as long as
\* the connection is open and it listens, but for a writer that failed on a message
\* or took trailers which no section was open for.
\* (_write_response, _reset_stream, _on_connection_terminated)
THEOREM PeerIsTold == Spec => []GoneMeansTold
<1>1. IInv => GoneMeansTold
  <2> SUFFICES ASSUME IInv, ~closed, ~goaway, NEW i \in Requests,
                      i \notin Live, app[i].pc # "none"
               PROVE  \/ out[i].end # "open" \/ peer[i].at = "reset"
                      \/ writer[i].pc \in {"failed", "silent"}
    BY DEF GoneMeansTold
  <2>1. Sides(i) /\ Told(i)
    BY DEF IInv, Stream
  <2>2. writer[i].pc # "none"
    BY <2>1 DEF Sides, NoApp
  <2>3. writer[i].pc \in Stopped
    BY <2>1, <2>2 DEF Sides, Over, Stopped, Live
  <2> QED BY <2>1, <2>3 DEF Told, Stopped
<1> QED BY <1>1, Invariant, PTL

\* A response that ended carried all of its body, however it was cut by the
\* windows, and one that was given up has not ended.  (_send_data, run_app)
THEOREM WholeAnswers == Spec => []EndedIsWhole
<1>1. IInv => EndedIsWhole
  BY DEF IInv, Stream, EndedWhole, EndedIsWhole
<1> QED BY <1>1, Invariant, PTL

\* The last of the two sides to finish forgets the stream, whichever it is.
\* (_on_stream_ended, _write_response, _finalize)
THEOREM BothSidesForget == Spec => []FinishedIsForgotten
<1>1. IInv => FinishedIsForgotten
  BY DEF IInv, Stream, Sides, FinishedIsForgotten, Live
<1> QED BY <1>1, Invariant, PTL

\* Nothing that was started for a connection outlives it, not even what a batch
\* started behind the event that closed it.  (connection_lost, _cancel_all)
THEOREM NothingIsLeft == Spec => []LostMeansOver
<1>1. IInv => LostMeansOver
  <2> SUFFICES ASSUME IInv, lost, NEW i \in Requests
               PROVE  /\ i \notin Live /\ Over(writer[i])
                      /\ app[i].pc \in {"run", "recv", "put"} => ex[i].complete
    BY DEF LostMeansOver
  <2>1. Live = {} /\ Sides(i)
    BY DEF IInv, Lost, Stream
  <2>2. Over(writer[i])
    BY <2>1 DEF Sides, Live
  <2>3. writer[i].pc = "none" => app[i].pc = "none"
    BY <2>1 DEF Sides, NoApp
  <2>4. writer[i].pc \in Stopped => ex[i].complete
    BY <2>1 DEF Sides
  <2> QED BY <2>1, <2>2, <2>3, <2>4 DEF Over, Stopped
<1> QED BY <1>1, Invariant, PTL
=============================================================================
