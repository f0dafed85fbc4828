---------------------------- MODULE Http1Proofs ----------------------------
(***************************************************************************)
(* What Http1Connection keeps, for any stream of tokens, any applications  *)
(* and any bounds.                                                         *)
(*                                                                         *)
(* A step of the connection is looked at from one request at a time: Moves *)
(* says all that a step can do to the exchange, the application and the    *)
(* writer of a request, whoever takes it.  What the answer to a request is *)
(* made of is read off its line, the messages of its application that the  *)
(* writer has not taken yet.                                               *)
(***************************************************************************)
EXTENDS Http1Connection, ApplicationProofs, WellFoundedInduction, FiniteSetTheorems

-----------------------------------------------------------------------------
\* Numbers.

\* A non-empty set of naturals has a least element.
LEMMA LeastNatural ==
    ASSUME NEW S, S \subseteq Nat, S # {}
    PROVE  \E x \in S : \A y \in S : x <= y
<1> DEFINE R == OpToRel(<, Nat)
<1>1. IsWellFoundedOn(R, Nat)
  BY NatLessThanWellFounded
<1>2. \A x, y \in Nat : <<x, y>> \in R <=> x < y
  BY DEF OpToRel
<1> HIDE DEF R
<1>3. PICK x \in S : \A y \in S : ~ (<<y, x>> \in R)
  BY <1>1, WFMin
<1>4. \A y \in S : ~ (y < x)
  BY <1>2, <1>3
<1>5. \A y \in S : x <= y
  BY <1>4, SMT
<1> QED BY <1>5

\* A set that holds, with a number, all the smaller ones above a is an interval.
LEMMA IntervalFromBelow ==
    ASSUME NEW a \in Nat, NEW b \in Nat, a <= b, NEW S, S \subseteq a + 1 .. b,
           \A k \in S : \A j \in a + 1 .. b : j <= k => j \in S
    PROVE  /\ Cardinality(S) \in Nat /\ IsFiniteSet(S)
           /\ a + Cardinality(S) <= b
           /\ S = a + 1 .. a + Cardinality(S)
<1>1. PICK n \in a .. b : S = a + 1 .. n
  <2> DEFINE U == (a + 1 .. b) \ S
  <2>1. CASE U = {}
    <3>1. S = a + 1 .. b
      BY <2>1
    <3> QED BY <3>1
  <2>2. CASE U # {}
    <3>1. U \subseteq Nat
      OBVIOUS
    <3>2. PICK u \in U : \A y \in U : u <= y
      <4> HIDE DEF U
      <4> QED BY <2>2, <3>1, LeastNatural
    <3>3. u \in a + 1 .. b /\ u \notin S
      BY <3>2
    <3>4. \A k \in a + 1 .. u - 1 : k \in S
      BY <3>2, <3>3
    <3>5. \A k \in S : k \in a + 1 .. u - 1
      BY <3>3
    <3>6. u - 1 \in a .. b /\ a + 1 .. u - 1 \subseteq a + 1 .. b
      BY <3>3
    <3>7. S = a + 1 .. u - 1
      BY <3>4, <3>5, <3>6, Zenon
    <3> QED BY <3>6, <3>7
  <2> QED BY <2>1, <2>2
<1>2. IsFiniteSet(S) /\ Cardinality(S) = n - a
  <2>1. a + 1 \in Int /\ n \in Int /\ n - (a + 1) + 1 = n - a /\ (a + 1 > n => n - a = 0)
    BY <1>1
  <2> QED BY <1>1, <2>1, FS_Interval
<1>3. a + (n - a) = n /\ n - a \in Nat
  OBVIOUS
<1> QED BY <1>1, <1>2, <1>3

\* The least of a set of naturals can be chosen.
LEMMA LeastChosen ==
    ASSUME NEW S, S \subseteq Nat, S # {}
    PROVE  LET x == CHOOSE k \in S : \A j \in S : k <= j
           IN  x \in S /\ \A j \in S : x <= j
  BY LeastNatural

-----------------------------------------------------------------------------
\* The inductive invariant.

Writing(i) == writer.pc = "run" /\ writer.of = i
Heads == [of : Requests \cup {0}, kind : {"head", "interim", "error"},
          framing : Framings, inside : Requests \cup {0}]
Writers == [pc : {"run", "done"}, of : Requests \cup {0}, started : BOOLEAN,
            framing : Framings, trailers : BOOLEAN, awaiting : BOOLEAN, sent : Nat,
            out : Seq({"head", "interim", "data", "end"}),
            last : BOOLEAN, aborted : BOOLEAN]
\* The types of the variables, and of what is around the requests.
Typed ==
    /\ ex \in [Requests -> Exchanges] /\ app \in [Requests -> Apps]
    /\ \A i \in Requests : Len(ex[i].recv) <= RecvMax /\ Len(ex[i].send) <= SendMax
    /\ writer \in Writers
Around ==
    /\ stream \in Streams
    /\ arrived \in 0 .. Len(stream) /\ read \in 0 .. arrived
    /\ taken \subseteq DOMAIN stream
    /\ state \in {"idle", "body", "waiting"}
    /\ reader \in {"ready", "data", "space", "error", "done"}
    /\ dataEvent \in BOOLEAN /\ continueSent \in BOOLEAN
    /\ cur \in Requests \cup {0} /\ served \in Nat
    /\ writePaused \in BOOLEAN /\ closed \in BOOLEAN /\ lost \in BOOLEAN
    /\ heads \in Seq(Heads) /\ open \in Requests \cup {0}

\* The units of the body of a request that are passed on, or refused.
Units(i) == {k \in DOMAIN stream : stream[k].of = i /\ stream[k].kind \in {"data", "big"}}

\* The tasks of the connection, and the request they are about.
Control ==
    /\ reader = "done" <=> closed
    /\ lost => closed
    /\ cur # 0 => app[cur].pc # "none"
    /\ writer.pc = "run" =>
        /\ ~closed /\ writer.of = cur /\ cur # 0 /\ ~ex[cur].complete
    /\ ~closed =>
        /\ cur = 0 <=> state = "idle"
        /\ cur # 0 => Writing(cur) \/ (ex[cur].complete /\ state = "waiting")
        /\ reader = "space" \/ taken # {} => cur # 0
        /\ state = "waiting" /\ (reader = "space" \/ taken # {}) => ex[cur].complete
        /\ reader = "error" => IF cur = 0 THEN read < arrived
                               ELSE Writing(cur) /\ ex[cur].finished

\* Requests are dispatched in the order of their heads.
Dispatched(i) ==
    app[i].pc # "none" =>
        /\ \E k \in 1 .. read : stream[k].of = i
        /\ ~closed /\ cur # 0 => i <= cur

\* The exchange and the tasks of a request agree on how far it is.
Sides(i) ==
    LET r == ex[i]
        a == app[i]
    IN  /\ a.pc = "none" => r = NewExchange /\ a = NoApp
        /\ a.pc # "none" => (r.complete <=> ~Writing(i))
        /\ r.finished = r.disconnected
        /\ r.complete => r.finished /\ r.sendSpace
        /\ r.complete /\ ~closed => r.started
        /\ r.finished /\ Writing(i) => reader = "error"
        /\ ~r.started => ~r.announced /\ ~r.bodyEnded
        /\ a.over => a.pc \in {"put", "done"}
        /\ a.gaveUp => a.over
        /\ a.todo # <<>> => a.pc = "put"

\* What is read belongs to the request the connection is on, or to earlier
\* ones, and what is not to it or to later ones.
Reading == ~closed =>
    /\ \A k \in taken : k <= read /\ stream[k].of = cur /\ stream[k].kind \in {"data", "big"}
    /\ state = "idle" /\ read < Len(stream) => IsHead(stream[read + 1])
    /\ cur # 0 =>
        /\ \A k \in DOMAIN stream :
            IF k <= read THEN stream[k].of <= cur ELSE stream[k].of >= cur
        /\ \E k \in 1 .. read : stream[k].of = cur
    /\ state = "waiting" /\ cur # 0 => Rest = {} \/ ~ex[cur].keep
    /\ reader = "space" /\ taken = {} /\ state = "body" => Rest = {}

\* Every unit that was decoded is on its way to the application, which is told
\* of the end after the last of them.
Passed(i) == app[i].got + Count(ex[i].recv, {"data"})
Ordered(s) ==
    \A j, k \in DOMAIN s : s[j] = "end" /\ s[k] \in {"data", "end"} => k <= j
Told(i) ==
    /\ Has(ex[i].recv, {"end"}) => Passed(i) = Cardinality(Units(i)) /\ ~app[i].whole
    /\ app[i].whole =>
        app[i].got = Cardinality(Units(i)) /\ Count(ex[i].recv, {"data", "end"}) = 0
    /\ Ordered(ex[i].recv)
Passing ==
    ~closed /\ state = "body" /\ ~ex[cur].finished =>
        /\ ~app[cur].whole /\ ~Has(ex[cur].recv, {"end"})
        /\ Passed(cur) = Cardinality(Units(cur) \ (taken \cup Rest))

\* How far a writer is.
Outs(w) ==
    IF ~w.started THEN {<<>>, <<"interim">>}
    ELSE CASE w.framing = "chunked" ->
                IF w.last THEN {<<"end">>, <<"data", "end">>}
                ELSE {<<>>, <<"head">>, <<"data">>, <<"data", "data">>}
           [] w.framing = "length" ->
                IF w.sent = Declared THEN {<<>>, <<"end">>} ELSE {<<>>, <<"head">>, <<"data">>}
           [] w.framing = "close" -> {<<>>, <<"head">>, <<"data">>}
           [] OTHER -> {<<>>, <<"head">>}
Phase(w) ==
    /\ w.out \in Outs(w)
    /\ ~w.aborted
    /\ w.last => w.out # <<>>
    /\ w.awaiting => w.framing = "chunked"
    /\ w.out = <<"head">> => w.sent = 0 /\ ~w.last
    /\ ~w.started => w.framing = "none" /\ w.sent = 0 /\ ~w.last
WriterOf(i) ==
    Writing(i) => Phase(writer) /\ (writer.framing = "close" => ~ex[i].keep)

\* The messages that the writer will still see, in order: interim answers, a
\* start, and what follows it.
Opening(L, w, r) ==
    /\ r.started <=> w.started \/ \E k \in DOMAIN L : L[k].kind = "start"
    /\ \A k \in DOMAIN L :
        /\ L[k].kind \in {"interim", "start"} =>
            ~w.started /\ \A j \in 1 .. k - 1 : L[j].kind = "interim"
        /\ L[k].kind \in {"body", "trailers"} =>
            w.started \/ \E j \in 1 .. k - 1 : L[j].kind = "start"

\* An answer is told to end by an application that did not give it up.
Stops == Final \cup {Trailers}
Closed(w) == w.awaiting \/ w.last
Stopping(L, w, r, a) ==
    Closed(w) \/ Has(L, Stops) => ~a.gaveUp /\ (r.bodyEnded \/ a.over)

\* Trailers come after the end of the body.
TrailersLast(L, w, r) ==
    Careful =>
        /\ r.bodyEnded /\ r.announced => Closed(w) \/ Has(L, Final)
        /\ \A k \in DOMAIN L : L[k] = Trailers =>
            Closed(w) \/ \E j \in 1 .. k - 1 : L[j] \in Final

Holds(L, w, r, a) == Opening(L, w, r) /\ Stopping(L, w, r, a) /\ TrailersLast(L, w, r)
Interims(L) == \A k \in DOMAIN L : L[k].kind = "interim"
Answering(i) ==
    Writing(i) =>
        IF ex[i].finished THEN ~writer.started /\ Interims(Line(i))
        ELSE Holds(Line(i), writer, ex[i], app[i])

\* What is on the wire.
Chunked(i) ==
    \E k \in DOMAIN heads :
        heads[k].of = i /\ heads[k].kind = "head" /\ heads[k].framing = "chunked"
EndsWell(i) == ~app[i].gaveUp /\ (ex[i].bodyEnded \/ app[i].over)
StaysOpen(i) == Chunked(i) /\ ~EndsWell(i) => open = i
ClosedAnswers(i) == ~closed /\ ex[i].complete /\ Chunked(i) => EndsWell(i)
OnWire ==
    ~closed =>
        \A k \in DOMAIN heads : FinalHead(heads[k]) =>
            /\ heads[k].of # 0 /\ app[heads[k].of].pc # "none"
            /\ Writing(heads[k].of) =>
                writer.started /\ writer.out # <<"head">> /\ heads[k].framing = writer.framing
OpenBody ==
    Careful /\ ~closed /\ open # 0 =>
        /\ cur = open
        /\ ex[cur].complete => ~ex[cur].keep
        /\ Writing(cur) =>
            /\ writer.started /\ writer.out # <<"head">> /\ writer.framing # "none"
            /\ writer.framing = "length" /\ writer.sent = Declared => writer.out = <<"end">>

\* Who is asleep, and what for.
DataSeen == reader = "data" /\ ~dataEvent => NothingToRead
Spaced(i) == ~closed /\ ~ex[i].recvSpace => Full(ex[i]) /\ ~Gone(ex[i])
Asleep(i) == AsleepForAReason(i, Writing(i))

\* What a request is at, and what the peer has seen of its answer.
AtRequest(i) ==
    /\ Dispatched(i) /\ Sides(i) /\ Told(i) /\ WriterOf(i) /\ Answering(i)
    /\ StaysOpen(i) /\ ClosedAnswers(i) /\ Spaced(i) /\ Asleep(i)

IInv ==
    /\ Typed /\ Around /\ Control /\ Reading /\ Passing
    /\ OnWire /\ OpenBody /\ AnswersInOrder /\ (Careful => HeadsOutsideBodies)
    /\ DataSeen
    /\ \A i \in Requests : AtRequest(i)

-----------------------------------------------------------------------------
\* What a step can do to request i.

\* The writer of i goes on with what it has, or there is none.
SameWriter(i) ==
    /\ Writing(i)' <=> Writing(i)
    /\ Writing(i) => writer' = writer

Untouched(i) == ex'[i] = ex[i] /\ app'[i] = app[i] /\ SameWriter(i)

\* The request is dispatched.
Begun(i) ==
    /\ ~closed' /\ app[i].pc = "none" /\ app'[i] = Started(app[i])
    /\ writer' = NewWriter(i)
    /\ \E keep, asks \in BOOLEAN, recv \in {<<>>, <<"end">>} :
          ex'[i] = [NewExchange EXCEPT !.keep = keep, !.asks = asks, !.recv = recv]

\* The reader passes a message on, waits for room, or gives the connection up
\* for the next request.
Fed(i) ==
    /\ app'[i] = app[i] /\ SameWriter(i) /\ Writing(i)
    /\ ~Gone(ex[i]) /\ ~Full(ex[i])
    /\ \/ taken' # taken /\ ex'[i] = Feed(ex[i], "data")
       \/ FinishRequest /\ ex'[i] = Feed(ex[i], "end")
Held(i) ==
    /\ app[i].pc # "none" /\ app'[i] = app[i] /\ SameWriter(i)
    /\ ~Gone(ex[i]) /\ Full(ex[i]) /\ ex'[i] = AwaitSpace(ex[i])
Rekept(i) ==
    /\ app[i].pc # "none" /\ app'[i] = app[i] /\ SameWriter(i)
    /\ \E b \in BOOLEAN : (b => ex[i].keep) /\ ex'[i] = [ex[i] EXCEPT !.keep = b]
Refused(i) ==
    /\ app'[i] = app[i] /\ SameWriter(i) /\ Writing(i)
    /\ ~ex[i].started /\ reader' = "error"
    /\ ex'[i] = [NotifyDisconnect(ex[i]) EXCEPT !.keep = FALSE]

\* The units and the end of the body are in two queues at the same places.
SameBody(s, t) ==
    \A x \in {"data", "end"} : {k \in DOMAIN t : t[k] = x} = {k \in DOMAIN s : s[k] = x}

\* What an exchange r may become before the tasks of its request are cancelled.
Downed(r, e) ==
    /\ e \in Exchanges /\ Len(e.recv) <= RecvMax /\ Len(e.send) <= SendMax
    /\ SameFlags(r, e) /\ e.complete = r.complete
    /\ e.finished = e.disconnected
    /\ r.finished => e.finished
    /\ r.sendSpace => e.sendSpace
    /\ SameBody(r.recv, e.recv)

\* The connection closes.
TakenDown(i) ==
    /\ closed' /\ writer' = NoWriter /\ reader' = "done"
    /\ app[i].pc # "none" /\ app'[i] = Cancelled(app[i])
    /\ \E r : Downed(ex[i], r) /\ ex'[i] = IF Writing(i) THEN Completed(r) ELSE r

\* Where a body message leaves the writer.
BodyTaken(w, m) ==
    LET over == w.framing = "length" /\ m.data /\ w.sent = Declared
        sent == IF m.data /\ ~over THEN w.sent + 1 ELSE w.sent
        data == IF ~m.data \/ over THEN <<>>
                ELSE IF w.framing = "length" /\ sent = Declared THEN <<"end">>
                ELSE <<"data">>
        tail == IF m.more \/ w.framing # "chunked" THEN <<>>
                ELSE IF w.trailers THEN <<"data">> ELSE <<"end">>
        opens == ~m.more /\ w.framing = "chunked" /\ w.trailers
    IN  IF w.framing = "none" THEN [w EXCEPT !.last = ~m.more]
        ELSE [w EXCEPT !.sent = sent, !.out = data \o tail,
                       !.awaiting = @ \/ opens, !.last = ~m.more /\ ~opens]

\* What a writer makes of message m, and what it leaves of the exchange.
Reached(i, m, w, r) ==
    /\ SameFlags(ex[i], r) /\ SameState(ex[i], r) /\ (r.keep => ex[i].keep)
    /\ r.send = Tail(ex[i].send) /\ r.recv = ex[i].recv /\ r.sendSpace
    /\ r.recvSpace = ex[i].recvSpace
    /\ \/ m.kind = "interim" /\ w = [writer EXCEPT !.out = <<"interim">>]
       \/ /\ m.kind = "start"
          /\ w = [writer EXCEPT !.started = TRUE, !.framing = m.framing, !.out = <<"head">>,
                                !.trailers = m.trailers /\ m.framing # "none"]
          /\ m.framing = "close" => ~r.keep
       \/ /\ m.kind = "body" /\ (writer.framing # "none" => ~m.aborted)
          /\ w = BodyTaken(writer, m)
       \/ /\ m.kind = "trailers"
          /\ w = [writer EXCEPT !.last = TRUE,
                     !.out = IF writer.awaiting THEN <<"end">> ELSE <<>>]

\* The writer took a message or wrote an item, and is w with exchange r then;
\* it goes on, or the answer has ended.
Acts(i, w, r) ==
    \/ /\ writer.out = <<>> /\ ex[i].send # <<>> /\ Reached(i, Head(ex[i].send), w, r)
       /\ UNCHANGED wire
    \/ /\ writer.out # <<>> /\ w = [writer EXCEPT !.out = Tail(writer.out)] /\ r = ex[i]
       /\ Emit(Head(writer.out), i, writer.framing)
Goes(i, w, r) ==
    /\ app'[i] = app[i]
    /\ IF w.out = <<>> /\ w.last
       THEN /\ writer' = NoWriter
            /\ \E b \in BOOLEAN : /\ b => r.keep /\ LengthMet(w)
                                  /\ ex'[i] = Completed([r EXCEPT !.keep = b])
       ELSE writer' = w /\ ex'[i] = r
Wrote(i) ==
    /\ Writing(i) /\ closed' = closed /\ reader' = reader
    /\ \E w \in Writers, r \in Exchanges : Acts(i, w, r) /\ Goes(i, w, r)

\* The application takes a message, or finds none.
Reads(i) ==
    /\ SameWriter(i)
    /\ \E b \in BOOLEAN :
        \/ /\ app[i].pc \in {"run", "recv"} /\ ex[i].recv # <<>>
           /\ ex'[i] = Received([ex[i] EXCEPT !.asks = b])
           /\ app'[i] = [app[i] EXCEPT !.pc = "run",
                !.got = IF Head(ex[i].recv) = "data" THEN app[i].got + 1 ELSE app[i].got,
                !.whole = app[i].whole \/ Head(ex[i].recv) = "end"]
        \/ /\ app[i].pc = "run" /\ ex[i].recv = <<>>
           /\ ex'[i] = [ex[i] EXCEPT !.asks = b]
           /\ app'[i] = IF ex[i].disconnected THEN app[i]
                        ELSE [app[i] EXCEPT !.pc = "recv"]

\* It sends a message, ends, or goes on with what it had left to send.
Speaks(i) ==
    /\ SameWriter(i)
    /\ \/ \E m \in Says[i] :
            /\ app[i].pc = "run" /\ InPlace(ex[i], m) /\ InTurn(ex[i], m)
            /\ Queueing(i, Noted(ex[i], m), <<m>>,
                        [app[i] EXCEPT !.sends = app[i].sends + 1])
       \/ \E how \in Endings :
            /\ app[i].pc = "run" /\ MayEnd(ex[i], how)
            /\ Queueing(i, Ended(ex[i], how), LastWords(ex[i], how),
                        [app[i] EXCEPT !.over = TRUE, !.gaveUp =
                            how # "return" /\ ex[i].started /\ ~ex[i].bodyEnded])
       \/ /\ app[i].pc = "put" /\ ex[i].sendSpace
          /\ Queueing(i, ex[i], app[i].todo, app[i])

Moves(i) ==
    \/ Untouched(i) \/ Begun(i) \/ Fed(i) \/ Held(i) \/ Rekept(i) \/ Refused(i)
    \/ TakenDown(i) \/ Wrote(i) \/ Reads(i) \/ Speaks(i)

\* The functions on the requests stay functions on them.
Shaped ==
    /\ ex' = [i \in Requests |-> ex'[i]]
    /\ app' = [i \in Requests |-> app'[i]]
Moved == Shaped /\ \A i \in Requests : Moves(i)

\* What the lemmas on the steps start from.
Base ==
    /\ Typed /\ Around /\ Control /\ Reading
    /\ \A i \in Requests : Sides(i) /\ Dispatched(i)

-----------------------------------------------------------------------------
\* The tokens.

\* What is assumed of what the client sends.
LEMMA StreamIs ==
    ASSUME Around
    PROVE  /\ stream \in Seq(Tokens) /\ Len(stream) \in Nat /\ DOMAIN stream = 1 .. Len(stream)
           /\ arrived \in Nat /\ read \in Nat /\ read <= arrived /\ arrived <= Len(stream)
           /\ \A k \in DOMAIN stream : stream[k] \in Tokens /\ stream[k].of \in Requests
           /\ \A k \in DOMAIN stream :
                IsHead(stream[k]) <=> \A j \in 1 .. k - 1 : stream[j].of # stream[k].of
           /\ \A j, k \in DOMAIN stream : j <= k => stream[j].of <= stream[k].of
<1>1. stream \in Streams
  BY DEF Around
<1>2. /\ stream \in Seq(Tokens)
      /\ \A k \in DOMAIN stream :
            IsHead(stream[k]) <=> \A j \in 1 .. k - 1 : stream[j].of # stream[k].of
      /\ \A j, k \in DOMAIN stream : j <= k => stream[j].of <= stream[k].of
  BY <1>1, ConnectionAssumption
<1>3. Len(stream) \in Nat /\ DOMAIN stream = 1 .. Len(stream)
  BY <1>2, LenProperties
<1>4. \A k \in DOMAIN stream : stream[k] \in Tokens
  BY <1>2, <1>3, ElementOfSeq
<1>5. \A k \in DOMAIN stream : stream[k].of \in Requests
  BY <1>4 DEF Tokens
<1>6. arrived \in Nat /\ read \in Nat /\ read <= arrived /\ arrived <= Len(stream)
  BY <1>3 DEF Around
<1> QED BY <1>2, <1>3, <1>4, <1>5, <1>6

\* The requests are numbers from 1 on.
LEMMA RequestsAre ==
    /\ Requests \subseteq Nat /\ 0 \notin Requests
    /\ \A i \in Requests : Says[i] \subseteq Messages
<1>1. Cardinality(Requests) \in Nat
  BY ApplicationAssumption, FS_CardinalityType
<1>2. Requests = 1 .. Cardinality(Requests)
  BY ApplicationAssumption
<1> QED BY <1>1, <1>2, ApplicationAssumption

\* The buffer starts with the first token that was not read.
LEMMA BufferIs ==
    ASSUME Around
    PROVE  /\ Buffer = <<>> <=> read = arrived
           /\ Buffer # <<>> => /\ read + 1 \in DOMAIN stream /\ read < arrived
                               /\ Buffer[1] = stream[read + 1]
<1>1. /\ stream \in Seq(Tokens) /\ Len(stream) \in Nat /\ DOMAIN stream = 1 .. Len(stream)
      /\ arrived \in Nat /\ read \in Nat /\ read <= arrived /\ arrived <= Len(stream)
      /\ \A k \in DOMAIN stream : stream[k] \in Tokens
  BY StreamIs
<1>2. \A k \in read + 1 .. arrived : stream[k] \in Tokens
  BY <1>1
<1>3. /\ Buffer \in Seq(Tokens)
      /\ Len(Buffer) = IF read + 1 <= arrived THEN arrived - (read + 1) + 1 ELSE 0
      /\ \A k \in 1 .. arrived - (read + 1) + 1 : Buffer[k] = stream[(read + 1) + k - 1]
  <2>1. read + 1 \in Int /\ arrived \in Int
    BY <1>1
  <2> QED BY <1>1, <1>2, <2>1, SubSeqProperties DEF Buffer
<1>4. Buffer = <<>> <=> Len(Buffer) = 0
  BY <1>3, EmptySeq
<1>5. ASSUME read < arrived PROVE Buffer[1] = stream[read + 1]
  <2>1. 1 \in 1 .. arrived - (read + 1) + 1 /\ (read + 1) + 1 - 1 = read + 1
    BY <1>1, <1>5
  <2> QED BY <1>3, <2>1
<1> QED BY <1>1, <1>3, <1>4, <1>5

\* What of a body is buffered comes first, and so it can be taken at once.
LEMMA RestIs ==
    ASSUME Around, Reading, ~closed, cur # 0
    PROVE  /\ Rest \subseteq read + 1 .. Len(stream)
           /\ Buffered \subseteq Rest /\ Buffered = read + 1 .. Drained
           /\ Drained \in read .. arrived
           /\ Rest \subseteq Buffered => \A k \in read + 1 .. Len(stream) : k \in Rest => k <= Drained
<1>1. /\ stream \in Seq(Tokens) /\ Len(stream) \in Nat /\ DOMAIN stream = 1 .. Len(stream)
      /\ arrived \in Nat /\ read \in Nat /\ read <= arrived /\ arrived <= Len(stream)
      /\ \A k \in DOMAIN stream : stream[k] \in Tokens /\ stream[k].of \in Requests
      /\ \A j, k \in DOMAIN stream : j <= k => stream[j].of <= stream[k].of
  BY StreamIs
<1>2. \A k \in DOMAIN stream : read < k => stream[k].of >= cur
  BY <1>1 DEF Reading
<1>3. Buffered \subseteq read + 1 .. arrived /\ Buffered \subseteq Rest
      /\ Rest \subseteq read + 1 .. Len(stream)
  BY <1>1 DEF Buffered, Rest
<1>4. ASSUME NEW k \in Buffered, NEW j \in read + 1 .. arrived, j <= k PROVE j \in Buffered
  <2>1. k \in DOMAIN stream /\ j \in DOMAIN stream /\ stream[k].of = cur /\ read < j
    BY <1>1, <1>4 DEF Buffered, Rest
  <2>2. stream[j].of <= stream[k].of /\ stream[j].of >= cur
    BY <1>1, <1>2, <1>4, <2>1
  <2>3. stream[j].of = cur
    <3>1. stream[j].of \in Nat /\ cur \in Nat
      BY <1>1, <2>1, RequestsAre
    <3> QED BY <2>1, <2>2, <3>1
  <2> QED BY <1>1, <2>1, <2>3 DEF Buffered, Rest
<1>5. /\ Cardinality(Buffered) \in Nat /\ read + Cardinality(Buffered) <= arrived
      /\ Buffered = read + 1 .. read + Cardinality(Buffered)
  <2> DEFINE S == Buffered
  <2>1. S \subseteq read + 1 .. arrived /\ \A k \in S : \A j \in read + 1 .. arrived : j <= k => j \in S
    BY <1>3, <1>4
  <2> HIDE DEF S
  <2>2. /\ Cardinality(S) \in Nat /\ read + Cardinality(S) <= arrived
        /\ S = read + 1 .. read + Cardinality(S)
    BY <1>1, <2>1, IntervalFromBelow
  <2> QED BY <2>2 DEF S
<1>6. Drained \in read .. arrived /\ Buffered = read + 1 .. Drained
  BY <1>1, <1>5 DEF Drained
<1>7. \A k \in Buffered : k <= Drained
  BY <1>1, <1>6
<1> QED BY <1>3, <1>6, <1>7

\* The next unit is one of those that were decoded.
LEMMA NextUnitIs ==
    ASSUME Around, taken # {}
    PROVE  NextUnit \in taken /\ \A k \in taken : NextUnit <= k
<1>1. taken \subseteq Nat
  <2>1. taken \subseteq DOMAIN stream /\ DOMAIN stream \subseteq Nat
    BY StreamIs DEF Around
  <2> QED BY <2>1
<1> QED BY <1>1, LeastChosen DEF NextUnit

-----------------------------------------------------------------------------
\* What an exchange may become before its tasks are cancelled.

\* A disconnect more in the queue is neither a unit nor the end of the body.
LEMMA OfferedSameBody ==
    ASSUME NEW r \in Exchanges
    PROVE  /\ SameBody(r.recv, Offered(r, "disconnect"))
           /\ Offered(r, "disconnect") \in Seq(RequestMessages)
           /\ Offered(r, "disconnect") # <<>>
           /\ Len(r.recv) <= RecvMax => Len(Offered(r, "disconnect")) <= RecvMax
<1> DEFINE s == r.recv
           t == Append(s, "disconnect")
<1>1. s \in Seq(RequestMessages) /\ "disconnect" \in RequestMessages
  BY DEF Exchanges, RequestMessages
<1>2. SameBody(s, t)
  <2>1. /\ Len(s) \in Nat /\ DOMAIN s = 1 .. Len(s) /\ DOMAIN t = 1 .. Len(s) + 1
        /\ t[Len(s) + 1] = "disconnect" /\ \A k \in 1 .. Len(s) : t[k] = s[k]
    BY <1>1, AppendPoints
  <2> HIDE DEF s, t
  <2>2. ASSUME NEW x \in {"data", "end"}
        PROVE  {k \in DOMAIN t : t[k] = x} = {k \in DOMAIN s : s[k] = x}
    <3>1. ASSUME NEW k PROVE k \in DOMAIN t /\ t[k] = x <=> k \in DOMAIN s /\ s[k] = x
      BY <2>1
    <3> QED BY <3>1
  <2> QED BY <2>2 DEF SameBody
<1>3. SameBody(s, s)
  BY DEF SameBody
<1>4. SameBody(r.recv, Offered(r, "disconnect"))
  BY <1>2, <1>3 DEF Offered
<1> QED BY <1>1, <1>4, OfferedActs

\* It may stay as it is but for keep_alive ...
LEMMA DownedSelf ==
    ASSUME NEW r \in Exchanges, Len(r.recv) <= RecvMax, Len(r.send) <= SendMax,
           r.finished = r.disconnected, NEW b \in BOOLEAN
    PROVE  Downed(r, r) /\ Downed(r, [r EXCEPT !.keep = b])
BY DEF Downed, SameFlags, SameBody, Exchanges

\* ... be told of the disconnect ...
LEMMA DownedNotified ==
    ASSUME NEW r \in Exchanges, NEW e, Downed(r, e)
    PROVE  Downed(r, NotifyDisconnect(e))
<1>1. e \in Exchanges /\ SameBody(r.recv, e.recv)
  BY DEF Downed
<1> DEFINE t == Offered(e, "disconnect")
<1>2. /\ t \in Seq(RequestMessages) /\ Len(t) <= RecvMax /\ SameBody(e.recv, t)
  BY <1>1, OfferedSameBody DEF Downed
<1>3. SameBody(r.recv, t)
  BY <1>1, <1>2 DEF SameBody
<1>4. NotifyDisconnect(e) = [e EXCEPT !.disconnected = TRUE, !.finished = TRUE,
                                      !.recvSpace = TRUE, !.recv = t]
  BY DEF NotifyDisconnect
<1> HIDE DEF t
<1>5. NotifyDisconnect(e) \in Exchanges
  BY <1>1, <1>2, <1>4 DEF Exchanges
<1>6. /\ NotifyDisconnect(e).recv = t /\ NotifyDisconnect(e).send = e.send
      /\ NotifyDisconnect(e).finished /\ NotifyDisconnect(e).disconnected
      /\ NotifyDisconnect(e).finished = NotifyDisconnect(e).disconnected
      /\ NotifyDisconnect(e).complete = e.complete
      /\ NotifyDisconnect(e).sendSpace = e.sendSpace
      /\ SameFlags(e, NotifyDisconnect(e))
  BY <1>1, <1>4 DEF Exchanges, SameFlags
<1> QED BY <1>2, <1>3, <1>5, <1>6 DEF Downed, SameFlags

\* ... lose keep_alive ...
LEMMA DownedKeep ==
    ASSUME NEW r \in Exchanges, NEW e, Downed(r, e), NEW b \in BOOLEAN
    PROVE  Downed(r, [e EXCEPT !.keep = b])
BY DEF Downed, SameFlags, Exchanges

\* ... or lose the message that the writer has just taken.
LEMMA DownedTaken ==
    ASSUME NEW r \in Exchanges, r.send # <<>>, Len(r.recv) <= RecvMax, Len(r.send) <= SendMax,
           r.finished = r.disconnected
    PROVE  Downed(r, Taken(r))
<1>1. /\ Taken(r) \in Exchanges /\ SameFlags(r, Taken(r)) /\ SameState(r, Taken(r))
      /\ Taken(r).send = Tail(r.send) /\ Taken(r).recv = r.recv /\ Taken(r).sendSpace
      /\ Len(Taken(r).send) = Len(r.send) - 1
  BY TakenActs
<1>2. Len(r.send) \in Nat /\ SendMax \in Nat
  BY LenProperties, QueueAssumption DEF Exchanges
<1>3. Len(Taken(r).send) <= SendMax
  BY <1>1, <1>2
<1> QED BY <1>1, <1>3 DEF Downed, SameState, SameBody

-----------------------------------------------------------------------------
\* Every step moves every request.

\* Steps that leave the tasks of the requests alone.
LEMMA SameMoves ==
    ASSUME Typed, UNCHANGED <<ex, app, writer>>
    PROVE  Moved
BY DEF Moved, Moves, Shaped, Untouched, SameWriter, Writing, Typed

\* A step that moves one request leaves the others alone.
Alone(i) ==
    /\ Shaped
    /\ \A j \in Requests \ {i} : ex'[j] = ex[j] /\ app'[j] = app[j] /\ SameWriter(j)

\* Such a step moves every request.
LEMMA AloneMoves ==
    ASSUME NEW i \in Requests, Moves(i), Alone(i)
    PROVE  Moved
BY DEF Moved, Moves, Alone, Untouched

\* A writer only writes the answer to the request the connection is on.
LEMMA WriterIs ==
    ASSUME Control, Typed
    PROVE  /\ writer.pc = "run" => writer.of = cur /\ cur # 0 /\ Writing(cur)
           /\ \A j \in Requests : j # cur => ~Writing(j)
           /\ cur = 0 => \A j : ~Writing(j)
BY DEF Control, Writing

\* Every task of the connection is cancelled.
LEMMA ShutMoves ==
    ASSUME Base, NEW after, Shut(after), after = [j \in Requests |-> after[j]],
           \A j \in Requests : IF j = cur THEN Downed(ex[j], after[j]) ELSE after[j] = ex[j]
    PROVE  Moved
<1>1. Typed /\ Control /\ closed' = TRUE /\ reader' = "done" /\ writer' = NoWriter
      /\ cur \in Requests \cup {0}
  BY DEF Base, Shut, Around
<1>2. \A j : ~Writing(j)'
  BY <1>1 DEF Writing, NoWriter
<1>3. CASE cur = 0
  <2>1. ex' = after /\ app' = app /\ \A j : ~Writing(j)
    BY <1>1, <1>3, WriterIs DEF Shut
  <2>2. 0 \notin Requests
    BY RequestsAre
  <2>3. \A j \in Requests : Untouched(j)
    BY <1>2, <1>3, <2>1, <2>2 DEF Untouched, SameWriter
  <2>4. Shaped
    BY <1>1, <2>1 DEF Shaped, Typed
  <2> QED BY <2>3, <2>4 DEF Moved, Moves
<1>4. CASE cur # 0
  <2>1. cur \in Requests
    BY <1>1, <1>4
  <2>2. /\ app' = [app EXCEPT ![cur] = Cancelled(app[cur])]
        /\ ex' = [after EXCEPT ![cur] = IF writer.pc = "run" THEN Completed(after[cur])
                                        ELSE after[cur]]
    BY <1>4 DEF Shut
  <2>3. writer.pc = "run" <=> Writing(cur)
    BY <1>1, WriterIs DEF Writing
  <2>4. TakenDown(cur)
    <3>1. app'[cur] = Cancelled(app[cur])
      BY <1>1, <2>1, <2>2 DEF Typed
    <3>2. ex'[cur] = IF Writing(cur) THEN Completed(after[cur]) ELSE after[cur]
      BY <2>1, <2>2, <2>3
    <3>3. Downed(ex[cur], after[cur])
      BY <2>1
    <3>4. app[cur].pc # "none"
      BY <1>1, <1>4 DEF Control
    <3> QED BY <1>1, <3>1, <3>2, <3>3, <3>4 DEF TakenDown
  <2>5. Alone(cur)
    <3>1. Shaped
      BY <1>1, <2>1, <2>2 DEF Shaped, Typed
    <3>2. ASSUME NEW j \in Requests \ {cur}
          PROVE  ex'[j] = ex[j] /\ app'[j] = app[j] /\ SameWriter(j)
      <4>1. ex'[j] = after[j] /\ app'[j] = app[j] /\ after[j] = ex[j]
        BY <1>1, <2>1, <2>2 DEF Typed
      <4>2. ~Writing(j)
        BY <1>1, WriterIs
      <4> QED BY <1>2, <4>1, <4>2 DEF SameWriter
    <3> QED BY <3>1, <3>2 DEF Alone
  <2> QED BY <2>1, <2>4, <2>5, AloneMoves DEF Moves
<1> QED BY <1>3, <1>4

\* Steps that only change the exchange of the request the connection is on.
LEMMA ExchangeMoves ==
    ASSUME Base, cur # 0, NEW e, ex' = [ex EXCEPT ![cur] = e], UNCHANGED <<app, writer>>,
           app'[cur] = app[cur] /\ app[cur].pc # "none" /\ SameWriter(cur) /\ ex'[cur] = e
                => Moves(cur)
    PROVE  Moved
<1>1. Typed /\ cur \in Requests
  BY DEF Base, Around
<1>2. ex'[cur] = e /\ app'[cur] = app[cur] /\ \A j : SameWriter(j)
  BY <1>1 DEF Typed, SameWriter, Writing
<1>3. Alone(cur) /\ app[cur].pc # "none"
  BY <1>1, <1>2 DEF Alone, Shaped, Typed, Base, Control
<1> QED BY <1>1, <1>2, <1>3, AloneMoves

\* Whether the connection is on a request, and on which.
LEMMA OnRequest ==
    ASSUME Base, ~closed, state # "idle"
    PROVE  /\ cur \in Requests /\ cur # 0 /\ ex[cur] \in Exchanges /\ app[cur] \in Apps
           /\ Len(ex[cur].recv) <= RecvMax /\ Len(ex[cur].send) <= SendMax
           /\ ex[cur].finished = ex[cur].disconnected
           /\ Writing(cur) \/ (ex[cur].complete /\ state = "waiting")
           /\ ex[cur].complete => ex[cur].started /\ ex[cur].finished
           /\ ex[cur].complete <=> ~Writing(cur)
BY RequestsAre DEF Base, Control, Around, Typed, Sides

\* The reader of an open connection is at work.
LEMMA ReaderIs ==
    ASSUME Base
    PROVE  reader \in {"ready", "data", "space", "error"} <=> ~closed
BY DEF Base, Control, Around

\* _fail_request and _send_error.
LEMMA RefuseBodyMoves ==
    ASSUME Base, ~closed, state # "idle", RefuseBody
    PROVE  Moved
<1> DEFINE r == ex[cur]
           failed == [NotifyDisconnect(r) EXCEPT !.keep = FALSE]
<1>1. /\ cur \in Requests /\ cur # 0 /\ r \in Exchanges
      /\ Len(r.recv) <= RecvMax /\ Len(r.send) <= SendMax /\ r.finished = r.disconnected
      /\ r.complete => r.started
      /\ Writing(cur) \/ r.complete
  BY OnRequest
<1>2. Downed(r, failed) /\ Downed(r, NotifyDisconnect(failed))
  <2>1. Downed(r, NotifyDisconnect(r))
    BY <1>1, DownedSelf, DownedNotified
  <2>2. Downed(r, failed)
    BY <1>1, <2>1, DownedKeep
  <2> HIDE DEF failed, r
  <2> QED BY <1>1, <2>2, DownedNotified
<1>3. failed.started = r.started
  BY <1>1, <1>2 DEF Downed, SameFlags
<1>4. CASE failed.started
  <2>1. Shut([ex EXCEPT ![cur] = NotifyDisconnect(failed)])
    BY <1>4 DEF RefuseBody
  <2> DEFINE after == [ex EXCEPT ![cur] = NotifyDisconnect(failed)]
  <2>2. after = [j \in Requests |-> after[j]]
    BY DEF Base, Typed
  <2>3. \A j \in Requests : IF j = cur THEN Downed(ex[j], after[j]) ELSE after[j] = ex[j]
    <3> HIDE DEF failed
    <3> QED BY <1>1, <1>2 DEF Base, Typed
  <2> HIDE DEF after
  <2> QED BY <2>1, <2>2, <2>3, ShutMoves DEF after
<1>5. CASE ~failed.started
  <2>1. /\ reader' = "error" /\ ex' = [ex EXCEPT ![cur] = failed] /\ UNCHANGED <<app, writer>>
    BY <1>5 DEF RefuseBody
  <2>2. Writing(cur) /\ ~r.started
    BY <1>1, <1>3, <1>5
  <2>3. app'[cur] = app[cur] /\ SameWriter(cur) /\ ex'[cur] = failed => Refused(cur)
    BY <2>1, <2>2 DEF Refused
  <2> HIDE DEF failed
  <2> QED BY <1>1, <2>1, <2>3, ExchangeMoves DEF Moves
<1> QED BY <1>4, <1>5

\* _start_request dispatches a request that nothing was done for yet.
LEMMA DispatchIsOfNew ==
    ASSUME Base, Dispatch
    PROVE  /\ ~closed /\ cur = 0 /\ state = "idle" /\ read < arrived
           /\ read + 1 \in DOMAIN stream /\ Buffer[1] = stream[read + 1]
           /\ cur' = stream[read + 1].of /\ cur' \in Requests
           /\ IsHead(stream[read + 1]) /\ app[cur'].pc = "none"
<1>1. /\ reader = "ready" /\ state = "idle" /\ Buffer # <<>> /\ Buffer[1].kind = "head"
      /\ cur' = Buffer[1].of
  BY DEF Dispatch
<1>2. ~closed /\ cur = 0
  BY <1>1 DEF Base, Control
<1>3. read + 1 \in DOMAIN stream /\ Buffer[1] = stream[read + 1] /\ read < arrived
  BY <1>1, BufferIs DEF Base
<1>4. cur' \in Requests /\ cur' = stream[read + 1].of /\ IsHead(stream[read + 1])
  BY <1>1, <1>3, StreamIs DEF Base, IsHead
<1>5. app[cur'].pc = "none"
  <2>1. \A j \in 1 .. read : stream[j].of # cur'
    <3>1. read \in Nat /\ (read + 1) - 1 = read
      BY StreamIs DEF Base
    <3> QED BY <1>3, <1>4, <3>1, StreamIs DEF Base
  <2> QED BY <1>4, <2>1 DEF Base, Dispatched
<1> QED BY <1>1, <1>2, <1>3, <1>4, <1>5

\* Its exchange, its application and its writer are made.
LEMMA DispatchMoves ==
    ASSUME Base, Dispatch
    PROVE  Moved
<1> DEFINE i == cur'
           body == \E k \in DOMAIN stream : k > read + 1 /\ stream[k].of = Buffer[1].of
           keep == Buffer[1].keep
           asks == Buffer[1].expect /\ body
           recv == IF body THEN <<>> ELSE <<"end">>
           e == [NewExchange EXCEPT !.keep = keep, !.asks = asks, !.recv = recv]
<1>1. /\ Typed /\ Control /\ ~closed /\ cur = 0 /\ i \in Requests /\ app[i].pc = "none"
      /\ Buffer[1] \in Tokens
  BY DispatchIsOfNew, StreamIs DEF Base
<1>2. /\ ex' = [ex EXCEPT ![i] = e] /\ app' = [app EXCEPT ![i] = Started(app[i])]
      /\ writer' = NewWriter(i) /\ closed' = closed
  BY DEF Dispatch
<1>3. keep \in BOOLEAN /\ asks \in BOOLEAN /\ recv \in {<<>>, <<"end">>}
  BY <1>1 DEF Tokens
<1> HIDE DEF keep, asks, recv
<1>4. Begun(i)
  <2>1. ex'[i] = e /\ app'[i] = Started(app[i])
    BY <1>1, <1>2 DEF Typed
  <2> QED BY <1>1, <1>2, <1>3, <2>1 DEF Begun
<1>5. Alone(i)
  <2>1. ASSUME NEW j \in Requests \ {i} PROVE SameWriter(j)
    <3>1. ~Writing(j)
      BY <1>1, WriterIs
    <3>2. ~Writing(j)'
      BY <1>2, <2>1 DEF Writing, NewWriter, NoWriter
    <3> QED BY <3>1, <3>2 DEF SameWriter
  <2> HIDE DEF e
  <2>2. Shaped /\ \A j \in Requests \ {i} : ex'[j] = ex[j] /\ app'[j] = app[j]
    BY <1>1, <1>2 DEF Typed, Shaped
  <2> QED BY <2>1, <2>2 DEF Alone
<1> QED BY <1>1, <1>4, <1>5, AloneMoves DEF Moves

\* What is decoded is taken off the buffer, or refused.
LEMMA DecodeBodyMoves ==
    ASSUME Base, DecodeBody
    PROVE  Moved
<1>1. ~closed /\ state # "idle"
  BY ReaderIs DEF DecodeBody
<1>2. CASE RefuseBody
  BY <1>1, <1>2, RefuseBodyMoves
<1>3. CASE ~RefuseBody
  <2>1. UNCHANGED <<ex, app, writer>>
    BY <1>3 DEF DecodeBody
  <2> QED BY <2>1, SameMoves DEF Base
<1> QED BY <1>2, <1>3

\* While a unit is to be passed on, the connection is on its request.
LEMMA EmitBodyIs ==
    ASSUME Base, EmitBody
    PROVE  ~closed /\ state # "idle"
BY ReaderIs DEF EmitBody, HasWoken, Base, Control, Around

\* _emit_body.
LEMMA EmitBodyMoves ==
    ASSUME Base, EmitBody
    PROVE  Moved
<1> DEFINE r == ex[cur]
<1>1. ~closed /\ state # "idle" /\ taken # {}
  BY EmitBodyIs DEF EmitBody
<1>2. /\ cur \in Requests /\ cur # 0 /\ r \in Exchanges
      /\ r.complete => r.finished
      /\ Writing(cur) \/ r.complete
  BY <1>1, OnRequest
<1>3. CASE RefuseBody
  BY <1>1, <1>3, RefuseBodyMoves
<1>4. CASE ~RefuseBody /\ Gone(r)
  <2> DEFINE b == r.keep /\ Drainable
  <2>1. Abandon
    BY <1>4 DEF EmitBody
  <2>2. ex' = [ex EXCEPT ![cur] = [r EXCEPT !.keep = b]] /\ UNCHANGED <<app, writer>>
    BY <1>2, <2>1 DEF Abandon, Base, Typed
  <2>3. b \in BOOLEAN /\ (b => r.keep)
    BY <1>2 DEF Exchanges
  <2> HIDE DEF b
  <2>4. app'[cur] = app[cur] /\ app[cur].pc # "none" /\ SameWriter(cur)
        /\ ex'[cur] = [r EXCEPT !.keep = b] => Rekept(cur)
    BY <2>3 DEF Rekept
  <2> QED BY <1>2, <2>2, <2>4, ExchangeMoves DEF Moves
<1>5. CASE ~RefuseBody /\ ~Gone(r) /\ Full(r)
  <2>1. ex' = [ex EXCEPT ![cur] = AwaitSpace(r)] /\ UNCHANGED <<app, writer>>
    BY <1>2, <1>5 DEF EmitBody, WaitForSpace
  <2> QED BY <1>2, <1>5, <2>1, ExchangeMoves DEF Moves, Held
<1>6. CASE ~RefuseBody /\ ~Gone(r) /\ ~Full(r)
  <2>1. ex' = [ex EXCEPT ![cur] = Feed(r, "data")] /\ UNCHANGED <<app, writer>>
    BY <1>2, <1>6 DEF EmitBody
  <2>2. Writing(cur)
    BY <1>2, <1>6 DEF Gone
  <2>3. taken' # taken
    BY <1>1, <1>2, <1>6, NextUnitIs DEF EmitBody, Base
  <2> QED BY <1>2, <1>6, <2>1, <2>2, <2>3, ExchangeMoves DEF Moves, Fed
<1> QED BY <1>3, <1>4, <1>5, <1>6

\* A request is finished while the connection is on it.
LEMMA FinishRequestIs ==
    ASSUME Base, FinishRequest
    PROVE  ~closed /\ state # "idle"
BY ReaderIs DEF FinishRequest, HasWoken, Base, Control, Around

\* The application is told of the end, or the reader waits for room to tell it.
LEMMA FinishRequestMoves ==
    ASSUME Base, FinishRequest
    PROVE  Moved
<1> DEFINE r == ex[cur]
<1>1. ~closed /\ state # "idle"
  BY FinishRequestIs
<1>2. /\ cur \in Requests /\ cur # 0 /\ r \in Exchanges
      /\ r.complete => r.finished
      /\ Writing(cur) \/ r.complete
  BY <1>1, OnRequest
<1>3. UNCHANGED <<app, writer>>
  BY DEF FinishRequest
<1>4. CASE Full(r) /\ ~Gone(r)
  <2>1. ex' = [ex EXCEPT ![cur] = AwaitSpace(r)]
    BY <1>2, <1>4 DEF FinishRequest
  <2> QED BY <1>2, <1>3, <1>4, <2>1, ExchangeMoves DEF Moves, Held
<1>5. CASE Gone(r)
  <2>1. ex' = ex
    BY <1>2, <1>5 DEF FinishRequest, Base, Typed
  <2> QED BY <1>3, <2>1, SameMoves DEF Base
<1>6. CASE ~Full(r) /\ ~Gone(r)
  <2>1. ex' = [ex EXCEPT ![cur] = Feed(r, "end")]
    BY <1>2, <1>6 DEF FinishRequest
  <2>2. Writing(cur)
    BY <1>2, <1>6 DEF Gone
  <2> QED BY <1>2, <1>3, <1>6, <2>1, <2>2, ExchangeMoves DEF Moves, Fed
<1> QED BY <1>4, <1>5, <1>6

\* _await_response.
LEMMA AwaitResponseMoves ==
    ASSUME Base, AwaitResponse
    PROVE  Moved
<1> DEFINE r == ex[cur]
           b == r.keep /\ served' < MaxServed
<1>1. ~closed /\ state # "idle"
  BY ReaderIs DEF AwaitResponse
<1>2. cur \in Requests /\ cur # 0 /\ r \in Exchanges
  BY <1>1, OnRequest
<1>3. ex' = [ex EXCEPT ![cur] = [r EXCEPT !.keep = b]] /\ UNCHANGED <<app, writer>>
  BY <1>2 DEF AwaitResponse, Base, Typed
<1>4. b \in BOOLEAN /\ (b => r.keep)
  BY <1>2 DEF Exchanges
<1> HIDE DEF b
<1>5. app'[cur] = app[cur] /\ app[cur].pc # "none" /\ SameWriter(cur)
        /\ ex'[cur] = [r EXCEPT !.keep = b] => Rekept(cur)
  BY <1>4 DEF Rekept
<1> QED BY <1>2, <1>3, <1>5, ExchangeMoves DEF Moves

-----------------------------------------------------------------------------
\* What closes the connection, and what its writer does.

\* _close, with the exchange the connection is on left as e.
LEMMA ClosingMoves ==
    ASSUME Base, NEW e, cur # 0 => Downed(ex[cur], e),
           Shut(IF cur = 0 THEN ex ELSE [ex EXCEPT ![cur] = e])
    PROVE  Moved
<1> DEFINE after == IF cur = 0 THEN ex ELSE [ex EXCEPT ![cur] = e]
<1>1. Typed /\ 0 \notin Requests
  BY RequestsAre DEF Base
<1>2. after = [j \in Requests |-> after[j]]
  BY <1>1 DEF Typed
<1>3. \A j \in Requests : IF j = cur THEN Downed(ex[j], after[j]) ELSE after[j] = ex[j]
  BY <1>1 DEF Typed
<1> HIDE DEF after
<1> QED BY <1>2, <1>3, ShutMoves DEF after

\* Each cause of it.
LEMMA ClosesMoves ==
    ASSUME Base, Close \/ AbortRequestTimeout \/ ConnectionLost \/ KeepAliveTimeout \/ SendError
    PROVE  Moved
<1> DEFINE r == ex[cur]
<1>1. cur # 0 => /\ cur \in Requests /\ r \in Exchanges /\ r.finished = r.disconnected
                 /\ Len(r.recv) <= RecvMax /\ Len(r.send) <= SendMax
  BY DEF Base, Around, Typed, Sides
<1>2. cur # 0 => Downed(r, r) /\ Downed(r, NotifyDisconnect(r))
                 /\ Downed(r, [NotifyDisconnect(r) EXCEPT !.keep = FALSE])
  <2> SUFFICES ASSUME cur # 0
               PROVE  Downed(r, r) /\ Downed(r, NotifyDisconnect(r))
                      /\ Downed(r, [NotifyDisconnect(r) EXCEPT !.keep = FALSE])
    OBVIOUS
  <2>1. Downed(r, r) /\ Downed(r, NotifyDisconnect(r))
    BY <1>1, DownedSelf, DownedNotified
  <2>2. Downed(r, [NotifyDisconnect(r) EXCEPT !.keep = FALSE])
    BY <1>1, <2>1, DownedKeep
  <2> QED BY <2>1, <2>2
<1>3. CASE Shut(ex)
  <2>1. (IF cur = 0 THEN ex ELSE [ex EXCEPT ![cur] = r]) = ex
    BY DEF Base, Typed
  <2>2. Shut(IF cur = 0 THEN ex ELSE [ex EXCEPT ![cur] = r])
    BY <1>3, <2>1
  <2> QED BY <1>2, <2>2, ClosingMoves
<1>4. CASE AbortRequestTimeout
  <2> DEFINE e == [NotifyDisconnect(r) EXCEPT !.keep = FALSE]
  <2>1. Shut(IF cur = 0 THEN ex ELSE [ex EXCEPT ![cur] = e])
    BY <1>4 DEF AbortRequestTimeout
  <2> HIDE DEF e
  <2> QED BY <1>2, <2>1, ClosingMoves DEF e
<1>5. CASE ConnectionLost
  <2> DEFINE e == NotifyDisconnect(r)
  <2>1. Shut(IF cur = 0 THEN ex ELSE [ex EXCEPT ![cur] = e])
    BY <1>5 DEF ConnectionLost
  <2> HIDE DEF e
  <2> QED BY <1>2, <2>1, ClosingMoves DEF e
<1> QED BY <1>3, <1>4, <1>5 DEF Close, KeepAliveTimeout, SendError

\* The writer goes on as w with exchange r, or the answer ends.
LEMMA ProceedMoves ==
    ASSUME Base, writer.pc = "run", NEW w \in Writers, w.of = cur, NEW r \in Exchanges,
           Proceed(w, r), Downed(ex[cur], r), w.pc = "run",
           ~(w.out = <<>> /\ w.last /\ w.aborted) => Acts(cur, w, r)
    PROVE  Moved
<1>1. /\ Typed /\ Control /\ cur \in Requests /\ cur # 0 /\ Writing(cur)
  BY WriterIs DEF Base, Around
<1>2. CASE ~(w.out = <<>> /\ w.last)
  <2>1. /\ writer' = w /\ ex' = [ex EXCEPT ![cur] = r]
        /\ UNCHANGED <<read, state, reader, dataEvent, app, closed>>
    BY <1>2 DEF Proceed, Continue
  <2>2. Wrote(cur)
    <3>1. ex'[cur] = r /\ app'[cur] = app[cur] /\ reader' = reader /\ closed' = closed
      BY <1>1, <2>1 DEF Typed
    <3>2. Acts(cur, w, r) /\ Goes(cur, w, r)
      BY <1>2, <2>1, <3>1 DEF Goes
    <3> QED BY <1>1, <3>1, <3>2 DEF Wrote
  <2>3. Alone(cur)
    <3>1. ASSUME NEW j \in Requests \ {cur} PROVE SameWriter(j)
      BY <1>1, <2>1, <3>1, WriterIs DEF SameWriter, Writing
    <3>2. Shaped /\ \A j \in Requests \ {cur} : ex'[j] = ex[j] /\ app'[j] = app[j]
      BY <1>1, <2>1 DEF Typed, Shaped
    <3> QED BY <3>1, <3>2 DEF Alone
  <2> QED BY <1>1, <2>2, <2>3, AloneMoves DEF Moves
<1>3. CASE w.out = <<>> /\ w.last /\ ~w.aborted
  <2> DEFINE b == r.keep /\ LengthMet(w) /\ Drainable
             e == Completed([r EXCEPT !.keep = b])
  <2>1. /\ writer' = NoWriter /\ ex' = [ex EXCEPT ![cur] = e]
        /\ UNCHANGED <<reader, app, closed>>
    BY <1>3 DEF Proceed, FinishResponse
  <2>2. b \in BOOLEAN /\ (b => r.keep /\ LengthMet(w))
    BY DEF Exchanges
  <2> HIDE DEF b
  <2>3. ex'[cur] = e /\ app'[cur] = app[cur] /\ reader' = reader /\ closed' = closed
    BY <1>1, <2>1 DEF Typed
  <2>4. Wrote(cur)
    <3>1. Acts(cur, w, r) /\ Goes(cur, w, r)
      BY <1>3, <2>1, <2>2, <2>3 DEF Goes
    <3> QED BY <1>1, <2>3, <3>1 DEF Wrote
  <2> HIDE DEF e
  <2>5. Alone(cur)
    <3>1. ASSUME NEW j \in Requests \ {cur} PROVE SameWriter(j)
      <4>1. ~Writing(j) /\ ~Writing(j)'
        BY <1>1, <2>1, <3>1, WriterIs DEF Writing, NoWriter
      <4> QED BY <4>1 DEF SameWriter
    <3>2. Shaped /\ \A j \in Requests \ {cur} : ex'[j] = ex[j] /\ app'[j] = app[j]
      BY <1>1, <2>1 DEF Typed, Shaped
    <3> QED BY <3>1, <3>2 DEF Alone
  <2> QED BY <1>1, <2>4, <2>5, AloneMoves DEF Moves
<1>4. CASE w.out = <<>> /\ w.last /\ w.aborted
  <2> DEFINE e == [r EXCEPT !.keep = FALSE]
  <2>1. Shut([ex EXCEPT ![cur] = e])
    BY <1>4 DEF Proceed, FinishResponse
  <2>2. Downed(ex[cur], e)
    BY <1>1, DownedKeep DEF Typed
  <2>3. (IF cur = 0 THEN ex ELSE [ex EXCEPT ![cur] = e]) = [ex EXCEPT ![cur] = e]
    BY <1>1
  <2> HIDE DEF e
  <2> QED BY <2>1, <2>2, <2>3, ClosingMoves
<1> QED BY <1>2, <1>3, <1>4

\* What a writer leaves of an exchange it took a message of.
LEMMA ReachedExchange ==
    ASSUME Base, writer.pc = "run", ex[cur].send # <<>>, NEW b \in BOOLEAN, b => ex[cur].keep
    PROVE  LET m == Head(ex[cur].send)
               r == [Taken(ex[cur]) EXCEPT !.keep = b]
           IN  /\ m \in Messages /\ r \in Exchanges /\ Taken(ex[cur]) \in Exchanges
               /\ Downed(ex[cur], r) /\ Downed(ex[cur], Taken(ex[cur]))
               /\ SameFlags(ex[cur], r) /\ SameState(ex[cur], r) /\ (r.keep => ex[cur].keep)
               /\ r.send = Tail(ex[cur].send) /\ r.recv = ex[cur].recv /\ r.sendSpace
               /\ r.recvSpace = ex[cur].recvSpace /\ r.keep = b
               /\ ex[cur].keep = b => r = Taken(ex[cur])
<1> DEFINE e == ex[cur]
           t == Taken(e)
<1>1. /\ e \in Exchanges /\ Len(e.recv) <= RecvMax /\ Len(e.send) <= SendMax
      /\ e.finished = e.disconnected /\ e.send # <<>>
  BY WriterIs DEF Base, Around, Typed, Sides
<1>2. /\ t \in Exchanges /\ SameFlags(e, t) /\ SameState(e, t)
      /\ t.send = Tail(e.send) /\ t.recv = e.recv /\ t.sendSpace
      /\ Head(e.send) \in Messages
  BY <1>1, TakenActs
<1>3. Downed(e, t)
  BY <1>1, DownedTaken
<1>4. t.recvSpace = e.recvSpace /\ t.keep = e.keep
  BY <1>1 DEF Taken, Exchanges
<1> HIDE DEF t
<1>5. Downed(e, [t EXCEPT !.keep = b])
  BY <1>1, <1>3, DownedKeep
<1>6. e.keep = b => [t EXCEPT !.keep = b] = t
  BY <1>2, <1>4 DEF Exchanges
<1>7. /\ [t EXCEPT !.keep = b] \in Exchanges /\ [t EXCEPT !.keep = b].keep = b
      /\ SameFlags(t, [t EXCEPT !.keep = b]) /\ SameState(t, [t EXCEPT !.keep = b])
      /\ [t EXCEPT !.keep = b].send = t.send /\ [t EXCEPT !.keep = b].recv = t.recv
      /\ [t EXCEPT !.keep = b].sendSpace = t.sendSpace
      /\ [t EXCEPT !.keep = b].recvSpace = t.recvSpace
  BY <1>2 DEF Exchanges, SameFlags, SameState
<1>8. /\ SameFlags(e, [t EXCEPT !.keep = b]) /\ SameState(e, [t EXCEPT !.keep = b])
  BY <1>2, <1>7 DEF SameFlags, SameState
<1> QED BY <1>2, <1>3, <1>4, <1>5, <1>6, <1>7, <1>8 DEF t

\* What is written at once.
LEMMA OneItem ==
    ASSUME NEW x \in {"head", "interim", "data", "end"}
    PROVE  <<x>> \in Seq({"head", "interim", "data", "end"}) /\ <<>> \in Seq({"head", "interim", "data", "end"})
<1>1. <<x>> \in Seq({"head", "interim", "data", "end"})
  BY Pair
<1> QED BY <1>1, EmptySeq

\* What a writer becomes with a body message.
LEMMA BodyTakenTyped ==
    ASSUME NEW w \in Writers, NEW m \in Messages, m.kind = "body"
    PROVE  /\ BodyTaken(w, m) \in Writers /\ BodyTaken(w, m).of = w.of
           /\ BodyTaken(w, m).pc = w.pc /\ BodyTaken(w, m).aborted = w.aborted
<1> DEFINE over == w.framing = "length" /\ m.data /\ w.sent = Declared
           sent == IF m.data /\ ~over THEN w.sent + 1 ELSE w.sent
           data == IF ~m.data \/ over THEN <<>>
                   ELSE IF w.framing = "length" /\ sent = Declared THEN <<"end">>
                   ELSE <<"data">>
           tail == IF m.more \/ w.framing # "chunked" THEN <<>>
                   ELSE IF w.trailers THEN <<"data">> ELSE <<"end">>
           opens == ~m.more /\ w.framing = "chunked" /\ w.trailers
           awaiting == w.awaiting \/ opens
           last == ~m.more /\ ~opens
           ends == ~m.more
           items == {"head", "interim", "data", "end"}
<1>1. m.data \in BOOLEAN /\ m.more \in BOOLEAN
  BY KindsOfMessages
<1>2. sent \in Nat /\ awaiting \in BOOLEAN /\ last \in BOOLEAN /\ ends \in BOOLEAN
  BY <1>1 DEF Writers
<1>3. data \o tail \in Seq(items)
  <2>1. <<>> \in Seq(items) /\ <<"data">> \in Seq(items) /\ <<"end">> \in Seq(items)
    BY OneItem
  <2>2. data \in Seq(items) /\ tail \in Seq(items)
    <3> HIDE DEF sent, over, items
    <3> QED BY <2>1
  <2> HIDE DEF data, tail, items
  <2> QED BY <2>2, ConcatProperties
<1>4. BodyTaken(w, m) = IF w.framing = "none" THEN [w EXCEPT !.last = ends]
                        ELSE [w EXCEPT !.sent = sent, !.out = data \o tail,
                                       !.awaiting = awaiting, !.last = last]
  BY DEF BodyTaken
<1> HIDE DEF sent, data, tail, awaiting, last, ends
<1> QED BY <1>2, <1>3, <1>4, ZenonT(60) DEF Writers

\* The writer takes a message of the request it answers.
LEMMA TakesIs ==
    ASSUME Base, NEW kind, Takes(kind)
    PROVE  /\ writer \in Writers /\ writer.pc = "run" /\ writer.of = cur /\ writer.out = <<>>
           /\ ex[cur].send # <<>> /\ NextMessage = Head(ex[cur].send)
           /\ NextMessage.kind = kind /\ NextMessage \in Messages
           /\ ex[cur] \in Exchanges
<1>1. writer.pc = "run" /\ writer.of = cur /\ cur \in Requests
  BY WriterIs DEF Base, Takes, Around
<1>2. ex[cur] \in Exchanges /\ ex[cur].send # <<>>
  BY <1>1 DEF Base, Typed, Takes
<1>3. Head(ex[cur].send) \in Messages
  BY <1>2, TakenActs
<1> QED BY <1>1, <1>2, <1>3 DEF Base, Typed, Takes, NextMessage

\* An interim answer goes out.
LEMMA TakeInterimMoves ==
    ASSUME Base, TakeInterim
    PROVE  Moved
<1> DEFINE e == ex[cur]
           r == Taken(e)
           w == [writer EXCEPT !.out = <<"interim">>]
<1>1. /\ writer \in Writers /\ writer.pc = "run" /\ writer.of = cur /\ writer.out = <<>>
      /\ e.send # <<>> /\ Head(e.send).kind = "interim" /\ e \in Exchanges
  BY TakesIs DEF TakeInterim
<1>2. e.keep \in BOOLEAN
  BY <1>1 DEF Exchanges
<1>3. /\ r \in Exchanges /\ Downed(e, r) /\ SameFlags(e, r) /\ SameState(e, r)
      /\ r.keep => e.keep
      /\ r.send = Tail(e.send) /\ r.recv = e.recv /\ r.sendSpace
      /\ r.recvSpace = e.recvSpace
  BY <1>1, <1>2, ReachedExchange
<1>4. w \in Writers /\ w.of = cur /\ w.pc = "run" /\ w.out # <<>>
  <2>1. <<"interim">> \in Seq({"head", "interim", "data", "end"})
    BY OneItem
  <2> QED BY <1>1, <2>1 DEF Writers
<1>5. Continue(w, r) /\ UNCHANGED wire
  BY <1>1 DEF TakeInterim
<1> HIDE DEF r
<1>6. Acts(cur, w, r)
  BY <1>1, <1>3, <1>5 DEF Acts, Reached
<1> HIDE DEF w
<1>7. Proceed(w, r)
  BY <1>4, <1>5 DEF Proceed
<1> QED BY <1>1, <1>3, <1>4, <1>6, <1>7, ProceedMoves

\* The head of the answer goes out.
LEMMA TakeStartMoves ==
    ASSUME Base, TakeStart
    PROVE  Moved
<1> DEFINE e == ex[cur]
           m == Head(e.send)
           b == e.keep /\ m.framing # "close"
           r == [Taken(e) EXCEPT !.keep = b]
           trailers == m.trailers /\ m.framing # "none"
           w == [writer EXCEPT !.started = TRUE, !.framing = m.framing, !.out = <<"head">>,
                               !.trailers = trailers]
<1>1. /\ writer \in Writers /\ writer.pc = "run" /\ writer.of = cur /\ writer.out = <<>>
      /\ e.send # <<>> /\ NextMessage = m /\ m.kind = "start" /\ e \in Exchanges
      /\ m \in Messages
  BY TakesIs DEF TakeStart
<1>2. b \in BOOLEAN /\ (b => e.keep) /\ (m.framing = "close" => ~b)
  BY <1>1 DEF Exchanges
<1>3. m.framing \in Framings /\ m.trailers \in BOOLEAN
  BY <1>1 DEF Messages, Interim, Trailers
<1>4. trailers \in BOOLEAN
  BY <1>3
<1>5. Continue(w, r) /\ UNCHANGED wire
  <2>1. Taken(e).keep = e.keep /\ Taken(e) \in Exchanges
    BY <1>1, TakenActs DEF Taken, Exchanges
  <2>2. [Taken(e) EXCEPT !.keep = @ /\ m.framing # "close"] = r
    BY <2>1 DEF Exchanges
  <2> QED BY <1>1, <2>2 DEF TakeStart
<1> HIDE DEF b
<1>6. /\ r \in Exchanges /\ Downed(e, r) /\ SameFlags(e, r) /\ SameState(e, r)
      /\ r.keep => e.keep
      /\ r.send = Tail(e.send) /\ r.recv = e.recv /\ r.sendSpace
      /\ r.recvSpace = e.recvSpace /\ r.keep = b
  BY <1>1, <1>2, ReachedExchange
<1>7. w \in Writers /\ w.of = cur /\ w.pc = "run" /\ w.out # <<>>
  <2>1. <<"head">> \in Seq({"head", "interim", "data", "end"})
    BY OneItem
  <2> HIDE DEF trailers
  <2> QED BY <1>1, <1>3, <1>4, <2>1 DEF Writers
<1> HIDE DEF r
<1>8. Acts(cur, w, r)
  <2>1. w = [writer EXCEPT !.started = TRUE, !.framing = m.framing, !.out = <<"head">>,
                           !.trailers = m.trailers /\ m.framing # "none"]
    OBVIOUS
  <2>2. Reached(cur, m, w, r)
    BY <1>1, <1>2, <1>6, <2>1 DEF Reached
  <2> QED BY <1>1, <1>5, <2>2 DEF Acts
<1> HIDE DEF w
<1>9. Proceed(w, r)
  BY <1>5, <1>7 DEF Proceed
<1> QED BY <1>1, <1>6, <1>7, <1>8, <1>9, ProceedMoves

\* What a body message stands for goes out; an abandoned body closes.
LEMMA TakeBodyMoves ==
    ASSUME Base, TakeBody
    PROVE  Moved
<1> DEFINE e == ex[cur]
           m == Head(e.send)
           t == Taken(e)
           over == writer.framing = "length" /\ m.data /\ writer.sent = Declared
<1>1. /\ writer \in Writers /\ writer.pc = "run" /\ writer.of = cur /\ writer.out = <<>>
      /\ e.send # <<>> /\ NextMessage = m /\ m.kind = "body" /\ e \in Exchanges
      /\ m \in Messages
  BY TakesIs DEF TakeBody
<1>2. UNCHANGED wire
  BY DEF TakeBody
<1>3. ASSUME NEW b \in BOOLEAN, b => e.keep, NEW r, r = [t EXCEPT !.keep = b],
             writer.framing # "none" => ~m.aborted, Proceed(BodyTaken(writer, m), r)
      PROVE  Moved
  <2> DEFINE w == BodyTaken(writer, m)
  <2>1. w \in Writers /\ w.of = cur /\ w.pc = "run"
    BY <1>1, BodyTakenTyped
  <2>2. /\ r \in Exchanges /\ Downed(e, r) /\ SameFlags(e, r) /\ SameState(e, r)
        /\ r.keep => e.keep
        /\ r.send = Tail(e.send) /\ r.recv = e.recv /\ r.sendSpace
        /\ r.recvSpace = e.recvSpace /\ r.keep = b
    BY <1>1, <1>3, ReachedExchange
  <2>3. Acts(cur, w, r)
    BY <1>1, <1>2, <1>3, <2>2 DEF Acts, Reached
  <2> HIDE DEF w
  <2>4. Proceed(w, r)
    BY <1>3 DEF w
  <2> QED BY <1>1, <2>1, <2>2, <2>3, <2>4, ProceedMoves
<1>4. e.keep \in BOOLEAN /\ t \in Exchanges /\ t.keep = e.keep
  BY <1>1, TakenActs DEF Exchanges, Taken
<1>5. CASE writer.framing = "none"
  <2>1. Proceed([writer EXCEPT !.last = ~m.more], t)
    BY <1>1, <1>5 DEF TakeBody
  <2>2. BodyTaken(writer, m) = [writer EXCEPT !.last = ~m.more]
    BY <1>5 DEF BodyTaken
  <2>3. t = [t EXCEPT !.keep = e.keep]
    BY <1>4 DEF Exchanges
  <2> HIDE DEF t
  <2> QED BY <1>3, <1>4, <1>5, <2>1, <2>2, <2>3
<1>6. CASE writer.framing # "none" /\ m.aborted
  <2> DEFINE w == [writer EXCEPT !.last = TRUE, !.aborted = TRUE]
  <2>1. Proceed(w, t)
    BY <1>1, <1>6 DEF TakeBody
  <2>2. w \in Writers /\ w.of = cur /\ w.pc = "run" /\ w.out = <<>> /\ w.last /\ w.aborted
    BY <1>1 DEF Writers
  <2>3. t \in Exchanges /\ Downed(e, t)
    BY <1>1, <1>4, ReachedExchange
  <2> HIDE DEF w, t
  <2> QED BY <1>1, <2>1, <2>2, <2>3, ProceedMoves
<1>7. CASE writer.framing # "none" /\ ~m.aborted
  <2> DEFINE b == e.keep /\ ~over
  <2>1. BodyTaken(writer, m) =
        [writer EXCEPT !.sent = IF m.data /\ ~over THEN writer.sent + 1 ELSE writer.sent,
            !.out = (IF ~m.data \/ over THEN <<>>
                     ELSE IF writer.framing = "length" /\
                             (IF m.data /\ ~over THEN writer.sent + 1 ELSE writer.sent) = Declared
                          THEN <<"end">> ELSE <<"data">>)
                    \o (IF m.more \/ writer.framing # "chunked" THEN <<>>
                        ELSE IF writer.trailers THEN <<"data">> ELSE <<"end">>),
            !.awaiting = writer.awaiting \/ (~m.more /\ writer.framing = "chunked" /\ writer.trailers),
            !.last = ~m.more /\ ~(~m.more /\ writer.framing = "chunked" /\ writer.trailers)]
    BY <1>1, <1>7 DEF BodyTaken, Writers
  <2>2. [t EXCEPT !.keep = @ /\ ~over] = [t EXCEPT !.keep = b]
    BY <1>4 DEF Exchanges
  <2>3. Proceed(BodyTaken(writer, m), [t EXCEPT !.keep = b])
    BY <1>1, <1>7, <2>1, <2>2 DEF TakeBody, Writers
  <2>4. b \in BOOLEAN /\ (b => e.keep)
    BY <1>4
  <2> HIDE DEF b, t
  <2> QED BY <1>3, <1>7, <2>3, <2>4
<1> QED BY <1>5, <1>6, <1>7

\* Trailers end the answer.
LEMMA TakeTrailersMoves ==
    ASSUME Base, TakeTrailers
    PROVE  Moved
<1> DEFINE e == ex[cur]
           r == Taken(e)
           out == IF writer.awaiting THEN <<"end">> ELSE <<>>
           w == [writer EXCEPT !.last = TRUE, !.out = out]
<1>1. /\ writer \in Writers /\ writer.pc = "run" /\ writer.of = cur /\ writer.out = <<>>
      /\ e.send # <<>> /\ Head(e.send).kind = "trailers" /\ e \in Exchanges
  BY TakesIs DEF TakeTrailers
<1>2. e.keep \in BOOLEAN
  BY <1>1 DEF Exchanges
<1>3. /\ r \in Exchanges /\ Downed(e, r) /\ SameFlags(e, r) /\ SameState(e, r)
      /\ r.keep => e.keep
      /\ r.send = Tail(e.send) /\ r.recv = e.recv /\ r.sendSpace
      /\ r.recvSpace = e.recvSpace
  BY <1>1, <1>2, ReachedExchange
<1>4. Proceed(w, r) /\ UNCHANGED wire
  BY <1>1 DEF TakeTrailers
<1>5. out \in Seq({"head", "interim", "data", "end"})
  BY OneItem
<1>6. Acts(cur, w, r)
  <2> HIDE DEF r
  <2> QED BY <1>1, <1>3, <1>4 DEF Acts, Reached
<1> HIDE DEF out
<1>7. w \in Writers /\ w.of = cur /\ w.pc = "run" /\ w.aborted = writer.aborted
  BY <1>1, <1>5 DEF Writers
<1> HIDE DEF w, r
<1> QED BY <1>1, <1>3, <1>4, <1>6, <1>7, ProceedMoves

\* An item is written.
LEMMA WriteMoves ==
    ASSUME Base, Write
    PROVE  Moved
<1> DEFINE e == ex[cur]
           w == [writer EXCEPT !.out = Tail(writer.out)]
<1>1. /\ writer \in Writers /\ writer.pc = "run" /\ writer.out # <<>>
      /\ writer.of = cur /\ cur \in Requests /\ e \in Exchanges
      /\ Len(e.recv) <= RecvMax /\ Len(e.send) <= SendMax /\ e.finished = e.disconnected
  BY WriterIs DEF Base, Typed, Around, Write, Sides
<1>2. /\ Emit(Head(writer.out), cur, writer.framing) /\ Proceed(w, e)
  BY <1>1 DEF Write
<1>3. Acts(cur, w, e)
  BY <1>1, <1>2 DEF Acts
<1>4. w \in Writers /\ w.of = cur /\ w.pc = "run"
  <2>1. Tail(writer.out) \in Seq({"head", "interim", "data", "end"})
    BY <1>1, TailPoints DEF Writers
  <2> QED BY <1>1, <2>1 DEF Writers
<1>5. Downed(e, e)
  BY <1>1, DownedSelf
<1> HIDE DEF w
<1> QED BY <1>1, <1>2, <1>3, <1>4, <1>5, ProceedMoves

-----------------------------------------------------------------------------
\* What the applications do.

\* A message is received, or none is there.
LEMMA ReceivesMoves ==
    ASSUME Base, NEW i \in Requests, NEW b \in BOOLEAN,
           Receives(i, [ex[i] EXCEPT !.asks = b]), UNCHANGED writer
    PROVE  Moved
<1> DEFINE e == ex[i]
           r == [e EXCEPT !.asks = b]
<1>1. /\ Typed /\ e \in Exchanges /\ app[i] \in Apps /\ app[i].pc = "run"
  BY DEF Base, Typed, Receives
<1>2. r.recv = e.recv /\ r.disconnected = e.disconnected
  BY <1>1 DEF Exchanges
<1>3. \A j : SameWriter(j)
  BY DEF SameWriter, Writing
<1>4. CASE r.recv # <<>>
  <2> DEFINE got == IF Head(e.recv) = "data" THEN app[i].got + 1 ELSE app[i].got
             whole == app[i].whole \/ Head(e.recv) = "end"
             a == [app[i] EXCEPT !.pc = "run", !.got = got, !.whole = whole]
  <2>1. /\ ex' = [ex EXCEPT ![i] = Received(r)] /\ app' = [app EXCEPT ![i] = a]
    BY <1>1, <1>2, <1>4 DEF Receives, Took, Typed, Apps
  <2> HIDE DEF a
  <2>2. Alone(i)
    BY <1>1, <1>3, <2>1 DEF Alone, Shaped, Typed
  <2>3. ex'[i] = Received(r) /\ app'[i] = a
    BY <1>1, <2>1 DEF Typed
  <2>4. Reads(i)
    BY <1>1, <1>2, <1>3, <1>4, <2>3 DEF Reads, a
  <2> QED BY <2>2, <2>4, AloneMoves DEF Moves
<1>5. CASE r.recv = <<>>
  <2> DEFINE a == IF e.disconnected THEN app[i] ELSE [app[i] EXCEPT !.pc = "recv"]
  <2>1. /\ ex' = [ex EXCEPT ![i] = r] /\ app' = [app EXCEPT ![i] = a]
    BY <1>1, <1>2, <1>5 DEF Receives, ReceiveAnswersAlone, Typed
  <2> HIDE DEF a, r
  <2>2. Alone(i)
    BY <1>1, <1>3, <2>1 DEF Alone, Shaped, Typed
  <2>3. ex'[i] = r /\ app'[i] = a
    BY <1>1, <2>1 DEF Typed
  <2>4. Reads(i)
    BY <1>1, <1>2, <1>3, <1>5, <2>3 DEF Reads, a, r
  <2> QED BY <2>2, <2>4, AloneMoves DEF Moves
<1> QED BY <1>4, <1>5

\* A receive that slept finds a message.
LEMMA WakesInReceiveMoves ==
    ASSUME Base, NEW i \in Requests, WakesInReceive(i), UNCHANGED writer
    PROVE  Moved
<1> DEFINE e == ex[i]
           got == IF Head(e.recv) = "data" THEN app[i].got + 1 ELSE app[i].got
           whole == app[i].whole \/ Head(e.recv) = "end"
           a == [app[i] EXCEPT !.pc = "run", !.got = got, !.whole = whole]
<1>1. /\ Typed /\ e \in Exchanges /\ app[i] \in Apps /\ app[i].pc = "recv" /\ e.recv # <<>>
  BY DEF Base, Typed, WakesInReceive
<1>2. e.asks \in BOOLEAN /\ [e EXCEPT !.asks = e.asks] = e
  BY <1>1 DEF Exchanges
<1>3. \A j : SameWriter(j)
  BY DEF SameWriter, Writing
<1>4. /\ ex' = [ex EXCEPT ![i] = Received(e)] /\ app' = [app EXCEPT ![i] = a]
  BY <1>1 DEF WakesInReceive, Took, Typed, Apps
<1> HIDE DEF a
<1>5. Alone(i)
  BY <1>1, <1>3, <1>4 DEF Alone, Shaped, Typed
<1>6. ex'[i] = Received(e) /\ app'[i] = a
  BY <1>1, <1>4 DEF Typed
<1>7. Reads(i)
  BY <1>1, <1>2, <1>3, <1>6 DEF Reads, a
<1> QED BY <1>5, <1>7, AloneMoves DEF Moves

\* A message is sent, the application ends, or a send goes on.
LEMMA SpeaksMoves ==
    ASSUME Base, NEW i \in Requests, AppStep(i) \/ (WakesInSend(i) /\ UNCHANGED writer)
    PROVE  Moved
<1>1. /\ Typed /\ UNCHANGED writer
  BY DEF Base, AppStep
<1>2. \A j : SameWriter(j)
  BY <1>1 DEF SameWriter, Writing
<1>3. ASSUME NEW r, NEW todo, NEW a, Queue(i, r, todo, a), Queueing(i, r, todo, a) => Speaks(i)
      PROVE  Moved
  <2>1. /\ Queueing(i, r, todo, a)
        /\ ex' = [j \in Requests |-> ex'[j]] /\ app' = [j \in Requests |-> app'[j]]
        /\ \A j \in Requests \ {i} : ex'[j] = ex[j] /\ app'[j] = app[j]
    BY <1>1, <1>3, QueueActs DEF Typed
  <2>2. Alone(i)
    BY <1>2, <2>1 DEF Alone, Shaped
  <2> QED BY <1>3, <2>1, <2>2, AloneMoves DEF Moves
<1>4. CASE \E m \in Says[i] : Sends(i, m)
  <2>1. PICK m \in Says[i] : Sends(i, m)
    BY <1>4
  <2> DEFINE a == [app[i] EXCEPT !.sends = app[i].sends + 1]
  <2>2. /\ app[i].pc = "run" /\ InPlace(ex[i], m) /\ InTurn(ex[i], m)
        /\ Queue(i, Noted(ex[i], m), <<m>>, a)
    BY <1>1, <2>1 DEF Sends, Typed, Apps
  <2>3. Queueing(i, Noted(ex[i], m), <<m>>, a) => Speaks(i)
    BY <1>2, <2>2 DEF Speaks
  <2> HIDE DEF a
  <2> QED BY <1>3, <2>2, <2>3
<1>5. CASE \E how \in Endings : Ends(i, how)
  <2>1. PICK how \in Endings : Ends(i, how)
    BY <1>5
  <2> DEFINE gaveUp == how # "return" /\ ex[i].started /\ ~ex[i].bodyEnded
             a == [app[i] EXCEPT !.over = TRUE, !.gaveUp = gaveUp]
  <2>2. /\ app[i].pc = "run" /\ MayEnd(ex[i], how)
        /\ Queue(i, Ended(ex[i], how), LastWords(ex[i], how), a)
    BY <2>1 DEF Ends
  <2>3. Queueing(i, Ended(ex[i], how), LastWords(ex[i], how), a) => Speaks(i)
    BY <1>2, <2>2 DEF Speaks
  <2> HIDE DEF a
  <2> QED BY <1>3, <2>2, <2>3
<1>6. CASE WakesInSend(i)
  <2>1. /\ app[i].pc = "put" /\ ex[i].sendSpace
        /\ Queue(i, ex[i], app[i].todo, app[i])
    BY <1>6 DEF WakesInSend
  <2>2. Queueing(i, ex[i], app[i].todo, app[i]) => Speaks(i)
    BY <1>2, <2>1 DEF Speaks
  <2> QED BY <1>3, <2>1, <2>2
<1> QED BY <1>4, <1>5, <1>6 DEF AppStep

\* Whatever the step, every request makes one of these moves.
LEMMA NextMoves ==
    ASSUME Base, [Next]_vars
    PROVE  Moved
<1>1. Typed
  BY DEF Base
<1>2. ASSUME NEW i \in Requests, Receive(i) PROVE Moved
  <2>1. Receives(i, [ex[i] EXCEPT !.asks = FALSE]) /\ UNCHANGED writer
    BY <1>2 DEF Receive
  <2> QED BY <2>1, ReceivesMoves
<1>3. ASSUME NEW i \in Requests, Wakes(i) PROVE Moved
  <2>1. (WakesInReceive(i) \/ WakesInSend(i)) /\ UNCHANGED writer
    BY <1>3 DEF Wakes
  <2> QED BY <2>1, WakesInReceiveMoves, SpeaksMoves
<1>4. CASE Writer
  BY <1>4, TakeInterimMoves, TakeStartMoves, TakeBodyMoves, TakeTrailersMoves, WriteMoves
  DEF Writer
<1>5. CASE RefuseHead \/ AwaitData \/ DataWake \/ DataReceived \/ ResumeWriting \/ UNCHANGED vars
  <2>1. UNCHANGED <<ex, app, writer>>
    BY <1>5 DEF RefuseHead, AwaitData, DataWake, DataReceived, ResumeWriting, vars
  <2> QED BY <1>1, <2>1, SameMoves
<1>6. CASE Dispatch \/ DecodeBody \/ EmitBody \/ FinishRequest \/ AwaitResponse
  BY <1>6, DispatchMoves, DecodeBodyMoves, EmitBodyMoves, FinishRequestMoves, AwaitResponseMoves
<1>7. CASE Close \/ AbortRequestTimeout \/ ConnectionLost \/ KeepAliveTimeout \/ SendError
  BY <1>7, ClosesMoves
<1> QED BY <1>2, <1>3, <1>4, <1>5, <1>6, <1>7, SpeaksMoves DEF Next, Reader, Environment

-----------------------------------------------------------------------------
\* The types.

TypedAt(i) ==
    /\ ex[i] \in Exchanges /\ app[i] \in Apps
    /\ Len(ex[i].recv) <= RecvMax /\ Len(ex[i].send) <= SendMax

\* What is queued, and noted of it, leaves the rest of an exchange alone.
LEMMA QueueKeeps ==
    ASSUME NEW r \in Exchanges
    PROVE  /\ \A m : Noted(r, m).keep = r.keep /\ Noted(r, m).recvSpace = r.recvSpace
           /\ \A how : Ended(r, how).keep = r.keep /\ Ended(r, how).recvSpace = r.recvSpace
           /\ \A todo : /\ Enqueued(r, todo).keep = r.keep
                        /\ Enqueued(r, todo).recvSpace = r.recvSpace
                        /\ Enqueued(r, todo).recv = r.recv
                        /\ SameFlags(r, Enqueued(r, todo)) /\ SameState(r, Enqueued(r, todo))
<1>1. \A m : Noted(r, m).keep = r.keep /\ Noted(r, m).recvSpace = r.recvSpace
  BY DEF Noted, Exchanges
<1>2. \A how : Ended(r, how).keep = r.keep /\ Ended(r, how).recvSpace = r.recvSpace
  BY DEF Ended, Exchanges
<1>3. \A todo : /\ Enqueued(r, todo).keep = r.keep
                /\ Enqueued(r, todo).recvSpace = r.recvSpace
                /\ Enqueued(r, todo).recv = r.recv
                /\ SameFlags(r, Enqueued(r, todo)) /\ SameState(r, Enqueued(r, todo))
  BY DEF Enqueued, Exchanges, SameFlags, SameState
<1> QED BY <1>1, <1>2, <1>3

\* An application that speaks queues some messages, having noted them.
LEMMA SpeaksQueues ==
    ASSUME NEW i \in Requests, TypedAt(i), Speaks(i)
    PROVE  \E r \in Exchanges, todo \in Seq(Messages), a \in Apps :
                /\ Queueing(i, r, todo, a) /\ SameState(ex[i], r)
                /\ r.send = ex[i].send /\ r.recv = ex[i].recv /\ r.sendSpace = ex[i].sendSpace
                /\ r.recvSpace = ex[i].recvSpace
                /\ a.got = app[i].got /\ a.whole = app[i].whole
                /\ a.over => app[i].pc \in {"run", "put"}
                /\ app[i].over => a.over
                /\ a.over \/ (a.gaveUp = app[i].gaveUp /\ a.over = app[i].over)
                /\ r.started \/ ~ex[i].started
                /\ (~ex[i].started => ~ex[i].announced /\ ~ex[i].bodyEnded)
                        => (~r.started => ~r.announced /\ ~r.bodyEnded)
<1> DEFINE P == \E r \in Exchanges, todo \in Seq(Messages), a \in Apps :
                /\ Queueing(i, r, todo, a) /\ SameState(ex[i], r)
                /\ r.send = ex[i].send /\ r.recv = ex[i].recv /\ r.sendSpace = ex[i].sendSpace
                /\ r.recvSpace = ex[i].recvSpace
                /\ a.got = app[i].got /\ a.whole = app[i].whole
                /\ a.over => app[i].pc \in {"run", "put"}
                /\ app[i].over => a.over
                /\ a.over \/ (a.gaveUp = app[i].gaveUp /\ a.over = app[i].over)
                /\ r.started \/ ~ex[i].started
                /\ (~ex[i].started => ~ex[i].announced /\ ~ex[i].bodyEnded)
                        => (~r.started => ~r.announced /\ ~r.bodyEnded)
<1>1. ex[i] \in Exchanges /\ app[i] \in Apps
  BY DEF TypedAt
<1>2. ASSUME NEW m \in Says[i], app[i].pc = "run", InPlace(ex[i], m),
             Queueing(i, Noted(ex[i], m), <<m>>, [app[i] EXCEPT !.sends = app[i].sends + 1])
      PROVE  P
  <2>1. m \in Messages /\ <<m>> \in Seq(Messages)
    BY RequestsAre, Pair
  <2> DEFINE a == [app[i] EXCEPT !.sends = app[i].sends + 1]
  <2>2. a \in Apps /\ a.got = app[i].got /\ a.whole = app[i].whole /\ a.over = app[i].over
        /\ a.gaveUp = app[i].gaveUp
    BY <1>1 DEF Apps
  <2>3. /\ Noted(ex[i], m) \in Exchanges /\ SameState(ex[i], Noted(ex[i], m))
        /\ Noted(ex[i], m).send = ex[i].send /\ Noted(ex[i], m).recv = ex[i].recv
        /\ Noted(ex[i], m).sendSpace = ex[i].sendSpace
        /\ ex[i].started => Noted(ex[i], m).started
    BY <1>1, <2>1, NotedActs
  <2>6. Noted(ex[i], m).recvSpace = ex[i].recvSpace
    BY <1>1, QueueKeeps
  <2>4. Queueing(i, Noted(ex[i], m), <<m>>, a)
    BY <1>2
  <2>5. (~ex[i].started => ~ex[i].announced /\ ~ex[i].bodyEnded)
        => (~Noted(ex[i], m).started => ~Noted(ex[i], m).announced /\ ~Noted(ex[i], m).bodyEnded)
    <3>1. m.kind \in {"start", "body", "trailers", "interim"}
      BY <2>1, KindsOfMessages
    <3>2. m.kind = "interim" => Noted(ex[i], m) = ex[i]
      BY DEF Noted
    <3>3. m.kind \in {"body", "trailers"} => ex[i].started /\ Noted(ex[i], m).started
      BY <1>1, <1>2, <2>1, NotedFlags DEF InPlace
    <3>4. m.kind = "start" => Noted(ex[i], m).started
      BY <1>1, <2>1, NotedFlags
    <3> QED BY <3>1, <3>2, <3>3, <3>4
  <2> HIDE DEF a
  <2> QED BY <1>2, <2>1, <2>2, <2>3, <2>4, <2>5, <2>6
<1>3. ASSUME NEW how \in Endings, app[i].pc = "run",
             Queueing(i, Ended(ex[i], how), LastWords(ex[i], how),
                      [app[i] EXCEPT !.over = TRUE, !.gaveUp =
                            how # "return" /\ ex[i].started /\ ~ex[i].bodyEnded])
      PROVE  P
  <2> DEFINE up == how # "return" /\ ex[i].started /\ ~ex[i].bodyEnded
             a == [app[i] EXCEPT !.over = TRUE, !.gaveUp = up]
  <2>1. up \in BOOLEAN
    BY <1>1 DEF Exchanges
  <2>2. a \in Apps /\ a.got = app[i].got /\ a.whole = app[i].whole /\ a.over
    <3> HIDE DEF up
    <3> QED BY <1>1, <2>1 DEF Apps
  <2>3. LastWords(ex[i], how) \in Seq(Messages)
    BY <1>1, LastWordsAreMessages
  <2>4. /\ Ended(ex[i], how) \in Exchanges /\ SameState(ex[i], Ended(ex[i], how))
        /\ Ended(ex[i], how).send = ex[i].send /\ Ended(ex[i], how).recv = ex[i].recv
        /\ Ended(ex[i], how).sendSpace = ex[i].sendSpace
        /\ ex[i].started => Ended(ex[i], how).started
        /\ Ended(ex[i], how).announced = ex[i].announced
        /\ Ended(ex[i], how).bodyEnded = ex[i].bodyEnded
    BY <1>1, EndedActs
  <2>6. Ended(ex[i], how).recvSpace = ex[i].recvSpace
    BY <1>1, QueueKeeps
  <2>5. Queueing(i, Ended(ex[i], how), LastWords(ex[i], how), a)
    BY <1>3
  <2> HIDE DEF a
  <2> QED BY <1>3, <2>2, <2>3, <2>4, <2>5, <2>6
<1>4. ASSUME Queueing(i, ex[i], app[i].todo, app[i]), app[i].pc = "put" PROVE P
  <2>1. app[i].todo \in Seq(Messages) /\ SameState(ex[i], ex[i])
    BY <1>1 DEF Apps, SameState
  <2> QED BY <1>1, <1>4, <2>1
<1> HIDE DEF P
<1>5. P
  BY <1>2, <1>3, <1>4 DEF Speaks
<1> QED BY <1>5 DEF P

\* How the writer leaves the exchange of its request.
GoesOn(i, w, r) == writer' = w /\ ex'[i] = r /\ (w.out = <<>> => ~w.last)
Finishes(i, w, r) ==
    /\ writer' = NoWriter /\ w.out = <<>> /\ w.last
    /\ \E b \in BOOLEAN :
        /\ b => r.keep /\ LengthMet(w)
        /\ [r EXCEPT !.keep = b] \in Exchanges
        /\ ex'[i] = Completed([r EXCEPT !.keep = b])
        /\ ex'[i].keep = b
    /\ ex'[i] \in Exchanges /\ Len(ex'[i].recv) <= RecvMax
    /\ SameFlags(r, ex'[i]) /\ ex'[i].complete /\ ex'[i].finished
    /\ ex'[i].disconnected /\ ex'[i].sendSpace /\ ex'[i].recvSpace
    /\ ex'[i].send = r.send
    /\ ex'[i].recv # <<>> \/ r.disconnected
    /\ SameBody(r.recv, ex'[i].recv)
WritesAs(i, w, r) ==
    /\ Acts(i, w, r) /\ app'[i] = app[i] /\ w.pc = "run" /\ w.of = i
    /\ SameFlags(ex[i], r) /\ SameState(ex[i], r) /\ (r.keep => ex[i].keep)
    /\ r.recv = ex[i].recv /\ r.recvSpace = ex[i].recvSpace
    /\ Len(r.send) <= Len(ex[i].send) /\ Len(r.send) <= SendMax
    /\ \/ r.sendSpace /\ ex[i].send # <<>> /\ r.send = Tail(ex[i].send)
       \/ r.sendSpace = ex[i].sendSpace /\ r.send = ex[i].send /\ writer.out # <<>>
    /\ GoesOn(i, w, r) \/ Finishes(i, w, r)

\* What the writer does to the exchange of its request.
LEMMA WroteActs ==
    ASSUME NEW i \in Requests, TypedAt(i), Wrote(i), writer \in Writers
    PROVE  \E w \in Writers, r \in Exchanges : WritesAs(i, w, r)
<1>1. /\ ex[i] \in Exchanges /\ Len(ex[i].recv) <= RecvMax /\ Len(ex[i].send) <= SendMax
  BY DEF TypedAt
<1>2. PICK w \in Writers, r \in Exchanges : Acts(i, w, r) /\ Goes(i, w, r)
  BY DEF Wrote
<1>3. /\ SameFlags(ex[i], r) /\ SameState(ex[i], r) /\ (r.keep => ex[i].keep)
      /\ r.recv = ex[i].recv /\ r.recvSpace = ex[i].recvSpace
      /\ \/ r.sendSpace /\ ex[i].send # <<>> /\ r.send = Tail(ex[i].send)
         \/ r.sendSpace = ex[i].sendSpace /\ r.send = ex[i].send /\ writer.out # <<>>
  BY <1>2 DEF Acts, Reached, SameFlags, SameState
<1>4. Len(r.send) <= Len(ex[i].send) /\ Len(r.send) <= SendMax
  <2>1. Len(ex[i].send) \in Nat /\ SendMax \in Nat
    BY <1>1, LenProperties, QueueAssumption DEF Exchanges
  <2>2. ex[i].send # <<>> => Len(Tail(ex[i].send)) = Len(ex[i].send) - 1
    BY <1>1, HeadTailProperties DEF Exchanges
  <2>3. CASE r.send = ex[i].send
    BY <1>1, <2>1, <2>3
  <2>4. CASE ex[i].send # <<>> /\ r.send = Tail(ex[i].send)
    <3>1. Len(r.send) = Len(ex[i].send) - 1
      BY <2>2, <2>4
    <3> QED BY <1>1, <2>1, <3>1
  <2> QED BY <1>3, <2>3, <2>4
<1>5. app'[i] = app[i] /\ w.pc = "run" /\ w.of = i
  <2>1. app'[i] = app[i] /\ writer.pc = "run" /\ writer.of = i
    BY <1>2 DEF Goes, Wrote, Writing
  <2>2. w.pc = writer.pc /\ w.of = writer.of
    <3>1. CASE writer.out # <<>> /\ w = [writer EXCEPT !.out = Tail(writer.out)]
      BY <3>1 DEF Writers
    <3>2. CASE ex[i].send # <<>> /\ Reached(i, Head(ex[i].send), w, r)
      <4> DEFINE m == Head(ex[i].send)
      <4>1. m \in Messages
        BY <1>1, <3>2, TakenActs
      <4>2. CASE m.kind = "body" /\ w = BodyTaken(writer, m)
        BY <4>1, <4>2, BodyTakenTyped
      <4> HIDE DEF m
      <4>3. CASE ~ (m.kind = "body" /\ w = BodyTaken(writer, m))
        BY <3>2, <4>3, ZenonT(60) DEF Reached, Writers, m
      <4> QED BY <4>2, <4>3
    <3> QED BY <1>2, <3>1, <3>2 DEF Acts
  <2> QED BY <2>1, <2>2
<1>6. CASE ~(w.out = <<>> /\ w.last)
  <2>1. GoesOn(i, w, r)
    BY <1>2, <1>6 DEF Goes, GoesOn
  <2> QED BY <1>2, <1>3, <1>4, <1>5, <2>1 DEF WritesAs
<1>7. CASE w.out = <<>> /\ w.last
  <2>1. PICK b \in BOOLEAN : /\ b => r.keep /\ LengthMet(w)
                             /\ ex'[i] = Completed([r EXCEPT !.keep = b])
    BY <1>2, <1>7 DEF Goes
  <2> DEFINE e == [r EXCEPT !.keep = b]
  <2>2. /\ e \in Exchanges /\ e.recv = r.recv /\ e.send = r.send /\ e.disconnected = r.disconnected
        /\ SameFlags(r, e) /\ e.keep = b
    BY DEF Exchanges, SameFlags
  <2> HIDE DEF e
  <2>3. Len(e.recv) <= RecvMax
    BY <1>1, <1>3, <2>2
  <2>4. /\ Completed(e) \in Exchanges /\ SameAnswer(e, Completed(e))
        /\ Completed(e).finished /\ Completed(e).disconnected
        /\ Completed(e).complete /\ Completed(e).sendSpace
        /\ ~e.disconnected => Completed(e).recv # <<>>
        /\ Len(Completed(e).recv) <= RecvMax
    BY <2>2, <2>3, CompletedActs
  <2>5. SameBody(e.recv, Completed(e).recv)
    <3>1. Completed(e).recv = IF e.disconnected THEN e.recv ELSE Offered(e, "disconnect")
      BY <2>2 DEF Completed, MarkFinished, Exchanges
    <3>2. SameBody(e.recv, Offered(e, "disconnect")) /\ SameBody(e.recv, e.recv)
      BY <2>2, OfferedSameBody DEF SameBody
    <3> QED BY <3>1, <3>2
  <2>6. Completed(e).keep = e.keep /\ Completed(e).recvSpace
    BY <2>2 DEF Completed, MarkFinished, Exchanges
  <2>7. ex'[i] = Completed(e)
    BY <2>1 DEF e
  <2>8. /\ SameFlags(r, ex'[i]) /\ ex'[i].complete /\ ex'[i].finished
        /\ ex'[i].disconnected /\ ex'[i].sendSpace
        /\ ex'[i].send = r.send /\ ex'[i].keep = b
        /\ ex'[i].recv # <<>> \/ r.disconnected
        /\ Len(ex'[i].recv) <= RecvMax /\ SameBody(r.recv, ex'[i].recv)
        /\ ex'[i] \in Exchanges /\ ex'[i].recvSpace
    BY <2>2, <2>4, <2>5, <2>6, <2>7 DEF SameAnswer, SameFlags
  <2>9. writer' = NoWriter
    BY <1>2, <1>7 DEF Goes
  <2>10. ex'[i] = Completed([r EXCEPT !.keep = b]) /\ [r EXCEPT !.keep = b] \in Exchanges
    BY <2>1, <2>2 DEF e
  <2>11. Finishes(i, w, r)
    BY <1>7, <2>1, <2>8, <2>9, <2>10 DEF Finishes
  <2> QED BY <1>2, <1>3, <1>4, <1>5, <2>11 DEF WritesAs
<1> QED BY <1>6, <1>7

\* Whatever is done to a request.
LEMMA MovesTyped ==
    ASSUME NEW i \in Requests, TypedAt(i), writer \in Writers, Moves(i)
    PROVE  TypedAt(i)'
<1>1. /\ ex[i] \in Exchanges /\ app[i] \in Apps
      /\ Len(ex[i].recv) <= RecvMax /\ Len(ex[i].send) <= SendMax
      /\ RecvMax \in Nat \ {0} /\ SendMax \in Nat \ {0}
      /\ Len(ex[i].recv) \in Nat /\ Len(ex[i].send) \in Nat
  BY QueueAssumption, LenProperties DEF TypedAt, Exchanges
<1>2. CASE Untouched(i)
  BY <1>1, <1>2 DEF Untouched, TypedAt
<1>3. CASE Begun(i)
  <2>1. PICK keep \in BOOLEAN, asks \in BOOLEAN, recv \in {<<>>, <<"end">>} :
            ex'[i] = [NewExchange EXCEPT !.keep = keep, !.asks = asks, !.recv = recv]
    BY <1>3 DEF Begun
  <2>2. recv \in Seq(RequestMessages) /\ Len(recv) <= RecvMax
    <3>1. <<"end">> \in Seq(RequestMessages)
      BY Pair DEF RequestMessages
    <3>2. Len(<<>>) = 0 /\ Len(<<"end">>) = 1 /\ <<>> \in Seq(RequestMessages)
      OBVIOUS
    <3>3. 0 <= RecvMax /\ 1 <= RecvMax
      BY <1>1
    <3>4. CASE recv = <<>>
      BY <3>2, <3>3, <3>4
    <3>5. CASE recv = <<"end">>
      BY <3>1, <3>2, <3>3, <3>5
    <3> QED BY <3>4, <3>5
  <2>3. ex'[i] \in Exchanges /\ ex'[i].recv = recv /\ ex'[i].send = <<>>
    <3>1. <<>> \in Seq(Messages)
      OBVIOUS
    <3> QED BY <2>1, <2>2, <3>1 DEF NewExchange, Exchanges
  <2>4. app'[i] \in Apps
    BY <1>1, <1>3 DEF Begun, Started, Apps
  <2>5. Len(<<>>) <= SendMax
    BY <1>1
  <2> QED BY <2>2, <2>3, <2>4, <2>5 DEF TypedAt
<1>4. CASE Fed(i)
  <2>1. PICK x \in {"data", "end"} : ex'[i] = Feed(ex[i], x)
    BY <1>4 DEF Fed
  <2>2. /\ Feed(ex[i], x) \in Exchanges /\ Feed(ex[i], x).send = ex[i].send
        /\ Feed(ex[i], x).recv = Append(ex[i].recv, x)
    BY <1>1, FeedActs DEF RequestMessages, SameAnswer
  <2>3. Len(Append(ex[i].recv, x)) = Len(ex[i].recv) + 1 /\ Len(ex[i].recv) # RecvMax
    BY <1>1, <1>4, AppendProperties DEF Exchanges, RequestMessages, Fed, Full
  <2>4. Len(Append(ex[i].recv, x)) <= RecvMax
    BY <1>1, <2>3
  <2> QED BY <1>1, <1>4, <2>1, <2>2, <2>4 DEF Fed, TypedAt
<1>5. CASE Held(i) \/ Rekept(i)
  <2>1. app'[i] = app[i]
    BY <1>5 DEF Held, Rekept
  <2>2. ex'[i] \in Exchanges /\ ex'[i].recv = ex[i].recv /\ ex'[i].send = ex[i].send
    BY <1>1, <1>5 DEF Held, Rekept, AwaitSpace, Exchanges
  <2> QED BY <1>1, <2>1, <2>2 DEF TypedAt
<1>6. CASE Refused(i)
  <2> DEFINE r == NotifyDisconnect(ex[i])
  <2>1. r \in Exchanges /\ r.send = ex[i].send /\ Len(r.recv) <= RecvMax
    BY <1>1, NotifyDisconnectActs DEF SameAnswer
  <2>2. ex'[i] = [r EXCEPT !.keep = FALSE] /\ app'[i] = app[i]
    BY <1>6 DEF Refused
  <2> HIDE DEF r
  <2>3. ex'[i] \in Exchanges /\ ex'[i].recv = r.recv /\ ex'[i].send = r.send
    BY <2>1, <2>2 DEF Exchanges
  <2> QED BY <1>1, <2>1, <2>2, <2>3 DEF TypedAt
<1>7. CASE TakenDown(i)
  <2>1. PICK r : Downed(ex[i], r) /\ ex'[i] = IF Writing(i) THEN Completed(r) ELSE r
    BY <1>7 DEF TakenDown
  <2>2. r \in Exchanges /\ Len(r.recv) <= RecvMax /\ Len(r.send) <= SendMax
    BY <2>1 DEF Downed
  <2>3. /\ Completed(r) \in Exchanges /\ Completed(r).send = r.send
        /\ Len(Completed(r).recv) <= RecvMax
    BY <2>2, CompletedActs DEF SameAnswer
  <2>4. app'[i] \in Apps
    BY <1>1, <1>7, EmptySeq, ZenonT(60) DEF TakenDown, Cancelled, Apps
  <2> QED BY <2>1, <2>2, <2>3, <2>4 DEF TypedAt
<1>8. CASE Wrote(i)
  <2>1. ex'[i] \in Exchanges /\ Len(ex'[i].recv) <= RecvMax /\ Len(ex'[i].send) <= SendMax
        /\ app'[i] = app[i]
    <3>1. PICK w \in Writers, r \in Exchanges : WritesAs(i, w, r)
      BY <1>8, WroteActs
    <3> QED BY <1>1, <3>1 DEF WritesAs, GoesOn, Finishes
  <2> QED BY <1>1, <2>1 DEF TypedAt
<1>9. CASE Reads(i)
  <2>1. app'[i] \in Apps
    <3>1. app[i].got + 1 \in Nat /\ app[i].whole \in BOOLEAN
      BY <1>1 DEF Apps
    <3> DEFINE whole == app[i].whole \/ Head(ex[i].recv) = "end"
               got == IF Head(ex[i].recv) = "data" THEN app[i].got + 1 ELSE app[i].got
    <3>2. whole \in BOOLEAN /\ got \in Nat
      BY <1>1, <3>1 DEF Apps
    <3>3. app'[i] \in {app[i], [app[i] EXCEPT !.pc = "recv"],
                       [app[i] EXCEPT !.pc = "run", !.got = got, !.whole = whole]}
      BY <1>9 DEF Reads
    <3> HIDE DEF whole, got
    <3> QED BY <1>1, <3>2, <3>3 DEF Apps
  <2>2. PICK b \in BOOLEAN :
            \/ ex[i].recv # <<>> /\ ex'[i] = Received([ex[i] EXCEPT !.asks = b])
            \/ ex'[i] = [ex[i] EXCEPT !.asks = b]
    BY <1>9 DEF Reads
  <2> DEFINE e == [ex[i] EXCEPT !.asks = b]
  <2>3. e \in Exchanges /\ e.recv = ex[i].recv /\ e.send = ex[i].send
    BY <1>1 DEF Exchanges
  <2> HIDE DEF e
  <2>4. e.recv # <<>> => /\ Received(e) \in Exchanges /\ Received(e).send = e.send
                         /\ Len(Received(e).recv) <= RecvMax
    BY <1>1, <2>3, ReceivedActs DEF SameAnswer
  <2>5. \/ e.recv # <<>> /\ ex'[i] = Received(e)
        \/ ex'[i] = e
    BY <2>2, <2>3 DEF e
  <2> QED BY <1>1, <2>1, <2>3, <2>4, <2>5 DEF TypedAt
<1>10. CASE Speaks(i)
  <2>1. PICK r \in Exchanges, todo \in Seq(Messages), a \in Apps :
                /\ Queueing(i, r, todo, a) /\ r.send = ex[i].send /\ r.recv = ex[i].recv
    BY <1>10, SpeaksQueues
  <2>2. ex'[i] \in Exchanges /\ Len(ex'[i].send) <= SendMax /\ app'[i] \in Apps
    BY <1>1, <2>1, QueueingTyped
  <2>3. ex'[i].recv = r.recv
    <3>1. Len(r.send) <= SendMax
      BY <1>1, <2>1
    <3>2. Enqueued(r, todo).recv = r.recv
      BY <3>1, EnqueuedActs
    <3> QED BY <2>1, <3>2 DEF Queueing
  <2> QED BY <1>1, <2>1, <2>2, <2>3 DEF TypedAt
<1> QED BY <1>2, <1>3, <1>4, <1>5, <1>6, <1>7, <1>8, <1>9, <1>10 DEF Moves

-----------------------------------------------------------------------------
\* What a step does to the tasks of the connection.

\* The reader stays where it is, whatever else is done or arrives.
Rests ==
    /\ UNCHANGED <<read, taken, state, reader, cur, closed, lost>>
    /\ writer'.pc = writer.pc /\ writer'.of = writer.of
    /\ writer' = writer \/ writer.pc = "run"
    /\ \/ arrived' = arrived /\ dataEvent' = dataEvent
       \/ arrived < Len(stream) /\ arrived' = arrived + 1 /\ dataEvent'

\* The connection closes, the tasks with it.
Falls ==
    /\ closed' /\ reader' = "done" /\ writer' = NoWriter
    /\ read' \in {read, arrived} /\ taken' \subseteq taken
    /\ lost' \in BOOLEAN
    /\ UNCHANGED <<arrived, state, dataEvent, cur>>

\* An answer ends.
Answers ==
    /\ Writing(cur) /\ writer' = NoWriter /\ OnResponseFinished
    /\ ex'[cur].keep => Drainable
    /\ UNCHANGED <<arrived, taken, reader, cur, closed, lost>>

\* A body is refused before its answer began.
Refuses ==
    /\ ~closed /\ state # "idle" /\ Writing(cur) /\ taken' = {} /\ reader' = "error"
    /\ reader \in {"ready", "space"} /\ ~ex[cur].started
    /\ ex'[cur].finished
    /\ UNCHANGED <<arrived, read, state, dataEvent, cur, writer, closed, lost>>

\* The buffered part of a body is decoded.
Decodes ==
    /\ reader = "ready" /\ state = "body" /\ taken = {} /\ Buffered # {}
    /\ \A k \in Buffered : stream[k].kind # "bad"
    /\ taken' = {k \in Buffered : stream[k].kind # "nil"} /\ read' = Drained
    /\ UNCHANGED <<arrived, state, reader, dataEvent, cur, ex, app, writer, closed, lost>>

\* The next unit is passed on, has to wait, or is not wanted any more.
Emits ==
    /\ ~closed /\ taken # {} /\ (reader = "ready" \/ HasWoken)
    /\ UNCHANGED <<arrived, dataEvent, cur, app, writer, closed, lost>>
Passes ==
    /\ Emits /\ ~Gone(ex[cur]) /\ ~Full(ex[cur])
    /\ ex'[cur] = Feed(ex[cur], "data") /\ taken' = taken \ {NextUnit} /\ reader' = "ready"
    /\ UNCHANGED <<read, state>>
Sleeps ==
    /\ Emits /\ ~Gone(ex[cur]) /\ Full(ex[cur])
    /\ ex'[cur] = AwaitSpace(ex[cur]) /\ reader' = "space"
    /\ UNCHANGED <<read, taken, state>>
Abandons ==
    /\ Emits /\ Gone(ex[cur])
    /\ taken' = {} /\ state' = "waiting" /\ reader' = "ready"
    /\ read' = IF state = "body" /\ Drainable THEN Drained ELSE read
    /\ ex'[cur].keep => Drainable

Steps ==
    /\ stream' = stream
    /\ \/ Rests \/ Falls \/ Answers \/ Refuses \/ Decodes \/ Passes \/ Sleeps \/ Abandons
       \/ RefuseHead \/ Dispatch \/ FinishRequest \/ AwaitData \/ DataWake \/ AwaitResponse

\* _fail_request ends the connection, or leaves the rest to _send_error.
LEMMA RefuseBodySteps ==
    ASSUME Base, ~closed, state # "idle", RefuseBody, reader \in {"ready", "space"},
           UNCHANGED <<stream, arrived, dataEvent, cur, lost>>
    PROVE  Falls \/ Refuses
<1> DEFINE r == ex[cur]
           e == NotifyDisconnect(r)
           failed == [e EXCEPT !.keep = FALSE]
<1>1. /\ cur \in Requests /\ cur # 0 /\ r \in Exchanges
      /\ r.complete => r.started
      /\ Writing(cur) \/ r.complete
      /\ Typed
  BY OnRequest DEF Base
<1>2. e \in Exchanges /\ e.started = r.started /\ e.finished
  BY <1>1, NotifyDisconnectActs DEF SameAnswer, SameFlags
<1> HIDE DEF e
<1>3. failed.started = r.started /\ failed.finished
  BY <1>2 DEF Exchanges
<1>4. taken' = {} /\ UNCHANGED <<read, state>>
  BY DEF RefuseBody
<1>5. CASE r.started
  <2>1. Shut([ex EXCEPT ![cur] = NotifyDisconnect(failed)])
    BY <1>3, <1>5 DEF RefuseBody, e
  <2>2. lost \in BOOLEAN
    BY DEF Base, Around
  <2> QED BY <1>4, <2>1, <2>2 DEF Shut, Falls
<1>6. CASE ~r.started
  <2>1. reader' = "error" /\ ex' = [ex EXCEPT ![cur] = failed] /\ UNCHANGED <<app, writer, closed>>
    BY <1>3, <1>6 DEF RefuseBody, e
  <2>2. ex'[cur] = failed
    BY <1>1, <2>1 DEF Typed
  <2> HIDE DEF failed
  <2> QED BY <1>1, <1>3, <1>4, <1>6, <2>1, <2>2 DEF Refuses
<1> QED BY <1>5, <1>6

\* The writer goes on, ends its answer, or closes the connection.
LEMMA ProceedSteps ==
    ASSUME Base, writer.pc = "run", NEW w, w.of = cur, NEW r \in Exchanges,
           Proceed(w, r), w.pc = "run",
           UNCHANGED <<stream, arrived, taken, cur, lost>>
    PROVE  Rests \/ Falls \/ Answers
<1>1. /\ Typed /\ Control /\ cur \in Requests /\ cur # 0 /\ Writing(cur) /\ writer.of = cur
  BY WriterIs DEF Base, Around
<1>2. CASE ~(w.out = <<>> /\ w.last)
  <2>1. writer' = w /\ UNCHANGED <<read, state, reader, dataEvent, app, closed>>
    BY <1>2 DEF Proceed, Continue
  <2> QED BY <1>1, <2>1 DEF Rests
<1>3. CASE w.out = <<>> /\ w.last /\ ~w.aborted
  <2> DEFINE b == r.keep /\ LengthMet(w) /\ Drainable
             e == [r EXCEPT !.keep = b]
  <2>1. /\ writer' = NoWriter /\ ex' = [ex EXCEPT ![cur] = Completed(e)]
        /\ OnResponseFinished /\ UNCHANGED <<reader, app, closed>>
    BY <1>3 DEF Proceed, FinishResponse
  <2>2. e.keep => Drainable
    BY DEF Exchanges
  <2> HIDE DEF e
  <2>3. Completed(e).keep = e.keep
    <3>1. e \in Exchanges
      BY DEF e, Exchanges
    <3> QED BY <3>1 DEF Completed, MarkFinished, Exchanges
  <2>4. ex'[cur] = Completed(e)
    BY <1>1, <2>1 DEF Typed
  <2> QED BY <1>1, <2>1, <2>2, <2>3, <2>4 DEF Answers
<1>4. CASE w.out = <<>> /\ w.last /\ w.aborted
  <2>1. Shut([ex EXCEPT ![w.of] = [r EXCEPT !.keep = FALSE]]) /\ UNCHANGED <<state, dataEvent, read>>
    BY <1>4 DEF Proceed, FinishResponse
  <2>2. lost \in BOOLEAN
    BY DEF Base, Around
  <2> QED BY <2>1, <2>2 DEF Shut, Falls
<1> QED BY <1>2, <1>3, <1>4

\* The steps of the writer.
LEMMA WriterSteps ==
    ASSUME Base, Writer
    PROVE  Steps
<1>1. UNCHANGED <<stream, arrived, taken, cur, lost>>
  BY DEF Writer, TakeInterim, TakeStart, TakeBody, TakeTrailers, Write
<1>2. writer.pc = "run" /\ writer.of = cur /\ writer \in Writers /\ cur \in Requests
      /\ ex[cur] \in Exchanges /\ Typed
  BY WriterIs DEF Base, Around, Typed, Writer, TakeInterim, TakeStart, TakeBody, TakeTrailers,
                  Write, Takes
<1>3. ASSUME NEW w, w.pc = "run", w.of = cur, NEW r, Continue(w, r) PROVE Rests
  <2>1. writer' = w /\ UNCHANGED <<read, state, reader, dataEvent, app, closed>>
    BY <1>3 DEF Continue
  <2> QED BY <1>1, <1>2, <1>3, <2>1 DEF Rests
<1>4. ASSUME ex[cur].send # <<>> PROVE Taken(ex[cur]) \in Exchanges
  BY <1>2, <1>4, TakenActs
<1>5. CASE TakeInterim
  <2> DEFINE w == [writer EXCEPT !.out = <<"interim">>]
  <2>1. Continue(w, Taken(ex[cur]))
    BY <1>2, <1>5 DEF TakeInterim
  <2>2. w.pc = "run" /\ w.of = cur
    BY <1>2 DEF Writers
  <2> HIDE DEF w
  <2> QED BY <1>1, <1>3, <2>1, <2>2 DEF Steps
<1>6. CASE TakeStart
  <2> DEFINE w == [writer EXCEPT !.started = TRUE, !.framing = NextMessage.framing, !.out = <<"head">>,
                       !.trailers = NextMessage.trailers /\ NextMessage.framing # "none"]
  <2>1. Continue(w, [Taken(ex[writer.of]) EXCEPT !.keep = @ /\ NextMessage.framing # "close"])
    BY <1>6 DEF TakeStart
  <2>2. w.pc = "run" /\ w.of = cur
    BY <1>2 DEF Writers
  <2> HIDE DEF w
  <2> QED BY <1>1, <1>3, <2>1, <2>2 DEF Steps
<1>7. CASE TakeBody
  <2> DEFINE t == Taken(ex[cur])
             m == NextMessage
             over == writer.framing = "length" /\ m.data /\ writer.sent = Declared
  <2>1. t \in Exchanges
    BY <1>2, <1>4, <1>7 DEF TakeBody, Takes
  <2>2. \E w : w.pc = writer.pc /\ w.of = writer.of /\
            (Proceed(w, t) \/ Proceed(w, [t EXCEPT !.keep = @ /\ ~over]))
    BY <1>2, <1>7 DEF TakeBody, Writers
  <2>3. [t EXCEPT !.keep = @ /\ ~over] \in Exchanges
    BY <2>1 DEF Exchanges
  <2> HIDE DEF t
  <2> QED BY <1>1, <1>2, <2>1, <2>2, <2>3, ProceedSteps DEF Steps
<1>8. CASE TakeTrailers
  <2> DEFINE w == [writer EXCEPT !.last = TRUE,
                    !.out = IF writer.awaiting THEN <<"end">> ELSE <<>>]
  <2>1. Proceed(w, Taken(ex[cur])) /\ ex[cur].send # <<>>
    BY <1>2, <1>8 DEF TakeTrailers, Takes
  <2>2. w.pc = "run" /\ w.of = cur
    BY <1>2 DEF Writers
  <2> HIDE DEF w
  <2> QED BY <1>1, <1>2, <1>4, <2>1, <2>2, ProceedSteps DEF Steps
<1>9. CASE Write
  <2> DEFINE w == [writer EXCEPT !.out = Tail(writer.out)]
  <2>1. Proceed(w, ex[cur])
    BY <1>2, <1>9 DEF Write
  <2>2. w.pc = "run" /\ w.of = cur
    BY <1>2 DEF Writers
  <2> HIDE DEF w
  <2> QED BY <1>1, <1>2, <2>1, <2>2, ProceedSteps DEF Steps
<1> QED BY <1>5, <1>6, <1>7, <1>8, <1>9 DEF Writer

\* The steps of the reader with the units it decoded.
LEMMA EmitBodySteps ==
    ASSUME Base, EmitBody
    PROVE  Steps
<1>1. ~closed /\ state # "idle"
  BY EmitBodyIs
<1>2. cur \in Requests /\ Typed
  BY <1>1, OnRequest DEF Base
<1>3. UNCHANGED <<stream, arrived, dataEvent, cur, lost>> /\ reader \in {"ready", "space"}
  BY DEF EmitBody, HasWoken
<1>4. CASE RefuseBody
  BY <1>1, <1>3, <1>4, RefuseBodySteps DEF Steps
<1>5. CASE ~RefuseBody /\ Gone(ex[cur])
  <2>1. Abandon
    BY <1>5 DEF EmitBody
  <2>2. Emits
    BY <1>1, <2>1 DEF EmitBody, Emits, Abandon
  <2>3. ex'[cur].keep => Drainable
    <3> DEFINE b == ex[cur].keep /\ Drainable
    <3>1. ex' = [ex EXCEPT ![cur] = [ex[cur] EXCEPT !.keep = b]]
      BY <1>2, <2>1 DEF Abandon, Typed, Exchanges
    <3> HIDE DEF b
    <3>2. ex'[cur].keep = b
      BY <1>2, <3>1 DEF Typed, Exchanges
    <3> QED BY <3>2 DEF b
  <2> QED BY <1>3, <1>5, <2>1, <2>2, <2>3 DEF Abandons, Abandon, Steps
<1>6. CASE ~RefuseBody /\ ~Gone(ex[cur]) /\ Full(ex[cur])
  <2>1. WaitForSpace
    BY <1>6 DEF EmitBody
  <2>2. Emits
    BY <1>1, <2>1 DEF EmitBody, Emits, WaitForSpace
  <2>3. ex'[cur] = AwaitSpace(ex[cur])
    BY <1>2, <2>1 DEF WaitForSpace, Typed
  <2> QED BY <1>3, <1>6, <2>1, <2>2, <2>3 DEF Sleeps, WaitForSpace, Steps
<1>7. CASE ~RefuseBody /\ ~Gone(ex[cur]) /\ ~Full(ex[cur])
  <2>1. /\ ex' = [ex EXCEPT ![cur] = Feed(ex[cur], "data")]
        /\ taken' = taken \ {NextUnit} /\ reader' = "ready"
        /\ UNCHANGED <<read, state, app, writer, closed>>
    BY <1>7 DEF EmitBody
  <2>2. Emits
    BY <1>1, <2>1 DEF EmitBody, Emits
  <2>3. ex'[cur] = Feed(ex[cur], "data")
    BY <1>2, <2>1 DEF Typed
  <2> QED BY <1>3, <1>7, <2>1, <2>2, <2>3 DEF Passes, Steps
<1> QED BY <1>4, <1>5, <1>6, <1>7

\* Every step is one of these.
LEMMA NextSteps ==
    ASSUME Base, [Next]_vars
    PROVE  Steps
<1>1. ASSUME UNCHANGED <<stream, read, taken, state, reader, cur, closed, lost, arrived, dataEvent, writer>>
      PROVE  Steps
  BY <1>1 DEF Steps, Rests
<1>2. ASSUME NEW i \in Requests, Receive(i) \/ AppStep(i) \/ Wakes(i) PROVE Steps
  BY <1>1, <1>2 DEF Receive, AppStep, Wakes
<1>3. CASE ResumeWriting \/ UNCHANGED vars
  BY <1>1, <1>3 DEF ResumeWriting, vars
<1>4. CASE DataReceived
  BY <1>4 DEF DataReceived, Steps, Rests
<1>5. CASE Close \/ AbortRequestTimeout \/ ConnectionLost \/ KeepAliveTimeout \/ SendError
  <2>1. lost \in BOOLEAN
    BY DEF Base, Around
  <2> QED BY <1>5, <2>1 DEF Close, AbortRequestTimeout, ConnectionLost, KeepAliveTimeout,
                            SendError, Shut, Falls, Steps
<1>6. CASE RefuseHead \/ Dispatch \/ FinishRequest \/ AwaitData \/ DataWake \/ AwaitResponse
  BY <1>6 DEF RefuseHead, Dispatch, FinishRequest, AwaitData, DataWake, AwaitResponse, Steps
<1>7. CASE DecodeBody
  <2>1. ~closed /\ state # "idle" /\ reader \in {"ready", "space"}
    BY <1>7, ReaderIs DEF DecodeBody
  <2>2. UNCHANGED <<stream, arrived, dataEvent, cur, lost>>
    BY <1>7 DEF DecodeBody
  <2>3. CASE RefuseBody
    BY <2>1, <2>2, <2>3, RefuseBodySteps DEF Steps
  <2>4. CASE ~RefuseBody
    BY <1>7, <2>2, <2>4 DEF DecodeBody, Decodes, Steps
  <2> QED BY <2>3, <2>4
<1> QED BY <1>2, <1>3, <1>4, <1>5, <1>6, <1>7, EmitBodySteps, WriterSteps
        DEF Next, Reader, Environment

-----------------------------------------------------------------------------
\* What a step writes.
Writes ==
    /\ writer.pc = "run" /\ writer.out # <<>> /\ writer.of = cur /\ ~closed
    /\ Emit(Head(writer.out), cur, writer.framing)
    /\ closed' = closed /\ writer' \in {[writer EXCEPT !.out = Tail(writer.out)], NoWriter}
SaysError ==
    /\ closed' /\ reader = "error" /\ ~closed
    /\ Emit("error", IF cur # 0 THEN cur ELSE Buffer[1].of, "none")
SaysContinue ==
    /\ ~closed /\ (cur = 0 \/ ~ex[cur].started) /\ Emit("interim", cur, "none")
    /\ writer' = writer /\ cur' = cur /\ closed' = closed
    /\ \A j \in Requests : (ex'[j].complete <=> ex[j].complete) /\ (ex'[j].keep <=> ex[j].keep)
Wires ==
    \/ heads' = heads /\ open' = open /\ writePaused' \in BOOLEAN
    \/ Writes \/ SaysError \/ SaysContinue

\* Every step writes one item at most.
LEMMA NextWires ==
    ASSUME Base, [Next]_vars, writer.pc = "run" => ~writer.aborted
    PROVE  Wires
<1>1. writePaused \in BOOLEAN /\ Typed
  BY DEF Base, Around
<1>2. CASE UNCHANGED wire
  BY <1>1, <1>2 DEF Wires, wire
<1>3. CASE Write
  <2>1. writer.of = cur /\ ~closed
    BY <1>3, WriterIs DEF Write, Base, Control
  <2> DEFINE w == [writer EXCEPT !.out = Tail(writer.out)]
  <2>2. Proceed(w, ex[writer.of]) /\ ~w.aborted
    BY <1>1, <1>3 DEF Write, Typed, Writers
  <2>3. closed' = closed /\ writer' \in {w, NoWriter}
    <3> HIDE DEF w
    <3> QED BY <2>2 DEF Proceed, FinishResponse, Continue
  <2> QED BY <1>3, <2>1, <2>3 DEF Write, Wires, Writes
<1>4. CASE SendError
  BY <1>4, ReaderIs DEF SendError, Wires, SaysError, Shut
<1>5. ASSUME NEW i \in Requests, Receive(i) PROVE Wires
  <2>1. CASE UNCHANGED wire
    BY <1>2, <2>1
  <2>2. CASE ~ UNCHANGED wire
    <3>1. ~closed /\ (cur = 0 \/ ~ex[cur].started) /\ Emit("interim", cur, "none")
      BY <1>5, <2>2 DEF Receive, SendContinue
    <3>2. writer' = writer /\ cur' = cur /\ closed' = closed
      BY <1>5 DEF Receive
    <3>3. \A j \in Requests : (ex'[j].complete <=> ex[j].complete) /\ (ex'[j].keep <=> ex[j].keep)
      <4> DEFINE e == [ex[i] EXCEPT !.asks = FALSE]
      <4>1. e.complete = ex[i].complete /\ e.keep = ex[i].keep
        BY <1>1 DEF Typed, Exchanges
      <4>2. Received(e).complete = e.complete /\ Received(e).keep = e.keep
        BY <1>1 DEF Typed, Exchanges, Received
      <4>3. ex' = [ex EXCEPT ![i] = e] \/ ex' = [ex EXCEPT ![i] = Received(e)]
        BY <1>5 DEF Receive, Receives, Took
      <4> HIDE DEF e
      <4> QED BY <1>1, <4>1, <4>2, <4>3 DEF Typed
    <3> QED BY <3>1, <3>2, <3>3 DEF Wires, SaysContinue
  <2> QED BY <2>1, <2>2
<1>6. ASSUME NEW i \in Requests, AppStep(i) \/ Wakes(i) PROVE Wires
  BY <1>2, <1>6 DEF AppStep, Wakes
<1>7. CASE TakeInterim \/ TakeStart \/ TakeBody \/ TakeTrailers
  BY <1>2, <1>7 DEF TakeInterim, TakeStart, TakeBody, TakeTrailers
<1>8. CASE RefuseHead \/ Dispatch \/ DecodeBody \/ EmitBody \/ FinishRequest \/ AwaitData
           \/ DataWake \/ AwaitResponse
  BY <1>2, <1>8 DEF RefuseHead, Dispatch, DecodeBody, EmitBody, FinishRequest, AwaitData,
                    DataWake, AwaitResponse
<1>9. CASE DataReceived \/ Close \/ ConnectionLost \/ AbortRequestTimeout \/ KeepAliveTimeout
           \/ UNCHANGED vars
  BY <1>2, <1>9 DEF DataReceived, Close, ConnectionLost, AbortRequestTimeout, KeepAliveTimeout,
                    vars, wire
<1>10. CASE ResumeWriting
  BY <1>10 DEF ResumeWriting, Wires
<1> QED BY <1>3, <1>4, <1>5, <1>6, <1>7, <1>8, <1>9, <1>10 DEF Next, Reader, Writer, Environment

-----------------------------------------------------------------------------
\* What is around the requests stays what it is.

\* Only a step that ends the writer or begins one changes which it is.
LEMMA Onward ==
    ASSUME Base, Steps
    PROVE  /\ closed \in BOOLEAN /\ closed' \in BOOLEAN
           /\ closed => closed'
           /\ reader' = "done" <=> closed'
           /\ writer'.pc = "run" => ~closed' /\ writer'.of = cur' /\ cur' \in Requests
           /\ reader = "error" /\ ~closed' => reader' = "error"
           /\ writer' \in {writer, NoWriter} \/ \E i \in Requests : Writing(i)'
<1>1. /\ Typed /\ Control /\ closed \in BOOLEAN /\ cur \in Requests \cup {0}
      /\ reader \in {"ready", "data", "space", "error", "done"}
  BY DEF Base, Around
<1>2. closed = TRUE \/ closed = FALSE
  BY <1>1
<1>3. writer.pc = "run" => ~closed /\ writer.of = cur /\ cur \in Requests
  BY <1>1 DEF Control
<1>4. reader = "done" <=> closed
  BY <1>1 DEF Control
<1>5. CASE Rests
  BY <1>1, <1>2, <1>3, <1>4, <1>5 DEF Rests, Writing
<1>6. CASE Falls
  BY <1>1, <1>2, <1>3, <1>4, <1>6 DEF Falls, NoWriter
<1>7. CASE Answers
  BY <1>1, <1>2, <1>3, <1>4, <1>7 DEF Answers, NoWriter, Writing
<1>8. CASE Refuses \/ Decodes \/ Passes \/ Sleeps \/ Abandons \/ RefuseHead
           \/ FinishRequest \/ AwaitData \/ DataWake
  BY <1>1, <1>2, <1>3, <1>4, <1>8 DEF Refuses, Decodes, Passes, Sleeps, Abandons, Emits, RefuseHead,
           FinishRequest, AwaitData, DataWake, HasWoken
<1>9. CASE Dispatch
  <2>1. cur' \in Requests /\ writer' = NewWriter(cur') /\ ~closed /\ closed' = closed
        /\ reader' = reader /\ reader = "ready"
    BY <1>9, DispatchIsOfNew DEF Dispatch
  <2>2. writer'.pc = "run" /\ writer'.of = cur'
    BY <2>1 DEF NewWriter, NoWriter
  <2> QED BY <1>2, <2>1, <2>2 DEF Writing
<1>10. CASE AwaitResponse
  <2>1. ~closed /\ ex[cur].complete /\ writer' = writer /\ closed' \in BOOLEAN
        /\ reader = "ready" /\ reader' = (IF closed' THEN "done" ELSE "ready")
    BY <1>4, <1>10 DEF AwaitResponse
  <2>2. writer.pc # "run"
    BY <1>1, <1>3, <2>1 DEF Control
  <2> QED BY <1>2, <2>1, <2>2
<1> QED BY <1>5, <1>6, <1>7, <1>8, <1>9, <1>10 DEF Steps

\* The types of the exchanges, the applications and the writer.
LEMMA TypedStays ==
    ASSUME Base, Steps, Moved
    PROVE  Typed' /\ \A i \in Requests : TypedAt(i) /\ TypedAt(i)'
<1>1. Typed /\ writer \in Writers
  BY DEF Base, Typed
<1>2. \A i \in Requests : TypedAt(i)
  BY <1>1 DEF TypedAt, Typed
<1>3. \A i \in Requests : TypedAt(i)'
  BY <1>1, <1>2, MovesTyped DEF Moved
<1>4. NoWriter \in Writers /\ \A i \in Requests : NewWriter(i) \in Writers
  BY EmptySeq DEF NoWriter, NewWriter, Writers, Framings
<1>5. ASSUME NEW i \in Requests, Writing(i)' PROVE writer' \in Writers
  <2>1. CASE Wrote(i)
    <3>1. PICK w \in Writers, r \in Exchanges : WritesAs(i, w, r)
      BY <1>1, <1>2, <2>1, WroteActs
    <3> QED BY <1>4, <3>1 DEF WritesAs, GoesOn, Finishes
  <2>2. CASE ~Wrote(i)
    <3>1. writer' = writer \/ writer' = NewWriter(i) \/ writer' = NoWriter
      BY <1>5, <2>2 DEF Moved, Moves, Untouched, Begun, Fed, Held, Rekept, Refused, TakenDown,
                        Reads, Speaks, SameWriter
    <3> QED BY <1>1, <1>4, <3>1
  <2> QED BY <2>1, <2>2
<1>6. writer' \in Writers
  BY <1>1, <1>4, <1>5, Onward
<1> QED BY <1>2, <1>3, <1>6 DEF Typed, TypedAt, Moved, Shaped

\* What goes out has a type.
LEMMA EmitTyped ==
    ASSUME Around, NEW item \in {"head", "interim", "data", "end", "error"},
           NEW i \in Requests \cup {0}, NEW framing \in Framings, Emit(item, i, framing)
    PROVE  heads' \in Seq(Heads) /\ open' \in Requests \cup {0} /\ writePaused' \in BOOLEAN
<1>1. heads \in Seq(Heads) /\ open \in Requests \cup {0} /\ writePaused \in BOOLEAN
  BY DEF Around
<1> DEFINE h == [of |-> i, kind |-> item, framing |-> framing, inside |-> open]
<1>2. item \in {"head", "interim", "error"} => h \in Heads
  BY <1>1 DEF Heads
<1>3. heads' = IF item \in {"head", "interim", "error"} THEN Append(heads, h) ELSE heads
  BY DEF Emit
<1> HIDE DEF h
<1>4. heads' \in Seq(Heads)
  BY <1>1, <1>2, <1>3, AppendProperties
<1>5. open' \in {i, 0, open} /\ writePaused' \in {writePaused, TRUE}
  BY DEF Emit
<1> QED BY <1>1, <1>4, <1>5

\* The types of what was written.
LEMMA WiresTyped ==
    ASSUME Base, Wires
    PROVE  heads' \in Seq(Heads) /\ open' \in Requests \cup {0} /\ writePaused' \in BOOLEAN
<1>1. Around /\ Typed /\ cur \in Requests \cup {0}
  BY DEF Base, Around
<1>2. CASE heads' = heads /\ open' = open /\ writePaused' \in BOOLEAN
  BY <1>1, <1>2 DEF Around
<1>3. CASE Writes
  <2>1. Head(writer.out) \in {"head", "interim", "data", "end"} /\ writer.framing \in Framings
    BY <1>1, <1>3, TailPoints DEF Writes, Typed, Writers
  <2> QED BY <1>1, <1>3, <2>1, EmitTyped DEF Writes
<1>4. CASE SaysError
  <2>1. (IF cur # 0 THEN cur ELSE Buffer[1].of) \in Requests \cup {0}
    <3>1. CASE cur # 0
      BY <1>1, <3>1
    <3>2. CASE cur = 0
      <4>1. read < arrived
        BY <1>4, <3>2 DEF SaysError, Base, Control
      <4>2. Buffer[1].of \in Requests
        <5>1. read \in Nat /\ arrived \in Nat /\ ~(read = arrived)
          BY <1>1, <4>1, StreamIs
        <5>2. Buffer[1] = stream[read + 1] /\ read + 1 \in DOMAIN stream
          BY <1>1, <5>1, BufferIs
        <5> QED BY <1>1, <5>2, StreamIs
      <4> QED BY <3>2, <4>2
    <3> QED BY <3>1, <3>2
  <2>2. "none" \in Framings
    BY DEF Framings
  <2> HIDE DEF Framings
  <2> QED BY <1>1, <1>4, <2>1, <2>2, EmitTyped DEF SaysError
<1>5. CASE SaysContinue
  <2>1. "none" \in Framings
    BY DEF Framings
  <2> QED BY <1>1, <1>5, <2>1, EmitTyped DEF SaysContinue
<1> QED BY <1>2, <1>3, <1>4, <1>5 DEF Wires

\* The tokens read and taken stay among those that arrived.
LEMMA ReadStays ==
    ASSUME Base, Steps
    PROVE  /\ stream' = stream /\ arrived' \in 0 .. Len(stream) /\ read' \in 0 .. arrived'
           /\ taken' \subseteq DOMAIN stream /\ arrived <= arrived'
           /\ ~closed' => read <= read'
<1>1. /\ arrived \in Nat /\ read \in Nat /\ read <= arrived /\ arrived <= Len(stream)
      /\ Len(stream) \in Nat /\ DOMAIN stream = 1 .. Len(stream)
      /\ taken \subseteq DOMAIN stream /\ Around /\ Reading /\ stream' = stream
  BY StreamIs DEF Base, Around, Steps
<1>2. ~closed /\ state # "idle" =>
        /\ Drained \in read .. arrived /\ Buffered \subseteq DOMAIN stream
  <2> SUFFICES ASSUME ~closed, state # "idle"
               PROVE  Drained \in read .. arrived /\ Buffered \subseteq DOMAIN stream
    OBVIOUS
  <2>1. cur # 0
    BY OnRequest
  <2>2. /\ Drained \in read .. arrived /\ Buffered \subseteq Rest /\ Rest \subseteq read + 1 .. Len(stream)
    BY <1>1, <2>1, RestIs
  <2>3. read + 1 .. Len(stream) \subseteq DOMAIN stream
    BY <1>1
  <2> QED BY <2>2, <2>3
<1>3. CASE Rests
  BY <1>1, <1>3 DEF Rests
<1>4. CASE Falls
  BY <1>1, <1>4 DEF Falls
<1>5. CASE Answers
  <2>1. ~closed
    BY <1>5 DEF Answers, Base, Control, Writing
  <2>2. arrived' = arrived /\ taken' = taken /\ (read' = read \/ (state # "idle" /\ read' = Drained))
    BY <1>5 DEF Answers, OnResponseFinished
  <2> QED BY <1>1, <1>2, <2>1, <2>2
<1>6. CASE Decodes
  <2>1. ~closed /\ state # "idle"
    BY <1>6, ReaderIs DEF Decodes
  <2> QED BY <1>1, <1>2, <1>6, <2>1 DEF Decodes
<1>7. CASE Abandons
  <2>1. ~closed /\ arrived' = arrived /\ taken' = {}
        /\ (read' = read \/ (state # "idle" /\ read' = Drained))
    BY <1>7 DEF Abandons, Emits
  <2> QED BY <1>1, <1>2, <2>1
<1>8. CASE Refuses \/ Passes \/ Sleeps
  BY <1>1, <1>8 DEF Refuses, Passes, Sleeps, Emits
<1>9. CASE Dispatch
  <2>1. read < arrived /\ read' = read + 1 /\ UNCHANGED <<arrived, taken>>
    BY <1>9, DispatchIsOfNew DEF Dispatch
  <2> QED BY <1>1, <2>1
<1>10. CASE RefuseHead \/ FinishRequest \/ AwaitData \/ DataWake \/ AwaitResponse
  BY <1>1, <1>10 DEF RefuseHead, FinishRequest, AwaitData, DataWake, AwaitResponse
<1> QED BY <1>3, <1>4, <1>5, <1>6, <1>7, <1>8, <1>9, <1>10 DEF Steps

\* Everything else around the requests.
LEMMA AroundStays ==
    ASSUME Base, [Next]_vars, Steps, Wires
    PROVE  Around'
<1>1. Around /\ Typed /\ Control
  BY DEF Base
<1>2. served' \in Nat /\ continueSent' \in BOOLEAN
  <2>1. served \in Nat /\ continueSent \in BOOLEAN
    BY <1>1 DEF Around
  <2>2. served' = served \/ served' = served + 1
    BY DEF Next, Reader, Writer, Environment, RefuseHead, Dispatch, DecodeBody, EmitBody,
           FinishRequest, AwaitData, DataWake, SendError, AwaitResponse, TakeInterim, TakeStart,
           TakeBody, TakeTrailers, Write, DataReceived, ResumeWriting, Close, ConnectionLost,
           AbortRequestTimeout, KeepAliveTimeout, Receive, AppStep, Wakes, vars
  <2>3. continueSent' \in {continueSent, TRUE, FALSE}
    BY DEF Next, Reader, Writer, Environment, RefuseHead, Dispatch, DecodeBody, EmitBody,
           FinishRequest, AwaitData, DataWake, SendError, AwaitResponse, TakeInterim, TakeStart,
           TakeBody, TakeTrailers, Write, DataReceived, ResumeWriting, Close, ConnectionLost,
           AbortRequestTimeout, KeepAliveTimeout, Receive, SendContinue, AppStep, Wakes, vars
  <2>4. served' \in Nat
    BY <2>1, <2>2
  <2>5. continueSent' \in BOOLEAN
    BY <2>1, <2>3, Zenon
  <2> QED BY <2>4, <2>5
<1>3. heads' \in Seq(Heads) /\ open' \in Requests \cup {0} /\ writePaused' \in BOOLEAN
  BY WiresTyped
<1>4. closed' \in BOOLEAN
  BY Onward
<1>5. /\ stream' = stream /\ arrived' \in 0 .. Len(stream) /\ read' \in 0 .. arrived'
      /\ taken' \subseteq DOMAIN stream
  BY ReadStays
<1>6. /\ state' \in {"idle", "body", "waiting"} /\ lost' \in BOOLEAN /\ dataEvent' \in BOOLEAN
      /\ cur' \in Requests \cup {0}
      /\ reader' \in {"ready", "data", "space", "error", "done"}
  <2>1. /\ state \in {"idle", "body", "waiting"} /\ lost \in BOOLEAN /\ dataEvent \in BOOLEAN
        /\ cur \in Requests \cup {0}
        /\ reader \in {"ready", "data", "space", "error", "done"}
    BY <1>1 DEF Around
  <2>2. CASE Dispatch
    <3>1. cur' \in Requests /\ state' \in {"body", "waiting"}
          /\ UNCHANGED <<reader, dataEvent, lost>>
      BY <2>2, DispatchIsOfNew DEF Dispatch
    <3> QED BY <2>1, <3>1
  <2>3. CASE Rests \/ Falls \/ Answers \/ Refuses
    BY <2>1, <2>3 DEF Rests, Falls, Answers, OnResponseFinished, Refuses
  <2>4. CASE Decodes \/ Passes \/ Sleeps \/ Abandons
    BY <2>1, <2>4 DEF Decodes, Passes, Sleeps, Abandons, Emits
  <2>5. CASE RefuseHead \/ FinishRequest \/ AwaitData \/ DataWake \/ AwaitResponse
    BY <2>1, <2>5 DEF RefuseHead, FinishRequest, AwaitData, DataWake, AwaitResponse
  <2> QED BY <2>2, <2>3, <2>4, <2>5 DEF Steps
<1> QED BY <1>1, <1>2, <1>3, <1>4, <1>5, <1>6 DEF Around

-----------------------------------------------------------------------------
\* Both sides of a request.

\* The first message of a line is the one the writer takes.
LEMMA LineHead ==
    ASSUME NEW i \in Requests, TypedAt(i), ex[i].send # <<>>
    PROVE  /\ Line(i) \in Seq(Messages) /\ Line(i) # <<>> /\ 1 \in DOMAIN Line(i)
           /\ Line(i)[1] = Head(ex[i].send) /\ Head(ex[i].send) \in Messages
           /\ Head(Line(i)) = Head(ex[i].send)
           /\ Tail(Line(i)) = Tail(ex[i].send) \o app[i].todo
<1>1. ex[i].send \in Seq(Messages) /\ app[i].todo \in Seq(Messages)
  BY DEF TypedAt, Exchanges, Apps
<1> DEFINE s == ex[i].send
           t == app[i].todo
<1>2. s \o t \in Seq(Messages)
  BY <1>1, ConcatProperties
<1>3. s \o t # <<>> /\ Head(s \o t) = Head(s) /\ Tail(s \o t) = Tail(s) \o t
  BY <1>1, HeadOfBoth
<1>4. /\ Len(s \o t) \in Nat \ {0} /\ DOMAIN (s \o t) = 1 .. Len(s \o t)
      /\ Head(s \o t) = (s \o t)[1] /\ Head(s \o t) \in Messages
  BY <1>2, <1>3, TailPoints
<1>5. 1 \in DOMAIN (s \o t)
  <2> DEFINE n == Len(s \o t)
  <2>1. n \in Nat \ {0} /\ DOMAIN (s \o t) = 1 .. n
    BY <1>4
  <2> HIDE DEF n
  <2>2. 1 \in 1 .. n
    BY <2>1
  <2> QED BY <2>1, <2>2
<1> QED BY <1>2, <1>3, <1>4, <1>5 DEF Line

\* An answer ends after it was started.
LEMMA EndsStarted ==
    ASSUME NEW i \in Requests, Typed, TypedAt(i), Wrote(i), Answering(i), Phase(writer),
           writer' = NoWriter
    PROVE  ex[i].started /\ ~ex[i].finished /\ writer.started
<1>1. writer \in Writers /\ Writing(i) /\ ex[i] \in Exchanges
  BY DEF Typed, TypedAt, Wrote
<1>2. PICK w \in Writers, r \in Exchanges : WritesAs(i, w, r)
  BY <1>1, WroteActs
<1>3. Finishes(i, w, r)
  BY <1>2 DEF WritesAs, GoesOn, NoWriter
<1>4. w.out = <<>> /\ w.last /\ Acts(i, w, r)
  BY <1>2, <1>3 DEF Finishes, WritesAs
<1>5. writer.started
  <2>1. CASE w = [writer EXCEPT !.out = Tail(writer.out)]
    <3>1. writer.last
      BY <1>1, <1>4, <2>1 DEF Writers
    <3> QED BY <3>1 DEF Phase
  <2>2. CASE ex[i].send # <<>> /\ Reached(i, Head(ex[i].send), w, r)
    <3> DEFINE m == Head(ex[i].send)
    <3>1. /\ Line(i)[1] = m /\ 1 \in DOMAIN Line(i) /\ m \in Messages
      BY <2>2, LineHead
    <3>2. m.kind \notin {"interim", "start"}
      <4>1. <<"interim">> # <<>> /\ <<"head">> # <<>>
        OBVIOUS
      <4> QED BY <1>1, <1>4, <2>2, <4>1 DEF Reached, Writers
    <3>3. m.kind \in {"body", "trailers"}
      BY <3>1, <3>2, KindsOfMessages
    <3> HIDE DEF m
    <3>4. ~ex[i].finished
      BY <1>1, <3>1, <3>3 DEF Answering, Interims
    <3>5. Opening(Line(i), writer, ex[i])
      BY <1>1, <3>4 DEF Answering, Holds
    <3>6. ~\E j \in 1 .. 1 - 1 : Line(i)[j].kind = "start"
      OBVIOUS
    <3> QED BY <3>1, <3>3, <3>5, <3>6 DEF Opening
  <2> QED BY <1>4, <2>1, <2>2 DEF Acts
<1>6. ~ex[i].finished
  BY <1>1, <1>5 DEF Answering
<1>7. ex[i].started
  BY <1>1, <1>5, <1>6 DEF Answering, Holds, Opening
<1> QED BY <1>5, <1>6, <1>7

\* What every step leaves of the tasks, for the proofs about one request.
Tasks ==
    /\ closed \in BOOLEAN /\ closed' \in BOOLEAN /\ (closed => closed')
    /\ writer'.pc = "run" => ~closed'
    /\ reader = "error" /\ ~closed' => reader' = "error"

\* A step that leaves an exchange as far as it was.
LEMMA SidesKept ==
    ASSUME NEW i \in Requests, TypedAt(i), Sides(i), Tasks,
           app[i].pc # "none", app'[i].pc # "none",
           Writing(i)' <=> Writing(i),
           SameState(ex[i], ex'[i]), ex[i].complete => ex'[i].sendSpace,
           ex[i].started => ex'[i].started,
           ~ex'[i].started => ~ex'[i].announced /\ ~ex'[i].bodyEnded,
           app'[i].over => app'[i].pc \in {"put", "done"},
           app'[i].gaveUp => app'[i].over, app'[i].todo # <<>> => app'[i].pc = "put"
    PROVE  Sides(i)'
<1>1. /\ ex'[i].complete = ex[i].complete /\ ex'[i].finished = ex[i].finished
      /\ ex'[i].disconnected = ex[i].disconnected
  BY DEF SameState
<1>2. ex[i].finished /\ Writing(i)' => reader' = "error"
  BY DEF Sides, Tasks, Writing
<1>3. ex'[i].complete <=> ~Writing(i)'
  BY <1>1 DEF Sides
<1>4. /\ ex'[i].finished = ex'[i].disconnected
      /\ ex'[i].complete => ex'[i].finished /\ ex'[i].sendSpace
  BY <1>1 DEF Sides
<1>5. ex'[i].complete /\ ~closed' => ex'[i].started
  BY <1>1 DEF Sides, Tasks
<1>6. ex'[i].finished /\ Writing(i)' => reader' = "error"
  BY <1>1, <1>2
<1> QED BY <1>3, <1>4, <1>5, <1>6 DEF Sides

\* A request, whatever is done to it.
LEMMA SidesStay ==
    ASSUME NEW i \in Requests, Typed, TypedAt(i), TypedAt(i)', Sides(i), Moves(i), Tasks,
           Writing(i) => app[i].pc # "none",
           Wrote(i) /\ writer' = NoWriter => ex[i].started /\ ~ex[i].finished
    PROVE  Sides(i)' /\ (app[i].pc # "none" => app'[i].pc # "none")
<1> DEFINE P == Sides(i)' /\ (app[i].pc # "none" => app'[i].pc # "none")
<1>1. /\ ex[i] \in Exchanges /\ app[i] \in Apps /\ writer \in Writers
      /\ Len(ex[i].send) <= SendMax
      /\ ex[i].complete <=> (app[i].pc # "none" /\ ~Writing(i))
  BY DEF Typed, TypedAt, Sides, NewExchange
<1>2. ASSUME app[i].pc # "none", app'[i] = app[i], SameWriter(i), SameFlags(ex[i], ex'[i]),
             SameState(ex[i], ex'[i]), ex'[i].sendSpace = ex[i].sendSpace
      PROVE  P
  <2>1. /\ Writing(i)' <=> Writing(i)
        /\ ex[i].complete => ex'[i].sendSpace
        /\ ex[i].started => ex'[i].started
        /\ ~ex'[i].started => ~ex'[i].announced /\ ~ex'[i].bodyEnded
        /\ app'[i].over => app'[i].pc \in {"put", "done"}
        /\ app'[i].gaveUp => app'[i].over
        /\ app'[i].todo # <<>> => app'[i].pc = "put"
        /\ app'[i].pc # "none"
    BY <1>2 DEF SameWriter, SameFlags, Sides
  <2> QED BY <1>2, <2>1, SidesKept
<1>3. CASE Untouched(i)
  <2>1. CASE app[i].pc = "none"
    <3>1. ex'[i] = NewExchange /\ app'[i] = NoApp
      BY <1>3, <2>1 DEF Untouched, Sides
    <3> QED BY <3>1, <2>1 DEF Sides, NewExchange, NoApp
  <2>2. CASE app[i].pc # "none"
    BY <1>2, <1>3, <2>2 DEF Untouched, SameFlags, SameState
  <2> QED BY <2>1, <2>2
<1>4. CASE Begun(i)
  <2>1. PICK keep \in BOOLEAN, asks \in BOOLEAN, recv \in {<<>>, <<"end">>} :
            ex'[i] = [NewExchange EXCEPT !.keep = keep, !.asks = asks, !.recv = recv]
    BY <1>4 DEF Begun
  <2>2. /\ ~ex'[i].complete /\ ~ex'[i].finished /\ ~ex'[i].disconnected
        /\ ex'[i].finished = ex'[i].disconnected
        /\ ~ex'[i].announced /\ ~ex'[i].bodyEnded
    BY <2>1 DEF NewExchange
  <2>3. Writing(i)'
    BY <1>4 DEF Begun, Writing, NewWriter, NoWriter
  <2>4. app[i] = NoApp
    BY <1>4 DEF Begun, Sides
  <2>5. app'[i] = [NoApp EXCEPT !.pc = "run"]
    BY <1>4, <2>4 DEF Begun, Started
  <2>6. app'[i].pc = "run" /\ ~app'[i].over /\ ~app'[i].gaveUp /\ app'[i].todo = <<>>
    BY <2>5 DEF NoApp
  <2> QED BY <2>2, <2>3, <2>6 DEF Sides
<1>5. CASE Fed(i)
  <2>1. PICK x \in {"data", "end"} : ex'[i] = Feed(ex[i], x)
    BY <1>5 DEF Fed
  <2>2. /\ SameFlags(ex[i], ex'[i]) /\ SameState(ex[i], ex'[i])
        /\ ex'[i].sendSpace = ex[i].sendSpace
    BY <1>1, <2>1, FeedActs DEF RequestMessages, SameAnswer
  <2> QED BY <1>2, <1>5, <2>2 DEF Fed
<1>6. CASE Held(i) \/ Rekept(i)
  <2>1. /\ SameFlags(ex[i], ex'[i]) /\ SameState(ex[i], ex'[i])
        /\ ex'[i].sendSpace = ex[i].sendSpace
    BY <1>1, <1>6 DEF Held, Rekept, AwaitSpace, Exchanges, SameFlags, SameState
  <2> QED BY <1>2, <1>6, <2>1 DEF Held, Rekept
<1>7. CASE Refused(i)
  <2> DEFINE r == NotifyDisconnect(ex[i])
  <2>1. /\ r \in Exchanges /\ SameAnswer(ex[i], r) /\ r.finished /\ r.disconnected
        /\ r.complete = ex[i].complete
    BY <1>1, NotifyDisconnectActs
  <2>2. ex'[i] = [r EXCEPT !.keep = FALSE] /\ app'[i] = app[i] /\ SameWriter(i)
        /\ reader' = "error" /\ Writing(i)
    BY <1>7 DEF Refused
  <2> HIDE DEF r
  <2>3. /\ SameFlags(ex[i], ex'[i]) /\ ex'[i].finished = ex'[i].disconnected
        /\ ex'[i].complete = ex[i].complete
    BY <2>1, <2>2 DEF Exchanges, SameAnswer, SameFlags
  <2>4. Writing(i)' /\ ~ex[i].complete /\ app[i].pc # "none"
    BY <1>1, <2>2 DEF SameWriter
  <2> QED BY <2>2, <2>3, <2>4 DEF Sides, SameFlags
<1>8. CASE TakenDown(i)
  <2>1. PICK r : Downed(ex[i], r) /\ ex'[i] = IF Writing(i) THEN Completed(r) ELSE r
    BY <1>8 DEF TakenDown
  <2>2. /\ closed' /\ writer' = NoWriter /\ app[i].pc # "none" /\ app'[i] = Cancelled(app[i])
    BY <1>8 DEF TakenDown
  <2>3. /\ r \in Exchanges /\ SameFlags(ex[i], r) /\ r.complete = ex[i].complete
        /\ r.finished = r.disconnected /\ (ex[i].finished => r.finished)
        /\ (ex[i].sendSpace => r.sendSpace)
    BY <2>1 DEF Downed
  <2>4. /\ Completed(r).finished /\ Completed(r).disconnected /\ Completed(r).complete
        /\ Completed(r).sendSpace /\ Completed(r) \in Exchanges
        /\ SameFlags(r, Completed(r))
    BY <2>3, CompletedActs DEF SameAnswer
  <2>5. /\ SameFlags(ex[i], ex'[i]) /\ ex'[i].finished = ex'[i].disconnected
        /\ ex'[i].complete /\ ex'[i].finished /\ ex'[i].sendSpace
    <3>1. CASE Writing(i)
      BY <2>1, <2>3, <2>4, <3>1 DEF SameFlags, Exchanges
    <3>2. CASE ~Writing(i)
      <4>1. ex[i].complete /\ ex[i].finished /\ ex[i].sendSpace
        BY <1>1, <2>2, <3>2 DEF Sides
      <4> QED BY <2>1, <2>3, <3>2, <4>1
    <3> QED BY <3>1, <3>2
  <2>6. ~Writing(i)'
    BY <2>2 DEF Writing, NoWriter
  <2>7. /\ app'[i].pc = "done" /\ app'[i].todo = <<>> /\ app'[i].over = app[i].over
        /\ app'[i].gaveUp = app[i].gaveUp
    BY <1>1, <2>2 DEF Cancelled, Apps
  <2> QED BY <2>2, <2>5, <2>6, <2>7 DEF Sides, SameFlags
<1>9. CASE Wrote(i)
  <2>1. PICK w \in Writers, r \in Exchanges : WritesAs(i, w, r)
    BY <1>1, <1>9, WroteActs
  <2>2. Writing(i) /\ app[i].pc # "none" /\ app'[i] = app[i]
    BY <1>9, <2>1 DEF Wrote, WritesAs
  <2>3. ~ex[i].complete
    BY <1>1, <2>2
  <2>4. CASE GoesOn(i, w, r)
    <3>1. SameFlags(ex[i], ex'[i]) /\ SameState(ex[i], ex'[i]) /\ Writing(i)'
      BY <2>1, <2>4 DEF WritesAs, GoesOn, Writing
    <3>2. /\ ex[i].started => ex'[i].started
          /\ ~ex'[i].started => ~ex'[i].announced /\ ~ex'[i].bodyEnded
          /\ app'[i].over => app'[i].pc \in {"put", "done"}
          /\ app'[i].gaveUp => app'[i].over
          /\ app'[i].todo # <<>> => app'[i].pc = "put"
      BY <2>2, <3>1 DEF SameFlags, Sides
    <3> QED BY <2>2, <2>3, <3>1, <3>2, SidesKept
  <2>5. CASE Finishes(i, w, r)
    <3>1. /\ SameFlags(ex[i], ex'[i]) /\ ex'[i].complete /\ ex'[i].finished
          /\ ex'[i].disconnected /\ ex'[i].sendSpace /\ ex'[i] \in Exchanges
          /\ ex[i].started
      BY <1>9, <2>1, <2>5 DEF WritesAs, Finishes, SameFlags
    <3>2. ~Writing(i)' /\ ex'[i].started
      BY <2>5, <3>1 DEF Finishes, Writing, NoWriter, SameFlags
    <3>3. ex'[i].finished = ex'[i].disconnected
      BY <3>1 DEF Exchanges
    <3> QED BY <2>2, <3>1, <3>2, <3>3 DEF Sides
  <2> QED BY <2>1, <2>4, <2>5 DEF WritesAs
<1>10. CASE Reads(i)
  <2>1. PICK b \in BOOLEAN :
            \/ ex[i].recv # <<>> /\ ex'[i] = Received([ex[i] EXCEPT !.asks = b])
            \/ ex'[i] = [ex[i] EXCEPT !.asks = b]
    BY <1>10 DEF Reads
  <2> DEFINE e == [ex[i] EXCEPT !.asks = b]
  <2>2. /\ e \in Exchanges /\ e.recv = ex[i].recv /\ e.sendSpace = ex[i].sendSpace
        /\ SameFlags(ex[i], e) /\ SameState(ex[i], e)
    BY <1>1 DEF Exchanges, SameFlags, SameState
  <2> HIDE DEF e
  <2>3. /\ e.recv # <<>> => /\ SameFlags(e, Received(e)) /\ SameState(e, Received(e))
                            /\ Received(e).sendSpace = e.sendSpace
    BY <2>2, ReceivedActs DEF SameAnswer
  <2>4. /\ SameFlags(ex[i], ex'[i]) /\ SameState(ex[i], ex'[i])
        /\ ex'[i].sendSpace = ex[i].sendSpace
    <3>1. CASE ex[i].recv # <<>> /\ ex'[i] = Received(e)
      BY <2>2, <2>3, <3>1 DEF SameFlags, SameState
    <3>2. CASE ex'[i] = e
      BY <2>2, <3>2
    <3> QED BY <2>1, <3>1, <3>2 DEF e
  <2>5. /\ app[i].pc \in {"run", "recv"} /\ app'[i].pc \in {"run", "recv"}
        /\ app'[i].over = app[i].over /\ app'[i].gaveUp = app[i].gaveUp
        /\ app'[i].todo = app[i].todo
    BY <1>1, <1>10 DEF Reads, Apps
  <2>6. ~app[i].over /\ ~app[i].gaveUp /\ app[i].todo = <<>>
    BY <2>5 DEF Sides
  <2>7. /\ ex[i].complete => ex'[i].sendSpace
        /\ ex[i].started => ex'[i].started
        /\ ~ex'[i].started => ~ex'[i].announced /\ ~ex'[i].bodyEnded
        /\ Writing(i)' <=> Writing(i)
    BY <1>10, <2>4 DEF SameFlags, Sides, Reads, SameWriter
  <2> QED BY <2>4, <2>5, <2>6, <2>7, SidesKept
<1>11. CASE Speaks(i)
  <2>1. PICK r \in Exchanges, todo \in Seq(Messages), a \in Apps :
                /\ Queueing(i, r, todo, a) /\ SameState(ex[i], r)
                /\ r.send = ex[i].send /\ r.sendSpace = ex[i].sendSpace
                /\ a.over \/ (a.gaveUp = app[i].gaveUp /\ a.over = app[i].over)
                /\ r.started \/ ~ex[i].started
                /\ (~ex[i].started => ~ex[i].announced /\ ~ex[i].bodyEnded)
                        => (~r.started => ~r.announced /\ ~r.bodyEnded)
    BY <1>11, SpeaksQueues
  <2> DEFINE e == Enqueued(r, todo)
             u == Unsent(r, todo)
  <2>2. /\ SameFlags(r, e) /\ SameState(r, e)
        /\ r.finished => u = <<>>
        /\ u = <<>> => e.sendSpace = r.sendSpace
    <3>1. Len(r.send) <= SendMax
      BY <1>1, <2>1
    <3> QED BY <3>1, EnqueuedActs
  <2>3. /\ ex'[i] = e
        /\ app'[i].todo = u /\ app'[i].over = a.over /\ app'[i].gaveUp = a.gaveUp
        /\ app'[i].pc = IF u # <<>> THEN "put" ELSE IF a.over THEN "done" ELSE "run"
    BY <2>1 DEF Queueing, Apps
  <2> HIDE DEF e, u
  <2>4. SameState(ex[i], ex'[i])
    BY <2>1, <2>2, <2>3 DEF SameState
  <2>5. ex[i].complete => ex'[i].sendSpace
    BY <2>1, <2>2, <2>3 DEF SameState, Sides
  <2>6. /\ ex[i].started => ex'[i].started
        /\ ~ex'[i].started => ~ex'[i].announced /\ ~ex'[i].bodyEnded
    BY <2>1, <2>2, <2>3 DEF SameFlags, Sides
  <2>7. app[i].pc # "none" /\ (Writing(i)' <=> Writing(i))
    BY <1>11 DEF Speaks, SameWriter
  <2>8. /\ app'[i].over => app'[i].pc \in {"put", "done"}
        /\ app'[i].gaveUp => app'[i].over
        /\ app'[i].todo # <<>> => app'[i].pc = "put"
        /\ app'[i].pc # "none"
    BY <2>1, <2>3 DEF Sides
  <2> QED BY <2>4, <2>5, <2>6, <2>7, <2>8, SidesKept
<1> QED BY <1>3, <1>4, <1>5, <1>6, <1>7, <1>8, <1>9, <1>10, <1>11 DEF Moves

-----------------------------------------------------------------------------
\* The tasks and the requests they are about.

\* What a request never takes back.
LEMMA MovesAhead ==
    ASSUME NEW i \in Requests, Typed, TypedAt(i), Moves(i), app[i].pc # "none"
    PROVE  /\ ex[i].finished => ex'[i].finished
           /\ ex'[i].keep /\ ~closed' => ex[i].keep
           /\ ex[i].started => ex'[i].started
           /\ ex[i].bodyEnded => ex'[i].bodyEnded
<1> DEFINE P == /\ ex[i].finished => ex'[i].finished
                /\ ex'[i].keep /\ ~closed' => ex[i].keep
                /\ ex[i].started => ex'[i].started
                /\ ex[i].bodyEnded => ex'[i].bodyEnded
<1>1. ex[i] \in Exchanges /\ app[i] \in Apps /\ writer \in Writers /\ Len(ex[i].send) <= SendMax
  BY DEF TypedAt, Typed
<1>2. CASE Untouched(i)
  BY <1>2 DEF Untouched
<1>3. CASE Begun(i)
  BY <1>3 DEF Begun
<1>4. CASE Fed(i) \/ Held(i) \/ Rekept(i)
  <2>1. Fed(i) => \E x : ex'[i] = Feed(ex[i], x)
    BY DEF Fed
  <2> QED BY <1>1, <1>4, <2>1 DEF Held, Rekept, Feed, AwaitSpace, Exchanges
<1>5. CASE Refused(i)
  <2>1. ex'[i] = [NotifyDisconnect(ex[i]) EXCEPT !.keep = FALSE]
    BY <1>5 DEF Refused
  <2>2. NotifyDisconnect(ex[i]) \in Exchanges /\ SameAnswer(ex[i], NotifyDisconnect(ex[i]))
        /\ NotifyDisconnect(ex[i]).finished
    BY <1>1, NotifyDisconnectActs
  <2> QED BY <2>1, <2>2 DEF Exchanges, SameAnswer, SameFlags
<1>6. CASE TakenDown(i)
  <2>1. PICK r : Downed(ex[i], r) /\ ex'[i] = IF Writing(i) THEN Completed(r) ELSE r
    BY <1>6 DEF TakenDown
  <2>2. closed' /\ r \in Exchanges /\ SameFlags(ex[i], r) /\ (ex[i].finished => r.finished)
    BY <1>6, <2>1 DEF TakenDown, Downed
  <2>3. SameFlags(r, Completed(r)) /\ Completed(r).finished
    BY <2>2, CompletedActs DEF SameAnswer
  <2> QED BY <2>1, <2>2, <2>3 DEF SameFlags
<1>7. CASE Wrote(i)
  <2>1. PICK w \in Writers, r \in Exchanges : WritesAs(i, w, r)
    BY <1>1, <1>7, WroteActs
  <2>2. CASE GoesOn(i, w, r)
    BY <2>1, <2>2 DEF WritesAs, GoesOn, SameFlags, SameState
  <2>3. CASE Finishes(i, w, r)
    BY <2>1, <2>3 DEF WritesAs, Finishes, SameFlags
  <2> QED BY <2>1, <2>2, <2>3 DEF WritesAs
<1>8. CASE Reads(i)
  BY <1>1, <1>8 DEF Reads, Received, Exchanges
<1>9. CASE Speaks(i)
  <2>1. ASSUME NEW m \in Says[i], ex'[i] = Enqueued(Noted(ex[i], m), <<m>>) PROVE P
    <3>1. m \in Messages
      BY RequestsAre
    <3>2. /\ Noted(ex[i], m) \in Exchanges /\ SameState(ex[i], Noted(ex[i], m))
          /\ ex[i].started => Noted(ex[i], m).started
          /\ ex[i].bodyEnded => Noted(ex[i], m).bodyEnded
          /\ Noted(ex[i], m).keep = ex[i].keep
      BY <1>1, <3>1, NotedActs, QueueKeeps
    <3> DEFINE n == Noted(ex[i], m)
    <3> HIDE DEF n
    <3>3. n \in Exchanges /\ ex'[i] = Enqueued(n, <<m>>)
      BY <2>1, <3>2 DEF n
    <3>4. ex'[i].keep = n.keep /\ SameFlags(n, ex'[i]) /\ SameState(n, ex'[i])
      BY <3>3, QueueKeeps
    <3> QED BY <3>2, <3>4 DEF SameFlags, SameState, n
  <2>2. ASSUME NEW how \in Endings, ex'[i] = Enqueued(Ended(ex[i], how), LastWords(ex[i], how)) PROVE P
    <3> DEFINE n == Ended(ex[i], how)
    <3>1. /\ n \in Exchanges /\ SameState(ex[i], n)
          /\ ex[i].started => n.started
          /\ ex[i].bodyEnded => n.bodyEnded
          /\ n.keep = ex[i].keep
      BY <1>1, EndedActs, QueueKeeps
    <3> HIDE DEF n
    <3>3. ex'[i] = Enqueued(n, LastWords(ex[i], how))
      BY <2>2 DEF n
    <3>4. ex'[i].keep = n.keep /\ SameFlags(n, ex'[i]) /\ SameState(n, ex'[i])
      BY <3>1, <3>3, QueueKeeps
    <3> QED BY <3>1, <3>4 DEF SameFlags, SameState
  <2>3. ASSUME ex'[i] = Enqueued(ex[i], app[i].todo) PROVE P
    <3>1. ex'[i].keep = ex[i].keep /\ SameFlags(ex[i], ex'[i]) /\ SameState(ex[i], ex'[i])
      BY <1>1, <2>3, QueueKeeps
    <3> QED BY <3>1 DEF SameFlags, SameState
  <2> HIDE DEF P
  <2>4. P
    BY <1>9, <2>1, <2>2, <2>3 DEF Speaks, Queueing
  <2> QED BY <2>4 DEF P
<1> QED BY <1>2, <1>3, <1>4, <1>5, <1>6, <1>7, <1>8, <1>9 DEF Moves

\* What is known of every request and of the writer before and after a step.
Stays ==
    /\ Base /\ Steps /\ Moved /\ Typed' /\ Around' /\ Tasks
    /\ \A i \in Requests :
        /\ TypedAt(i) /\ TypedAt(i)' /\ Sides(i)'
        /\ app[i].pc # "none" => app'[i].pc # "none"
        /\ Wrote(i) /\ writer' = NoWriter => ex[i].started /\ ~ex[i].finished

\* Who writes, on both sides of a step.
LEMMA WhoWrites ==
    ASSUME Stays
    PROVE  /\ cur # 0 => /\ cur \in Requests /\ app[cur].pc # "none" /\ app'[cur].pc # "none"
                         /\ ex[cur].complete <=> writer.pc # "run"
                         /\ cur' = cur => (ex'[cur].complete <=> writer'.pc # "run")
                         /\ ex[cur].complete => ex[cur].finished
                         /\ ex[cur].finished => ex'[cur].finished
                         /\ ex'[cur].keep /\ ~closed' => ex[cur].keep
           /\ Writing(cur) <=> writer.pc = "run"
           /\ writer.pc # "run" => writer.pc = "done"
           /\ Answers /\ ~closed' => reader # "error" /\ Wrote(cur)
<1>1. /\ cur # 0 => cur \in Requests /\ app[cur].pc # "none"
      /\ Writing(cur) <=> writer.pc = "run"
      /\ writer.pc # "run" => writer.pc = "done"
  BY DEF Stays, Base, Control, Around, Writing, Typed, Writers
<1>2. ASSUME NEW c \in Requests, c = cur
      PROVE  /\ app[c].pc # "none" /\ app'[c].pc # "none"
             /\ ex[c].complete <=> writer.pc # "run"
             /\ cur' = c => (ex'[c].complete <=> writer'.pc # "run")
             /\ ex[c].complete => ex[c].finished
             /\ ex[c].finished => ex'[c].finished
             /\ ex'[c].keep /\ ~closed' => ex[c].keep
  <2>1. c # 0 /\ app[c].pc # "none" /\ app'[c].pc # "none"
    BY <1>1, <1>2, RequestsAre DEF Stays
  <2>2. Sides(c) /\ Sides(c)' /\ TypedAt(c) /\ Typed /\ Moves(c)
    BY DEF Stays, Base, Moved
  <2>3. /\ ex[c].complete <=> ~Writing(c)
        /\ ex'[c].complete <=> ~Writing(c)'
        /\ ex[c].complete => ex[c].finished
    BY <2>1, <2>2 DEF Sides
  <2>4. /\ ex[c].finished => ex'[c].finished
        /\ ex'[c].keep /\ ~closed' => ex[c].keep
    BY <2>1, <2>2, MovesAhead
  <2>5. /\ Writing(c) <=> writer.pc = "run"
        /\ cur' = c => (Writing(c)' <=> writer'.pc = "run")
    <3>1. writer.pc = "run" => writer.of = cur
      BY DEF Stays, Base, Control
    <3>2. writer'.pc = "run" => writer'.of = cur'
      BY Onward DEF Stays
    <3> QED BY <1>2, <3>1, <3>2 DEF Writing
  <2> QED BY <2>1, <2>3, <2>4, <2>5
<1>3. ASSUME Answers, ~closed' PROVE reader # "error" /\ Wrote(cur)
  <2>1. Writing(cur) /\ writer' = NoWriter
    BY <1>3 DEF Answers
  <2>2. cur \in Requests /\ app[cur].pc # "none" /\ ~closed
    BY <1>1, <2>1, WriterIs DEF Stays, Base, Writing, Control
  <2>3. PICK j \in Requests : j = cur
    BY <2>2
  <2>4. Moves(j) /\ Writing(j) /\ app[j].pc # "none"
    BY <2>1, <2>2, <2>3 DEF Stays, Moved, Writing
  <2>5. Wrote(j)
    BY <1>3, <2>1, <2>4 DEF Moves, Untouched, Begun, Fed, Held, Rekept, Refused, TakenDown,
                        Reads, Speaks, SameWriter, Writing, NoWriter
  <2>6. ~ex[j].finished
    BY <2>1, <2>5 DEF Stays
  <2>7. reader = "error" => ex[cur].finished
    BY <2>2, RequestsAre DEF Stays, Base, Control
  <2>8. Wrote(cur)
    BY <2>3, <2>5
  <2> QED BY <2>3, <2>6, <2>7, <2>8
<1>4. cur # 0 => \E c \in Requests : c = cur
  BY <1>1

<1> QED BY <1>1, <1>2, <1>3, <1>4

\* The tasks stay about the request the connection is on.
LEMMA ControlStays ==
    ASSUME Stays
    PROVE  Control'
<1>1. /\ Base /\ Steps /\ Typed /\ Around /\ Control /\ 0 \notin Requests
  BY RequestsAre DEF Stays, Base
<1>2. /\ reader' = "done" <=> closed'
      /\ writer'.pc = "run" => ~closed' /\ writer'.of = cur' /\ cur' \in Requests
      /\ closed => closed'
      /\ closed \in BOOLEAN
  BY <1>1, Onward
<1>3. lost' => closed'
  <2>1. CASE lost' = lost
    BY <1>1, <1>2, <2>1 DEF Control
  <2>2. CASE lost' # lost
    BY <1>1, <2>2 DEF Steps, Rests, Falls, Answers, Refuses, Decodes, Passes, Sleeps, Abandons,
        Emits, RefuseHead, Dispatch, FinishRequest, AwaitData, DataWake, AwaitResponse
  <2> QED BY <2>1, <2>2
<1>4. cur' # 0 => cur' \in Requests /\ app'[cur'].pc # "none"
  <2>1. CASE cur' = cur
    BY <2>1, WhoWrites
  <2>2. CASE Dispatch
    <3>1. cur' \in Requests /\ app' = [app EXCEPT ![cur'] = Started(app[cur'])]
      BY <1>1, <2>2, DispatchIsOfNew DEF Dispatch
    <3>2. app'[cur'] = Started(app[cur']) /\ app[cur'] \in Apps
      BY <1>1, <3>1 DEF Typed
    <3> QED BY <3>1, <3>2 DEF Started, Apps
  <2>3. CASE AwaitResponse
    BY <2>3 DEF AwaitResponse
  <2>4. CASE cur' # cur /\ ~Dispatch /\ ~AwaitResponse
    BY <1>1, <2>4 DEF Steps, Rests, Falls, Answers, Refuses, Decodes, Passes, Sleeps, Abandons,
        Emits, RefuseHead, FinishRequest, AwaitData, DataWake
  <2> QED BY <2>1, <2>2, <2>3, <2>4
<1>5. cur' \in Requests => (ex'[cur'].complete <=> writer'.pc # "run")
  <2>1. ASSUME NEW c \in Requests, c = cur'
        PROVE  ex'[c].complete <=> writer'.pc # "run"
    <3>1. Sides(c)' /\ app'[c].pc # "none"
      BY <1>1, <1>4, <2>1 DEF Stays
    <3>2. ex'[c].complete <=> ~Writing(c)'
      BY <3>1 DEF Sides
    <3>3. Writing(c)' <=> writer'.pc = "run"
      BY <1>2, <2>1 DEF Writing
    <3> QED BY <3>2, <3>3
  <2> QED BY <2>1
<1>6. writer'.pc = "run" =>
        /\ ~closed' /\ writer'.of = cur' /\ cur' # 0 /\ ~ex'[cur'].complete
  BY <1>1, <1>2, <1>5
<1>7. ASSUME ~closed'
      PROVE  /\ cur' = 0 <=> state' = "idle"
             /\ cur' # 0 => writer'.pc = "run" \/ (ex'[cur'].complete /\ state' = "waiting")
             /\ reader' = "space" \/ taken' # {} => cur' # 0
             /\ state' = "waiting" /\ (reader' = "space" \/ taken' # {}) => ex'[cur'].complete
             /\ reader' = "error" => IF cur' = 0 THEN read' < arrived'
                                     ELSE writer'.pc = "run" /\ ex'[cur'].finished
  <2>1. ~closed
    BY <1>2, <1>7
  <2>2. /\ cur = 0 <=> state = "idle"
        /\ cur # 0 => writer.pc = "run" \/ (ex[cur].complete /\ state = "waiting")
        /\ reader = "space" \/ taken # {} => cur # 0
        /\ state = "waiting" /\ (reader = "space" \/ taken # {}) => ex[cur].complete
        /\ reader = "error" => IF cur = 0 THEN read < arrived
                               ELSE writer.pc = "run" /\ ex[cur].finished
    BY <1>1, <2>1 DEF Control, Writing
  <2>3. /\ cur # 0 => /\ cur \in Requests
                      /\ ex[cur].complete <=> writer.pc # "run"
                      /\ cur' = cur => (ex'[cur].complete <=> writer'.pc # "run")
                      /\ ex[cur].complete => ex[cur].finished
                      /\ ex[cur].finished => ex'[cur].finished
        /\ Writing(cur) <=> writer.pc = "run"
    BY WhoWrites
  <2>4. arrived \in Nat /\ arrived' \in Nat /\ read \in Nat /\ state \in {"idle", "body", "waiting"}
    BY <1>1, StreamIs, ReadStays DEF Around
  <2>5. CASE Rests
    <3>1. arrived <= arrived' /\ UNCHANGED <<read, taken, state, reader, cur>>
          /\ writer'.pc = writer.pc
      BY <2>4, <2>5 DEF Rests
    <3> QED BY <2>2, <2>3, <2>4, <3>1
  <2>6. CASE Falls
    BY <1>7, <2>6 DEF Falls
  <2>7. CASE Answers
    <3>1. /\ writer.pc = "run" /\ writer'.pc = "done" /\ UNCHANGED <<taken, reader, cur>>
          /\ reader # "error"
          /\ state' = (IF state = "body" THEN "waiting" ELSE state)
      BY <1>7, <2>3, <2>7, WhoWrites DEF Answers, OnResponseFinished, NoWriter
    <3>2. cur # 0 /\ state # "idle"
      BY <1>1, <2>2, <3>1 DEF Control
    <3> QED BY <2>2, <2>3, <2>4, <3>1, <3>2
  <2>8. CASE Refuses
    BY <2>2, <2>3, <2>4, <2>8 DEF Refuses
  <2>9. CASE Decodes
    BY <2>2, <2>3, <2>9 DEF Decodes
  <2>10. CASE Passes \/ Sleeps \/ Abandons
    <3>1. writer'.pc = writer.pc /\ cur' = cur /\ cur # 0 /\ taken # {} /\ state # "idle"
      BY <2>2, <2>10 DEF Passes, Sleeps, Abandons, Emits
    <3>2. CASE Passes \/ Sleeps
      <4>1. state' = state /\ reader' # "error" /\ (state = "waiting" => ex[cur].complete)
        BY <2>2, <3>1, <3>2 DEF Passes, Sleeps
      <4> QED BY <2>2, <2>3, <3>1, <4>1
    <3>3. CASE Abandons
      <4>1. state' = "waiting" /\ reader' = "ready" /\ taken' = {}
        BY <3>3 DEF Abandons
      <4> QED BY <2>2, <2>3, <3>1, <4>1
    <3> QED BY <2>10, <3>2, <3>3
  <2>11. CASE RefuseHead
    <3>1. state = "idle" /\ read < arrived /\ reader' = "error"
          /\ UNCHANGED <<read, arrived, taken, state, cur, writer>>
      <4>1. Buffer # <<>>
        BY <2>11 DEF RefuseHead
      <4> QED BY <1>1, <2>11, <4>1, BufferIs DEF RefuseHead
    <3> QED BY <2>2, <3>1
  <2>12. CASE Dispatch
    <3>1. cur' \in Requests /\ cur = 0 /\ writer' = NewWriter(cur') /\ state' \in {"body", "waiting"}
          /\ reader' = "ready" /\ taken' = taken
      <4>1. cur' = Buffer[1].of /\ writer' = NewWriter(Buffer[1].of) /\ reader = "ready"
        BY <2>12 DEF Dispatch
      <4>2. cur' \in Requests /\ cur = 0
        BY <1>1, <2>12, DispatchIsOfNew
      <4> QED BY <2>12, <4>1, <4>2 DEF Dispatch
    <3>2. writer'.pc = "run"
      BY <3>1 DEF NewWriter, NoWriter
    <3> QED BY <1>1, <2>2, <3>1, <3>2
  <2>13. CASE FinishRequest
    <3>1. UNCHANGED writer /\ cur' = cur /\ cur # 0 /\ taken' = {}
      BY <2>2, <2>13 DEF FinishRequest, HasWoken
    <3>2. CASE Full(ex[cur]) /\ ~Gone(ex[cur])
      <4>1. state' = state /\ reader' = "space"
        BY <2>13, <3>2 DEF FinishRequest
      <4>2. state # "waiting" /\ state # "idle"
        BY <2>2, <2>3, <2>13, <3>1, <3>2 DEF FinishRequest, HasWoken, Gone
      <4> QED BY <2>2, <2>3, <3>1, <4>1, <4>2
    <3>3. CASE ~(Full(ex[cur]) /\ ~Gone(ex[cur]))
      <4>1. state' = "waiting" /\ reader' = "ready"
        BY <2>13, <3>3 DEF FinishRequest
      <4> QED BY <2>2, <2>3, <3>1, <4>1
    <3> QED BY <3>2, <3>3
  <2>14. CASE AwaitData \/ DataWake
    <3>1. UNCHANGED writer /\ cur' = cur /\ reader' \in {"data", "ready"}
          /\ UNCHANGED <<state, taken>> /\ reader # "space"
      BY <2>14 DEF AwaitData, DataWake
    <3> QED BY <2>2, <2>3, <3>1
  <2>15. CASE AwaitResponse
    <3>1. cur' = 0 /\ state' = "idle" /\ reader' = "ready" /\ taken' = {}
      BY <1>7, <2>15 DEF AwaitResponse
    <3> QED BY <3>1
  <2> QED BY <1>1, <2>5, <2>6, <2>7, <2>8, <2>9, <2>10, <2>11, <2>12, <2>13, <2>14, <2>15 DEF Steps
<1>8. writer'.pc = "run" /\ cur' # 0 => Writing(cur)'
  BY <1>6 DEF Writing
<1> QED BY <1>2, <1>3, <1>4, <1>6, <1>7, <1>8 DEF Control

-----------------------------------------------------------------------------
\* What was read.

\* Nothing that was read is put back.
LEMMA ReadsOn ==
    ASSUME Base, Steps
    PROVE  read <= read' /\ read' \in Nat
<1>1. /\ stream' = stream /\ arrived \in Nat /\ read \in Nat /\ read <= arrived
      /\ read' \in 0 .. arrived' /\ arrived' \in Nat /\ closed' \in BOOLEAN
  <2>1. Len(stream) \in Nat /\ arrived \in Nat /\ read \in Nat /\ read <= arrived
    BY StreamIs DEF Base
  <2>2. arrived' \in 0 .. Len(stream) /\ read' \in 0 .. arrived' /\ stream' = stream
    BY ReadStays
  <2> QED BY <2>1, <2>2, Onward
<1>2. CASE ~closed'
  BY <1>1, <1>2, ReadStays
<1>3. CASE closed' /\ (Rests \/ Falls \/ RefuseHead \/ Dispatch \/ FinishRequest \/ AwaitData
                        \/ DataWake \/ AwaitResponse)
  <2>1. read' \in {read, read + 1, arrived}
    BY <1>3 DEF Rests, Falls, RefuseHead, Dispatch, FinishRequest, AwaitData, DataWake,
                AwaitResponse
  <2> QED BY <1>1, <2>1
<1>4. CASE closed' /\ (Answers \/ Refuses \/ Decodes \/ Passes \/ Sleeps \/ Abandons)
  <2>1. closed
    BY <1>4 DEF Answers, Refuses, Decodes, Passes, Sleeps, Abandons, Emits
  <2>2. reader = "done" /\ ~Writing(cur)
    BY <2>1 DEF Base, Control, Writing
  <2> QED BY <1>4, <2>1, <2>2 DEF Answers, Refuses, Decodes, Passes, Sleeps, Abandons, Emits
<1> QED BY <1>1, <1>2, <1>3, <1>4 DEF Steps

\* A request is dispatched in its turn.
LEMMA DispatchedStays ==
    ASSUME Stays, NEW i \in Requests
    PROVE  Dispatched(i)'
<1>1. /\ Base /\ Steps /\ Around /\ Control /\ Dispatched(i) /\ 0 \notin Requests /\ Requests \subseteq Nat
      /\ stream' = stream
  BY RequestsAre DEF Stays, Base, Steps
<1>2. /\ read \in Nat /\ read' \in Nat /\ read <= read' /\ read <= Len(stream) /\ Len(stream) \in Nat
      /\ \A j, k \in DOMAIN stream : j <= k => stream[j].of <= stream[k].of
      /\ DOMAIN stream = 1 .. Len(stream)
      /\ closed => closed'
  <2>1. read \in Nat /\ arrived \in Nat /\ read <= arrived /\ arrived <= Len(stream) /\ Len(stream) \in Nat
    BY <1>1, StreamIs
  <2> QED BY <1>1, <2>1, StreamIs, ReadsOn, Onward
<1>3. CASE app[i].pc # "none"
  <2>1. PICK k \in 1 .. read : stream[k].of = i
    BY <1>1, <1>3 DEF Dispatched
  <2>2. \E j \in 1 .. read' : stream'[j].of = i
    BY <1>1, <1>2, <2>1
  <2>3. ~closed' /\ cur' # 0 => i <= cur'
    <3> SUFFICES ASSUME ~closed', cur' # 0 PROVE i <= cur'
      OBVIOUS
    <3>1. CASE cur' = cur
      BY <1>1, <1>2, <1>3, <3>1 DEF Dispatched
    <3>2. CASE Dispatch
      <4>1. cur' = stream[read + 1].of /\ read + 1 \in DOMAIN stream
        BY <1>1, <3>2, DispatchIsOfNew
      <4> QED BY <1>2, <2>1, <4>1
    <3>3. CASE cur' # cur /\ ~Dispatch
      BY <1>1, <3>3 DEF Steps, Rests, Falls, Answers, Refuses, Decodes, Passes, Sleeps, Abandons,
          Emits, RefuseHead, FinishRequest, AwaitData, DataWake, AwaitResponse
    <3> QED BY <3>1, <3>2, <3>3
  <2> QED BY <2>2, <2>3 DEF Dispatched
<1>4. CASE app[i].pc = "none" /\ app'[i].pc # "none"
  <2>1. ~Writing(i)
    BY <1>1, <1>4 DEF Control, Writing
  <2>2. Begun(i)
    BY <1>4, <2>1 DEF Stays, Moved, Moves, Untouched, Fed, Held, Rekept, Refused, TakenDown, Wrote,
                      Reads, Speaks
  <2>3. cur' = i /\ ~closed'
    BY <1>1, <2>2, Onward DEF Begun, NewWriter, NoWriter
  <2>4. cur' # cur /\ cur' # 0
    BY <1>1, <1>4, <2>3 DEF Control
  <2>5. Dispatch
    BY <1>1, <2>3, <2>4 DEF Steps, Rests, Falls, Answers, Refuses, Decodes, Passes, Sleeps, Abandons,
          Emits, RefuseHead, FinishRequest, AwaitData, DataWake, AwaitResponse
  <2>6. read' = read + 1 /\ stream[read + 1].of = i
    BY <1>1, <2>3, <2>5, DispatchIsOfNew DEF Dispatch
  <2>7. \E j \in 1 .. read' : stream'[j].of = i
    BY <1>1, <1>2, <2>6
  <2> QED BY <1>1, <2>3, <2>7 DEF Dispatched
<1>5. CASE app'[i].pc = "none"
  BY <1>5 DEF Dispatched
<1> QED BY <1>3, <1>4, <1>5

\* How far a reader is that has read n tokens.
UpTo(n) ==
    /\ \A k \in DOMAIN stream : IF k <= n THEN stream[k].of <= cur ELSE stream[k].of >= cur
    /\ \E k \in 1 .. n : stream[k].of = cur

\* What is buffered of a body is all of it that was not read, when it can be
\* drained.
LEMMA DrainedIs ==
    ASSUME Base, ~closed, cur # 0
    PROVE  /\ UpTo(read) /\ UpTo(Drained) /\ Drained \in Nat /\ read <= Drained
           /\ Drainable /\ state = "body" => \A k \in DOMAIN stream : k > Drained => stream[k].of # cur
<1>1. /\ Around /\ Reading /\ cur \in Nat /\ Len(stream) \in Nat /\ arrived \in Nat /\ read \in Nat
      /\ DOMAIN stream = 1 .. Len(stream) /\ read <= arrived /\ arrived <= Len(stream)
      /\ \A k \in DOMAIN stream : stream[k].of \in Nat
      /\ \A j, k \in DOMAIN stream : j <= k => stream[j].of <= stream[k].of
  <2>1. Around /\ Reading
    BY DEF Base
  <2> QED BY <2>1, StreamIs, RequestsAre DEF Around
<1>2. /\ Rest \subseteq read + 1 .. Len(stream)
      /\ Buffered \subseteq Rest /\ Buffered = read + 1 .. Drained
      /\ Drained \in read .. arrived
  BY <1>1, RestIs
<1>3. UpTo(read)
  BY <1>1 DEF Reading, UpTo
<1>4. \A k \in read + 1 .. Drained : stream[k].of = cur
  BY <1>2 DEF Rest
<1> DEFINE d == Drained
<1> HIDE DEF d
<1>5. d \in Nat /\ read <= d /\ \A k \in read + 1 .. d : stream[k].of = cur
  BY <1>1, <1>2, <1>4 DEF d
<1>6. UpTo(d)
  <2>1. \A k \in DOMAIN stream : IF k <= d THEN stream[k].of <= cur ELSE stream[k].of >= cur
    <3> TAKE k \in DOMAIN stream
    <3>1. CASE k <= read
      BY <1>1, <1>3, <1>5, <3>1 DEF UpTo
    <3>2. CASE k > read /\ k <= d
      <4>1. k \in read + 1 .. d
        BY <1>1, <1>5, <3>2
      <4>2. stream[k].of = cur
        BY <1>5, <4>1
      <4> QED BY <1>1, <3>2, <4>2
    <3>3. CASE k > d
      BY <1>1, <1>3, <1>5, <3>3 DEF UpTo
    <3> QED BY <1>1, <1>5, <3>1, <3>2, <3>3
  <2>2. \E k \in 1 .. d : stream[k].of = cur
    BY <1>1, <1>3, <1>5 DEF UpTo
  <2> QED BY <2>1, <2>2 DEF UpTo
<1>7. Drainable /\ state = "body" => \A k \in DOMAIN stream : k > d => stream[k].of # cur
  <2> SUFFICES ASSUME Drainable, state = "body", NEW k \in DOMAIN stream, k > d, stream[k].of = cur
               PROVE  FALSE
    OBVIOUS
  <2>1. Rest \subseteq Buffered
    BY DEF Drainable
  <2>2. k \in Rest
    BY <1>1, <1>5 DEF Rest
  <2>3. k \in read + 1 .. d
    BY <1>2, <2>1, <2>2 DEF d
  <2> QED BY <1>1, <1>5, <2>3
<1> QED BY <1>3, <1>5, <1>6, <1>7 DEF d

\* Every token belongs to the request the connection is on when it is read.
LEMMA ReadingStays ==
    ASSUME Stays
    PROVE  Reading'
<1> DEFINE Ups(c, n) == /\ \A k \in DOMAIN stream :
                             IF k <= n THEN stream[k].of <= c ELSE stream[k].of >= c
                        /\ \E k \in 1 .. n : stream[k].of = c
           Past(c, n) == \A k \in DOMAIN stream : k > n => stream[k].of # c
           P == /\ \A k \in taken' : k <= read' /\ stream[k].of = cur' /\ stream[k].kind \in {"data", "big"}
                /\ state' = "idle" /\ read' < Len(stream) => IsHead(stream[read' + 1])
                /\ cur' # 0 => Ups(cur', read')
                /\ state' = "waiting" /\ cur' # 0 => Past(cur', read') \/ ~ex'[cur'].keep
                /\ reader' = "space" /\ taken' = {} /\ state' = "body" => Past(cur', read')
<1>1. /\ Base /\ Steps /\ Typed /\ Around /\ Control /\ Reading /\ 0 \notin Requests
      /\ stream' = stream /\ (closed => closed')
      /\ Len(stream) \in Nat /\ arrived \in Nat /\ read \in Nat /\ arrived <= Len(stream)
      /\ DOMAIN stream = 1 .. Len(stream) /\ read <= arrived
      /\ \A k \in DOMAIN stream : stream[k] \in Tokens /\ stream[k].of \in Nat
      /\ \A k \in DOMAIN stream :
            IsHead(stream[k]) <=> \A j \in 1 .. k - 1 : stream[j].of # stream[k].of
      /\ \A j, k \in DOMAIN stream : j <= k => stream[j].of <= stream[k].of
      /\ read <= read' /\ read' \in Nat /\ cur \in Nat /\ taken \subseteq Nat
  <2>1. Base /\ Steps /\ Around /\ Typed /\ Control /\ Reading
    BY DEF Stays, Base
  <2>2. stream' = stream /\ (closed => closed') /\ read <= read' /\ read' \in Nat
    BY <2>1, Onward, ReadsOn DEF Steps
  <2>3. Requests \subseteq Nat /\ 0 \notin Requests /\ cur \in Nat
    BY <2>1, RequestsAre DEF Around
  <2>4. taken \subseteq Nat
    BY <2>1, StreamIs DEF Around
  <2> QED BY <2>1, <2>2, <2>3, <2>4, StreamIs
<1>2. \A c, n : n \in Nat => (Past(c, n) <=> {k \in n + 1 .. Len(stream) : stream[k].of = c} = {})
  <2> TAKE c, n
  <2> SUFFICES ASSUME n \in Nat
               PROVE  Past(c, n) <=> \A k \in n + 1 .. Len(stream) : stream[k].of # c
    OBVIOUS
  <2>1. \A k : k \in DOMAIN stream /\ k > n <=> k \in n + 1 .. Len(stream)
    BY <1>1
  <2> QED BY <2>1
<1>3. ASSUME ~closed' PROVE P
  <2>1. /\ ~closed
        /\ \A k \in taken : k <= read /\ stream[k].of = cur /\ stream[k].kind \in {"data", "big"}
        /\ state = "idle" /\ read < Len(stream) => IsHead(stream[read + 1])
        /\ cur # 0 => Ups(cur, read)
        /\ state = "waiting" /\ cur # 0 => Past(cur, read) \/ ~ex[cur].keep
        /\ reader = "space" /\ taken = {} /\ state = "body" => Past(cur, read)
    BY <1>1, <1>2, <1>3 DEF Reading, Rest
  <2>2. cur # 0 => /\ Ups(cur, Drained) /\ Drained \in Nat /\ read <= Drained
                   /\ Drainable /\ state = "body" => Past(cur, Drained)
    BY <1>1, <2>1, DrainedIs DEF UpTo
  <2>3. cur # 0 /\ ex'[cur].keep => ex[cur].keep
    BY <1>3, WhoWrites
  <2>4. /\ cur = 0 <=> state = "idle"
        /\ reader = "space" \/ taken # {} => cur # 0
        /\ Writing(cur) => cur # 0
        /\ Rest = {} => Past(cur, read)
    BY <1>1, <1>2, <2>1 DEF Control, Writing, Rest
  <2>5. CASE Rests
    BY <2>1, <2>3, <2>5 DEF Rests
  <2>6. CASE Falls
    BY <1>3, <2>6 DEF Falls
  <2>7. CASE Answers \/ Abandons
    <3> HIDE DEF Ups, Past
    <3>1. /\ cur # 0 /\ cur' = cur /\ taken' \subseteq taken
          /\ ex'[cur].keep => Drainable
      BY <2>4, <2>7 DEF Answers, Abandons, Emits
    <3>2. CASE state = "body"
      <4>1. /\ read' = (IF Drainable THEN Drained ELSE read)
            /\ state' = "waiting"
        BY <2>7, <3>2 DEF Answers, Abandons, OnResponseFinished
      <4>2. Ups(cur', read')
        BY <2>1, <2>2, <3>1, <4>1
      <4>3. \A k \in taken' : k <= read'
        BY <1>1, <2>1, <3>1
      <4>4. Past(cur', read') \/ ~ex'[cur'].keep
        BY <2>2, <3>1, <3>2, <4>1
      <4> QED BY <2>1, <3>1, <4>1, <4>2, <4>3, <4>4
    <3>3. CASE state # "body"
      <4>1. state = "waiting"
        BY <1>1, <2>4, <3>1, <3>3 DEF Around
      <4>2. read' = read /\ state' = "waiting"
        BY <2>7, <3>3, <4>1 DEF Answers, Abandons, OnResponseFinished
      <4> QED BY <2>1, <2>3, <3>1, <4>1, <4>2
    <3> QED BY <3>2, <3>3
  <2>8. CASE Refuses
    BY <2>1, <2>3, <2>8 DEF Refuses
  <2>9. CASE Decodes
    <3>1. /\ cur # 0 /\ cur' = cur /\ state' = "body" /\ read' = Drained /\ reader' = "ready"
          /\ taken' = {k \in Buffered : stream[k].kind # "nil"}
          /\ \A k \in Buffered : stream[k].kind # "bad"
      BY <2>4, <2>9 DEF Decodes
    <3>2. ASSUME NEW k \in Buffered
          PROVE  /\ k \in DOMAIN stream /\ k <= Drained /\ stream[k].of = cur
                 /\ stream[k].kind \in {"data", "nil", "big", "bad"}
      <4>1. Buffered = read + 1 .. Drained /\ k \in Rest /\ Drained \in read .. arrived
        BY <1>1, <2>1, <3>1, RestIs
      <4>2. k \in DOMAIN stream /\ k <= Drained /\ stream[k].of = cur /\ read < k
        BY <1>1, <4>1 DEF Rest
      <4>3. PICK j \in 1 .. read : stream[j].of = cur
        BY <2>1, <3>1
      <4>4. j \in 1 .. k - 1
        BY <1>1, <4>2, <4>3
      <4>5. ~IsHead(stream[k])
        BY <1>1, <4>2, <4>3, <4>4
      <4>6. stream[k].kind \in Kinds
        BY <1>1, <4>2 DEF Tokens
      <4> QED BY <4>2, <4>5, <4>6 DEF IsHead, Kinds
    <3> HIDE DEF Ups, Past
    <3>3. Ups(cur', read')
      BY <2>2, <3>1
    <3> QED BY <3>1, <3>2, <3>3
  <2>10. CASE Passes \/ Sleeps
    <3> HIDE DEF Ups, Past
    <3>1. /\ cur # 0 /\ cur' = cur /\ taken' \subseteq taken /\ read' = read /\ state' = state
          /\ reader' = "space" => taken' # {}
      BY <2>4, <2>10 DEF Passes, Sleeps, Emits
    <3> QED BY <2>1, <2>3, <3>1
  <2>11. CASE RefuseHead
    BY <2>1, <2>11 DEF RefuseHead
  <2>12. CASE Dispatch
    <3>1. /\ cur' = stream[read + 1].of /\ read + 1 \in DOMAIN stream /\ cur = 0
          /\ state' \in {"body", "waiting"} /\ reader' = "ready" /\ taken' = {} /\ read' = read + 1
      <4>1. cur' = stream[read + 1].of /\ read + 1 \in DOMAIN stream /\ cur = 0
        BY <1>1, <2>12, DispatchIsOfNew
      <4> QED BY <2>4, <2>12, <4>1 DEF Dispatch
    <3>2. state' = "waiting" => ~\E k \in DOMAIN stream : k > read + 1 /\ stream[k].of = cur'
      BY <1>1, <2>12, DispatchIsOfNew DEF Dispatch
    <3>3. state' = "waiting" => Past(cur', read')
      BY <3>1, <3>2
    <3>4. Ups(cur', read')
      <4> DEFINE c == stream[read + 1].of
      <4>1. \A k \in DOMAIN stream : IF k <= read + 1 THEN stream[k].of <= c ELSE stream[k].of >= c
        BY <1>1, <3>1
      <4>2. read + 1 \in 1 .. read + 1
        BY <1>1
      <4> QED BY <3>1, <4>1, <4>2
    <3> HIDE DEF Ups, Past
    <3> QED BY <3>1, <3>3, <3>4
  <2>13. CASE FinishRequest
    <3> HIDE DEF Ups, Past
    <3>1. /\ cur' = cur /\ cur # 0 /\ read' = read /\ taken' = {} /\ taken = {}
          /\ reader' = "space" => state' = state
          /\ state' \in {state, "waiting"}
          /\ state = "body" => Rest = {} \/ reader = "space"
      BY <2>4, <2>13 DEF FinishRequest, HasWoken
    <3>2. state = "body" => Past(cur, read)
      BY <2>1, <2>4, <3>1
    <3>3. state # "idle" /\ state \in {"idle", "body", "waiting"}
      BY <1>1, <2>4, <3>1 DEF Around
    <3> QED BY <2>1, <2>3, <3>1, <3>2, <3>3
  <2>14. CASE AwaitData \/ DataWake
    <3> HIDE DEF Ups, Past
    <3>1. UNCHANGED <<read, taken, state, cur, ex>> /\ reader' # "space"
      BY <2>14 DEF AwaitData, DataWake
    <3> QED BY <2>1, <3>1
  <2>15. CASE AwaitResponse
    <3>1. cur' = 0 /\ state' = "idle" /\ taken' = {} /\ read' = read /\ reader' = "ready"
          /\ state = "waiting"
      BY <1>3, <2>15 DEF AwaitResponse
    <3>2. cur # 0 /\ ex'[cur].keep
      <4> DEFINE b == ex[cur].keep /\ served' < MaxServed
      <4>1. cur # 0
        BY <2>4, <3>1
      <4>2. ex' = [ex EXCEPT ![cur].keep = b] /\ closed' = ~b
        BY <2>15 DEF AwaitResponse
      <4>3. cur \in Requests /\ ex[cur] \in Exchanges
        BY <1>1, <4>1 DEF Around, Typed
      <4> HIDE DEF b
      <4> QED BY <1>1, <1>3, <4>1, <4>2, <4>3 DEF Typed, Exchanges
    <3>3. Past(cur, read) /\ Ups(cur, read)
      BY <2>1, <2>3, <3>1, <3>2
    <3>4. ASSUME read < Len(stream) PROVE IsHead(stream[read + 1])
      <4>1. read + 1 \in DOMAIN stream
        BY <1>1, <3>4
      <4>2. stream[read + 1].of >= cur /\ stream[read + 1].of # cur
        BY <1>1, <3>3, <4>1
      <4>3. \A j \in 1 .. read : stream[j].of <= cur /\ stream[j].of \in Nat
        BY <1>1, <3>3
      <4>4. \A j \in 1 .. (read + 1) - 1 : stream[j].of # stream[read + 1].of
        BY <1>1, <4>1, <4>2, <4>3
      <4> QED BY <1>1, <4>1, <4>4
    <3> HIDE DEF Ups, Past
    <3> QED BY <3>1, <3>4
  <2> HIDE DEF P
  <2> QED BY <1>1, <2>5, <2>6, <2>7, <2>8, <2>9, <2>10, <2>11, <2>12, <2>13, <2>14, <2>15 DEF Steps
<1>4. P => Reading'
  <2>1. Rest' = {k \in read' + 1 .. Len(stream) : stream[k].of = cur'}
    BY <1>1 DEF Rest
  <2>2. Past(cur', read') => Rest' = {}
    BY <1>1, <1>2, <2>1
  <2> QED BY <1>1, <2>2 DEF Reading
<1> HIDE DEF P
<1> QED BY <1>3, <1>4 DEF Reading

-----------------------------------------------------------------------------
\* The body of a request, from the stream to its application.

\* Queues with the units and the end at the same places.
LEMMA SameBodyCounts ==
    ASSUME NEW s \in Seq(RequestMessages), NEW t \in Seq(RequestMessages), SameBody(s, t)
    PROVE  /\ Count(t, {"data"}) = Count(s, {"data"})
           /\ Count(t, {"data", "end"}) = Count(s, {"data", "end"})
           /\ Has(t, {"end"}) <=> Has(s, {"end"})
           /\ Ordered(s) => Ordered(t)
<1>1. /\ {k \in DOMAIN t : t[k] = "data"} = {k \in DOMAIN s : s[k] = "data"}
      /\ {k \in DOMAIN t : t[k] = "end"} = {k \in DOMAIN s : s[k] = "end"}
  BY DEF SameBody
<1>2. \A k : /\ k \in DOMAIN t /\ t[k] = "data" <=> k \in DOMAIN s /\ s[k] = "data"
             /\ k \in DOMAIN t /\ t[k] = "end" <=> k \in DOMAIN s /\ s[k] = "end"
  BY <1>1
<1>3. {k \in DOMAIN t : t[k] \in {"data"}} = {k \in DOMAIN s : s[k] \in {"data"}}
  BY <1>2
<1>4. {k \in DOMAIN t : t[k] \in {"data", "end"}} = {k \in DOMAIN s : s[k] \in {"data", "end"}}
  BY <1>2
<1>5. Has(t, {"end"}) <=> Has(s, {"end"})
  BY <1>2 DEF Has
<1>6. Ordered(s) => Ordered(t)
  BY <1>2 DEF Ordered
<1> QED BY <1>3, <1>4, <1>5, <1>6 DEF Count

\* A message is taken off the front of a queue.
LEMMA BodyTail ==
    ASSUME NEW s \in Seq(RequestMessages), s # <<>>
    PROVE  /\ Has(Tail(s), {"end"}) => Has(s, {"end"})
           /\ Head(s) = "end" <=> s[1] = "end"
           /\ Ordered(s) => Ordered(Tail(s))
           /\ Ordered(s) /\ Head(s) = "end" => /\ \A k \in DOMAIN Tail(s) : Tail(s)[k] \notin {"data", "end"}
                                               /\ Has(s, {"end"}) /\ ~Has(Tail(s), {"end"})
<1>1. /\ Len(s) \in Nat \ {0} /\ DOMAIN s = 1 .. Len(s)
      /\ Head(s) = s[1] /\ DOMAIN Tail(s) = 1 .. Len(s) - 1
      /\ \A k \in 1 .. Len(s) - 1 : Tail(s)[k] = s[k + 1]
  BY TailPoints
<1>2. \A k \in DOMAIN Tail(s) : k \in Nat /\ k > 0 /\ k + 1 \in DOMAIN s /\ Tail(s)[k] = s[k + 1]
  BY <1>1
<1>3. Has(Tail(s), {"end"}) => Has(s, {"end"})
  BY <1>2 DEF Has
<1>4. Ordered(s) => Ordered(Tail(s))
  <2> SUFFICES ASSUME Ordered(s), NEW j \in DOMAIN Tail(s), NEW k \in DOMAIN Tail(s),
                      Tail(s)[j] = "end", Tail(s)[k] \in {"data", "end"}
               PROVE  k <= j
    BY DEF Ordered
  <2>1. k + 1 <= j + 1
    BY <1>2 DEF Ordered
  <2> QED BY <1>2, <2>1
<1>5. ASSUME Ordered(s), Head(s) = "end"
      PROVE  /\ \A k \in DOMAIN Tail(s) : Tail(s)[k] \notin {"data", "end"}
             /\ Has(s, {"end"}) /\ ~Has(Tail(s), {"end"})
  <2>1. 1 \in DOMAIN s /\ s[1] = "end"
    BY <1>1, <1>5
  <2>2. \A k \in DOMAIN Tail(s) : Tail(s)[k] \notin {"data", "end"}
    <3> SUFFICES ASSUME NEW k \in DOMAIN Tail(s), Tail(s)[k] \in {"data", "end"} PROVE FALSE
      OBVIOUS
    <3>1. k + 1 <= 1
      BY <1>2, <1>5, <2>1 DEF Ordered
    <3> QED BY <1>2, <3>1
  <2> QED BY <2>1, <2>2 DEF Has
<1> QED BY <1>1, <1>3, <1>4, <1>5

\* The body side of an exchange, whatever is done to it.
Kept(i) ==
    /\ app'[i].got = app[i].got /\ app'[i].whole = app[i].whole
    /\ SameBody(ex[i].recv, ex'[i].recv)
TakesBody(i) ==
    /\ ex[i].recv # <<>> /\ ex'[i].recv = Tail(ex[i].recv)
    /\ app'[i].got = IF Head(ex[i].recv) = "data" THEN app[i].got + 1 ELSE app[i].got
    /\ app'[i].whole = (app[i].whole \/ Head(ex[i].recv) = "end")

\* A move keeps the body, takes the next of it, or is one of the two that add to it.
LEMMA BodyMoves ==
    ASSUME NEW i \in Requests, Typed, TypedAt(i), Moves(i)
    PROVE  Kept(i) \/ TakesBody(i) \/ Begun(i) \/ Fed(i)
<1>1. /\ ex[i] \in Exchanges /\ app[i] \in Apps /\ writer \in Writers
      /\ Len(ex[i].send) <= SendMax
  BY DEF TypedAt, Typed
<1>2. ASSUME app'[i].got = app[i].got, app'[i].whole = app[i].whole, ex'[i].recv = ex[i].recv
      PROVE  Kept(i)
  BY <1>2 DEF Kept, SameBody
<1>3. CASE Untouched(i)
  BY <1>2, <1>3 DEF Untouched
<1>4. CASE Held(i) \/ Rekept(i)
  <2>1. app'[i] = app[i] /\ ex'[i].recv = ex[i].recv
    BY <1>1, <1>4 DEF Held, Rekept, AwaitSpace, Exchanges
  <2> QED BY <1>2, <2>1
<1>5. CASE Refused(i)
  <2>1. app'[i] = app[i] /\ ex'[i].recv = Offered(ex[i], "disconnect")
    BY <1>1, <1>5 DEF Refused, NotifyDisconnect, Exchanges
  <2> QED BY <1>1, <2>1, OfferedSameBody DEF Kept
<1>6. CASE TakenDown(i)
  <2>1. PICK r : Downed(ex[i], r) /\ ex'[i] = IF Writing(i) THEN Completed(r) ELSE r
    BY <1>6 DEF TakenDown
  <2>2. r \in Exchanges /\ SameBody(ex[i].recv, r.recv)
    BY <2>1 DEF Downed
  <2>3. Completed(r).recv = r.recv \/ Completed(r).recv = Offered(r, "disconnect")
    BY <2>2 DEF Completed, MarkFinished, Exchanges
  <2>4. SameBody(r.recv, Completed(r).recv)
    BY <2>2, <2>3, OfferedSameBody DEF SameBody
  <2>5. SameBody(ex[i].recv, ex'[i].recv)
    BY <2>1, <2>2, <2>4 DEF SameBody
  <2>6. app'[i].got = app[i].got /\ app'[i].whole = app[i].whole
    BY <1>1, <1>6 DEF TakenDown, Cancelled, Apps
  <2> QED BY <2>5, <2>6 DEF Kept
<1>7. CASE Wrote(i)
  <2>1. PICK w \in Writers, r \in Exchanges : WritesAs(i, w, r)
    BY <1>1, <1>7, WroteActs
  <2>2. r.recv = ex[i].recv /\ app'[i] = app[i]
    BY <2>1 DEF WritesAs
  <2>3. CASE GoesOn(i, w, r)
    BY <1>2, <2>2, <2>3 DEF GoesOn
  <2>4. CASE Finishes(i, w, r)
    BY <2>2, <2>4 DEF Finishes, Kept
  <2> QED BY <2>1, <2>3, <2>4 DEF WritesAs
<1>8. CASE Reads(i)
  <2>1. PICK b \in BOOLEAN :
        \/ /\ app[i].pc \in {"run", "recv"} /\ ex[i].recv # <<>>
           /\ ex'[i] = Received([ex[i] EXCEPT !.asks = b])
           /\ app'[i] = [app[i] EXCEPT !.pc = "run",
                !.got = IF Head(ex[i].recv) = "data" THEN app[i].got + 1 ELSE app[i].got,
                !.whole = app[i].whole \/ Head(ex[i].recv) = "end"]
        \/ /\ app[i].pc = "run" /\ ex[i].recv = <<>>
           /\ ex'[i] = [ex[i] EXCEPT !.asks = b]
           /\ app'[i] = IF ex[i].disconnected THEN app[i]
                        ELSE [app[i] EXCEPT !.pc = "recv"]
    BY <1>8 DEF Reads
  <2> DEFINE got == IF Head(ex[i].recv) = "data" THEN app[i].got + 1 ELSE app[i].got
             whole == app[i].whole \/ Head(ex[i].recv) = "end"
  <2>2. CASE ex[i].recv # <<>> /\ ex'[i] = Received([ex[i] EXCEPT !.asks = b])
             /\ app'[i] = [app[i] EXCEPT !.pc = "run", !.got = got, !.whole = whole]
    <3> HIDE DEF got, whole
    <3>1. app'[i].got = got /\ app'[i].whole = whole
      BY <1>1, <2>2 DEF Apps
    <3>2. ex'[i].recv = Tail(ex[i].recv)
      BY <1>1, <2>2 DEF Received, Exchanges
    <3> QED BY <2>2, <3>1, <3>2 DEF TakesBody, got, whole
  <2>3. CASE ex'[i] = [ex[i] EXCEPT !.asks = b] /\ app'[i] = IF ex[i].disconnected THEN app[i]
                        ELSE [app[i] EXCEPT !.pc = "recv"]
    <3>1. app'[i].got = app[i].got /\ app'[i].whole = app[i].whole /\ ex'[i].recv = ex[i].recv
      BY <1>1, <2>3 DEF Exchanges, Apps
    <3> QED BY <1>2, <3>1
  <2> QED BY <2>1, <2>2, <2>3
<1>9. CASE Speaks(i)
  <2>1. PICK r \in Exchanges, todo \in Seq(Messages), a \in Apps :
                /\ Queueing(i, r, todo, a) /\ r.send = ex[i].send /\ r.recv = ex[i].recv
                /\ a.got = app[i].got /\ a.whole = app[i].whole
    BY <1>9, SpeaksQueues
  <2>2. Enqueued(r, todo).recv = r.recv
    BY QueueKeeps
  <2>3. app'[i].got = a.got /\ app'[i].whole = a.whole /\ ex'[i] = Enqueued(r, todo)
    BY <2>1 DEF Queueing, Apps
  <2> QED BY <1>2, <2>1, <2>2, <2>3
<1> QED BY <1>3, <1>4, <1>5, <1>6, <1>7, <1>8, <1>9 DEF Moves

\* What a queue of request messages has of a body.
LEMMA PassedIs ==
    ASSUME NEW i \in Requests, TypedAt(i)
    PROVE  /\ ex[i].recv \in Seq(RequestMessages) /\ app[i].got \in Nat /\ app[i].whole \in BOOLEAN
           /\ Count(ex[i].recv, {"data"}) \in Nat /\ Passed(i) \in Nat
<1>1. ex[i].recv \in Seq(RequestMessages) /\ app[i].got \in Nat /\ app[i].whole \in BOOLEAN
  BY DEF TypedAt, Exchanges, Apps
<1>2. Count(ex[i].recv, {"data"}) \in Nat
  BY <1>1, CountIsNatural
<1> QED BY <1>1, <1>2 DEF Passed

\* What is told of a body stays so while its application reads it.
LEMMA PassedStays ==
    ASSUME NEW i \in Requests, TypedAt(i), TypedAt(i)', Kept(i) \/ TakesBody(i)
    PROVE  /\ Passed(i)' = Passed(i)
           /\ Has(ex'[i].recv, {"end"}) => Has(ex[i].recv, {"end"})
           /\ app'[i].whole => app[i].whole \/ Has(ex[i].recv, {"end"})
<1> DEFINE s == ex[i].recv
           t == ex'[i].recv
           c == Count(s, {"data"})
           d == Count(t, {"data"})
<1>1. s \in Seq(RequestMessages) /\ t \in Seq(RequestMessages) /\ app[i].got \in Nat /\ c \in Nat
  BY PassedIs DEF TypedAt, Exchanges
<1>2. CASE Kept(i)
  BY <1>1, <1>2, SameBodyCounts DEF Kept, Passed
<1>3. CASE TakesBody(i)
  <2>1. s # <<>> /\ t = Tail(s)
    BY <1>3 DEF TakesBody
  <2>2. c = d + (IF Head(s) \in {"data"} THEN 1 ELSE 0)
    BY <1>1, <2>1, CountTail
  <2>3. d \in Nat
    BY <1>1, CountIsNatural
  <2>4. app'[i].got = IF Head(s) = "data" THEN app[i].got + 1 ELSE app[i].got
    BY <1>3 DEF TakesBody
  <2>5. app'[i].got + d = app[i].got + c
    <3> HIDE DEF c, d
    <3>1. CASE Head(s) = "data"
      <4>1. c = d + 1 /\ app'[i].got = app[i].got + 1
        BY <2>2, <2>4, <3>1
      <4> QED BY <1>1, <2>3, <4>1
    <3>2. CASE Head(s) # "data"
      <4>1. c = d + 0 /\ app'[i].got = app[i].got
        BY <2>2, <2>4, <3>2
      <4> QED BY <1>1, <2>3, <4>1
    <3> QED BY <3>1, <3>2
  <2>6. Has(t, {"end"}) => Has(s, {"end"})
    BY <1>1, <2>1, BodyTail
  <2>7. Head(s) = "end" => Has(s, {"end"})
    BY <1>1, <2>1, TailPoints DEF Has
  <2> QED BY <1>3, <2>5, <2>6, <2>7 DEF TakesBody, Passed
<1> QED BY <1>2, <1>3

\* An application that is told of the end has been given every unit, and no
\* more come.
LEMMA ToldKept ==
    ASSUME NEW i \in Requests, TypedAt(i), TypedAt(i)', Told(i), stream' = stream,
           Kept(i) \/ TakesBody(i)
    PROVE  Told(i)'
<1> DEFINE s == ex[i].recv
           t == ex'[i].recv
           n == Cardinality(Units(i))
<1>1. /\ s \in Seq(RequestMessages) /\ t \in Seq(RequestMessages) /\ app[i].got \in Nat
      /\ app'[i].got \in Nat /\ Units(i)' = Units(i)
  BY DEF TypedAt, Exchanges, Apps, Units
<1>2. /\ Has(s, {"end"}) => Passed(i) = n /\ ~app[i].whole
      /\ app[i].whole => app[i].got = n /\ Count(s, {"data", "end"}) = 0
      /\ Ordered(s)
  BY DEF Told
<1>3. /\ Passed(i)' = Passed(i) /\ (Has(t, {"end"}) => Has(s, {"end"}))
  BY PassedStays
<1>4. /\ Has(t, {"end"}) => ~app'[i].whole
      /\ app'[i].whole => app'[i].got = n /\ Count(t, {"data", "end"}) = 0
      /\ Ordered(t)
  <2>1. CASE Kept(i)
    BY <1>1, <1>2, <2>1, SameBodyCounts DEF Kept
  <2>2. CASE TakesBody(i)
    <3>1. s # <<>> /\ t = Tail(s) /\ Head(s) \in RequestMessages
      BY <1>1, <2>2, TailPoints DEF TakesBody
    <3>2. Ordered(t)
      BY <1>1, <1>2, <3>1, BodyTail
    <3>3. CASE Head(s) = "end"
      <4>1. ~Has(t, {"end"}) /\ Has(s, {"end"}) /\ \A k \in DOMAIN t : t[k] \notin {"data", "end"}
        BY <1>1, <1>2, <3>1, <3>3, BodyTail
      <4>2. Count(t, {"data", "end"}) = 0
        BY <1>1, <4>1, CountIsNatural
      <4>3. Count(t, {"data"}) = 0
        BY <1>1, <4>1, CountIsNatural
      <4>4. app'[i].got = n
        BY <1>1, <1>2, <1>3, <4>1, <4>3 DEF Passed
      <4> QED BY <3>2, <4>1, <4>2, <4>4
    <3>4. CASE Head(s) # "end"
      <4>1. app'[i].whole = app[i].whole
        BY <2>2, <3>4 DEF TakesBody, TypedAt, Apps
      <4>2. ASSUME app[i].whole PROVE app'[i].got = n /\ Count(t, {"data", "end"}) = 0
        <5>1. \A k \in DOMAIN s : s[k] \notin {"data", "end"}
          BY <1>1, <1>2, <4>2, CountIsNatural
        <5>2. Head(s) # "data"
          BY <1>1, <3>1, <5>1, TailPoints
        <5>3. \A k \in DOMAIN t : t[k] \notin {"data", "end"}
          BY <1>1, <3>1, <5>1, TailPoints
        <5>4. Count(t, {"data", "end"}) = 0
          BY <1>1, <5>3, CountIsNatural
        <5> QED BY <1>2, <2>2, <4>2, <5>2, <5>4 DEF TakesBody
      <4> QED BY <1>2, <1>3, <3>2, <4>1, <4>2
    <3> QED BY <3>3, <3>4
  <2> QED BY <2>1, <2>2
<1> QED BY <1>1, <1>2, <1>3, <1>4 DEF Told

\* The units of a body that the reader has, or has still to come.
LEMMA UnitsAre ==
    ASSUME Around, NEW i \in Requests
    PROVE  /\ Units(i) \subseteq DOMAIN stream
           /\ \A S : IsFiniteSet(Units(i) \ S) /\ Cardinality(Units(i) \ S) \in Nat
<1>1. Len(stream) \in Nat /\ DOMAIN stream = 1 .. Len(stream)
  BY StreamIs
<1>2. IsFiniteSet(DOMAIN stream)
  BY <1>1, FS_Interval
<1>3. \A S : (Units(i) \ S) \in SUBSET DOMAIN stream
  BY DEF Units
<1>4. \A S : IsFiniteSet(Units(i) \ S)
  BY <1>2, <1>3, FS_Subset
<1> QED BY <1>3, <1>4, FS_CardinalityType DEF Units

\* A unit or the end is passed on by the reader, in its turn.
LEMMA FedBy ==
    ASSUME Stays, NEW i \in Requests, Fed(i)
    PROVE  /\ i = cur /\ ~closed' /\ ~closed /\ ~ex[i].finished /\ state = "body" /\ taken \subseteq Nat
           /\ \/ Passes /\ ex'[i] = Feed(ex[i], "data")
              \/ /\ FinishRequest /\ ex'[i] = Feed(ex[i], "end") /\ Rest = {} /\ taken = {}
                 /\ state' = "waiting"
<1>1. /\ Base /\ Steps /\ Control /\ Reading /\ Around /\ Typed /\ ex[i] \in Exchanges
  BY DEF Stays, Base, Typed
<1>2. /\ Writing(i) /\ Writing(i)' /\ i = cur /\ cur # 0 /\ ~closed /\ ~closed'
      /\ ~ex[i].finished /\ ~ex[i].disconnected /\ ~Full(ex[i]) /\ writer' # NoWriter
  <2>1. Writing(i) /\ Writing(i)' /\ ~Gone(ex[i]) /\ ~Full(ex[i])
    BY DEF Fed, SameWriter
  <2> QED BY <1>1, <2>1, Onward DEF Control, Writing, Gone, NoWriter
<1>3. state # "idle" /\ (reader = "space" \/ taken # {} => state = "body")
  <2>1. ex[cur].complete => ex[cur].finished
    BY <1>2, WhoWrites
  <2> QED BY <1>1, <1>2, <2>1 DEF Control, Around
<1>4. taken \subseteq Nat
  BY <1>1, StreamIs DEF Around
<1>5. CASE FinishRequest /\ ex'[i] = Feed(ex[i], "end")
  <2>1. taken = {} /\ state' = "waiting" /\ state = "body" /\ Rest = {}
    BY <1>1, <1>2, <1>3, <1>5 DEF FinishRequest, HasWoken, Reading, Gone
  <2> QED BY <1>2, <1>4, <1>5, <2>1
<1>6. CASE taken' # taken /\ ex'[i] = Feed(ex[i], "data")
  <2>1. Feed(ex[i], "data") \in Exchanges /\ Feed(ex[i], "data").recv = Append(ex[i].recv, "data")
        /\ Feed(ex[i], "data").finished = ex[i].finished
    BY <1>1, FeedActs DEF RequestMessages, SameState
  <2>2. Append(ex[i].recv, "data") # ex[i].recv
    BY <1>1, AppendPoints DEF Exchanges, RequestMessages
  <2>3. ex'[i] # ex[i] /\ ~ex'[i].finished
    BY <1>2, <1>6, <2>1, <2>2
  <2>4. Passes
    BY <1>1, <1>2, <1>6, <2>3 DEF Steps, Rests, Falls, Answers, Refuses, Decodes, Sleeps, Abandons,
        Emits, Gone, RefuseHead, Dispatch, FinishRequest, AwaitData, DataWake, AwaitResponse
  <2>5. taken # {}
    BY <2>4 DEF Passes, Emits
  <2> QED BY <1>2, <1>3, <1>4, <1>6, <2>4, <2>5
<1> QED BY <1>5, <1>6 DEF Fed

\* A request is dispatched with what the buffer says of its body.
LEMMA BegunBy ==
    ASSUME Stays, NEW i \in Requests, Begun(i)
    PROVE  /\ Dispatch /\ cur' = i /\ read + 1 \in DOMAIN stream /\ stream[read + 1].of = i
           /\ IsHead(stream[read + 1]) /\ app'[i].got = 0 /\ ~app'[i].whole /\ ~ex'[i].finished
           /\ state' = (IF \E k \in DOMAIN stream : k > read + 1 /\ stream[k].of = i THEN "body" ELSE "waiting")
           /\ ex'[i].recv = (IF state' = "body" THEN <<>> ELSE <<"end">>)
           /\ read' = read + 1 /\ taken' = {}
<1>1. /\ Base /\ Steps /\ Control /\ Reading /\ Around /\ Typed /\ ex[i] \in Exchanges /\ Sides(i)
      /\ 0 \notin Requests
  BY RequestsAre DEF Stays, Base, Typed
<1>2. cur' = i /\ ~closed' /\ app[i].pc = "none"
  BY <1>1, Onward DEF Begun, NewWriter, NoWriter
<1>3. cur' # cur /\ cur' # 0
  BY <1>1, <1>2 DEF Control
<1>4. Dispatch
  BY <1>1, <1>2, <1>3 DEF Steps, Rests, Falls, Answers, Refuses, Decodes, Passes, Sleeps, Abandons,
        Emits, RefuseHead, FinishRequest, AwaitData, DataWake, AwaitResponse
<1>5. /\ cur = 0 /\ ~closed /\ read + 1 \in DOMAIN stream /\ stream[read + 1].of = i
      /\ IsHead(stream[read + 1]) /\ Buffer[1] = stream[read + 1]
  BY <1>1, <1>2, <1>4, DispatchIsOfNew
<1>6. app'[i].got = 0 /\ ~app'[i].whole
  BY <1>1, <1>2 DEF Begun, Sides, NoApp, Started
<1>7. taken' = {} /\ read' = read + 1
  BY <1>1, <1>4, <1>5 DEF Dispatch, Control
<1> DEFINE head == stream[read + 1]
           body == \E k \in DOMAIN stream : k > read + 1 /\ stream[k].of = i
           e == [NewExchange EXCEPT !.keep = head.keep, !.asks = head.expect /\ body,
                                    !.recv = IF body THEN <<>> ELSE <<"end">>]
<1>8. state' = (IF body THEN "body" ELSE "waiting") /\ ex' = [ex EXCEPT ![i] = e]
  BY <1>4, <1>5 DEF Dispatch
<1>9. e.recv = (IF body THEN <<>> ELSE <<"end">>) /\ ~e.finished
  BY DEF NewExchange
<1>10. ex'[i] = e
  <2> HIDE DEF e
  <2> QED BY <1>1, <1>8 DEF Typed
<1> HIDE DEF e
<1> QED BY <1>2, <1>4, <1>5, <1>6, <1>7, <1>8, <1>9, <1>10

\* An application is told of the end of a body after all of it.
LEMMA ToldStays ==
    ASSUME Stays, Passing, NEW i \in Requests, Told(i)
    PROVE  Told(i)'
<1>1. /\ Base /\ Steps /\ Around /\ Typed /\ TypedAt(i) /\ TypedAt(i)' /\ Moves(i) /\ stream' = stream
  BY DEF Stays, Base, Moved, Steps
<1>2. ex[i].recv \in Seq(RequestMessages) /\ ex'[i].recv \in Seq(RequestMessages)
  BY <1>1 DEF TypedAt, Exchanges
<1>3. Units(i)' = Units(i)
  BY <1>1 DEF Units
<1>4. CASE Kept(i) \/ TakesBody(i)
  BY <1>1, <1>4, ToldKept
<1>5. CASE Begun(i)
  <2>1. /\ read + 1 \in DOMAIN stream /\ stream[read + 1].of = i /\ IsHead(stream[read + 1])
        /\ app'[i].got = 0 /\ ~app'[i].whole
        /\ state' = (IF \E k \in DOMAIN stream : k > read + 1 /\ stream[k].of = i THEN "body" ELSE "waiting")
        /\ ex'[i].recv = (IF state' = "body" THEN <<>> ELSE <<"end">>)
    BY <1>5, BegunBy
  <2>2. CASE state' = "body"
    BY <1>3, <2>1, <2>2 DEF Told, Has, Ordered
  <2>3. CASE state' # "body"
    <3>1. ex'[i].recv = <<"end">> /\ ~\E k \in DOMAIN stream : k > read + 1 /\ stream[k].of = i
      BY <2>1, <2>3
    <3>2. Units(i) = {}
      <4> SUFFICES ASSUME NEW k \in DOMAIN stream, stream[k].of = i, stream[k].kind \in {"data", "big"}
                   PROVE  FALSE
        BY DEF Units
      <4>1. /\ k \in Nat /\ read \in Nat /\ k >= 1
            /\ \A j \in 1 .. (read + 1) - 1 : stream[j].of # stream[read + 1].of
        BY <1>1, <2>1, StreamIs
      <4>2. k = read + 1
        BY <2>1, <3>1, <4>1
      <4> QED BY <2>1, <4>2 DEF IsHead
    <3>3. Cardinality(Units(i)) = 0
      BY <3>2, FS_EmptySet
    <3>4. Count(ex'[i].recv, {"data"}) = 0
      <4>1. \A k \in DOMAIN <<"end">> : <<"end">>[k] \notin {"data"}
        OBVIOUS
      <4> QED BY <1>2, <3>1, <4>1, CountIsNatural
    <3>5. Ordered(<<"end">>)
      BY DEF Ordered
    <3> QED BY <1>3, <2>1, <3>1, <3>3, <3>4, <3>5 DEF Told, Passed
  <2> QED BY <2>2, <2>3
<1>6. CASE Fed(i)
  <2> DEFINE s == ex[i].recv
             t == ex'[i].recv
  <2>1. /\ ~app[i].whole /\ ~Has(s, {"end"}) /\ app'[i] = app[i]
        /\ Passed(i) = Cardinality(Units(i) \ (taken \cup Rest))
    <3>1. i = cur /\ ~closed /\ ~ex[i].finished /\ state = "body"
      BY <1>6, FedBy
    <3> QED BY <1>6, <3>1 DEF Passing, Fed
  <2>2. CASE ex'[i] = Feed(ex[i], "data")
    <3>1. t = Append(s, "data")
      BY <1>1, <2>2, FeedActs DEF TypedAt, RequestMessages
    <3>2. "data" \in RequestMessages
      BY DEF RequestMessages
    <3>3. /\ Len(s) \in Nat /\ DOMAIN s = 1 .. Len(s) /\ DOMAIN t = 1 .. Len(s) + 1 /\ t[Len(s) + 1] = "data"
          /\ \A k \in 1 .. Len(s) : t[k] = s[k]
      BY <1>2, <3>1, <3>2, AppendPoints
    <3>4. ~Has(t, {"end"})
      <4> SUFFICES ASSUME NEW k \in DOMAIN t, t[k] = "end" PROVE FALSE
        BY DEF Has
      <4>1. k \in 1 .. Len(s) \/ k = Len(s) + 1
        BY <3>3
      <4>2. k \in DOMAIN s /\ s[k] = "end"
        BY <3>3, <4>1
      <4> QED BY <2>1, <4>2 DEF Has
    <3>5. Ordered(t)
      BY <3>4 DEF Has, Ordered
    <3> QED BY <2>1, <3>4, <3>5 DEF Told
  <2>3. CASE ~(ex'[i] = Feed(ex[i], "data"))
    <3>1. ex'[i] = Feed(ex[i], "end") /\ Rest = {} /\ taken = {}
      BY <1>6, <2>3, FedBy
    <3>2. t = Append(s, "end")
      BY <1>1, <3>1, FeedActs DEF TypedAt, RequestMessages
    <3>3. "end" \in RequestMessages
      BY DEF RequestMessages
    <3>4. /\ Len(s) \in Nat /\ DOMAIN s = 1 .. Len(s) /\ DOMAIN t = 1 .. Len(s) + 1 /\ t[Len(s) + 1] = "end"
          /\ \A k \in 1 .. Len(s) : t[k] = s[k]
      BY <1>2, <3>2, <3>3, AppendPoints
    <3>5. Count(t, {"data"}) = Count(s, {"data"}) + 0
      <4>1. Count(t, {"data"}) = Count(s, {"data"}) + (IF "end" \in {"data"} THEN 1 ELSE 0)
        BY <1>2, <3>2, <3>3, CountAppend
      <4> QED BY <4>1
    <3>6. Count(s, {"data"}) \in Nat
      BY <1>2, CountIsNatural
    <3>7. Units(i) \ (taken \cup Rest) = Units(i)
      BY <3>1
    <3>8. Passed(i)' = Cardinality(Units(i))
      <4>1. Count(t, {"data"}) = Count(s, {"data"})
        BY <3>5, <3>6
      <4> QED BY <2>1, <3>7, <4>1 DEF Passed
    <3>9. Ordered(t)
      <4> SUFFICES ASSUME NEW j \in DOMAIN t, NEW k \in DOMAIN t, t[j] = "end" PROVE k <= j
        BY DEF Ordered
      <4>1. j = Len(s) + 1
        BY <2>1, <3>4 DEF Has
      <4> QED BY <3>4, <4>1
    <3> QED BY <1>3, <2>1, <3>8, <3>9 DEF Told
  <2> QED BY <2>2, <2>3
<1> QED BY <1>1, <1>4, <1>5, <1>6, BodyMoves

\* What of a body was passed on.
LEMMA PassingStays ==
    ASSUME Stays, Passing
    PROVE  Passing'
<1> SUFFICES ASSUME ~closed', state' = "body", NEW c \in Requests, c = cur', ~ex'[c].finished
             PROVE  /\ ~app'[c].whole /\ ~Has(ex'[c].recv, {"end"})
                    /\ Passed(c)' = Cardinality(Units(c) \ (taken' \cup Rest'))
  <2>1. ~closed' /\ state' = "body" => cur' # 0 /\ cur' \in Requests
    <3>1. Control' /\ Around'
      BY ControlStays DEF Stays
    <3> QED BY <3>1 DEF Control, Around
  <2>2. \A i \in Requests : Units(i)' = Units(i)
    BY DEF Stays, Steps, Units
  <2> QED BY <2>1, <2>2 DEF Passing, Passed
<1>1. /\ Base /\ Steps /\ Around /\ Typed /\ TypedAt(c) /\ TypedAt(c)' /\ Moves(c) /\ stream' = stream
      /\ Control /\ Reading
  BY DEF Stays, Base, Moved, Steps
<1>2. /\ Len(stream) \in Nat /\ DOMAIN stream = 1 .. Len(stream)
      /\ read \in Nat /\ \A k \in DOMAIN stream : stream[k] \in Tokens
  BY <1>1, StreamIs
<1>3. ex[c].recv \in Seq(RequestMessages) /\ app[c].got \in Nat /\ app[c].whole \in BOOLEAN
      /\ Count(ex[c].recv, {"data"}) \in Nat
  BY <1>1, PassedIs
<1>4. Rest' = {k \in read' + 1 .. Len(stream) : stream[k].of = c}
  BY <1>1 DEF Rest
<1>5. CASE Begun(c)
  <2>1. /\ read + 1 \in DOMAIN stream /\ stream[read + 1].of = c /\ IsHead(stream[read + 1])
        /\ app'[c].got = 0 /\ ~app'[c].whole /\ ex'[c].recv = <<>> /\ read' = read + 1
    BY <1>5, BegunBy
  <2>2. Units(c) \subseteq Rest'
    <3> SUFFICES ASSUME NEW k \in DOMAIN stream, stream[k].of = c, stream[k].kind \in {"data", "big"}
                 PROVE  k \in Rest'
      BY DEF Units
    <3>1. /\ k \in Nat /\ k >= 1
          /\ \A j \in 1 .. (read + 1) - 1 : stream[j].of # stream[read + 1].of
      BY <1>1, <1>2, <2>1, StreamIs
    <3>2. k # read + 1
      BY <2>1 DEF IsHead
    <3>3. ~(k <= read)
      BY <1>2, <2>1, <3>1
    <3>4. k \in (read + 1) + 1 .. Len(stream)
      BY <1>2, <3>1, <3>2, <3>3
    <3> QED BY <1>4, <2>1, <3>4
  <2>3. Units(c) \ (taken' \cup Rest') = {}
    BY <2>2
  <2>4. ~Has(<<>>, {"end"}) /\ Count(<<>>, {"data"}) = 0
    <3>1. {k \in DOMAIN <<>> : <<>>[k] \in {"data"}} = {}
      OBVIOUS
    <3> QED BY <3>1, FS_EmptySet DEF Has, Count
  <2>5. Passed(c)' = app'[c].got + Count(ex'[c].recv, {"data"})
    BY DEF Passed
  <2>6. Passed(c)' = 0 /\ ~Has(ex'[c].recv, {"end"})
    BY <2>1, <2>4, <2>5
  <2>7. Cardinality(Units(c) \ (taken' \cup Rest')) = 0
    BY <2>3, FS_EmptySet
  <2> QED BY <2>1, <2>6, <2>7
<1>6. CASE Fed(c)
  <2>1. /\ c = cur /\ ~closed /\ ~ex[c].finished /\ state = "body"
        /\ Passes /\ ex'[c] = Feed(ex[c], "data") /\ taken \subseteq Nat
    BY <1>6, FedBy
  <2> DEFINE s == ex[c].recv
             t == ex'[c].recv
             old == Units(c) \ (taken \cup Rest)
             new == Units(c) \ (taken' \cup Rest')
             x == NextUnit
  <2>2. /\ ~app[c].whole /\ ~Has(s, {"end"}) /\ app'[c] = app[c]
        /\ app[c].got + Count(s, {"data"}) = Cardinality(old)
    BY <1>6, <2>1 DEF Passing, Fed, Passed
  <2>3. "data" \in RequestMessages /\ t = Append(s, "data")
    BY <1>1, <2>1, FeedActs DEF TypedAt, RequestMessages
  <2>4. /\ Len(s) \in Nat /\ DOMAIN s = 1 .. Len(s) /\ DOMAIN t = 1 .. Len(s) + 1 /\ t[Len(s) + 1] = "data"
        /\ \A k \in 1 .. Len(s) : t[k] = s[k]
    BY <1>3, <2>3, AppendPoints
  <2>5. ~Has(t, {"end"})
    <3> SUFFICES ASSUME NEW k \in DOMAIN t, t[k] = "end" PROVE FALSE
      BY DEF Has
    <3>1. k \in 1 .. Len(s) \/ k = Len(s) + 1
      BY <2>4
    <3>2. k \in DOMAIN s /\ s[k] = "end"
      BY <2>4, <3>1
    <3> QED BY <2>2, <3>2 DEF Has
  <2>6. Count(t, {"data"}) = Count(s, {"data"}) + 1
    <3>1. Count(t, {"data"}) = Count(s, {"data"}) + (IF "data" \in {"data"} THEN 1 ELSE 0)
      BY <1>3, <2>3, CountAppend
    <3> QED BY <3>1
  <2>7. x \in taken /\ taken' = taken \ {x} /\ read' = read /\ cur' = cur
    BY <1>1, <2>1, NextUnitIs DEF Passes, Emits
  <2>8. x \in Units(c) /\ x <= read /\ x \in Nat
    BY <1>1, <2>1, <2>7 DEF Reading, Units, Around
  <2>9. Rest' = Rest /\ x \notin Rest
    <3>1. Rest' = Rest
      BY <1>1, <2>7 DEF Rest
    <3>2. \A k \in read + 1 .. Len(stream) : k > read
      BY <1>2
    <3>3. ~(x > read)
      BY <1>2, <2>8
    <3> QED BY <3>1, <3>2, <3>3 DEF Rest
  <2>10. x \notin old /\ new = old \cup {x}
    BY <2>7, <2>8, <2>9
  <2>11. IsFiniteSet(old) /\ Cardinality(old) \in Nat
    BY <1>1, UnitsAre
  <2> HIDE DEF old, new, x
  <2>12. Cardinality(new) = Cardinality(old) + 1
    BY <2>10, <2>11, FS_AddElement
  <2>13. app'[c].got + Count(t, {"data"}) = Cardinality(new)
    <3> DEFINE n == Count(s, {"data"})
               m == Count(t, {"data"})
               p == Cardinality(old)
               q == Cardinality(new)
               g == app[c].got
    <3>1. g \in Nat /\ n \in Nat /\ p \in Nat /\ m = n + 1 /\ q = p + 1 /\ g + n = p /\ app'[c].got = g
      BY <1>3, <2>2, <2>6, <2>11, <2>12
    <3> HIDE DEF n, m, p, q, g
    <3>2. g + m = q
      BY <3>1
    <3> QED BY <3>1, <3>2 DEF m, q
  <2> QED BY <2>2, <2>5, <2>13 DEF new, Passed
<1>7. CASE ~Begun(c) /\ (Kept(c) \/ TakesBody(c))
  <2>1. cur' = cur
    <3>1. CASE Dispatch
      <4>1. Dispatch /\ cur' = c /\ app[cur'].pc = "none" /\ cur = 0 /\ writer' = NewWriter(c)
        BY <1>1, <3>1, DispatchIsOfNew DEF Dispatch
      <4>2. Writing(c)' /\ ~Writing(c)
        BY <1>1, <4>1, WriterIs DEF Writing, NewWriter, NoWriter
      <4>3. Begun(c)
        BY <1>1, <4>1, <4>2 DEF Moves, Untouched, Fed, Held, Rekept, Refused, TakenDown, Wrote,
                          Reads, Speaks, SameWriter, NoApp
      <4> QED BY <1>7, <4>3
    <3>2. CASE ~Dispatch
      <4>1. cur' # 0
        BY RequestsAre
      <4> QED BY <1>1, <3>2, <4>1 DEF Steps, Rests, Falls, Answers, Refuses, Decodes, Passes, Sleeps,
            Abandons, Emits, RefuseHead, FinishRequest, AwaitData, DataWake, AwaitResponse
    <3> QED BY <3>1, <3>2
  <2>2. /\ ~closed /\ ~ex[c].finished /\ app[c].pc # "none"
    <3>1. app[c].pc # "none" /\ (ex[c].finished => ex'[c].finished) /\ (closed => closed')
      BY <1>1, <2>1, WhoWrites, RequestsAre, Onward
    <3> QED BY <3>1
  <2>3. /\ Passed(c)' = Passed(c) /\ (Has(ex'[c].recv, {"end"}) => Has(ex[c].recv, {"end"}))
        /\ app'[c].whole => app[c].whole \/ Has(ex[c].recv, {"end"})
    BY <1>1, <1>7, PassedStays
  <2>4. state = "body"
        /\ Units(c) \ (taken' \cup Rest') = Units(c) \ (taken \cup Rest)
    <3> DEFINE Same == state' = state /\ taken' = taken /\ read' = read
    <3>1. ASSUME Same
          PROVE  state = "body" /\ Units(c) \ (taken' \cup Rest') = Units(c) \ (taken \cup Rest)
      <4>1. Rest' = Rest
        BY <1>1, <2>1, <3>1 DEF Rest
      <4> QED BY <3>1, <4>1
    <3>2. CASE Decodes
      <4>1. /\ state = "body" /\ taken = {} /\ read' = Drained
            /\ taken' = {k \in Buffered : stream[k].kind # "nil"}
        BY <3>2 DEF Decodes
      <4>2. /\ Rest \subseteq read + 1 .. Len(stream) /\ Buffered \subseteq Rest
            /\ Buffered = read + 1 .. Drained /\ Drained \in Nat
        <5>1. cur # 0
          BY <1>1, <2>2, <4>1 DEF Control
        <5>2. Drained \in read .. arrived /\ arrived \in Nat
          BY <1>1, <2>2, <5>1, RestIs, StreamIs
        <5> QED BY <1>1, <1>2, <2>2, <5>1, <5>2, RestIs
      <4>3. Rest' = Rest \ Buffered
        <5>1. \A k : k \in read' + 1 .. Len(stream) <=> k \in read + 1 .. Len(stream) /\ k \notin Buffered
          <6> DEFINE d == Drained
          <6> HIDE DEF d
          <6>1. d \in Nat /\ Buffered = read + 1 .. d /\ read' = d
            BY <4>1, <4>2 DEF d
          <6>2. read <= d
            <7>1. cur # 0
              BY <1>1, <2>2, <4>1 DEF Control
            <7> QED BY <1>1, <2>2, <7>1, DrainedIs DEF d
          <6> QED BY <1>2, <6>1, <6>2
        <5>2. Rest = {k \in read + 1 .. Len(stream) : stream[k].of = c}
          BY <2>1 DEF Rest
        <5> QED BY <1>4, <5>1, <5>2
      <4>4. \A k \in Units(c) : stream[k].kind # "nil"
        BY DEF Units
      <4>5. Units(c) \ (taken' \cup Rest') = Units(c) \ (taken \cup Rest)
        BY <4>1, <4>2, <4>3, <4>4
      <4> QED BY <4>1, <4>5
    <3>3. CASE ~Decodes
      <4>1. ~Refuses /\ ~Falls
        BY <2>1 DEF Refuses, Falls
      <4>2. ~Answers /\ ~Abandons /\ ~Dispatch /\ ~AwaitResponse
        <5>1. ~Answers
          BY DEF Answers, OnResponseFinished
        <5>2. ~Abandons /\ ~AwaitResponse
          BY DEF Abandons, AwaitResponse
        <5>3. ~Dispatch
          BY <1>1, <2>2, DispatchIsOfNew
        <5> QED BY <5>1, <5>2, <5>3
      <4>3. ~Passes
        <5>1. SUFFICES ASSUME Passes PROVE FALSE
          OBVIOUS
        <5>2. ex'[c].recv = Append(ex[c].recv, "data") /\ app'[c] = app[c]
          BY <1>1, <2>1, <5>1, FeedActs DEF Passes, Emits, TypedAt, RequestMessages
        <5>3. "data" \in RequestMessages
          BY DEF RequestMessages
        <5>4. Count(ex'[c].recv, {"data"}) = Count(ex[c].recv, {"data"}) + 1
          <6>1. Count(Append(ex[c].recv, "data"), {"data"})
                    = Count(ex[c].recv, {"data"}) + (IF "data" \in {"data"} THEN 1 ELSE 0)
            BY <1>3, <5>3, CountAppend
          <6> QED BY <5>2, <6>1
        <5>5. app[c].got + Count(ex'[c].recv, {"data"}) = app[c].got + Count(ex[c].recv, {"data"})
          BY <2>3, <5>2 DEF Passed
        <5> QED BY <1>3, <5>4, <5>5
      <4>4. Same
        BY <1>1, <3>3, <4>1, <4>2, <4>3 DEF Steps, Rests, Sleeps, RefuseHead, FinishRequest, AwaitData, DataWake
      <4> QED BY <3>1, <4>4
    <3> QED BY <3>2, <3>3
  <2>5. /\ ~app[c].whole /\ ~Has(ex[c].recv, {"end"})
        /\ Passed(c) = Cardinality(Units(c) \ (taken \cup Rest))
    BY <2>1, <2>2, <2>4 DEF Passing
  <2> QED BY <2>3, <2>4, <2>5
<1> QED BY <1>1, <1>5, <1>6, <1>7, BodyMoves

-----------------------------------------------------------------------------
\* What is left of an answer.

\* An answer that was not started has only interim answers before it.
LEMMA OnlyInterims ==
    ASSUME NEW L \in Seq(Messages), NEW w, NEW r, Opening(L, w, r), ~r.started
    PROVE  ~w.started /\ Interims(L)
<1>1. ~w.started /\ \A k \in DOMAIN L : L[k].kind # "start"
  BY DEF Opening
<1>2. DOMAIN L = 1 .. Len(L) /\ Len(L) \in Nat
  BY LenProperties
<1>3. ASSUME NEW k \in DOMAIN L PROVE L[k].kind = "interim"
  <2>1. L[k] \in Messages
    BY <1>2, ElementOfSeq
  <2>2. L[k].kind \in {"start", "body", "trailers", "interim"}
    BY <2>1, KindsOfMessages
  <2>3. L[k].kind \notin {"body", "trailers"}
    <3>1. \A j \in 1 .. k - 1 : j \in DOMAIN L
      BY <1>2
    <3> QED BY <1>1, <3>1 DEF Opening
  <2> QED BY <1>1, <2>2, <2>3
<1> QED BY <1>1, <1>3 DEF Interims

\* The writer takes the first message.
LEMMA OpeningTail ==
    ASSUME NEW L \in Seq(Messages), L # <<>>, NEW w, NEW r, Opening(L, w, r),
           NEW v, v.started \in BOOLEAN, v.started <=> w.started \/ L[1].kind = "start",
           NEW e, e.started = r.started, r.started \in BOOLEAN
    PROVE  Opening(Tail(L), v, e)
<1> DEFINE T == Tail(L)
<1>1. /\ Len(L) \in Nat \ {0} /\ DOMAIN L = 1 .. Len(L)
      /\ DOMAIN T = 1 .. Len(L) - 1
      /\ \A k \in 1 .. Len(L) - 1 : T[k] = L[k + 1]
  BY TailPoints
<1> HIDE DEF T
<1>2. 1 \in DOMAIN L /\ \A k \in DOMAIN T : /\ k \in Nat /\ k >= 1 /\ k + 1 \in DOMAIN L /\ T[k] = L[k + 1]
                                            /\ 1 \in 1 .. (k + 1) - 1
  BY <1>1
<1>3. \A k \in DOMAIN L : k = 1 \/ (k - 1 \in DOMAIN T /\ T[k - 1] = L[k])
  BY <1>1
<1>4. e.started <=> v.started \/ \E k \in DOMAIN T : T[k].kind = "start"
  <2>1. (\E k \in DOMAIN L : L[k].kind = "start")
          <=> L[1].kind = "start" \/ \E k \in DOMAIN T : T[k].kind = "start"
    BY <1>2, <1>3
  <2>2. r.started <=> w.started \/ \E k \in DOMAIN L : L[k].kind = "start"
    BY DEF Opening
  <2> QED BY <2>1, <2>2
<1>5. ASSUME NEW k \in DOMAIN T, T[k].kind \in {"interim", "start"}
      PROVE  ~v.started /\ \A j \in 1 .. k - 1 : T[j].kind = "interim"
  <2>1. ~w.started /\ \A j \in 1 .. (k + 1) - 1 : L[j].kind = "interim"
    BY <1>2, <1>5 DEF Opening
  <2>2. L[1].kind = "interim"
    BY <1>2, <2>1
  <2>3. \A j \in 1 .. k - 1 : j \in DOMAIN T /\ j + 1 \in 1 .. (k + 1) - 1
    BY <1>1, <1>2
  <2>4. \A j \in 1 .. k - 1 : T[j].kind = "interim"
    BY <1>2, <2>1, <2>3
  <2> QED BY <2>1, <2>2, <2>4
<1>6. ASSUME NEW k \in DOMAIN T, T[k].kind \in {"body", "trailers"}
      PROVE  v.started \/ \E j \in 1 .. k - 1 : T[j].kind = "start"
  <2>1. w.started \/ \E j \in 1 .. (k + 1) - 1 : L[j].kind = "start"
    BY <1>2, <1>6 DEF Opening
  <2>2. ASSUME NEW j \in 1 .. (k + 1) - 1, L[j].kind = "start", j # 1
        PROVE  \E n \in 1 .. k - 1 : T[n].kind = "start"
    <3>1. j \in DOMAIN L /\ j - 1 \in 1 .. k - 1
      BY <1>1, <1>2, <2>2
    <3> QED BY <1>3, <2>2, <3>1
  <2> QED BY <2>1, <2>2
<1>7. Opening(T, v, e)
  BY <1>4, <1>5, <1>6 DEF Opening
<1> QED BY <1>7 DEF T

\* A message is added behind the others, in its place.
LEMMA OpeningAppend ==
    ASSUME NEW L \in Seq(Messages), NEW m \in Messages, NEW w, NEW r, Opening(L, w, r),
           NEW e, e.started \in BOOLEAN, r.started \in BOOLEAN, w.started \in BOOLEAN,
           e.started <=> r.started \/ m.kind = "start",
           m.kind \in {"interim", "start"} => ~r.started,
           m.kind \in {"body", "trailers"} => r.started
    PROVE  Opening(Append(L, m), w, e)
<1> DEFINE T == Append(L, m)
           n == Len(L)
<1>1. /\ n \in Nat /\ DOMAIN L = 1 .. n /\ DOMAIN T = 1 .. n + 1
      /\ T[n + 1] = m /\ \A k \in DOMAIN L : T[k] = L[k]
  BY MoreOnLine
<1>2. m.kind \in {"start", "body", "trailers", "interim"}
  BY KindsOfMessages
<1>3. m.kind \in {"interim", "start"} => ~w.started /\ Interims(L)
  BY OnlyInterims
<1> HIDE DEF T, n
<1>4. \A k \in DOMAIN T : k \in DOMAIN L \/ k = n + 1
  BY <1>1
<1>5. n + 1 \in DOMAIN T /\ DOMAIN L \subseteq DOMAIN T
  BY <1>1
<1>6. e.started <=> w.started \/ \E k \in DOMAIN T : T[k].kind = "start"
  <2>1. (\E k \in DOMAIN T : T[k].kind = "start")
          <=> m.kind = "start" \/ \E k \in DOMAIN L : L[k].kind = "start"
    BY <1>1, <1>4, <1>5
  <2>2. r.started <=> w.started \/ \E k \in DOMAIN L : L[k].kind = "start"
    BY DEF Opening
  <2> QED BY <2>1, <2>2
<1>7. ASSUME NEW k \in DOMAIN T, T[k].kind \in {"interim", "start"}
      PROVE  ~w.started /\ \A j \in 1 .. k - 1 : T[j].kind = "interim"
  <2>1. \A j \in 1 .. k - 1 : j \in DOMAIN L
    BY <1>1
  <2>2. CASE k \in DOMAIN L
    <3>1. ~w.started /\ \A j \in 1 .. k - 1 : L[j].kind = "interim"
      BY <1>1, <1>7, <2>2 DEF Opening
    <3> QED BY <1>1, <2>1, <3>1
  <2>3. CASE k = n + 1
    <3>1. ~w.started /\ Interims(L)
      BY <1>1, <1>3, <1>7, <2>3
    <3> QED BY <1>1, <2>1, <3>1 DEF Interims
  <2> QED BY <1>4, <2>2, <2>3
<1>8. ASSUME NEW k \in DOMAIN T, T[k].kind \in {"body", "trailers"}
      PROVE  w.started \/ \E j \in 1 .. k - 1 : T[j].kind = "start"
  <2>1. \A j \in 1 .. k - 1 : j \in DOMAIN L
    BY <1>1
  <2>2. CASE k \in DOMAIN L
    <3>1. w.started \/ \E j \in 1 .. k - 1 : L[j].kind = "start"
      BY <1>1, <1>8, <2>2 DEF Opening
    <3> QED BY <1>1, <2>1, <3>1
  <2>3. CASE k = n + 1
    <3>1. w.started \/ \E j \in DOMAIN L : L[j].kind = "start"
      BY <1>1, <1>8, <2>3 DEF Opening
    <3>2. \A j \in DOMAIN L : j \in 1 .. k - 1
      BY <1>1, <2>3
    <3> QED BY <1>1, <3>1, <3>2
  <2> QED BY <1>4, <2>2, <2>3
<1>9. Opening(T, w, e)
  BY <1>6, <1>7, <1>8 DEF Opening
<1> QED BY <1>9 DEF T

\* The rest of a line without its first message, as far as the end is told.
LEMMA StoppingTail ==
    ASSUME NEW L \in Seq(Messages), L # <<>>, NEW w, NEW v, NEW r, NEW e, NEW a,
           Stopping(L, w, r, a), e.bodyEnded = r.bodyEnded,
           Closed(v) => Closed(w) \/ L[1] \in Stops
    PROVE  Stopping(Tail(L), v, e, a)
<1>1. /\ DOMAIN L = 1 .. Len(L) /\ Len(L) \in Nat \ {0} /\ DOMAIN Tail(L) = 1 .. Len(L) - 1
      /\ \A k \in 1 .. Len(L) - 1 : Tail(L)[k] = L[k + 1]
  BY TailPoints
<1>2. 1 \in DOMAIN L /\ \A k \in DOMAIN Tail(L) : k + 1 \in DOMAIN L /\ Tail(L)[k] = L[k + 1]
  BY <1>1
<1>3. Has(Tail(L), Stops) => Has(L, Stops)
  BY <1>2 DEF Has
<1>4. L[1] \in Stops => Has(L, Stops)
  BY <1>2 DEF Has
<1> QED BY <1>3, <1>4 DEF Stopping

\* The rest of a line without its first message, as to its trailers.
LEMMA TrailersLastTail ==
    ASSUME NEW L \in Seq(Messages), L # <<>>, NEW w, NEW v, NEW r, NEW e,
           TrailersLast(L, w, r), e.bodyEnded = r.bodyEnded, e.announced = r.announced,
           Closed(w) \/ L[1] \in Final => Closed(v)
    PROVE  TrailersLast(Tail(L), v, e)
<1> DEFINE T == Tail(L)
<1>1. /\ Len(L) \in Nat \ {0} /\ DOMAIN L = 1 .. Len(L) /\ DOMAIN T = 1 .. Len(L) - 1
      /\ \A k \in 1 .. Len(L) - 1 : T[k] = L[k + 1]
  BY TailPoints
<1> HIDE DEF T
<1>2. \A k \in DOMAIN L : k = 1 \/ (k - 1 \in DOMAIN T /\ T[k - 1] = L[k])
  BY <1>1
<1>3. \A k \in DOMAIN T : k + 1 \in DOMAIN L /\ T[k] = L[k + 1]
  BY <1>1
<1> SUFFICES ASSUME Careful
             PROVE  /\ e.bodyEnded /\ e.announced => Closed(v) \/ Has(T, Final)
                    /\ \A k \in DOMAIN T : T[k] = Trailers =>
                          Closed(v) \/ \E j \in 1 .. k - 1 : T[j] \in Final
  BY DEF TrailersLast, T
<1>4. Has(L, Final) => L[1] \in Final \/ Has(T, Final)
  BY <1>2 DEF Has
<1>5. e.bodyEnded /\ e.announced => Closed(v) \/ Has(T, Final)
  BY <1>4 DEF TrailersLast
<1>6. ASSUME NEW k \in DOMAIN T, T[k] = Trailers, ~Closed(v)
      PROVE  \E j \in 1 .. k - 1 : T[j] \in Final
  <2>1. PICK j \in 1 .. (k + 1) - 1 : L[j] \in Final
    BY <1>3, <1>6 DEF TrailersLast
  <2>2. j \in DOMAIN L /\ j # 1
    BY <1>1, <1>6, <2>1
  <2>3. j - 1 \in 1 .. k - 1
    BY <1>1, <2>1, <2>2
  <2> QED BY <1>2, <2>1, <2>2, <2>3
<1> QED BY <1>5, <1>6

\* A message behind the others changes what is before it in no respect.
LEMMA TrailersLastAppend ==
    ASSUME NEW L \in Seq(Messages), NEW m \in Messages, NEW w, NEW r, NEW e,
           TrailersLast(L, w, r),
           Careful /\ e.bodyEnded /\ e.announced => (r.bodyEnded /\ r.announced) \/ m \in Final,
           Careful /\ m = Trailers => r.bodyEnded /\ r.announced
    PROVE  TrailersLast(Append(L, m), w, e)
<1> DEFINE T == Append(L, m)
           n == Len(L)
<1>1. /\ n \in Nat /\ DOMAIN L = 1 .. n /\ DOMAIN T = 1 .. n + 1
      /\ T[n + 1] = m /\ \A k \in DOMAIN L : T[k] = L[k]
      /\ Has(T, Final) <=> Has(L, Final) \/ m \in Final
  BY MoreOnLine
<1> HIDE DEF T, n
<1> SUFFICES ASSUME Careful
             PROVE  /\ e.bodyEnded /\ e.announced => Closed(w) \/ Has(T, Final)
                    /\ \A k \in DOMAIN T : T[k] = Trailers =>
                          Closed(w) \/ \E j \in 1 .. k - 1 : T[j] \in Final
  BY DEF TrailersLast, T
<1>2. e.bodyEnded /\ e.announced => Closed(w) \/ Has(T, Final)
  BY <1>1 DEF TrailersLast
<1>3. ASSUME NEW k \in DOMAIN T, T[k] = Trailers, ~Closed(w)
      PROVE  \E j \in 1 .. k - 1 : T[j] \in Final
  <2>1. CASE k \in DOMAIN L
    <3>1. PICK j \in 1 .. k - 1 : L[j] \in Final
      BY <1>1, <1>3, <2>1 DEF TrailersLast
    <3>2. j \in DOMAIN L
      BY <1>1, <2>1, <3>1
    <3> QED BY <1>1, <3>1, <3>2
  <2>2. CASE k = n + 1
    <3>1. Has(L, Final)
      BY <1>1, <1>3, <2>2 DEF TrailersLast
    <3>2. PICK j \in DOMAIN L : L[j] \in Final
      BY <3>1 DEF Has
    <3>3. j \in 1 .. k - 1
      BY <1>1, <2>2, <3>2
    <3> QED BY <1>1, <3>2, <3>3
  <2> QED BY <1>1, <2>1, <2>2
<1> QED BY <1>2, <1>3

-----------------------------------------------------------------------------
\* How far a writer is.

\* The sequences of items that are ever to be written.
LEMMA Items ==
    /\ <<"data">> \o <<"data">> = <<"data", "data">> /\ <<"data">> \o <<"end">> = <<"data", "end">>
    /\ <<>> \o <<>> = <<>> /\ <<>> \o <<"data">> = <<"data">> /\ <<>> \o <<"end">> = <<"end">>
    /\ <<"data">> \o <<>> = <<"data">> /\ <<"end">> \o <<>> = <<"end">>
    /\ Tail(<<"head">>) = <<>> /\ Tail(<<"interim">>) = <<>> /\ Tail(<<"data">>) = <<>>
    /\ Tail(<<"end">>) = <<>> /\ Tail(<<"data", "data">>) = <<"data">> /\ Tail(<<"data", "end">>) = <<"end">>
    /\ Head(<<"head">>) = "head" /\ Head(<<"interim">>) = "interim" /\ Head(<<"data">>) = "data"
    /\ Head(<<"end">>) = "end" /\ Head(<<"data", "data">>) = "data" /\ Head(<<"data", "end">>) = "data"
    /\ <<"head">> # <<>> /\ <<"interim">> # <<>> /\ <<"data">> # <<>> /\ <<"end">> # <<>>
    /\ <<"data", "data">> # <<>> /\ <<"data", "end">> # <<>>
    /\ <<"data", "data">> # <<"head">> /\ <<"data", "end">> # <<"head">>
    /\ <<"data">> # <<"head">> /\ <<"end">> # <<"head">> /\ <<"interim">> # <<"head">>
<1>1. <<"data">> \o <<"data">> = <<"data", "data">> /\ <<"data">> \o <<"end">> = <<"data", "end">>
  <2> DEFINE Parts == {"data", "end"}
  <2>1. "data" \in Parts /\ "end" \in Parts
    OBVIOUS
  <2> HIDE DEF Parts
  <2>2. \A a \in Parts, b \in Parts : <<a>> \o <<b>> = <<a, b>>
    BY Pair
  <2> QED BY <2>1, <2>2
<1>2. /\ <<>> \o <<>> = <<>> /\ <<>> \o <<"data">> = <<"data">> /\ <<>> \o <<"end">> = <<"end">>
      /\ <<"data">> \o <<>> = <<"data">> /\ <<"end">> \o <<>> = <<"end">>
  OBVIOUS
<1>3. /\ Tail(<<"head">>) = <<>> /\ Tail(<<"interim">>) = <<>> /\ Tail(<<"data">>) = <<>>
      /\ Tail(<<"end">>) = <<>>
  OBVIOUS
<1>4. Tail(<<"data", "data">>) = <<"data">> /\ Tail(<<"data", "end">>) = <<"end">>
  OBVIOUS
<1>5. /\ Head(<<"head">>) = "head" /\ Head(<<"interim">>) = "interim" /\ Head(<<"data">>) = "data"
      /\ Head(<<"end">>) = "end" /\ Head(<<"data", "data">>) = "data" /\ Head(<<"data", "end">>) = "data"
  OBVIOUS
<1>6. /\ <<"head">> # <<>> /\ <<"interim">> # <<>> /\ <<"data">> # <<>> /\ <<"end">> # <<>>
      /\ <<"data", "data">> # <<>> /\ <<"data", "end">> # <<>>
  OBVIOUS
<1>7. /\ <<"data", "data">> # <<"head">> /\ <<"data", "end">> # <<"head">>
      /\ <<"data">> # <<"head">> /\ <<"end">> # <<"head">> /\ <<"interim">> # <<"head">>
  OBVIOUS
<1> QED BY <1>1, <1>2, <1>3, <1>4, <1>5, <1>6, <1>7

\* A body message is taken.
LEMMA BodyTakenPhase ==
    ASSUME NEW w \in Writers, Phase(w), w.out = <<>>, w.started,
           NEW m \in Messages, m.kind = "body", w.framing # "none" => ~m.aborted
    PROVE  LET v == BodyTaken(w, m)
           IN  /\ v.started /\ v.framing = w.framing /\ v.aborted = w.aborted
               /\ v.out = <<>> \/ ~(v.framing = "none")
               /\ v.out = <<>> => v.framing # "chunked" \/ ~v.last
               /\ (v.out = <<>> => ~v.last) => Phase(v)
               /\ Closed(v) => Closed(w) \/ m \in Final \/ (v.framing = "none" /\ v.last)
               /\ Closed(w) => Closed(v)
               /\ m \in Final => Closed(v)
               /\ v.out # <<"head">>
               /\ w.framing = "length" /\ w.sent # Declared /\ v.sent = Declared => v.out = <<"end">>
<1> DEFINE over == w.framing = "length" /\ m.data /\ w.sent = Declared
           sent == IF m.data /\ ~over THEN w.sent + 1 ELSE w.sent
           data == IF ~m.data \/ over THEN <<>>
                   ELSE IF w.framing = "length" /\ sent = Declared THEN <<"end">>
                   ELSE <<"data">>
           tail == IF m.more \/ w.framing # "chunked" THEN <<>>
                   ELSE IF w.trailers THEN <<"data">> ELSE <<"end">>
           opens == ~m.more /\ w.framing = "chunked" /\ w.trailers
           v == BodyTaken(w, m)
<1>1. /\ m.data \in BOOLEAN /\ m.more \in BOOLEAN /\ (m \in Final <=> ~m.more /\ ~m.aborted)
      /\ m \in Messages
  BY KindsOfMessages
<1>2. /\ w.sent \in Nat /\ w.trailers \in BOOLEAN /\ w.awaiting \in BOOLEAN /\ Declared \in Nat
      /\ w.framing \in {"chunked", "length", "close", "none"} /\ ~w.last /\ ~w.aborted /\ w.last \in BOOLEAN
      /\ w.started \in BOOLEAN
      /\ w.awaiting => w.framing = "chunked"
  BY ConnectionAssumption DEF Writers, Framings, Phase
<1>3. CASE w.framing = "none"
  <2>1. v = [w EXCEPT !.last = ~m.more]
    BY <1>3 DEF BodyTaken
  <2>2. /\ v.started = w.started /\ v.framing = "none" /\ v.aborted = w.aborted /\ v.out = <<>>
        /\ v.last = ~m.more /\ v.awaiting = w.awaiting /\ v.sent = w.sent
    BY <1>3, <2>1 DEF Writers
  <2> HIDE DEF v
  <2>3. v.out \in Outs(v)
    BY <2>2 DEF Outs
  <2>4. ~v.last => Phase(v)
    BY <1>2, <1>3, <2>2, <2>3, Items DEF Phase
  <2> QED BY <1>1, <1>2, <1>3, <2>2, <2>4, Items DEF Closed, v
<1>4. CASE w.framing # "none"
  <2>1. v = [w EXCEPT !.sent = sent, !.out = data \o tail,
                       !.awaiting = w.awaiting \/ opens, !.last = ~m.more /\ ~opens]
    BY <1>4 DEF BodyTaken
  <2> DEFINE aw == w.awaiting \/ opens
             la == ~m.more /\ ~opens
             ou == data \o tail
  <2>2. sent \in Nat /\ aw \in BOOLEAN /\ la \in BOOLEAN /\ over \in BOOLEAN /\ opens \in BOOLEAN
    BY <1>1, <1>2
  <2>3. /\ v.started = w.started /\ v.framing = w.framing /\ v.aborted = w.aborted /\ v.out = ou
        /\ v.last = la /\ v.awaiting = aw /\ v.sent = sent
    <3> HIDE DEF sent, ou, aw, la, v
    <3> QED BY <2>1 DEF Writers, aw, ou, la
  <2> HIDE DEF v
  <2>4. ~m.more => aw \/ la
    BY <1>1, <1>2
  <2>5. aw \/ la => w.awaiting \/ ~m.more
    OBVIOUS
  <2>6. m \in Final <=> ~m.more
    BY <1>1, <1>4
  <2>7. /\ Closed(v) => Closed(w) \/ m \in Final
        /\ Closed(w) => Closed(v)
        /\ m \in Final => Closed(v)
    BY <1>2, <2>3, <2>4, <2>5, <2>6 DEF Closed
  <2>8. /\ ou \in (CASE w.framing = "chunked" ->
                            IF la THEN {<<"end">>, <<"data", "end">>}
                            ELSE {<<>>, <<"head">>, <<"data">>, <<"data", "data">>}
                      [] w.framing = "length" ->
                            IF sent = Declared THEN {<<>>, <<"end">>} ELSE {<<>>, <<"head">>, <<"data">>}
                      [] OTHER -> {<<>>, <<"head">>, <<"data">>})
        /\ ou # <<"head">>
        /\ w.framing = "length" /\ w.sent # Declared /\ sent = Declared => ou = <<"end">>
    <3>1. CASE w.framing = "chunked"
      <4>1. data \in {<<>>, <<"data">>}
        BY <1>1, <3>1
      <4>2. tail = (IF m.more THEN <<>> ELSE IF w.trailers THEN <<"data">> ELSE <<"end">>)
            /\ la = (~m.more /\ ~w.trailers)
        BY <1>1, <1>2, <3>1
      <4> HIDE DEF data, tail, la
      <4> QED BY <1>1, <1>2, <3>1, <4>1, <4>2, Items
    <3>2. CASE w.framing = "length"
      <4>1. tail = <<>>
        BY <3>2
      <4>2. /\ IF sent = Declared THEN data \in {<<>>, <<"end">>} ELSE data \in {<<>>, <<"data">>}
            /\ w.sent # Declared /\ sent = Declared => data = <<"end">>
        BY <1>1, <1>2, <3>2
      <4> HIDE DEF data, tail, sent
      <4> QED BY <3>2, <4>1, <4>2, Items
    <3>3. CASE w.framing = "close"
      <4>1. tail = <<>> /\ data \in {<<>>, <<"data">>}
        BY <1>1, <3>3
      <4> HIDE DEF data, tail
      <4> QED BY <3>3, <4>1, Items
    <3> QED BY <1>2, <1>4, <3>1, <3>2, <3>3
  <2> HIDE DEF sent, ou, la, data, tail
  <2>9. v.out \in Outs(v)
    BY <1>2, <1>4, <2>3, <2>8 DEF Outs
  <2>10. v.out = <<>> => v.framing # "chunked" \/ ~v.last
    BY <2>3, <2>8, Items
  <2>11. aw => w.framing = "chunked"
    BY <1>2
  <2>12. (v.out = <<>> => ~v.last) => Phase(v)
    <3> HIDE DEF aw
    <3> QED BY <1>2, <2>3, <2>8, <2>9, <2>11 DEF Phase
  <2> QED BY <1>4, <2>3, <2>7, <2>8, <2>10, <2>12 DEF v
<1> QED BY <1>3, <1>4

\* An item is written.
LEMMA WrittenPhase ==
    ASSUME NEW w \in Writers, Phase(w), w.out # <<>>,
           NEW v, v = [w EXCEPT !.out = Tail(w.out)]
    PROVE  /\ v.started = w.started /\ v.framing = w.framing /\ v.aborted = w.aborted
           /\ v.last = w.last /\ v.awaiting = w.awaiting /\ v.sent = w.sent
           /\ v.out = Tail(w.out)
           /\ (v.out = <<>> => ~v.last) => Phase(v)
           /\ Head(w.out) = "head" => w.out = <<"head">>
           /\ v.out # <<"head">>
           /\ Head(w.out) \in {"head", "end"} => v.out = <<>>
           /\ Head(w.out) = "interim" <=> ~w.started
           /\ w.last /\ w.framing = "chunked" /\ v.out = <<>> => Head(w.out) = "end"
           /\ w.framing = "length" /\ w.sent = Declared /\ w.started => Head(w.out) = "end"
           /\ Head(w.out) = "end" /\ w.framing # "length" => w.last
           /\ Head(w.out) = "end" /\ w.framing = "length" => w.sent = Declared
           /\ Head(w.out) = "end" => w.framing \in {"chunked", "length"}
<1>1. /\ v.started = w.started /\ v.framing = w.framing /\ v.aborted = w.aborted
      /\ v.last = w.last /\ v.awaiting = w.awaiting /\ v.sent = w.sent
      /\ v.out = Tail(w.out)
      /\ w.framing \in {"chunked", "length", "close", "none"}
  BY DEF Writers, Framings
<1>2. w.out \in Outs(w) /\ (w.out = <<"head">> => w.sent = 0 /\ ~w.last)
  BY DEF Phase
<1>3. CASE ~w.started
  <2>1. w.out = <<"interim">>
    BY <1>2, <1>3 DEF Outs
  <2>2. Tail(w.out) = <<>> /\ Head(w.out) = "interim" /\ v.out \in Outs(v)
    BY <1>1, <1>3, <2>1, Items DEF Outs
  <2>3. (v.out = <<>> => ~v.last) => Phase(v)
    BY <1>1, <2>2, Items DEF Phase
  <2> QED BY <1>1, <1>3, <2>2, <2>3, Items DEF Phase
<1>4. CASE w.started /\ w.framing = "chunked"
  <2>1. IF w.last THEN w.out \in {<<"end">>, <<"data", "end">>}
        ELSE w.out \in {<<"head">>, <<"data">>, <<"data", "data">>}
    BY <1>2, <1>4 DEF Outs
  <2>2. /\ IF w.last THEN Tail(w.out) \in {<<>>, <<"end">>}
           ELSE Tail(w.out) \in {<<>>, <<"data">>}
        /\ Head(w.out) \in {"head", "end"} => Tail(w.out) = <<>>
        /\ Head(w.out) = "head" => w.out = <<"head">>
        /\ w.last /\ Tail(w.out) = <<>> => Head(w.out) = "end"
        /\ Head(w.out) = "end" => w.last
        /\ Head(w.out) # "interim"
    BY <2>1, Items
  <2>3. (v.out = <<>> => ~v.last) => v.out \in Outs(v)
    <3>1. Outs(v) = IF w.last THEN {<<"end">>, <<"data", "end">>}
                    ELSE {<<>>, <<"head">>, <<"data">>, <<"data", "data">>}
      BY <1>1, <1>4 DEF Outs
    <3>2. w.last => Tail(w.out) \in {<<>>, <<"end">>}
      BY <2>2
    <3>3. ~w.last => Tail(w.out) \in {<<>>, <<"data">>}
      BY <2>2
    <3> QED BY <1>1, <3>1, <3>2, <3>3
  <2>4. v.out # <<"head">>
    BY <1>1, <2>2, Items
  <2>5. (v.out = <<>> => ~v.last) => Phase(v)
    BY <1>1, <1>4, <2>3, <2>4 DEF Phase
  <2> QED BY <1>1, <1>4, <2>2, <2>4, <2>5
<1>5. CASE w.started /\ w.framing = "length"
  <2>1. IF w.sent = Declared THEN w.out = <<"end">> ELSE w.out \in {<<"head">>, <<"data">>}
    BY <1>2, <1>5 DEF Outs
  <2>2. /\ Tail(w.out) = <<>>
        /\ Head(w.out) = "head" => w.out = <<"head">>
        /\ w.sent = Declared <=> Head(w.out) = "end"
        /\ Head(w.out) # "interim"
    BY <2>1, Items
  <2>3. v.out \in Outs(v) /\ v.out # <<"head">>
    <3>1. Outs(v) = IF w.sent = Declared THEN {<<>>, <<"end">>} ELSE {<<>>, <<"head">>, <<"data">>}
      BY <1>1, <1>5 DEF Outs
    <3> QED BY <1>1, <2>2, <3>1, Items
  <2>4. (v.out = <<>> => ~v.last) => Phase(v)
    BY <1>1, <1>5, <2>3 DEF Phase
  <2> QED BY <1>1, <1>5, <2>2, <2>3, <2>4
<1>6. CASE w.started /\ w.framing \in {"close", "none"}
  <2>1. w.out \in {<<"head">>, <<"data">>}
    BY <1>2, <1>6 DEF Outs
  <2>2. /\ Tail(w.out) = <<>>
        /\ Head(w.out) = "head" => w.out = <<"head">>
        /\ Head(w.out) # "interim" /\ Head(w.out) # "end"
    BY <2>1, Items
  <2>3. v.out \in Outs(v) /\ v.out # <<"head">>
    <3>1. Outs(v) = IF w.framing = "close" THEN {<<>>, <<"head">>, <<"data">>} ELSE {<<>>, <<"head">>}
      BY <1>1, <1>6 DEF Outs
    <3> QED BY <1>1, <2>2, <3>1, Items
  <2>4. (v.out = <<>> => ~v.last) => Phase(v)
    BY <1>1, <1>6, <2>3 DEF Phase
  <2> QED BY <1>1, <1>6, <2>2, <2>3, <2>4
<1> QED BY <1>1, <1>3, <1>4, <1>5, <1>6

-----------------------------------------------------------------------------
\* The answer to a request, while its writer goes on.

\* What is to be said of a line hangs on little of the exchange and the
\* application.
LEMMA HoldsAlike ==
    ASSUME NEW L, NEW w, NEW v, NEW r, NEW e, NEW a, NEW b, Holds(L, w, r, a),
           SameFlags(r, e), b.gaveUp = a.gaveUp, b.over = a.over,
           v.started = w.started, v.awaiting = w.awaiting, v.last = w.last
    PROVE  Holds(L, v, e, b)
BY DEF Holds, Opening, Stopping, TrailersLast, SameFlags, Closed

\* A step that leaves the writer, the line and what was said of the answer.
LEMMA AnsweringKept ==
    ASSUME NEW i \in Requests, Answering(i), SameWriter(i), SameFlags(ex[i], ex'[i]),
           ex'[i].finished = ex[i].finished, ex'[i].send = ex[i].send,
           app'[i].todo = app[i].todo, app'[i].gaveUp = app[i].gaveUp, app'[i].over = app[i].over
    PROVE  Answering(i)'
<1> SUFFICES ASSUME Writing(i)'
             PROVE  IF ex'[i].finished THEN ~writer'.started /\ Interims(Line(i)')
                    ELSE Holds(Line(i)', writer', ex'[i], app'[i])
  BY DEF Answering
<1>1. Writing(i) /\ writer' = writer /\ Line(i)' = Line(i)
  BY DEF SameWriter, Line
<1>2. CASE ex[i].finished
  BY <1>1, <1>2 DEF Answering
<1>3. CASE ~ex[i].finished
  <2>1. Holds(Line(i), writer, ex[i], app[i])
    BY <1>1, <1>3 DEF Answering
  <2> QED BY <1>1, <1>3, <2>1, HoldsAlike
<1> QED BY <1>2, <1>3

\* The line of a request is one of messages.
LEMMA LineTyped ==
    ASSUME NEW i \in Requests, TypedAt(i)
    PROVE  Line(i) \in Seq(Messages) /\ ex[i].send \in Seq(Messages) /\ app[i].todo \in Seq(Messages)
<1>1. ex[i].send \in Seq(Messages) /\ app[i].todo \in Seq(Messages)
  BY DEF TypedAt, Exchanges, Apps
<1> QED BY <1>1, ConcatProperties DEF Line

\* What a writer makes of a message of its line.
Takings(w, m, v) ==
    /\ v.started = (w.started \/ m.kind = "start")
    /\ v.framing = IF m.kind = "start" THEN m.framing ELSE w.framing
    /\ Closed(v) => Closed(w) \/ m \in Stops
    /\ Closed(w) \/ m \in Final => Closed(v)
    /\ IF m.kind = "start" THEN ~w.started ELSE v.out # <<"head">>
    /\ w.started /\ v.framing = "length" /\ w.sent # Declared /\ v.sent = Declared => v.out = <<"end">>
    /\ Phase(v)

\* The writer takes a message and goes on.
LEMMA TakesOn ==
    ASSUME NEW i \in Requests, TypedAt(i), NEW w \in Writers, NEW r \in Exchanges,
           writer \in Writers, Phase(writer), writer.out = <<>>,
           NEW m \in Messages, Reached(i, m, w, r), w.out = <<>> => ~w.last,
           m.kind \in {"body", "trailers"} => writer.started,
           m.kind \in {"interim", "start"} => ~writer.started
    PROVE  Takings(writer, m, w)
<1>1. /\ ~writer.last /\ ~writer.aborted /\ writer.started \in BOOLEAN
      /\ writer.awaiting => writer.framing = "chunked"
      /\ ~writer.started => writer.framing = "none" /\ writer.sent = 0
  BY DEF Phase, Writers
<1>2. m.kind \in {"start", "body", "trailers", "interim"}
  BY KindsOfMessages
<1>3. CASE m.kind = "interim"
  <2>1. /\ w = [writer EXCEPT !.out = <<"interim">>] /\ m \notin Final
        /\ w.out = <<"interim">> /\ w.started = writer.started /\ w.framing = writer.framing
        /\ w.last = writer.last /\ w.awaiting = writer.awaiting /\ w.aborted = writer.aborted
        /\ w.sent = writer.sent
    BY <1>3 DEF Reached, Writers, Final
  <2>2. ~w.started /\ w.out # <<"head">>
    BY <1>3, <2>1, Items
  <2>3. Phase(w)
    BY <1>1, <2>1, <2>2, Items DEF Phase, Outs
  <2> QED BY <1>1, <1>3, <2>1, <2>2, <2>3 DEF Takings, Closed
<1>4. CASE m.kind = "start"
  <2> DEFINE tr == m.trailers /\ m.framing # "none"
  <2>0. m.framing \in {"chunked", "length", "close", "none"} /\ m.trailers \in BOOLEAN
    BY <1>4 DEF Messages, Framings, Interim, Trailers
  <2>1. /\ m \notin Final
        /\ w.out = <<"head">> /\ w.started /\ w.framing = m.framing
        /\ w.last = writer.last /\ w.awaiting = writer.awaiting /\ w.aborted = writer.aborted
        /\ w.sent = writer.sent
    <3>1. w = [writer EXCEPT !.started = TRUE, !.framing = m.framing, !.out = <<"head">>,
                             !.trailers = tr]
      BY <1>4 DEF Reached
    <3> HIDE DEF tr
    <3> QED BY <1>4, <3>1 DEF Writers, Final
  <2>2. w.sent = 0 /\ w.sent # Declared /\ ~writer.awaiting
    BY <1>1, <1>4, <2>1, ConnectionAssumption
  <2>3. w.out \in Outs(w)
    BY <1>1, <2>0, <2>1, <2>2 DEF Outs
  <2>4. Phase(w)
    BY <1>1, <2>1, <2>2, <2>3 DEF Phase
  <2> QED BY <1>1, <1>4, <2>1, <2>2, <2>4 DEF Takings, Closed
<1>5. CASE m.kind = "body"
  <2> DEFINE v == BodyTaken(writer, m)
  <2>1. w = v /\ writer.started /\ (writer.framing # "none" => ~m.aborted)
    BY <1>5 DEF Reached
  <2>2. /\ v.started /\ v.framing = writer.framing
        /\ v.out = <<>> \/ ~(v.framing = "none")
        /\ (v.out = <<>> => ~v.last) => Phase(v)
        /\ Closed(v) => Closed(writer) \/ m \in Final \/ (v.framing = "none" /\ v.last)
        /\ Closed(writer) => Closed(v)
        /\ m \in Final => Closed(v)
        /\ v.out # <<"head">>
        /\ writer.framing = "length" /\ writer.sent # Declared /\ v.sent = Declared => v.out = <<"end">>
    BY <1>5, <2>1, BodyTakenPhase
  <2> HIDE DEF v
  <2>3. Phase(w) /\ ~(w.framing = "none" /\ w.last)
    BY <2>1, <2>2
  <2> QED BY <1>5, <2>1, <2>2, <2>3 DEF Takings, Stops
<1>6. CASE m.kind = "trailers"
  <2>1. /\ m = Trailers /\ m \in Stops
    BY <1>6, KindsOfMessages DEF Stops
  <2>2. w = [writer EXCEPT !.last = TRUE, !.out = IF writer.awaiting THEN <<"end">> ELSE <<>>]
    BY <1>6 DEF Reached
  <2> DEFINE ou == IF writer.awaiting THEN <<"end">> ELSE <<>>
  <2>3. /\ w.out = ou /\ w.started = writer.started /\ w.framing = writer.framing /\ w.last
        /\ w.awaiting = writer.awaiting /\ w.aborted = writer.aborted /\ w.sent = writer.sent
    <3> HIDE DEF ou
    <3> QED BY <2>2 DEF Writers, ou
  <2>4. writer.awaiting /\ w.out = <<"end">> /\ w.framing = "chunked" /\ w.started
    BY <1>1, <1>6, <2>3
  <2>5. w.out \in Outs(w)
    BY <2>3, <2>4 DEF Outs
  <2>6. Phase(w)
    BY <1>1, <2>3, <2>4, <2>5, Items DEF Phase
  <2> QED BY <1>1, <1>6, <2>1, <2>3, <2>4, <2>6, Items DEF Takings, Closed
<1> QED BY <1>2, <1>3, <1>4, <1>5, <1>6

\* A writer that goes on keeps to its line.
LEMMA WroteAnswering ==
    ASSUME NEW i \in Requests, TypedAt(i), writer \in Writers, Phase(writer), Answering(i),
           Writing(i), NEW w \in Writers, NEW r \in Exchanges, WritesAs(i, w, r), GoesOn(i, w, r)
    PROVE  /\ Answering(i)' /\ Phase(w)
           /\ w.framing = "close" => writer.framing = "close" \/ ~r.keep
           /\ \/ /\ writer.out # <<>> /\ w = [writer EXCEPT !.out = Tail(writer.out)] /\ r = ex[i]
                 /\ Emit(Head(writer.out), i, writer.framing)
              \/ /\ writer.out = <<>> /\ UNCHANGED wire
                 /\ \E m \in Messages : Takings(writer, m, w) /\ Reached(i, m, w, r)
<1> DEFINE P == /\ Answering(i)' /\ Phase(w)
                /\ w.framing = "close" => writer.framing = "close" \/ ~r.keep
                /\ \/ /\ writer.out # <<>> /\ w = [writer EXCEPT !.out = Tail(writer.out)] /\ r = ex[i]
                      /\ Emit(Head(writer.out), i, writer.framing)
                   \/ /\ writer.out = <<>> /\ UNCHANGED wire
                      /\ \E m \in Messages : Takings(writer, m, w) /\ Reached(i, m, w, r)
<1>1. /\ writer' = w /\ ex'[i] = r /\ (w.out = <<>> => ~w.last) /\ app'[i] = app[i]
      /\ Acts(i, w, r) /\ SameFlags(ex[i], r) /\ SameState(ex[i], r)
  BY DEF WritesAs, GoesOn
<1>2. CASE writer.out # <<>>
  <2>1. w = [writer EXCEPT !.out = Tail(writer.out)] /\ r = ex[i]
        /\ Emit(Head(writer.out), i, writer.framing)
    BY <1>1, <1>2 DEF Acts
  <2>2. /\ w.started = writer.started /\ w.framing = writer.framing
        /\ w.last = writer.last /\ w.awaiting = writer.awaiting
        /\ Phase(w)
    BY <1>1, <1>2, <2>1, WrittenPhase
  <2>3. Line(i)' = Line(i) /\ ex'[i] = ex[i]
    BY <1>1, <2>1 DEF Line
  <2>4. Answering(i)'
    <3>1. CASE ex[i].finished
      BY <1>1, <2>2, <2>3, <3>1 DEF Answering
    <3>2. CASE ~ex[i].finished
      <4>1. Holds(Line(i), writer, ex[i], app[i]) /\ SameFlags(ex[i], ex[i])
        BY <3>2 DEF Answering, SameFlags
      <4>2. Holds(Line(i), w, ex[i], app[i])
        BY <2>2, <4>1, HoldsAlike
      <4> QED BY <1>1, <2>3, <3>2, <4>2 DEF Answering
    <3> QED BY <3>1, <3>2
  <2> QED BY <1>2, <2>1, <2>2, <2>4
<1>3. CASE writer.out = <<>>
  <2> DEFINE m == Head(ex[i].send)
             L == Line(i)
  <2>1. ex[i].send # <<>> /\ Reached(i, m, w, r) /\ UNCHANGED wire
    BY <1>1, <1>3 DEF Acts
  <2>2. /\ L \in Seq(Messages) /\ L # <<>> /\ 1 \in DOMAIN L
        /\ L[1] = m /\ m \in Messages /\ Tail(L) = Tail(ex[i].send) \o app[i].todo
    BY <2>1, LineHead
  <2>3. Line(i)' = Tail(L)
    BY <1>1, <2>1, <2>2 DEF Line, Reached
  <2> HIDE DEF m, L
  <2>4. CASE ex[i].finished
    <3>1. m.kind = "interim" /\ ~writer.started /\ Interims(L)
      BY <2>2, <2>4 DEF Answering, Interims, L
    <3>2. Takings(writer, m, w)
      BY <1>1, <1>3, <2>1, <2>2, <3>1, TakesOn
    <3>3. ~w.started /\ Phase(w) /\ w.framing = writer.framing
      BY <3>1, <3>2 DEF Takings
    <3>4. Interims(Tail(L))
      <4>1. /\ DOMAIN L = 1 .. Len(L) /\ Len(L) \in Nat \ {0} /\ DOMAIN Tail(L) = 1 .. Len(L) - 1
            /\ \A k \in 1 .. Len(L) - 1 : Tail(L)[k] = L[k + 1]
        BY <2>2, TailPoints
      <4>2. \A k \in DOMAIN Tail(L) : k + 1 \in DOMAIN L /\ Tail(L)[k] = L[k + 1]
        BY <4>1
      <4> QED BY <3>1, <4>2 DEF Interims
    <3>5. Answering(i)'
      BY <1>1, <2>3, <2>4, <3>3, <3>4 DEF Answering, SameState
    <3> QED BY <1>3, <2>1, <2>2, <3>2, <3>3, <3>5
  <2>5. CASE ~ex[i].finished
    <3>1. /\ Opening(L, writer, ex[i]) /\ Stopping(L, writer, ex[i], app[i])
          /\ TrailersLast(L, writer, ex[i])
      BY <2>5 DEF Answering, Holds, L
    <3>2. /\ m.kind \in {"body", "trailers"} => writer.started
          /\ m.kind \in {"interim", "start"} => ~writer.started
      <4>1. ~\E j \in 1 .. 1 - 1 : L[j].kind = "start"
        OBVIOUS
      <4> QED BY <2>2, <3>1, <4>1 DEF Opening
    <3>3. Takings(writer, m, w)
      BY <1>1, <1>3, <2>1, <2>2, <3>2, TakesOn
    <3>4. Opening(Tail(L), w, r)
      <4>1. /\ w.started \in BOOLEAN /\ r.started = ex[i].started /\ ex[i].started \in BOOLEAN
            /\ w.started <=> writer.started \/ L[1].kind = "start"
        BY <1>1, <2>2, <3>3 DEF Takings, Writers, SameFlags, TypedAt, Exchanges
      <4> QED BY <2>2, <3>1, <4>1, OpeningTail
    <3>5. Stopping(Tail(L), w, r, app[i])
      <4>1. r.bodyEnded = ex[i].bodyEnded /\ (Closed(w) => Closed(writer) \/ L[1] \in Stops)
        BY <1>1, <2>2, <3>3 DEF Takings, SameFlags
      <4> QED BY <2>2, <3>1, <4>1, StoppingTail
    <3>6. TrailersLast(Tail(L), w, r)
      <4>1. /\ r.bodyEnded = ex[i].bodyEnded /\ r.announced = ex[i].announced
            /\ Closed(writer) \/ L[1] \in Final => Closed(w)
        BY <1>1, <2>2, <3>3 DEF Takings, SameFlags
      <4> QED BY <2>2, <3>1, <4>1, TrailersLastTail
    <3>7. Answering(i)'
      BY <1>1, <2>3, <2>5, <3>4, <3>5, <3>6 DEF Answering, Holds, SameState
    <3>8. w.framing = "close" => writer.framing = "close" \/ ~r.keep
      BY <2>1, <3>3 DEF Takings, Reached
    <3> QED BY <1>3, <2>1, <2>2, <3>3, <3>7, <3>8 DEF Takings
  <2> QED BY <2>4, <2>5
<1> QED BY <1>2, <1>3

\* A message is queued behind the line.
LEMMA HoldsAppend ==
    ASSUME NEW L \in Seq(Messages), NEW m \in Messages, NEW w, NEW r, NEW e, NEW a, NEW b,
           Holds(L, w, r, a),
           e.started \in BOOLEAN, r.started \in BOOLEAN, w.started \in BOOLEAN,
           e.started <=> r.started \/ m.kind = "start",
           m.kind \in {"interim", "start"} => ~r.started,
           m.kind \in {"body", "trailers"} => r.started,
           r.bodyEnded => e.bodyEnded, a.over => b.over,
           b.gaveUp => ~(Closed(w) \/ Has(L, Stops)) \/ a.gaveUp,
           m \in Stops => ~b.gaveUp /\ (e.bodyEnded \/ b.over),
           Careful /\ e.bodyEnded /\ e.announced => (r.bodyEnded /\ r.announced) \/ m \in Final,
           Careful /\ m = Trailers => r.bodyEnded /\ r.announced
    PROVE  Holds(Append(L, m), w, e, b)
<1>1. Opening(L, w, r) /\ Stopping(L, w, r, a) /\ TrailersLast(L, w, r)
  BY DEF Holds
<1>2. Opening(Append(L, m), w, e)
  BY <1>1, OpeningAppend
<1>3. TrailersLast(Append(L, m), w, e)
  BY <1>1, TrailersLastAppend
<1>4. Stopping(Append(L, m), w, e, b)
  <2>1. Has(Append(L, m), Stops) <=> Has(L, Stops) \/ m \in Stops
    BY MoreOnLine
  <2> QED BY <1>1, <2>1 DEF Stopping
<1> QED BY <1>2, <1>3, <1>4 DEF Holds

\* What is said of the tasks of a request that is being answered.
LEMMA AtWork ==
    ASSUME NEW i \in Requests, TypedAt(i), Sides(i), Answering(i), Writing(i), app[i].pc = "run",
           ~ex[i].finished
    PROVE  /\ ~app[i].over /\ ~app[i].gaveUp /\ app[i].todo = <<>> /\ ~ex[i].complete
           /\ Line(i) = ex[i].send /\ Holds(ex[i].send, writer, ex[i], app[i])
           /\ ~ex[i].started => ~ex[i].announced /\ ~ex[i].bodyEnded
<1>1. /\ ~app[i].over /\ ~app[i].gaveUp /\ app[i].todo = <<>> /\ ~ex[i].complete
      /\ ~ex[i].started => ~ex[i].announced /\ ~ex[i].bodyEnded
  BY DEF Sides
<1>2. Line(i) = ex[i].send
  BY <1>1, LineTyped, ConcatEmptySeq DEF Line
<1> QED BY <1>1, <1>2 DEF Answering

\* An application sends a message in its turn ...
LEMMA SendsAnswering ==
    ASSUME NEW i \in Requests, TypedAt(i), Sides(i), Answering(i), Writing(i), writer \in Writers,
           ~ex[i].finished, NEW m \in Says[i], app[i].pc = "run",
           InPlace(ex[i], m), InTurn(ex[i], m),
           Queueing(i, Noted(ex[i], m), <<m>>, [app[i] EXCEPT !.sends = app[i].sends + 1])
    PROVE  ~ex'[i].finished /\ Holds(Line(i)', writer, ex'[i], app'[i])
<1> DEFINE w == writer
           r == ex[i]
           e == Noted(ex[i], m)
           a == app[i]
           b == [app[i] EXCEPT !.sends = app[i].sends + 1]
           L == ex[i].send
<1>1. /\ ~a.over /\ ~a.gaveUp /\ Holds(L, w, r, a) /\ r \in Exchanges /\ a \in Apps
      /\ L \in Seq(Messages) /\ m \in Messages /\ <<m>> \in Seq(Messages)
      /\ w.started \in BOOLEAN /\ Len(L) <= SendMax
  BY AtWork, LineTyped, RequestsAre, Pair DEF TypedAt, Writers
<1>2. b \in Apps /\ b.over = a.over /\ b.gaveUp = a.gaveUp
  BY <1>1, SMTT(30) DEF Apps
<1>3. e \in Exchanges /\ e.send = L /\ ~e.finished /\ SameState(r, e)
  BY <1>1, NotedActs DEF SameState
<1>4. /\ Line(i)' = Append(L, m) /\ SameFlags(e, ex'[i]) /\ ~ex'[i].finished
      /\ app'[i].over = a.over /\ app'[i].gaveUp = a.gaveUp
  <2>1. Line(i)' = L \o <<m>> /\ SameFlags(e, ex'[i])
        /\ app'[i].over = b.over /\ app'[i].gaveUp = b.gaveUp
    <3>1. Queueing(i, e, <<m>>, b)
      OBVIOUS
    <3> HIDE DEF e, b
    <3> QED BY <1>1, <1>2, <1>3, <3>1, QueuedLine
  <2>2. L \o <<m>> = Append(L, m)
    BY <1>1, AppendIsConcat
  <2>3. ex'[i] = Enqueued(e, <<m>>)
    BY DEF Queueing
  <2>4. ~ex'[i].finished
    <3> HIDE DEF e
    <3>1. SameState(e, Enqueued(e, <<m>>))
      BY <1>3, QueueKeeps
    <3> QED BY <1>3, <2>3, <3>1 DEF SameState
  <2> QED BY <1>2, <2>1, <2>2, <2>4
<1>5. InPlace(r, m) /\ InTurn(r, m)
  OBVIOUS
<1>6. Holds(Append(L, m), w, e, a)
  <2>1. /\ m.kind \in {"start", "body", "trailers", "interim"}
        /\ r.started \in BOOLEAN /\ e.started \in BOOLEAN /\ e.bodyEnded \in BOOLEAN /\ r.bodyEnded \in BOOLEAN
        /\ r.bodyEnded => e.bodyEnded
        /\ (~r.started => ~r.announced /\ ~r.bodyEnded)
    BY <1>1, <1>3, KindsOfMessages, NotedActs, AtWork DEF Exchanges
  <2>2. CASE m.kind = "interim"
    <3>1. e = r /\ ~r.started /\ m \notin Stops /\ m # Trailers
      BY <1>1, <1>5, <2>2, KindsOfMessages DEF Noted, InTurn, Stops, Final
    <3> HIDE DEF e
    <3> QED BY <1>1, <2>1, <2>2, <3>1, HoldsAppend
  <2>3. CASE m.kind = "start"
    <3>1. ~r.started /\ ~r.bodyEnded
      BY <1>5, <2>1, <2>3 DEF InPlace
    <3>2. e.started /\ e.bodyEnded = r.bodyEnded
      BY <1>1, <2>3, NotedFlags
    <3>3. m \notin Stops /\ m # Trailers
      BY <1>1, <2>3, KindsOfMessages DEF Stops, Final
    <3> HIDE DEF e
    <3> QED BY <1>1, <2>1, <2>3, <3>1, <3>2, <3>3, HoldsAppend
  <2>4. CASE m.kind = "body"
    <3>1. r.started /\ ~r.bodyEnded
      BY <1>5, <2>4 DEF InPlace, InTurn
    <3>2. /\ e.started = r.started /\ e.announced = r.announced
          /\ e.bodyEnded <=> r.bodyEnded \/ m \in Final
      BY <1>1, <2>4, NotedFlags
    <3>3. m # Trailers /\ (m \in Stops <=> m \in Final)
      BY <1>1, <2>4, KindsOfMessages DEF Stops
    <3> HIDE DEF e
    <3> QED BY <1>1, <2>1, <2>4, <3>1, <3>2, <3>3, HoldsAppend
  <2>5. CASE m.kind = "trailers"
    <3>1. r.started /\ r.announced /\ (Careful => r.bodyEnded)
      BY <1>5, <2>5 DEF InPlace, InTurn
    <3>2. e.started = r.started /\ e.announced = r.announced /\ e.bodyEnded
      BY <1>1, <2>5, NotedFlags
    <3> HIDE DEF e
    <3> QED BY <1>1, <2>1, <2>5, <3>1, <3>2, HoldsAppend
  <2> QED BY <2>1, <2>2, <2>3, <2>4, <2>5
<1>7. Holds(Append(L, m), w, ex'[i], app'[i])
  <2> HIDE DEF e
  <2> QED BY <1>4, <1>6, HoldsAlike
<1> QED BY <1>4, <1>7

\* ... and whatever run_app sends when it ends.
LEMMA EndsAnswering ==
    ASSUME NEW i \in Requests, TypedAt(i), Sides(i), Answering(i), Writing(i), writer \in Writers,
           ~ex[i].finished, NEW how \in Endings, app[i].pc = "run", MayEnd(ex[i], how),
           NEW up \in BOOLEAN, up <=> how # "return" /\ ex[i].started /\ ~ex[i].bodyEnded,
           Queueing(i, Ended(ex[i], how), LastWords(ex[i], how),
                    [app[i] EXCEPT !.over = TRUE, !.gaveUp = up])
    PROVE  ~ex'[i].finished /\ Holds(Line(i)', writer, ex'[i], app'[i])
<1> DEFINE w == writer
           r == ex[i]
           e == Ended(ex[i], how)
           a == app[i]
           b == [app[i] EXCEPT !.over = TRUE, !.gaveUp = up]
           L == ex[i].send
           todo == LastWords(ex[i], how)
           R == L \o todo
<1>1. /\ ~a.over /\ ~a.gaveUp /\ Holds(L, w, r, a) /\ r \in Exchanges /\ a \in Apps
      /\ L \in Seq(Messages) /\ todo \in Seq(Messages) /\ ~r.complete
      /\ w.started \in BOOLEAN /\ Len(L) <= SendMax
      /\ ~r.started => ~r.announced /\ ~r.bodyEnded
  BY AtWork, LineTyped, LastWordsAreMessages DEF TypedAt, Writers
<1>2. b \in Apps /\ b.over /\ b.gaveUp = up
  BY <1>1 DEF Apps
<1>3. /\ e \in Exchanges /\ e.send = L /\ ~e.finished
      /\ e.started <=> r.started \/ todo # <<>>
      /\ e.announced = r.announced /\ e.bodyEnded = r.bodyEnded
  <2>1. /\ e \in Exchanges /\ SameState(r, e) /\ e.send = L
        /\ e.started = (r.started \/ todo # <<>>)
        /\ e.announced = r.announced /\ e.bodyEnded = r.bodyEnded
    BY <1>1, EndedActs
  <2> HIDE DEF e, todo
  <2>2. e.started <=> r.started \/ todo # <<>>
    BY <2>1
  <2> QED BY <2>1, <2>2 DEF SameState
<1>4. /\ Line(i)' = R /\ SameFlags(e, ex'[i]) /\ ~ex'[i].finished
      /\ app'[i].over = b.over /\ app'[i].gaveUp = b.gaveUp
  <2>1. Queueing(i, e, todo, b)
    OBVIOUS
  <2> HIDE DEF e, b, todo
  <2>2. Line(i)' = R /\ SameFlags(e, ex'[i])
        /\ app'[i].over = b.over /\ app'[i].gaveUp = b.gaveUp
    BY <1>1, <1>2, <1>3, <2>1, QueuedLine
  <2>3. ~ex'[i].finished
    <3>1. ex'[i] = Enqueued(e, todo)
      BY <2>1 DEF Queueing
    <3>2. SameState(e, Enqueued(e, todo))
      BY <1>3, QueueKeeps
    <3> QED BY <1>3, <3>1, <3>2 DEF SameState
  <2> QED BY <2>2, <2>3
<1>5. \/ todo = <<>> /\ r.started /\ (how # "return" => r.bodyEnded)
      \/ /\ todo = <<Trailers>>
         /\ r.started /\ r.announced /\ ~r.trailersSent
         /\ how # "return" => r.bodyEnded
      \/ /\ todo = <<BodyMessage(FALSE, FALSE)>>
         /\ r.started /\ ~r.bodyEnded /\ how = "return"
         /\ ~(r.announced /\ ~r.trailersSent)
      \/ todo = <<AbortedEnd>> /\ r.started /\ ~r.bodyEnded /\ how # "return"
      \/ todo = Whole /\ ~r.started
      \/ todo = Opens /\ ~r.started /\ how = "return"
  BY <1>1, LastWordsAre
<1>6. Careful /\ r.announced /\ ~r.trailersSent /\ how = "return" => r.bodyEnded
  BY DEF MayEnd
<1>7. /\ StartMessage("none", FALSE) \in Messages /\ StartMessage("chunked", FALSE) \in Messages
      /\ BodyMessage(FALSE, FALSE) \in Messages /\ BodyMessage(TRUE, FALSE) \in Messages
      /\ AbortedEnd \in Messages /\ Trailers \in Messages
  BY DEF Messages, StartMessage, BodyMessage, AbortedEnd, Trailers, Interim, Framings
<1>8. /\ up <=> how # "return" /\ r.started /\ ~r.bodyEnded
      /\ r.started \in BOOLEAN /\ e.started \in BOOLEAN /\ r.bodyEnded \in BOOLEAN
  BY <1>1, <1>3 DEF Exchanges
<1>9. Closed(w) \/ Has(L, Stops) => r.bodyEnded
  BY <1>1 DEF Holds, Stopping
<1> HIDE DEF w, r, e, a, b, L, todo
\* One message, behind the start.
<1>10. ASSUME NEW m \in Messages, todo = <<m>>, r.started, m.kind \in {"body", "trailers"},
              m \in Stops => ~up,
              Careful /\ m = Trailers => r.announced /\ r.bodyEnded
       PROVE  Holds(R, w, e, b)
  <2>1. L \o <<m>> = Append(L, m)
    BY <1>1, AppendIsConcat
  <2>2. Holds(Append(L, m), w, e, b)
    BY <1>1, <1>2, <1>3, <1>8, <1>9, <1>10, HoldsAppend
  <2> QED BY <1>10, <2>1, <2>2
\* A start and all of a body.
<1>11. ASSUME NEW m \in Messages, NEW l \in Messages, todo = <<m, l>>, ~r.started,
              m.kind = "start", l \in Final
       PROVE  Holds(R, w, e, b)
  <2>1. ~r.announced /\ ~r.bodyEnded /\ e.started /\ ~e.announced /\ ~e.bodyEnded /\ ~up
    BY <1>1, <1>3, <1>8, <1>11
  <2>2. m \notin Stops /\ m # Trailers /\ m \notin Final
    BY <1>11, KindsOfMessages DEF Stops, Final
  <2>3. Holds(Append(L, m), w, e, a)
    BY <1>1, <1>8, <1>11, <2>1, <2>2, HoldsAppend
  <2>4. l.kind = "body" /\ l # Trailers /\ l \in Stops
    BY <1>11, KindsOfMessages DEF Stops, Final
  <2>5. Append(L, m) \in Seq(Messages)
    BY <1>1, <1>11, MoreOnLine
  <2>6. Holds(Append(Append(L, m), l), w, e, b)
    BY <1>1, <1>2, <1>8, <1>11, <2>1, <2>3, <2>4, <2>5, HoldsAppend
  <2>7. Append(Append(L, m), l) = R
    <3>1. <<m>> \in Seq(Messages) /\ <<l>> \in Seq(Messages) /\ <<m>> \o <<l>> = <<m, l>>
      BY <1>11, Pair
    <3>2. Append(L, m) = L \o <<m>> /\ Append(Append(L, m), l) = Append(L, m) \o <<l>>
      BY <1>1, <1>11, <2>5, AppendIsConcat
    <3>3. (L \o <<m>>) \o <<l>> = L \o (<<m>> \o <<l>>)
      BY <1>1, <3>1, JoinedMessages
    <3> QED BY <1>11, <3>1, <3>2, <3>3
  <2> QED BY <2>6, <2>7
<1>12. Holds(R, w, e, b)
  <2>1. CASE todo = <<>> /\ r.started /\ (how # "return" => r.bodyEnded)
    <3>1. R = L
      BY <1>1, <2>1, ConcatEmptySeq
    <3>2. ~b.gaveUp /\ (e.started <=> r.started)
      BY <1>2, <1>3, <1>8, <2>1
    <3> HIDE DEF R
    <3> QED BY <1>1, <1>2, <1>3, <3>1, <3>2 DEF Holds, Opening, Stopping, TrailersLast
  <2>2. CASE /\ todo = <<Trailers>> /\ r.started /\ r.announced /\ ~r.trailersSent
             /\ how # "return" => r.bodyEnded
    <3>1. Trailers.kind = "trailers"
      BY DEF Trailers
    <3>2. Careful => r.bodyEnded
      BY <1>6, <1>8, <2>2 DEF Endings
    <3>3. ~up
      BY <1>8, <2>2
    <3> QED BY <1>7, <1>10, <2>2, <3>1, <3>2, <3>3
  <2>3. CASE todo = <<BodyMessage(FALSE, FALSE)>> /\ r.started /\ ~r.bodyEnded /\ how = "return"
    <3>1. /\ BodyMessage(FALSE, FALSE) # Trailers
          /\ BodyMessage(FALSE, FALSE).kind = "body"
      BY DEF BodyMessage, Trailers
    <3> QED BY <1>7, <1>8, <1>10, <2>3, <3>1
  <2>4. CASE todo = <<AbortedEnd>> /\ r.started /\ ~r.bodyEnded /\ how # "return"
    <3>1. AbortedEnd # Trailers /\ AbortedEnd \notin Stops /\ AbortedEnd.kind = "body"
      BY DEF AbortedEnd, Trailers, Final, Stops
    <3> QED BY <1>7, <1>10, <2>4, <3>1
  <2>5. CASE todo = Whole /\ ~r.started
    <3>1. StartMessage("chunked", FALSE).kind = "start" /\ BodyMessage(TRUE, FALSE) \in Final
      BY DEF StartMessage, BodyMessage, Final
    <3> QED BY <1>7, <1>11, <2>5, <3>1 DEF Whole
  <2>6. CASE todo = Opens /\ ~r.started
    <3>1. StartMessage("none", FALSE).kind = "start" /\ BodyMessage(FALSE, FALSE) \in Final
      BY DEF StartMessage, BodyMessage, Final
    <3> QED BY <1>7, <1>11, <2>6, <3>1 DEF Opens
  <2> QED BY <1>5, <2>1, <2>2, <2>3, <2>4, <2>5, <2>6
<1>13. Holds(R, w, ex'[i], app'[i])
  <2> HIDE DEF R
  <2> QED BY <1>4, <1>12, HoldsAlike
<1> QED BY <1>4, <1>13 DEF w

\* What an application does to its answer.
LEMMA SpeaksAnswering ==
    ASSUME NEW i \in Requests, TypedAt(i), Sides(i), Answering(i), Writing(i), writer \in Writers,
           Speaks(i)
    PROVE  Answering(i)'
<1>1. ex[i] \in Exchanges /\ app[i] \in Apps /\ writer' = writer /\ Len(ex[i].send) <= SendMax
  BY DEF Speaks, SameWriter, TypedAt
<1>2. CASE ex[i].finished
  <2>1. PICK r \in Exchanges, todo \in Seq(Messages), a \in Apps :
            Queueing(i, r, todo, a) /\ SameState(ex[i], r) /\ r.send = ex[i].send
    BY <1>1, SpeaksQueues
  <2>2. r.finished /\ Len(r.send) <= SendMax
    BY <1>1, <1>2, <2>1 DEF SameState
  <2>3. Enqueued(r, todo).send = r.send /\ Unsent(r, todo) = <<>> /\ SameState(r, Enqueued(r, todo))
    BY <2>2, EnqueuedActs
  <2>4. app'[i].todo = <<>> /\ ex'[i].send = ex[i].send /\ ex'[i].finished
    BY <2>1, <2>2, <2>3 DEF Queueing, Apps, SameState
  <2>5. Line(i)' = ex[i].send
    BY <1>1, <2>4, LineTyped, ConcatEmptySeq DEF Line
  <2>6. ~writer.started /\ Interims(Line(i))
    BY <1>2 DEF Answering
  <2>7. Interims(ex[i].send)
    <3> DEFINE s == ex[i].send
               t == app[i].todo
    <3>1. /\ s \in Seq(Messages) /\ t \in Seq(Messages) /\ Line(i) = s \o t
      BY LineTyped DEF Line
    <3>2. /\ Len(s) \in Nat /\ Len(t) \in Nat /\ DOMAIN s = 1 .. Len(s)
          /\ DOMAIN (s \o t) = 1 .. Len(s) + Len(t)
          /\ \A k \in 1 .. Len(s) + Len(t) : (s \o t)[k] = IF k <= Len(s) THEN s[k] ELSE t[k - Len(s)]
      <4>1. /\ s \o t \in Seq(Messages) /\ Len(s \o t) = Len(s) + Len(t)
            /\ \A k \in 1 .. Len(s) + Len(t) : (s \o t)[k] = IF k <= Len(s) THEN s[k] ELSE t[k - Len(s)]
        BY <3>1, ConcatProperties
      <4> QED BY <3>1, <4>1, LenProperties
    <3> DEFINE c == s \o t
    <3> HIDE DEF c, s, t
    <3>3. \A k \in DOMAIN s : k \in DOMAIN c /\ c[k] = s[k]
      BY <3>2 DEF c
    <3>4. Interims(c)
      BY <2>6, <3>1 DEF c
    <3>5. Interims(s)
      BY <3>3, <3>4 DEF Interims
    <3> QED BY <3>5 DEF s
  <2> QED BY <1>1, <2>4, <2>5, <2>6, <2>7 DEF Answering
<1>3. CASE ~ex[i].finished
  <2>1. ASSUME NEW m \in Says[i], app[i].pc = "run", InPlace(ex[i], m), InTurn(ex[i], m),
               Queueing(i, Noted(ex[i], m), <<m>>, [app[i] EXCEPT !.sends = app[i].sends + 1])
        PROVE  Answering(i)'
    <3>1. ~ex'[i].finished /\ Holds(Line(i)', writer, ex'[i], app'[i])
      BY <1>3, <2>1, SendsAnswering
    <3> QED BY <1>1, <3>1 DEF Answering
  <2>2. ASSUME NEW how \in Endings, app[i].pc = "run", MayEnd(ex[i], how),
               Queueing(i, Ended(ex[i], how), LastWords(ex[i], how),
                        [app[i] EXCEPT !.over = TRUE, !.gaveUp =
                            how # "return" /\ ex[i].started /\ ~ex[i].bodyEnded])
        PROVE  Answering(i)'
    <3> DEFINE up == how # "return" /\ ex[i].started /\ ~ex[i].bodyEnded
    <3>1. up \in BOOLEAN /\ (up <=> how # "return" /\ ex[i].started /\ ~ex[i].bodyEnded)
      BY <1>1 DEF Exchanges
    <3>2. Queueing(i, Ended(ex[i], how), LastWords(ex[i], how),
                        [app[i] EXCEPT !.over = TRUE, !.gaveUp = up])
      BY <2>2
    <3> HIDE DEF up
    <3>3. ~ex'[i].finished /\ Holds(Line(i)', writer, ex'[i], app'[i])
      BY <1>3, <2>2, <3>1, <3>2, EndsAnswering
    <3> QED BY <1>1, <3>3 DEF Answering
  <2>3. ASSUME Queueing(i, ex[i], app[i].todo, app[i]) PROVE Answering(i)'
    <3>1. /\ Line(i)' = Line(i) /\ SameFlags(ex[i], ex'[i])
          /\ app'[i].over = app[i].over /\ app'[i].gaveUp = app[i].gaveUp
      <4>1. Line(i)' = ex[i].send \o app[i].todo /\ SameFlags(ex[i], ex'[i])
            /\ app'[i].over = app[i].over /\ app'[i].gaveUp = app[i].gaveUp
        BY <1>1, <1>3, <2>3, LineTyped, QueuedLine
      <4> QED BY <4>1 DEF Line
    <3>2. ~ex'[i].finished
      BY <1>1, <1>3, <2>3, QueueKeeps DEF Queueing, SameState
    <3>3. Holds(Line(i), writer, ex[i], app[i])
      BY <1>3 DEF Answering
    <3>4. Holds(Line(i), writer, ex'[i], app'[i])
      BY <3>1, <3>3, HoldsAlike
    <3> QED BY <1>1, <3>1, <3>2, <3>4 DEF Answering
  <2> QED BY <2>1, <2>2, <2>3 DEF Speaks
<1> QED BY <1>2, <1>3

\* The answer to a request, whatever is done to it.
LEMMA AnsweringStays ==
    ASSUME Stays, NEW i \in Requests, WriterOf(i), Answering(i)
    PROVE  Answering(i)' /\ WriterOf(i)'
<1>1. /\ Typed /\ TypedAt(i) /\ TypedAt(i)' /\ Moves(i) /\ Sides(i) /\ Sides(i)' /\ writer \in Writers
      /\ ex[i] \in Exchanges /\ app[i] \in Apps /\ Base /\ Steps
  BY DEF Stays, Base, Moved, Typed
<1>2. Writing(i)' => ~closed'
  BY <1>1, Onward DEF Writing
<1>3. ASSUME app[i].pc # "none", SameWriter(i) PROVE WriterOf(i)'
  <2> SUFFICES ASSUME Writing(i)' PROVE Phase(writer') /\ (writer'.framing = "close" => ~ex'[i].keep)
    BY DEF WriterOf
  <2>1. Writing(i) /\ writer' = writer /\ ~closed'
    BY <1>2, <1>3 DEF SameWriter
  <2>2. ex'[i].keep => ex[i].keep
    BY <1>1, <1>3, <2>1, MovesAhead
  <2>3. Phase(writer) /\ (writer.framing = "close" => ~ex[i].keep)
    BY <2>1 DEF WriterOf
  <2> QED BY <2>1, <2>2, <2>3
<1>4. ASSUME SameWriter(i), SameFlags(ex[i], ex'[i]),
             ex'[i].finished = ex[i].finished, ex'[i].send = ex[i].send,
             app'[i].todo = app[i].todo, app'[i].gaveUp = app[i].gaveUp, app'[i].over = app[i].over,
             app[i].pc # "none"
      PROVE  Answering(i)' /\ WriterOf(i)'
  BY <1>3, <1>4, AnsweringKept
<1>5. ASSUME ~Writing(i)' PROVE Answering(i)' /\ WriterOf(i)'
  BY <1>5 DEF Answering, WriterOf
<1>6. CASE app[i].pc = "none" /\ ~Begun(i)
  <2>1. ~Writing(i)
    BY <1>6, WhoWrites, <1>1 DEF Stays, Base, Control, Writing
  <2>2. ~Writing(i)'
    BY <1>1, <1>6, <2>1 DEF Moves, Untouched, Fed, Held, Rekept, Refused, TakenDown, Wrote, Reads, Speaks,
        SameWriter
  <2> QED BY <1>5, <2>2
<1>7. CASE Begun(i)
  <2>1. PICK keep \in BOOLEAN, asks \in BOOLEAN, recv \in {<<>>, <<"end">>} :
            ex'[i] = [NewExchange EXCEPT !.keep = keep, !.asks = asks, !.recv = recv]
    BY <1>7 DEF Begun
  <2>2. /\ ~ex'[i].finished /\ ~ex'[i].started /\ ~ex'[i].announced /\ ~ex'[i].bodyEnded
        /\ ex'[i].send = <<>>
    BY <2>1 DEF NewExchange
  <2>3. app[i] = NoApp
    BY <1>1, <1>7 DEF Begun, Sides
  <2>4. app'[i] = [NoApp EXCEPT !.pc = "run"]
    BY <1>7, <2>3 DEF Begun, Started
  <2>5. app'[i].todo = <<>>
    BY <2>4 DEF NoApp
  <2>6. Line(i)' = <<>>
    BY <2>2, <2>5 DEF Line
  <2>7. writer' = NewWriter(i)
    BY <1>7 DEF Begun
  <2>8. /\ ~writer'.started /\ writer'.framing = "none" /\ ~writer'.awaiting /\ ~writer'.last
        /\ writer'.out = <<>> /\ ~writer'.aborted /\ writer'.sent = 0
    BY <2>7 DEF NewWriter, NoWriter
  <2>9. Phase(writer')
    BY <2>8, Items DEF Phase, Outs
  <2>10. ~Closed(writer') /\ ~Has(<<>>, Stops)
    BY <2>8 DEF Closed, Has
  <2>11. Holds(<<>>, writer', ex'[i], app'[i])
    BY <2>2, <2>8, <2>10 DEF Holds, Opening, Stopping, TrailersLast
  <2> QED BY <2>2, <2>6, <2>8, <2>9, <2>11 DEF Answering, WriterOf
<1>8. CASE Untouched(i) /\ app[i].pc # "none"
  BY <1>4, <1>8 DEF Untouched, SameFlags
<1>9. CASE Fed(i) /\ app[i].pc # "none"
  <2>1. PICK x \in {"data", "end"} : ex'[i] = Feed(ex[i], x)
    BY <1>9 DEF Fed
  <2>2. /\ SameFlags(ex[i], ex'[i]) /\ ex'[i].finished = ex[i].finished /\ ex'[i].send = ex[i].send
    BY <1>1, <2>1, FeedActs DEF RequestMessages, SameAnswer, SameState
  <2> QED BY <1>4, <1>9, <2>2 DEF Fed
<1>10. CASE Held(i) \/ Rekept(i)
  <2>1. /\ SameFlags(ex[i], ex'[i]) /\ ex'[i].finished = ex[i].finished /\ ex'[i].send = ex[i].send
    BY <1>1, <1>10 DEF Held, Rekept, AwaitSpace, Exchanges, SameFlags
  <2> QED BY <1>4, <1>10, <2>1 DEF Held, Rekept
<1>11. CASE Refused(i) /\ app[i].pc # "none"
  <2> DEFINE r == NotifyDisconnect(ex[i])
  <2>1. r \in Exchanges /\ SameAnswer(ex[i], r) /\ r.finished
    BY <1>1, NotifyDisconnectActs
  <2>2. ex'[i] = [r EXCEPT !.keep = FALSE] /\ app'[i] = app[i] /\ SameWriter(i) /\ Writing(i)
        /\ ~ex[i].started
    BY <1>11 DEF Refused
  <2> HIDE DEF r
  <2>3. ex'[i].finished /\ ex'[i].send = ex[i].send
    BY <2>1, <2>2 DEF Exchanges, SameAnswer
  <2>4. Line(i)' = Line(i) /\ writer' = writer
    BY <2>2, <2>3 DEF Line, SameWriter
  <2>5. ~writer.started /\ Interims(Line(i))
    <3>1. CASE ex[i].finished
      BY <2>2, <3>1 DEF Answering
    <3>2. CASE ~ex[i].finished
      <4>1. Opening(Line(i), writer, ex[i]) /\ Line(i) \in Seq(Messages)
        BY <1>1, <2>2, <3>2, LineTyped DEF Answering, Holds
      <4> QED BY <2>2, <4>1, OnlyInterims
    <3> QED BY <3>1, <3>2
  <2>6. Answering(i)'
    BY <2>3, <2>4, <2>5 DEF Answering
  <2> QED BY <1>3, <1>11, <2>2, <2>6
<1>12. CASE TakenDown(i)
  <2>1. ~Writing(i)'
    BY <1>12 DEF TakenDown, Writing, NoWriter
  <2> QED BY <1>5, <2>1
<1>13. CASE Wrote(i)
  <2>1. PICK w \in Writers, r \in Exchanges : WritesAs(i, w, r)
    BY <1>1, <1>13, WroteActs
  <2>2. Writing(i) /\ Phase(writer) /\ (writer.framing = "close" => ~ex[i].keep)
    BY <1>13 DEF Wrote, WriterOf
  <2>3. CASE GoesOn(i, w, r)
    <3>1. /\ Answering(i)' /\ Phase(w)
          /\ w.framing = "close" => writer.framing = "close" \/ ~r.keep
      BY <1>1, <2>1, <2>2, <2>3, WroteAnswering
    <3>2. writer' = w /\ ex'[i] = r /\ (r.keep => ex[i].keep)
      BY <2>1, <2>3 DEF GoesOn, WritesAs
    <3> QED BY <2>2, <3>1, <3>2 DEF WriterOf
  <2>4. CASE Finishes(i, w, r)
    <3>1. ~Writing(i)'
      BY <2>4 DEF Finishes, Writing, NoWriter
    <3> QED BY <1>5, <3>1
  <2> QED BY <2>1, <2>3, <2>4 DEF WritesAs
<1>14. CASE Reads(i)
  <2>1. PICK b \in BOOLEAN :
            \/ ex[i].recv # <<>> /\ ex'[i] = Received([ex[i] EXCEPT !.asks = b])
            \/ ex'[i] = [ex[i] EXCEPT !.asks = b]
    BY <1>14 DEF Reads
  <2> DEFINE e == [ex[i] EXCEPT !.asks = b]
  <2>2. /\ e \in Exchanges /\ e.recv = ex[i].recv /\ e.send = ex[i].send
        /\ SameFlags(ex[i], e) /\ SameState(ex[i], e)
    BY <1>1 DEF Exchanges, SameFlags, SameState
  <2> HIDE DEF e
  <2>3. e.recv # <<>> => SameAnswer(e, Received(e)) /\ SameState(e, Received(e))
    BY <2>2, ReceivedActs
  <2>4. SameFlags(ex[i], ex'[i]) /\ ex'[i].finished = ex[i].finished /\ ex'[i].send = ex[i].send
    <3>1. CASE ex[i].recv # <<>> /\ ex'[i] = Received(e)
      BY <2>2, <2>3, <3>1 DEF SameFlags, SameState, SameAnswer
    <3>2. CASE ex'[i] = e
      BY <2>2, <3>2 DEF SameState
    <3> QED BY <2>1, <3>1, <3>2 DEF e
  <2>5. /\ app[i].pc # "none"
        /\ app'[i].over = app[i].over /\ app'[i].gaveUp = app[i].gaveUp
        /\ app'[i].todo = app[i].todo
    BY <1>1, <1>14 DEF Reads, Apps
  <2> QED BY <1>4, <1>14, <2>4, <2>5 DEF Reads
<1>15. CASE Speaks(i)
  <2>1. app[i].pc # "none" /\ SameWriter(i)
    BY <1>15 DEF Speaks
  <2>2. CASE Writing(i)
    BY <1>1, <1>3, <1>15, <2>1, <2>2, SpeaksAnswering
  <2>3. CASE ~Writing(i)
    BY <1>5, <2>1, <2>3 DEF SameWriter
  <2> QED BY <2>2, <2>3
<1> QED BY <1>1, <1>6, <1>7, <1>8, <1>9, <1>10, <1>11, <1>12, <1>13, <1>14, <1>15 DEF Moves

-----------------------------------------------------------------------------
\* Nobody sleeps for nothing.

\* Whose room the reader waits for, and what for an application sleeps.
LEMMA SleepStays ==
    ASSUME Stays, NEW i \in Requests, Spaced(i), Asleep(i), Sides(i)
    PROVE  Spaced(i)' /\ Asleep(i)'
<1>1. /\ Typed /\ TypedAt(i) /\ TypedAt(i)' /\ Moves(i) /\ Sides(i)' /\ writer \in Writers
      /\ ex[i] \in Exchanges /\ app[i] \in Apps /\ closed \in BOOLEAN /\ closed' \in BOOLEAN
      /\ closed => closed'
      /\ Len(ex[i].recv) <= RecvMax /\ Len(ex[i].send) <= SendMax
  BY DEF Stays, Base, Moved, Typed, Tasks, TypedAt
<1>2. ASSUME Writing(i)' <=> Writing(i), app'[i].pc = app[i].pc, SameState(ex[i], ex'[i]),
             ex'[i].send = ex[i].send, ex'[i].sendSpace = ex[i].sendSpace,
             ex[i].recv = <<>> \/ ex'[i].recv # <<>>,
             \/ ex'[i].recvSpace = ex[i].recvSpace /\ ex'[i].recv = ex[i].recv
             \/ ~ex'[i].recvSpace => Full(ex'[i]) /\ ~Gone(ex'[i])
      PROVE  Spaced(i)' /\ Asleep(i)'
  <2>1. Gone(ex'[i]) <=> Gone(ex[i])
    BY <1>2 DEF Gone, SameState
  <2>2. Spaced(i)'
    BY <1>1, <1>2, <2>1 DEF Spaced, Full
  <2>3. Asleep(i)'
    BY <1>2, <2>1 DEF Asleep, AsleepForAReason, Room
  <2> QED BY <2>2, <2>3
<1>3. CASE Untouched(i)
  BY <1>2, <1>3 DEF Untouched, SameWriter, SameState
<1>4. CASE Begun(i)
  <2>1. PICK keep \in BOOLEAN, asks \in BOOLEAN, recv \in {<<>>, <<"end">>} :
            ex'[i] = [NewExchange EXCEPT !.keep = keep, !.asks = asks, !.recv = recv]
    BY <1>4 DEF Begun
  <2>2. ex'[i].recvSpace /\ app'[i].pc = "run"
    <3>1. app'[i] = [app[i] EXCEPT !.pc = "run"]
      BY <1>4 DEF Begun, Started
    <3> QED BY <1>1, <2>1, <3>1 DEF NewExchange, Apps
  <2> QED BY <2>2 DEF Spaced, Asleep, AsleepForAReason
<1>5. CASE Fed(i)
  <2>1. PICK x \in {"data", "end"} : ex'[i] = Feed(ex[i], x)
    BY <1>5 DEF Fed
  <2>2. /\ ex'[i].recv = Append(ex[i].recv, x) /\ SameState(ex[i], ex'[i])
        /\ ex'[i].send = ex[i].send /\ ex'[i].sendSpace = ex[i].sendSpace
    BY <1>1, <2>1, FeedActs DEF RequestMessages, SameAnswer
  <2>3. Append(ex[i].recv, x) # <<>>
    BY <1>1, AppendProperties DEF Exchanges, RequestMessages
  <2>4. ex'[i].recvSpace = ex[i].recvSpace /\ ~Full(ex[i])
    BY <1>1, <1>5, <2>1 DEF Feed, Exchanges, Fed
  <2>5. ~closed => ex[i].recvSpace
    BY <2>4 DEF Spaced
  <2>6. Gone(ex'[i]) <=> Gone(ex[i])
    BY <2>2 DEF Gone, SameState
  <2>7. Spaced(i)'
    BY <1>1, <2>4, <2>5 DEF Spaced
  <2>8. Asleep(i)'
    BY <1>5, <2>2, <2>3, <2>6 DEF Asleep, AsleepForAReason, Room, Fed, SameWriter
  <2> QED BY <2>7, <2>8
<1>6. CASE Held(i)
  <2>1. /\ ex'[i].recv = ex[i].recv /\ SameState(ex[i], ex'[i])
        /\ ex'[i].send = ex[i].send /\ ex'[i].sendSpace = ex[i].sendSpace
    BY <1>1, <1>6 DEF Held, AwaitSpace, Exchanges, SameState
  <2>2. Full(ex'[i]) /\ ~Gone(ex'[i])
    BY <1>6, <2>1 DEF Held, Full, Gone, SameState
  <2> QED BY <1>2, <1>6, <2>1, <2>2 DEF Held, SameWriter
<1>7. CASE Rekept(i)
  <2>1. /\ ex'[i].recv = ex[i].recv /\ SameState(ex[i], ex'[i])
        /\ ex'[i].send = ex[i].send /\ ex'[i].sendSpace = ex[i].sendSpace
        /\ ex'[i].recvSpace = ex[i].recvSpace
    BY <1>1, <1>7 DEF Rekept, Exchanges, SameState
  <2> QED BY <1>2, <1>7, <2>1 DEF Rekept, SameWriter
<1>8. CASE Refused(i)
  <2> DEFINE r == NotifyDisconnect(ex[i])
  <2>1. r \in Exchanges /\ SameAnswer(ex[i], r) /\ r.recv # <<>>
    BY <1>1, NotifyDisconnectActs
  <2>2. ex'[i] = [r EXCEPT !.keep = FALSE] /\ app'[i] = app[i] /\ SameWriter(i)
    BY <1>8 DEF Refused
  <2>3. r.recvSpace /\ r.sendSpace = ex[i].sendSpace
    BY <1>1 DEF NotifyDisconnect, Exchanges
  <2> HIDE DEF r
  <2>4. /\ ex'[i].recvSpace /\ ex'[i].recv # <<>> /\ ex'[i].send = ex[i].send
        /\ ex'[i].sendSpace = ex[i].sendSpace
    BY <2>1, <2>2, <2>3 DEF Exchanges, SameAnswer
  <2> QED BY <2>2, <2>4 DEF Spaced, Asleep, AsleepForAReason, Room, SameWriter
<1>9. CASE TakenDown(i)
  <2>1. closed' /\ app'[i].pc = "done"
    BY <1>1, <1>9 DEF TakenDown, Cancelled, Apps
  <2> QED BY <2>1 DEF Spaced, Asleep, AsleepForAReason
<1>10. CASE Wrote(i)
  <2>1. PICK w \in Writers, r \in Exchanges : WritesAs(i, w, r)
    BY <1>1, <1>10, WroteActs
  <2>2. /\ Writing(i) /\ app'[i] = app[i] /\ SameState(ex[i], r) /\ r.recv = ex[i].recv
        /\ r.recvSpace = ex[i].recvSpace
        /\ r.sendSpace \/ (r.sendSpace = ex[i].sendSpace /\ r.send = ex[i].send)
    BY <1>10, <2>1 DEF Wrote, WritesAs
  <2>3. CASE GoesOn(i, w, r)
    <3>1. ex'[i] = r /\ Writing(i)'
      BY <2>1, <2>3 DEF WritesAs, GoesOn, Writing
    <3>2. (Gone(ex'[i]) <=> Gone(ex[i])) /\ (Full(ex'[i]) <=> Full(ex[i]))
      BY <2>2, <3>1 DEF Gone, Full, SameState
    <3>3. Spaced(i)'
      BY <1>1, <2>2, <3>1, <3>2 DEF Spaced
    <3>4. Asleep(i)'
      BY <2>2, <3>1, <3>2 DEF Asleep, AsleepForAReason, Room
    <3> QED BY <3>3, <3>4
  <2>4. CASE Finishes(i, w, r)
    <3>1. /\ ex'[i].recvSpace /\ ex'[i].sendSpace /\ (ex'[i].recv # <<>> \/ r.disconnected)
      BY <2>4 DEF Finishes
    <3>2. r.disconnected => ex'[i].recv = ex[i].recv
      <4>1. PICK b \in BOOLEAN : [r EXCEPT !.keep = b] \in Exchanges
                                 /\ ex'[i] = Completed([r EXCEPT !.keep = b])
        BY <2>4 DEF Finishes
      <4> DEFINE e == [r EXCEPT !.keep = b]
      <4>2. e.disconnected = r.disconnected /\ e.recv = r.recv
        BY <2>1 DEF Exchanges
      <4> HIDE DEF e
      <4>3. e.disconnected => Completed(e).recv = e.recv
        BY <4>1, CompletedActs DEF e
      <4> QED BY <2>2, <4>1, <4>2, <4>3 DEF e
    <3>3. r.disconnected => Gone(ex[i])
      BY <2>2 DEF Gone, SameState
    <3> QED BY <2>2, <3>1, <3>2, <3>3 DEF Spaced, Asleep, AsleepForAReason
  <2> QED BY <2>1, <2>3, <2>4 DEF WritesAs
<1>11. CASE Reads(i)
  <2>1. PICK b \in BOOLEAN :
        \/ /\ app[i].pc \in {"run", "recv"} /\ ex[i].recv # <<>>
           /\ ex'[i] = Received([ex[i] EXCEPT !.asks = b])
           /\ app'[i] = [app[i] EXCEPT !.pc = "run",
                !.got = IF Head(ex[i].recv) = "data" THEN app[i].got + 1 ELSE app[i].got,
                !.whole = app[i].whole \/ Head(ex[i].recv) = "end"]
        \/ /\ app[i].pc = "run" /\ ex[i].recv = <<>>
           /\ ex'[i] = [ex[i] EXCEPT !.asks = b]
           /\ app'[i] = IF ex[i].disconnected THEN app[i]
                        ELSE [app[i] EXCEPT !.pc = "recv"]
    BY <1>11 DEF Reads
  <2> DEFINE e == [ex[i] EXCEPT !.asks = b]
  <2>2. /\ e.recv = ex[i].recv /\ e.recvSpace = ex[i].recvSpace /\ SameState(ex[i], e)
        /\ e \in Exchanges
    BY <1>1 DEF Exchanges, SameState
  <2> HIDE DEF e
  <2>3. CASE ex'[i] = Received(e) /\ app'[i].pc = "run"
    <3>1. Received(e).recvSpace
      BY <2>2 DEF Received, Exchanges
    <3> QED BY <2>3, <3>1 DEF Spaced, Asleep, AsleepForAReason
  <2>4. CASE app[i].pc = "run" /\ ex'[i] = e /\ app'[i] = IF ex[i].disconnected THEN app[i]
                        ELSE [app[i] EXCEPT !.pc = "recv"]
    <3>1. IF ex[i].disconnected THEN app'[i].pc = "run" ELSE app'[i].pc = "recv"
      BY <1>1, <2>4 DEF Apps
    <3>2. (Gone(e) <=> Gone(ex[i])) /\ (Full(e) <=> Full(ex[i]))
      BY <2>2 DEF Gone, Full, SameState
    <3>3. ~ex[i].disconnected => ~Gone(ex[i])
      BY DEF Gone, Sides
    <3>4. Spaced(i)'
      BY <1>1, <2>2, <2>4, <3>2 DEF Spaced
    <3>5. Asleep(i)'
      BY <2>4, <3>1, <3>2, <3>3 DEF Asleep, AsleepForAReason
    <3> QED BY <3>4, <3>5
  <2>5. \/ ex'[i] = Received(e) /\ app'[i].pc = "run"
        \/ app[i].pc = "run" /\ ex'[i] = e /\ app'[i] = IF ex[i].disconnected THEN app[i]
                        ELSE [app[i] EXCEPT !.pc = "recv"]
    <3>1. [app[i] EXCEPT !.pc = "run",
                !.got = IF Head(ex[i].recv) = "data" THEN app[i].got + 1 ELSE app[i].got,
                !.whole = app[i].whole \/ Head(ex[i].recv) = "end"].pc = "run"
      BY <1>1 DEF Apps
    <3> QED BY <2>1, <3>1 DEF e
  <2> QED BY <2>3, <2>4, <2>5
<1>12. CASE Speaks(i)
  <2>1. PICK r \in Exchanges, todo \in Seq(Messages), a \in Apps :
            /\ Queueing(i, r, todo, a) /\ SameState(ex[i], r)
            /\ r.send = ex[i].send /\ r.recv = ex[i].recv /\ r.recvSpace = ex[i].recvSpace
    BY <1>1, <1>12, SpeaksQueues
  <2> DEFINE e == Enqueued(r, todo)
             u == Unsent(r, todo)
  <2>2. /\ SameState(r, e) /\ e.recv = r.recv /\ e.recvSpace = r.recvSpace
    BY <2>1, QueueKeeps
  <2>3. u # <<>> => ~e.sendSpace /\ Len(e.send) = SendMax /\ ~r.finished
    <3>1. Len(r.send) <= SendMax
      BY <1>1, <2>1
    <3> QED BY <3>1, EnqueuedActs
  <2>4. /\ ex'[i] = e
        /\ app'[i].pc = IF u # <<>> THEN "put" ELSE IF a.over THEN "done" ELSE "run"
    BY <2>1 DEF Queueing, Apps
  <2> HIDE DEF e, u
  <2>5. (Gone(e) <=> Gone(ex[i])) /\ (Full(e) <=> Full(ex[i])) /\ e.recvSpace = ex[i].recvSpace
    BY <2>1, <2>2 DEF Gone, Full, SameState
  <2>6. Spaced(i)'
    BY <1>1, <2>4, <2>5 DEF Spaced
  <2>7. app[i].pc # "none" /\ SameWriter(i)
    BY <1>12 DEF Speaks
  <2>8. ASSUME app'[i].pc = "put" PROVE Room(e) = 0 /\ Writing(i)'
    <3>1. Len(e.send) = SendMax /\ ~r.finished
      BY <2>3, <2>4, <2>8
    <3>2. ~ex[i].complete
      BY <2>1, <3>1 DEF Sides, SameState
    <3>3. Writing(i)'
      BY <2>7, <3>2 DEF Sides, SameWriter
    <3> QED BY <3>1, <3>3, QueueAssumption DEF Room
  <2>9. app'[i].pc # "recv"
    BY <2>4
  <2>10. Asleep(i)'
    BY <2>4, <2>8, <2>9 DEF Asleep, AsleepForAReason
  <2> QED BY <2>6, <2>10
<1> QED BY <1>1, <1>3, <1>4, <1>5, <1>6, <1>7, <1>8, <1>9, <1>10, <1>11, <1>12 DEF Moves

-----------------------------------------------------------------------------
\* What has been written.

\* An answer that ends well is not given up any more.
LEMMA EndsWellStays ==
    ASSUME NEW i \in Requests, Typed, TypedAt(i), Sides(i), Moves(i), app[i].pc # "none",
           EndsWell(i)
    PROVE  EndsWell(i)'
<1>1. ex[i] \in Exchanges /\ app[i] \in Apps
  BY DEF TypedAt
<1>2. ex[i].bodyEnded => ex'[i].bodyEnded
  BY MovesAhead
<1>3. ASSUME app'[i].gaveUp = app[i].gaveUp, app'[i].over = app[i].over PROVE EndsWell(i)'
  BY <1>2, <1>3 DEF EndsWell
<1>4. CASE Untouched(i) \/ Fed(i) \/ Held(i) \/ Rekept(i) \/ Refused(i) \/ Wrote(i)
  <2>1. app'[i] = app[i]
    BY <1>4 DEF Untouched, Fed, Held, Rekept, Refused, Wrote, Goes
  <2> QED BY <1>3, <2>1
<1>5. CASE Begun(i)
  BY <1>5 DEF Begun
<1>6. CASE TakenDown(i)
  BY <1>1, <1>3, <1>6 DEF TakenDown, Cancelled, Apps
<1>7. CASE Reads(i)
  <2>1. app'[i].gaveUp = app[i].gaveUp /\ app'[i].over = app[i].over
    BY <1>1, <1>7 DEF Reads, Apps
  <2> QED BY <1>3, <2>1
<1>8. CASE Speaks(i)
  <2>1. ASSUME NEW r, NEW todo, NEW a \in Apps, Queueing(i, r, todo, a)
        PROVE  app'[i].gaveUp = a.gaveUp /\ app'[i].over = a.over
    BY <2>1 DEF Queueing, Apps
  <2>2. ASSUME NEW m, Queueing(i, Noted(ex[i], m), <<m>>,
                        [app[i] EXCEPT !.sends = app[i].sends + 1])
        PROVE  EndsWell(i)'
    <3> DEFINE a == [app[i] EXCEPT !.sends = app[i].sends + 1]
    <3>1. a \in Apps /\ a.gaveUp = app[i].gaveUp /\ a.over = app[i].over
      BY <1>1 DEF Apps
    <3> HIDE DEF a
    <3>2. Queueing(i, Noted(ex[i], m), <<m>>, a)
      BY <2>2 DEF a
    <3> QED BY <1>3, <2>1, <3>1, <3>2
  <2>3. ASSUME NEW how, app[i].pc = "run",
               Queueing(i, Ended(ex[i], how), LastWords(ex[i], how),
                        [app[i] EXCEPT !.over = TRUE, !.gaveUp =
                            how # "return" /\ ex[i].started /\ ~ex[i].bodyEnded])
        PROVE  EndsWell(i)'
    <3> DEFINE up == how # "return" /\ ex[i].started /\ ~ex[i].bodyEnded
               a == [app[i] EXCEPT !.over = TRUE, !.gaveUp = up]
    <3>1. ex[i].bodyEnded
      BY <2>3 DEF EndsWell, Sides
    <3>2. up = FALSE
      BY <3>1
    <3> HIDE DEF up
    <3>3. a \in Apps /\ ~a.gaveUp
      BY <1>1, <3>2 DEF Apps
    <3> HIDE DEF a
    <3>4. Queueing(i, Ended(ex[i], how), LastWords(ex[i], how), a)
      BY <2>3 DEF a, up
    <3>5. ~app'[i].gaveUp
      BY <2>1, <3>3, <3>4
    <3> QED BY <1>2, <3>1, <3>5 DEF EndsWell
  <2>4. ASSUME Queueing(i, ex[i], app[i].todo, app[i]) PROVE EndsWell(i)'
    BY <1>1, <1>3, <2>1, <2>4
  <2> QED BY <1>8, <2>2, <2>3, <2>4 DEF Speaks
<1> QED BY <1>4, <1>5, <1>6, <1>7, <1>8 DEF Moves

\* What the last message of an answer is.
Ending(w, m, v) ==
    /\ v.framing = w.framing
    /\ w.framing = "chunked" => m = Trailers /\ ~w.awaiting
    /\ w.framing = "length" /\ w.sent # Declared => v.sent # Declared

\* A message that leaves nothing to be written ends the answer.
LEMMA TakesLast ==
    ASSUME NEW i \in Requests, NEW w \in Writers, NEW r \in Exchanges,
           writer \in Writers, Phase(writer), writer.out = <<>>, writer.started,
           NEW m \in Messages, Reached(i, m, w, r), w.out = <<>>, w.last
    PROVE  Ending(writer, m, w)
<1>1. m.kind \in {"body", "trailers"}
  <2>1. m.kind \in {"start", "body", "trailers", "interim"}
    BY KindsOfMessages
  <2>2. m.kind # "interim"
    <3>1. [writer EXCEPT !.out = <<"interim">>].out = <<"interim">> /\ <<"interim">> # <<>>
      BY Items DEF Writers
    <3> QED BY <3>1 DEF Reached
  <2>3. m.kind # "start"
    <3> DEFINE tr == m.trailers /\ m.framing # "none"
    <3>1. m.kind = "start" => w = [writer EXCEPT !.started = TRUE, !.framing = m.framing,
                                        !.out = <<"head">>, !.trailers = tr]
      BY DEF Reached
    <3> HIDE DEF tr
    <3>2. m.kind = "start" => w.out = <<"head">>
      BY <3>1 DEF Writers
    <3> QED BY <3>2, Items
  <2> QED BY <2>1, <2>2, <2>3
<1>2. CASE m.kind = "body"
  <2> DEFINE v == BodyTaken(writer, m)
  <2>1. w = v /\ (writer.framing # "none" => ~m.aborted)
    BY <1>2 DEF Reached
  <2>2. /\ v.framing = writer.framing
        /\ v.out = <<>> => v.framing # "chunked" \/ ~v.last
        /\ writer.framing = "length" /\ writer.sent # Declared /\ v.sent = Declared
                => v.out = <<"end">>
    BY <1>2, <2>1, BodyTakenPhase
  <2> HIDE DEF v
  <2> QED BY <2>1, <2>2, Items DEF Ending
<1>3. CASE m.kind = "trailers"
  <2> DEFINE ou == IF writer.awaiting THEN <<"end">> ELSE <<>>
  <2>1. w = [writer EXCEPT !.last = TRUE, !.out = ou] /\ m = Trailers
    BY <1>3, KindsOfMessages DEF Reached
  <2> HIDE DEF ou
  <2>2. w.framing = writer.framing /\ w.sent = writer.sent /\ w.out = ou
    BY <2>1 DEF Writers
  <2>3. ~writer.awaiting
    BY <2>2, Items DEF ou
  <2> QED BY <2>1, <2>2, <2>3 DEF Ending
<1> QED BY <1>1, <1>2, <1>3

\* What the writer of a request does in a step.
WritesItem(i, w, r) ==
    /\ writer.out # <<>> /\ w = [writer EXCEPT !.out = Tail(writer.out)] /\ r = ex[i]
    /\ Emit(Head(writer.out), i, writer.framing)
TakesMessage(i, w) ==
    /\ writer.out = <<>> /\ UNCHANGED wire
    /\ \E m \in Messages :
          IF writer' = NoWriter
          THEN Ending(writer, m, w) /\ 1 \in DOMAIN Line(i) /\ Line(i)[1] = m
          ELSE Takings(writer, m, w)

\* It writes an item, or takes a message; it goes on, or has ended its answer.
LEMMA WroteIs ==
    ASSUME Stays, NEW i \in Requests, Wrote(i), WriterOf(i), Answering(i)
    PROVE  \E w \in Writers, r \in Exchanges :
                /\ WritesAs(i, w, r) /\ (WritesItem(i, w, r) \/ TakesMessage(i, w))
                /\ writer' # NoWriter => GoesOn(i, w, r)
                /\ writer' = NoWriter => Finishes(i, w, r) /\ writer.started /\ ~ex[i].finished
<1>1. /\ Typed /\ TypedAt(i) /\ writer \in Writers /\ Writing(i) /\ Phase(writer)
      /\ ex[i] \in Exchanges
  BY DEF Stays, Base, Typed, Wrote, WriterOf, TypedAt
<1>2. PICK w \in Writers, r \in Exchanges : WritesAs(i, w, r)
  BY <1>1, WroteActs
<1>3. w.pc = "run" /\ NoWriter.pc = "done"
  BY <1>2 DEF WritesAs, NoWriter
<1>4. CASE GoesOn(i, w, r)
  <2>1. writer' = w /\ writer' # NoWriter
    BY <1>3, <1>4 DEF GoesOn
  <2>2. \/ WritesItem(i, w, r)
        \/ /\ writer.out = <<>> /\ UNCHANGED wire
           /\ \E m \in Messages : Takings(writer, m, w) /\ Reached(i, m, w, r)
    BY <1>1, <1>2, <1>4, WroteAnswering DEF WritesItem
  <2>3. WritesItem(i, w, r) \/ TakesMessage(i, w)
    BY <2>1, <2>2 DEF TakesMessage
  <2> QED BY <1>2, <1>4, <2>1, <2>3
<1>5. CASE Finishes(i, w, r)
  <2>1. writer' = NoWriter /\ w.out = <<>> /\ w.last /\ Acts(i, w, r)
    BY <1>2, <1>5 DEF Finishes, WritesAs
  <2>2. writer.started /\ ~ex[i].finished
    BY <1>1, <2>1, EndsStarted
  <2>3. CASE writer.out = <<>>
    <3>1. /\ ex[i].send # <<>> /\ Reached(i, Head(ex[i].send), w, r) /\ UNCHANGED wire
      BY <2>1, <2>3 DEF Acts
    <3>2. /\ 1 \in DOMAIN Line(i) /\ Line(i)[1] = Head(ex[i].send) /\ Head(ex[i].send) \in Messages
      BY <1>1, <3>1, LineHead
    <3>3. Ending(writer, Head(ex[i].send), w)
      BY <1>1, <2>1, <2>2, <2>3, <3>1, <3>2, TakesLast
    <3>4. TakesMessage(i, w)
      BY <2>1, <2>3, <3>1, <3>2, <3>3 DEF TakesMessage
    <3> QED BY <1>2, <1>5, <2>1, <2>2, <3>4
  <2>4. CASE writer.out # <<>>
    <3>1. WritesItem(i, w, r)
      BY <2>1, <2>4 DEF Acts, WritesItem
    <3> QED BY <1>2, <1>5, <2>1, <2>2, <3>1
  <2> QED BY <2>3, <2>4
<1> QED BY <1>2, <1>4, <1>5 DEF WritesAs

\* A head goes out.
HeadOf(i, kind, framing) == [of |-> i, kind |-> kind, framing |-> framing, inside |-> open]
Grown(h) ==
    /\ \A k \in DOMAIN heads : k \in DOMAIN heads' /\ heads'[k] = heads[k] /\ k < Len(heads) + 1
    /\ Len(heads) + 1 \in DOMAIN heads' /\ heads'[Len(heads) + 1] = h
    /\ \A k \in DOMAIN heads' : k \in DOMAIN heads \/ k = Len(heads) + 1

\* Emit adds a head to the end of the wire, and nothing else does.
LEMMA EmitGrows ==
    ASSUME Around, NEW i \in Requests \cup {0}, NEW item, NEW framing \in Framings,
           Emit(item, i, framing)
    PROVE  IF item \in {"head", "interim", "error"} THEN Grown(HeadOf(i, item, framing))
           ELSE heads' = heads
<1> DEFINE h == HeadOf(i, item, framing)
<1>1. heads \in Seq(Heads) /\ open \in Requests \cup {0}
  BY DEF Around
<1>2. CASE item \in {"head", "interim", "error"}
  <2>1. h \in Heads /\ heads' = Append(heads, h)
    BY <1>1, <1>2 DEF Heads, HeadOf, Emit
  <2> HIDE DEF h
  <2>2. /\ Len(heads) \in Nat /\ DOMAIN heads = 1 .. Len(heads)
        /\ DOMAIN Append(heads, h) = 1 .. Len(heads) + 1
        /\ \A k \in 1 .. Len(heads) : Append(heads, h)[k] = heads[k]
        /\ Append(heads, h)[Len(heads) + 1] = h
    BY <1>1, <2>1, AppendPoints
  <2> DEFINE n == Len(heads)
  <2> HIDE DEF n
  <2>3. n \in Nat /\ DOMAIN heads = 1 .. n /\ DOMAIN heads' = 1 .. n + 1
    BY <2>1, <2>2 DEF n
  <2>4. \A k \in 1 .. n : k \in 1 .. n + 1 /\ k < n + 1
    BY <2>3
  <2>5. n + 1 \in 1 .. n + 1 /\ \A k \in 1 .. n + 1 : k \in 1 .. n \/ k = n + 1
    BY <2>3
  <2>6. Grown(h)
    BY <2>1, <2>2, <2>3, <2>4, <2>5 DEF Grown, n
  <2> QED BY <1>2, <2>6 DEF h
<1>3. CASE item \notin {"head", "interim", "error"}
  BY <1>3 DEF Emit
<1> QED BY <1>2, <1>3

\* Who the step writes for, what, and what becomes of the open body.
Item(item) == Writes /\ Head(writer.out) = item
WireIs ==
    \/ heads' = heads /\ open' = open
    \/ Item("end") /\ heads' = heads /\ open' = 0
    \/ /\ Item("head") /\ Grown(HeadOf(cur, "head", writer.framing))
       /\ open' = IF writer.framing = "none" THEN open ELSE cur
    \/ Item("interim") /\ Grown(HeadOf(cur, "interim", writer.framing)) /\ open' = open
    \/ /\ SaysError /\ open' = open
       /\ Grown(HeadOf(IF cur # 0 THEN cur ELSE Buffer[1].of, "error", "none"))
    \/ SaysContinue /\ Grown(HeadOf(cur, "interim", "none")) /\ open' = open

\* What a step writes, seen from the wire.
LEMMA WiresAre ==
    ASSUME Stays, Wires
    PROVE  WireIs
<1>1. Around /\ Typed /\ Control /\ cur \in Requests \cup {0} /\ "none" \in Framings
  BY DEF Stays, Base, Around, Framings
<1>2. CASE Writes
  <2> DEFINE item == Head(writer.out)
  <2>1. writer.out \in Seq({"head", "interim", "data", "end"}) /\ writer.framing \in Framings
        /\ writer.out # <<>> /\ Emit(item, cur, writer.framing)
    BY <1>1, <1>2 DEF Typed, Writers, Writes
  <2>2. item \in {"head", "interim", "data", "end"}
    BY <2>1, TailPoints
  <2>3. IF item \in {"head", "interim", "error"} THEN Grown(HeadOf(cur, item, writer.framing))
           ELSE heads' = heads
    <3> HIDE DEF item
    <3> QED BY <1>1, <2>1, EmitGrows
  <2>4. open' = CASE item = "head" /\ writer.framing # "none" -> cur
                  [] item = "end" -> 0
                  [] OTHER -> open
    BY <2>1 DEF Emit
  <2>5. Item(item)
    BY <1>2 DEF Item
  <2> HIDE DEF item
  <2>6. CASE item = "head"
    <3>1. Grown(HeadOf(cur, "head", writer.framing)) /\ Item("head")
      BY <2>3, <2>5, <2>6
    <3>2. open' = IF writer.framing = "none" THEN open ELSE cur
      BY <2>4, <2>6
    <3> QED BY <3>1, <3>2 DEF WireIs
  <2>7. CASE item = "interim"
    <3>1. Grown(HeadOf(cur, "interim", writer.framing)) /\ Item("interim") /\ open' = open
      BY <2>3, <2>4, <2>5, <2>7
    <3> QED BY <3>1 DEF WireIs
  <2>8. CASE item = "end"
    <3>1. heads' = heads /\ Item("end") /\ open' = 0
      BY <2>3, <2>4, <2>5, <2>8
    <3> QED BY <3>1 DEF WireIs
  <2>9. CASE item = "data"
    <3>1. heads' = heads /\ open' = open
      BY <2>3, <2>4, <2>9
    <3> QED BY <3>1 DEF WireIs
  <2> QED BY <2>2, <2>6, <2>7, <2>8, <2>9
<1>3. CASE SaysError
  <2> DEFINE i == IF cur # 0 THEN cur ELSE Buffer[1].of
  <2>1. i \in Requests \cup {0} /\ Emit("error", i, "none")
    <3>1. ASSUME cur = 0 PROVE Buffer[1].of \in Requests
      <4>1. read < arrived
        BY <1>1, <1>3, <3>1, Onward DEF SaysError, Stays, Control
      <4>2. read # arrived /\ Buffer # <<>>
        BY <1>1, <4>1, BufferIs, StreamIs
      <4> QED BY <1>1, <4>2, BufferIs, StreamIs
    <3> QED BY <1>1, <1>3, <3>1 DEF SaysError
  <2> HIDE DEF i
  <2>2. Grown(HeadOf(i, "error", "none"))
    BY <1>1, <2>1, EmitGrows
  <2>3. open' = open
    BY <2>1 DEF Emit
  <2> QED BY <1>3, <2>2, <2>3 DEF WireIs, i
<1>4. CASE SaysContinue
  <2>1. Emit("interim", cur, "none")
    BY <1>4 DEF SaysContinue
  <2>2. Grown(HeadOf(cur, "interim", "none")) /\ open' = open
    BY <1>1, <2>1, EmitGrows DEF Emit
  <2> QED BY <1>4, <2>2 DEF WireIs
<1>5. CASE heads' = heads /\ open' = open
  BY <1>5 DEF WireIs
<1> QED BY <1>2, <1>3, <1>4, <1>5 DEF Wires

\* While a writer goes on or ends, the connection stays on its request.
LEMMA CurStays ==
    ASSUME Stays, ~closed', writer.pc = "run"
    PROVE  cur' = cur /\ cur \in Requests /\ Writing(cur) /\ ~closed
<1>1. /\ Steps /\ Base /\ ~closed /\ cur # 0 /\ writer.of = cur /\ ~ex[cur].complete
      /\ cur \in Requests
  BY DEF Stays, Base, Control, Around
<1>2. ~Dispatch /\ ~AwaitResponse
  BY <1>1, DispatchIsOfNew DEF AwaitResponse
<1>3. cur' = cur
  BY <1>1, <1>2 DEF Steps, Rests, Falls, Answers, Refuses, Decodes, Passes, Sleeps, Abandons,
        Emits, RefuseHead, FinishRequest, AwaitData, DataWake
<1> QED BY <1>1, <1>3 DEF Writing

\* An item is written by the writer of the request the connection is on.
LEMMA WritesIs ==
    ASSUME Stays, Writes, NEW c \in Requests, c = cur, WriterOf(c), Answering(c)
    PROVE  /\ Writing(c) /\ Wrote(c) /\ ~closed /\ ~closed' /\ Phase(writer) /\ cur' = c
           /\ writer' # NoWriter => writer' = [writer EXCEPT !.out = Tail(writer.out)]
           /\ writer' = NoWriter => writer.last /\ Tail(writer.out) = <<>>
<1>1. /\ Writing(c) /\ ~closed /\ ~closed' /\ writer.out # <<>> /\ writer \in Writers
      /\ writer' \in {[writer EXCEPT !.out = Tail(writer.out)], NoWriter}
  BY DEF Writes, Stays, Base, Typed, Writing
<1>2. Phase(writer) /\ cur' = c
  BY <1>1, CurStays DEF WriterOf, Writing
<1>3. writer' # writer
  <2>1. writer.out \in Seq({"head", "interim", "data", "end"})
    BY <1>1 DEF Writers
  <2>2. Tail(writer.out) # writer.out
    <3> DEFINE n == Len(writer.out)
    <3>1. n \in Nat \ {0} /\ Len(Tail(writer.out)) = n - 1
      BY <1>1, <2>1, HeadTailProperties, EmptySeq
    <3>2. Tail(writer.out) = writer.out => n = n - 1
      BY <3>1
    <3> HIDE DEF n
    <3> QED BY <3>1, <3>2
  <2>3. writer.pc = "run" /\ NoWriter.pc = "done"
    BY <1>1 DEF Writing, NoWriter
  <2>4. [writer EXCEPT !.out = Tail(writer.out)].out = Tail(writer.out)
    BY <1>1 DEF Writers
  <2> QED BY <1>1, <2>2, <2>3, <2>4
<1>4. Wrote(c)
  <2>1. Moves(c) /\ app[c].pc # "none"
    BY <1>1, RequestsAre DEF Stays, Moved, Base, Control
  <2> QED BY <1>1, <1>3, <2>1 DEF Moves, Untouched, Begun, Fed, Held, Rekept, Refused, TakenDown,
                        Reads, Speaks, SameWriter
<1>5. PICK w \in Writers, r \in Exchanges :
                /\ WritesItem(c, w, r) \/ TakesMessage(c, w)
                /\ writer' = NoWriter => Finishes(c, w, r)
  BY <1>4, WroteIs
<1>6. w = [writer EXCEPT !.out = Tail(writer.out)]
  BY <1>1, <1>5 DEF WritesItem, TakesMessage
<1>7. w.last = writer.last /\ w.out = Tail(writer.out)
  BY <1>1, <1>6 DEF Writers
<1>8. writer' = NoWriter => writer.last /\ Tail(writer.out) = <<>>
  BY <1>5, <1>7 DEF Finishes
<1> QED BY <1>1, <1>2, <1>4, <1>8

\* A chunked answer on the wire was there, or its head goes out.
LEMMA ChunkedBy ==
    ASSUME WireIs, NEW i \in Requests, Chunked(i)'
    PROVE  Chunked(i) \/ (Item("head") /\ i = cur /\ writer.framing = "chunked" /\ open' = cur)
<1>1. PICK k \in DOMAIN heads' :
        heads'[k].of = i /\ heads'[k].kind = "head" /\ heads'[k].framing = "chunked"
  BY DEF Chunked
<1>2. CASE heads' = heads
  BY <1>1, <1>2 DEF Chunked
<1>3. ASSUME NEW j, NEW kind, NEW framing, Grown(HeadOf(j, kind, framing))
      PROVE  Chunked(i) \/ (kind = "head" /\ i = j /\ framing = "chunked")
  <2>1. CASE k \in DOMAIN heads
    BY <1>1, <1>3, <2>1 DEF Grown, Chunked
  <2>2. CASE k \notin DOMAIN heads
    <3>1. heads'[k] = HeadOf(j, kind, framing)
      BY <1>1, <1>3, <2>2 DEF Grown
    <3> QED BY <1>1, <3>1 DEF HeadOf
  <2> QED BY <2>1, <2>2
<1>4. CASE /\ Item("head") /\ Grown(HeadOf(cur, "head", writer.framing))
           /\ open' = IF writer.framing = "none" THEN open ELSE cur
  <2>1. Chunked(i) \/ ("head" = "head" /\ i = cur /\ writer.framing = "chunked")
    BY <1>3, <1>4
  <2> QED BY <1>4, <2>1
<1>5. ASSUME NEW j, NEW framing, Grown(HeadOf(j, "interim", framing)) PROVE Chunked(i)
  <2>1. Chunked(i) \/ ("interim" = "head" /\ i = j /\ framing = "chunked")
    BY <1>3, <1>5
  <2> QED BY <2>1
<1>6. ASSUME NEW j, NEW framing, Grown(HeadOf(j, "error", framing)) PROVE Chunked(i)
  <2>1. Chunked(i) \/ ("error" = "head" /\ i = j /\ framing = "chunked")
    BY <1>3, <1>6
  <2> QED BY <2>1
<1> QED BY <1>2, <1>4, <1>5, <1>6 DEF WireIs

\* Where a chunked answer on the wire of an open connection is.
LEMMA ChunkedIs ==
    ASSUME Stays, ~closed, OnWire, NEW i \in Requests, ClosedAnswers(i), Chunked(i)
    PROVE  /\ app[i].pc # "none"
           /\ Writing(i) => /\ writer.started /\ writer.out # <<"head">>
                            /\ writer.framing = "chunked"
           /\ ~Writing(i) => EndsWell(i)
<1>1. PICK k \in DOMAIN heads :
        heads[k].of = i /\ heads[k].kind = "head" /\ heads[k].framing = "chunked"
  BY DEF Chunked
<1>2. /\ app[i].pc # "none"
      /\ Writing(i) => writer.started /\ writer.out # <<"head">> /\ writer.framing = "chunked"
  BY <1>1 DEF OnWire, FinalHead
<1>3. ~Writing(i) => ex[i].complete
  BY <1>2 DEF Stays, Base, Sides
<1> QED BY <1>2, <1>3 DEF ClosedAnswers

\* An answer whose end was told, or is about to be, ends well.
LEMMA StopsWell ==
    ASSUME NEW i \in Requests, Writing(i), Answering(i), writer.started,
           Closed(writer) \/ Has(Line(i), Stops)
    PROVE  EndsWell(i)
<1>1. ~ex[i].finished
  BY DEF Answering
<1>2. Stopping(Line(i), writer, ex[i], app[i])
  BY <1>1 DEF Answering, Holds
<1> QED BY <1>2 DEF Stopping, EndsWell

\* The answers on the wire that do not end well stay open.
LEMMA StaysOpenStays ==
    ASSUME Stays, WireIs, OnWire, NEW i \in Requests, StaysOpen(i), ClosedAnswers(i),
           \A j \in Requests : WriterOf(j) /\ Answering(j)
    PROVE  StaysOpen(i)'
<1> SUFFICES ASSUME Chunked(i)', ~EndsWell(i)' PROVE open' = i
  BY DEF StaysOpen
<1>1. Typed /\ TypedAt(i) /\ Sides(i) /\ Moves(i) /\ writer \in Writers /\ i # 0
  BY RequestsAre DEF Stays, Base, Moved, Typed
<1>2. Chunked(i) \/ (Item("head") /\ i = cur /\ writer.framing = "chunked" /\ open' = cur)
  BY ChunkedBy
<1>3. app[i].pc # "none" => ~EndsWell(i)
  BY <1>1, EndsWellStays
<1>4. CASE Item("head") /\ open' = IF writer.framing = "none" THEN open ELSE cur
  <2>1. PICK c \in Requests : c = cur /\ Writing(c) /\ Phase(writer) /\ ~closed
    <3>1. cur \in Requests
      BY <1>4, CurStays DEF Item, Writes, Stays, Base, Control, Around
    <3>2. PICK c \in Requests : c = cur
      BY <3>1
    <3> QED BY <1>4, <3>2, WritesIs DEF Item
  <2>2. writer.out = <<"head">>
    <3>1. writer.out # <<>> /\ Head(writer.out) = "head"
      BY <1>4 DEF Item, Writes
    <3> QED BY <1>1, <2>1, <3>1, WrittenPhase
  <2>3. CASE i = cur /\ open' = cur
    BY <2>3
  <2>4. CASE Chunked(i)
    <3>1. app[i].pc # "none" /\ (Writing(i) => writer.out # <<"head">>) /\ (~Writing(i) => EndsWell(i))
      BY <2>1, <2>4, ChunkedIs
    <3> QED BY <1>3, <2>2, <3>1
  <2> QED BY <1>2, <2>3, <2>4
<1>5. CASE Item("end") /\ open' = 0
  <2>1. Chunked(i)
    BY <1>2, <1>5 DEF Item
  <2>2. PICK c \in Requests : c = cur /\ Writing(c) /\ Phase(writer) /\ ~closed
    <3>1. cur \in Requests
      BY <1>5, CurStays DEF Item, Writes, Stays, Base, Control, Around
    <3>2. PICK c \in Requests : c = cur
      BY <3>1
    <3> QED BY <1>5, <3>2, WritesIs DEF Item
  <2>3. /\ app[i].pc # "none"
        /\ Writing(i) => writer.started /\ writer.framing = "chunked"
        /\ ~Writing(i) => EndsWell(i)
    BY <2>1, <2>2, ChunkedIs
  <2>4. Writing(i) => writer.last
    <3>1. writer.out # <<>> /\ Head(writer.out) = "end"
      BY <1>5 DEF Item, Writes
    <3>2. writer.framing # "length" => writer.last
      BY <1>1, <2>2, <3>1, WrittenPhase
    <3> QED BY <2>3, <3>2
  <2>5. Writing(i) => EndsWell(i)
    BY <2>3, <2>4, StopsWell DEF Closed
  <2> QED BY <1>3, <2>3, <2>5
<1>6. CASE open' = open
  <2>1. CASE Chunked(i)
    <3>1. ~EndsWell(i) => open = i
      BY <2>1 DEF StaysOpen
    <3>2. app[i].pc = "none" => ~EndsWell(i)
      BY <1>1 DEF Sides, NoApp, NewExchange, EndsWell
    <3> QED BY <1>3, <1>6, <3>1, <3>2
  <2> QED BY <1>2, <2>1
<1> QED BY <1>4, <1>5, <1>6 DEF WireIs

\* A step that leaves an answer over, on an open connection, is one of its writer.
LEMMA OverByWriter ==
    ASSUME Stays, ~closed', NEW i \in Requests, app[i].pc # "none", Writing(i), ~Writing(i)'
    PROVE  Wrote(i) /\ writer' = NoWriter
<1>1. Moves(i) /\ Base /\ Steps
  BY DEF Stays, Moved
<1>2. Wrote(i)
  BY <1>1 DEF Moves, Untouched, Begun, Fed, Held, Rekept, Refused, TakenDown, Reads, Speaks,
              SameWriter
<1>3. writer \in Writers /\ TypedAt(i)
  BY DEF Stays, Base, Typed
<1>4. PICK w \in Writers, r \in Exchanges : WritesAs(i, w, r)
  BY <1>2, <1>3, WroteActs
<1>5. GoesOn(i, w, r) => Writing(i)'
  BY <1>4 DEF WritesAs, GoesOn, Writing
<1> QED BY <1>2, <1>4, <1>5 DEF WritesAs, Finishes

\* The chunked answers that are over end well.
LEMMA ClosedAnswersStays ==
    ASSUME Stays, WireIs, OnWire, NEW i \in Requests, ClosedAnswers(i),
           \A j \in Requests : WriterOf(j) /\ Answering(j)
    PROVE  ClosedAnswers(i)'
<1> SUFFICES ASSUME ~closed', ex'[i].complete, Chunked(i)' PROVE EndsWell(i)'
  BY DEF ClosedAnswers
<1>1. /\ Typed /\ TypedAt(i) /\ Sides(i) /\ Sides(i)' /\ Moves(i) /\ writer \in Writers
      /\ ~closed /\ Base /\ Steps
  BY Onward DEF Stays, Base, Moved, Typed
<1>2. Chunked(i) \/ (Item("head") /\ i = cur /\ writer.framing = "chunked")
  BY ChunkedBy
<1>3. app[i].pc # "none" /\ app'[i].pc # "none"
  <2>1. CASE Chunked(i)
    BY <1>1, <2>1, ChunkedIs DEF Stays
  <2>2. CASE Item("head") /\ i = cur
    <3>1. Writing(i)
      BY <2>2 DEF Item, Writes, Writing
    <3> QED BY <1>1, <3>1, RequestsAre DEF Stays, Control, Base, Writing
  <2> QED BY <1>2, <2>1, <2>2
<1>4. ~Writing(i)'
  BY <1>1, <1>3 DEF Sides
<1>5. EndsWell(i)
  <2>1. CASE ~Writing(i)
    <3>1. Chunked(i)
      BY <1>2, <2>1 DEF Item, Writes, Writing
    <3> QED BY <1>1, <2>1, <3>1, ChunkedIs
  <2>2. CASE Writing(i)
    <3>1. Wrote(i) /\ writer' = NoWriter
      BY <1>3, <1>4, <2>2, OverByWriter
    <3>2. PICK w \in Writers, r \in Exchanges :
                /\ WritesItem(i, w, r) \/ TakesMessage(i, w)
                /\ Finishes(i, w, r) /\ writer.started
      BY <3>1, WroteIs
    <3>3. Phase(writer)
      BY <2>2 DEF WriterOf
    <3>4. CASE WritesItem(i, w, r)
      <4>1. w = [writer EXCEPT !.out = Tail(writer.out)] /\ writer.out # <<>>
        BY <3>4 DEF WritesItem
      <4>2. w.last = writer.last
        BY <1>1, <3>3, <4>1, WrittenPhase
      <4>3. writer.last
        BY <3>2, <4>2 DEF Finishes
      <4> QED BY <2>2, <3>2, <4>3, StopsWell DEF Closed
    <3>5. CASE TakesMessage(i, w)
      <4>1. PICK m \in Messages : Ending(writer, m, w) /\ 1 \in DOMAIN Line(i) /\ Line(i)[1] = m
        BY <3>1, <3>5 DEF TakesMessage
      <4>2. writer.out = <<>>
        BY <3>5 DEF TakesMessage
      <4>3. ~Item("head")
        BY <4>2 DEF Item, Writes
      <4>4. writer.framing = "chunked"
        BY <1>1, <1>2, <2>2, <4>3, ChunkedIs
      <4>5. Has(Line(i), Stops)
        BY <4>1, <4>4 DEF Ending, Has, Stops
      <4> QED BY <2>2, <3>2, <4>5, StopsWell
    <3> QED BY <3>2, <3>4, <3>5
  <2> QED BY <2>1, <2>2
<1> QED BY <1>1, <1>3, <1>5, EndsWellStays

\* A writer that has begun its answer never begins it again.
LEMMA BegunStays ==
    ASSUME Stays, ~closed', NEW i \in Requests, app[i].pc # "none", WriterOf(i), Answering(i),
           Writing(i) => writer.started /\ writer.out # <<"head">>, Writing(i)'
    PROVE  writer'.started /\ writer'.out # <<"head">> /\ writer'.framing = writer.framing
           /\ Writing(i)
<1>1. Moves(i) /\ writer \in Writers
  BY DEF Stays, Moved, Base, Typed
<1>2. CASE SameWriter(i)
  BY <1>2 DEF SameWriter
<1>3. CASE ~SameWriter(i)
  <2>1. Wrote(i) /\ Writing(i)
    BY <1>1, <1>3 DEF Moves, Untouched, Begun, Fed, Held, Rekept, Refused, TakenDown, Reads, Speaks,
                      Wrote
  <2>2. writer' # NoWriter
    BY DEF Writing, NoWriter
  <2>3. PICK w \in Writers, r \in Exchanges :
                /\ WritesItem(i, w, r) \/ TakesMessage(i, w)
                /\ writer' # NoWriter => GoesOn(i, w, r)
    BY <2>1, WroteIs
  <2>4. writer' = w /\ Phase(writer)
    BY <2>1, <2>2, <2>3 DEF GoesOn, WriterOf
  <2>5. CASE WritesItem(i, w, r)
    <3>1. w = [writer EXCEPT !.out = Tail(writer.out)] /\ writer.out # <<>>
      BY <2>5 DEF WritesItem
    <3>2. w.started = writer.started /\ w.framing = writer.framing /\ w.out # <<"head">>
      BY <1>1, <2>4, <3>1, WrittenPhase
    <3> QED BY <2>1, <2>4, <3>2
  <2>6. CASE TakesMessage(i, w)
    <3>1. PICK m \in Messages : Takings(writer, m, w)
      BY <2>2, <2>6 DEF TakesMessage
    <3> QED BY <2>1, <2>4, <3>1 DEF Takings
  <2> QED BY <2>1, <2>3, <2>5, <2>6
<1> QED BY <1>2, <1>3

\* A head is written at once, and nothing else with it.
LEMMA HeadWritten ==
    ASSUME Stays, Item("head"), NEW c \in Requests, c = cur, WriterOf(c), Answering(c)
    PROVE  /\ Writing(c) /\ ~closed /\ ~closed' /\ cur' = c /\ writer.out = <<"head">>
           /\ writer.started /\ writer'.started /\ writer'.out = <<>>
           /\ writer'.framing = writer.framing /\ writer'.sent = 0 /\ Writing(c)'
<1>1. /\ Writing(c) /\ ~closed /\ ~closed' /\ Phase(writer) /\ cur' = c
      /\ writer' # NoWriter => writer' = [writer EXCEPT !.out = Tail(writer.out)]
      /\ writer' = NoWriter => writer.last
      /\ writer.out # <<>> /\ Head(writer.out) = "head" /\ writer \in Writers
  BY WritesIs DEF Item, Writes, Stays, Base, Typed
<1> DEFINE v == [writer EXCEPT !.out = Tail(writer.out)]
<1>2. /\ v.started = writer.started /\ v.framing = writer.framing /\ v.sent = writer.sent
      /\ writer.out = <<"head">> /\ v.out = <<>> /\ writer.started
  BY <1>1, WrittenPhase
<1>3. writer.sent = 0 /\ ~writer.last
  BY <1>1, <1>2 DEF Phase
<1>4. v.pc = writer.pc /\ v.of = writer.of
  BY <1>1 DEF Writers
<1>5. writer' = v
  BY <1>1, <1>3
<1> HIDE DEF v
<1> QED BY <1>1, <1>2, <1>3, <1>4, <1>5 DEF Writing

\* The final heads on the wire are of requests that were dispatched, and of the
\* answers of their writers.
LEMMA OnWireStays ==
    ASSUME Stays, WireIs, OnWire, \A j \in Requests : WriterOf(j) /\ Answering(j)
    PROVE  OnWire'
<1> SUFFICES ASSUME ~closed', NEW k \in DOMAIN heads', FinalHead(heads'[k]), heads' \in Seq(Heads)
             PROVE  /\ heads'[k].of # 0 /\ app'[heads'[k].of].pc # "none"
                    /\ writer'.pc = "run" /\ writer'.of = heads'[k].of =>
                            /\ writer'.started /\ writer'.out # <<"head">>
                            /\ heads'[k].framing = writer'.framing
  BY DEF OnWire, Writing, FinalHead, Stays, Around
<1>1. ~closed /\ heads \in Seq(Heads) /\ 0 \notin Requests
  BY Onward, RequestsAre DEF Stays, Base, Around
<1>2. CASE k \in DOMAIN heads /\ heads'[k] = heads[k]
  <2> DEFINE h == heads[k]
  <2>1. h.of \in Requests
    <3>1. heads[k] \in Heads
      BY <1>1, <1>2, LenProperties, ElementOfSeq
    <3> QED BY <1>1, <1>2, <3>1 DEF OnWire, Heads
  <2>2. PICK j \in Requests : j = h.of
    BY <2>1
  <2>3. /\ app[j].pc # "none" /\ app'[j].pc # "none"
        /\ Writing(j) => writer.started /\ writer.out # <<"head">> /\ h.framing = writer.framing
    BY <1>1, <1>2, <2>2 DEF OnWire, Stays
  <2>4. Writing(j)' => /\ writer'.started /\ writer'.out # <<"head">>
                       /\ writer'.framing = writer.framing /\ Writing(j)
    BY <2>3, BegunStays
  <2> QED BY <1>1, <1>2, <2>2, <2>3, <2>4 DEF Writing
<1>3. ASSUME NEW i, NEW kind, NEW framing, Grown(HeadOf(i, kind, framing)), k \notin DOMAIN heads
      PROVE  heads'[k].of = i /\ heads'[k].kind = kind /\ heads'[k].framing = framing
  <2>1. heads'[k] = HeadOf(i, kind, framing)
    BY <1>3 DEF Grown
  <2> QED BY <2>1 DEF HeadOf
<1>4. CASE Item("head") /\ Grown(HeadOf(cur, "head", writer.framing)) /\ k \notin DOMAIN heads
  <2>1. heads'[k].of = cur /\ heads'[k].framing = writer.framing
    BY <1>3, <1>4
  <2>2. PICK c \in Requests : c = cur
    BY <1>1, <1>4, CurStays DEF Item, Writes
  <2>3. /\ writer'.started /\ writer'.out = <<>> /\ writer'.framing = writer.framing /\ Writing(c)
    BY <1>4, <2>2, HeadWritten
  <2>4. app[c].pc # "none" /\ app'[c].pc # "none"
    BY <2>2, <1>1 DEF Stays, Base, Control
  <2> QED BY <1>1, <2>1, <2>2, <2>3, <2>4, Items
<1>5. ASSUME NEW i, NEW framing, Grown(HeadOf(i, "interim", framing)) PROVE k \in DOMAIN heads
  BY <1>3, <1>5 DEF FinalHead
<1>6. CASE k \notin DOMAIN heads
  BY <1>1, <1>4, <1>5, <1>6 DEF WireIs, SaysError
<1>7. CASE k \in DOMAIN heads
  BY <1>2, <1>7 DEF WireIs, Grown
<1> QED BY <1>6, <1>7

\* The reader waits for data when there is nothing it can do without.
LEMMA DataSeenStays ==
    ASSUME Stays, DataSeen
    PROVE  DataSeen'
<1> SUFFICES ASSUME reader' = "data", ~dataEvent' PROVE NothingToRead'
  BY DEF DataSeen
<1>1. ASSUME UNCHANGED <<stream, read, arrived, state, cur>>
      PROVE  NothingToRead' <=> NothingToRead
  BY <1>1 DEF NothingToRead, Rest, Buffered, Buffer
<1>2. Steps /\ stream' = stream /\ Base
  BY DEF Stays, Steps
<1>3. CASE Rests
  <2>1. UNCHANGED <<stream, read, arrived, state, cur>> /\ reader = "data" /\ ~dataEvent
    BY <1>2, <1>3 DEF Rests
  <2> QED BY <1>1, <2>1 DEF DataSeen
<1>4. CASE Answers
  <2>1. UNCHANGED <<stream, read, arrived, state, cur>> /\ reader = "data" /\ ~dataEvent
    BY <1>2, <1>4 DEF Answers, OnResponseFinished
  <2> QED BY <1>1, <2>1 DEF DataSeen
<1>5. CASE AwaitData
  <2>1. UNCHANGED <<stream, read, arrived, state, cur>> /\ NothingToRead
    BY <1>5 DEF AwaitData
  <2> QED BY <1>1, <2>1
<1>6. ~Falls /\ ~Refuses /\ ~Passes /\ ~Sleeps /\ ~Abandons /\ ~DataWake /\ ~RefuseHead
      /\ ~AwaitResponse /\ ~FinishRequest /\ ~Dispatch /\ ~Decodes
  BY DEF Falls, Refuses, Passes, Sleeps, Abandons, DataWake, RefuseHead, AwaitResponse,
         FinishRequest, Dispatch, Decodes, HasWoken
<1> QED BY <1>2, <1>3, <1>4, <1>5, <1>6 DEF Steps

\* Who finishes an answer whose body is open on the wire does not keep the
\* connection, unless it ends that body there.
LEMMA LeftOpen ==
    ASSUME Stays, Careful, NEW i \in Requests, Wrote(i), WriterOf(i), Answering(i),
           writer' = NoWriter, writer.out # <<"head">>, writer.framing # "none",
           writer.framing = "length" /\ writer.sent = Declared => writer.out = <<"end">>,
           open' # 0
    PROVE  ~ex'[i].keep
<1>1. PICK w \in Writers, r \in Exchanges :
            /\ WritesAs(i, w, r) /\ (WritesItem(i, w, r) \/ TakesMessage(i, w))
            /\ Finishes(i, w, r) /\ writer.started /\ ~ex[i].finished
  BY WroteIs
<1>2. /\ Writing(i) /\ writer \in Writers /\ Phase(writer) /\ w.out = <<>> /\ w.last
      /\ writer.framing = "close" => ~ex[i].keep
      /\ writer.framing \in {"chunked", "length", "close", "none"}
  BY <1>1 DEF Wrote, WriterOf, Finishes, Stays, Base, Typed, Writers, Framings
<1>3. ex'[i].keep => ex[i].keep /\ LengthMet(w)
  BY <1>1 DEF Finishes, WritesAs
<1>4. CASE writer.framing = "close"
  BY <1>2, <1>3, <1>4
<1>5. CASE writer.framing = "length"
  <2>1. writer.sent # Declared => w.sent # Declared /\ w.framing = "length"
    <3>1. CASE WritesItem(i, w, r)
      <4>1. w.sent = writer.sent /\ w.framing = writer.framing
        BY <1>2, <3>1, WrittenPhase DEF WritesItem
      <4> QED BY <1>5, <4>1
    <3>2. CASE TakesMessage(i, w)
      BY <1>5, <3>2 DEF TakesMessage, Ending
    <3> QED BY <1>1, <3>1, <3>2
  <2>2. CASE writer.sent # Declared
    BY <1>3, <2>1, <2>2 DEF LengthMet
  <2>3. CASE writer.sent = Declared
    <3>1. writer.out = <<"end">>
      BY <1>5, <2>3
    <3>2. Emit("end", i, writer.framing)
      BY <1>1, <3>1, Items DEF WritesItem, TakesMessage
    <3> QED BY <3>2 DEF Emit
  <2> QED BY <2>2, <2>3
<1>6. CASE writer.framing = "chunked"
  <2>1. CASE WritesItem(i, w, r)
    <3>1. w = [writer EXCEPT !.out = Tail(writer.out)] /\ writer.out # <<>>
          /\ Emit(Head(writer.out), i, writer.framing)
      BY <2>1 DEF WritesItem
    <3>2. Head(writer.out) = "end"
      BY <1>2, <1>6, <3>1, WrittenPhase, ZenonT(60)
    <3> QED BY <3>1, <3>2 DEF Emit
  <2>2. CASE TakesMessage(i, w)
    <3>1. writer.out = <<>> /\ ~writer.awaiting /\ 1 \in DOMAIN Line(i) /\ Line(i)[1] = Trailers
      BY <1>6, <2>2 DEF TakesMessage, Ending
    <3>2. TrailersLast(Line(i), writer, ex[i])
      BY <1>1, <1>2 DEF Answering, Holds
    <3>3. ~\E j \in 1 .. 1 - 1 : Line(i)[j] \in Final
      OBVIOUS
    <3>4. Closed(writer)
      BY <3>1, <3>2, <3>3 DEF TrailersLast
    <3> QED BY <1>2, <3>1, <3>4 DEF Closed, Phase
  <2> QED BY <1>1, <2>1, <2>2
<1> QED BY <1>2, <1>4, <1>5, <1>6

\* The body that is open on the wire is that of the answer that is written, or of
\* one that closes the connection.
LEMMA OpenBodyStays ==
    ASSUME Stays, WireIs, OpenBody, \A j \in Requests : WriterOf(j) /\ Answering(j)
    PROVE  OpenBody'
<1> SUFFICES ASSUME Careful, ~closed', open' # 0
             PROVE  /\ cur' = open'
                    /\ ex'[cur'].complete => ~ex'[cur'].keep
                    /\ writer'.pc = "run" /\ writer'.of = cur' =>
                        /\ writer'.started /\ writer'.out # <<"head">> /\ writer'.framing # "none"
                        /\ writer'.framing = "length" /\ writer'.sent = Declared
                                => writer'.out = <<"end">>
  BY DEF OpenBody, Writing
<1>1. ~closed /\ 0 \notin Requests /\ writer \in Writers /\ cur \in Requests \cup {0} /\ Base /\ Steps
  BY Onward, RequestsAre DEF Stays, Base, Around, Typed
<1>2. CASE Item("head") /\ open' = cur /\ writer.framing # "none"
  <2>1. PICK c \in Requests : c = cur
    BY <1>1, <1>2, CurStays DEF Item, Writes
  <2>2. /\ cur' = c /\ writer'.started /\ writer'.out = <<>> /\ writer'.sent = 0 /\ Writing(c)'
        /\ writer'.framing = writer.framing
    BY <1>2, <2>1, HeadWritten
  <2>3. ~ex'[c].complete
    BY <2>1, <2>2, WhoWrites, <1>1 DEF Writing
  <2>4. writer'.sent # Declared
    BY <2>2, ConnectionAssumption
  <2> QED BY <1>2, <2>1, <2>2, <2>3, <2>4, Items
<1>3. CASE open' = open
  <2>1. /\ cur = open /\ (ex[cur].complete => ~ex[cur].keep)
        /\ Writing(cur) =>
            /\ writer.started /\ writer.out # <<"head">> /\ writer.framing # "none"
            /\ writer.framing = "length" /\ writer.sent = Declared => writer.out = <<"end">>
    BY <1>1, <1>3 DEF OpenBody
  <2>2. PICK c \in Requests : c = cur
    BY <1>1, <1>3, <2>1
  <2>3. /\ app[c].pc # "none" /\ app'[c].pc # "none"
        /\ ex[c].complete <=> writer.pc # "run"
        /\ cur' = c => (ex'[c].complete <=> writer'.pc # "run")
        /\ ex'[c].keep => ex[c].keep
        /\ Writing(c) <=> writer.pc = "run"
    BY <1>1, <2>2, WhoWrites
  <2>4. cur' = c
    <3>1. CASE writer.pc = "run"
      BY <2>2, <3>1, CurStays
    <3>2. CASE writer.pc # "run"
      <4>1. ~ex[cur].keep /\ cur # 0
        BY <1>1, <2>1, <2>2, <2>3, <3>2
      <4>2. ~AwaitResponse
        BY <4>1 DEF AwaitResponse
      <4>3. ~Dispatch
        BY <1>1, <4>1, DispatchIsOfNew
      <4> QED BY <1>1, <2>2, <4>2, <4>3 DEF Steps, Rests, Falls, Answers, Refuses, Decodes, Passes,
                Sleeps, Abandons, Emits, RefuseHead, FinishRequest, AwaitData, DataWake
    <3> QED BY <3>1, <3>2
  <2>5. ASSUME ex'[c].complete PROVE ~ex'[c].keep
    <3>1. CASE ex[c].complete
      BY <2>1, <2>2, <2>3, <3>1
    <3>2. CASE ~ex[c].complete
      <4>1. Writing(c) /\ ~Writing(c)'
        BY <2>3, <2>4, <2>5, <3>2 DEF Writing
      <4>2. Wrote(c) /\ writer' = NoWriter
        BY <2>3, <4>1, OverByWriter
      <4> QED BY <2>1, <2>2, <4>1, <4>2, LeftOpen
    <3> QED BY <3>1, <3>2
  <2>6. ASSUME writer'.pc = "run" /\ writer'.of = c
        PROVE  /\ writer'.started /\ writer'.out # <<"head">> /\ writer'.framing # "none"
               /\ writer'.framing = "length" /\ writer'.sent = Declared => writer'.out = <<"end">>
    <3>1. Writing(c)'
      BY <2>6 DEF Writing
    <3>2. /\ writer'.started /\ writer'.out # <<"head">> /\ writer'.framing = writer.framing
          /\ Writing(c)
      BY <2>1, <2>2, <2>3, <3>1, BegunStays
    <3>3. ASSUME writer.framing = "length", writer'.sent = Declared PROVE writer'.out = <<"end">>
      <4>1. CASE SameWriter(c)
        BY <2>1, <2>2, <3>2, <3>3, <4>1 DEF SameWriter
      <4>2. CASE ~SameWriter(c)
        <5>1. Wrote(c)
          BY <2>3, <4>2 DEF Stays, Moved, Moves, Untouched, Begun, Fed, Held, Rekept, Refused, TakenDown,
                            Reads, Speaks
        <5>2. writer' # NoWriter
          BY <2>6 DEF NoWriter
        <5>3. PICK w \in Writers, r \in Exchanges :
                    /\ WritesItem(c, w, r) \/ TakesMessage(c, w)
                    /\ writer' # NoWriter => GoesOn(c, w, r)
          BY <5>1, WroteIs
        <5>4. writer' = w /\ Phase(writer)
          BY <3>2, <5>2, <5>3 DEF GoesOn, WriterOf
        <5>5. CASE WritesItem(c, w, r)
          <6>1. /\ w = [writer EXCEPT !.out = Tail(writer.out)] /\ writer.out # <<>>
                /\ Emit(Head(writer.out), c, writer.framing)
            BY <5>5 DEF WritesItem
          <6>2. /\ w.sent = writer.sent
                /\ writer.sent = Declared => Head(writer.out) = "end"
            BY <1>1, <2>1, <2>2, <3>2, <3>3, <5>4, <6>1, WrittenPhase
          <6>3. Head(writer.out) = "end"
            BY <3>3, <5>4, <6>2
          <6> QED BY <6>1, <6>3 DEF Emit
        <5>6. CASE TakesMessage(c, w)
          <6>1. PICK m \in Messages : Takings(writer, m, w)
            BY <5>2, <5>6 DEF TakesMessage
          <6>2. writer.out = <<>> /\ writer.sent # Declared
            BY <2>1, <2>2, <3>2, <3>3, <5>6, Items DEF TakesMessage
          <6>3. w.framing = "length"
            BY <3>2, <3>3, <5>4
          <6> QED BY <2>1, <2>2, <3>2, <3>3, <5>4, <6>1, <6>2, <6>3 DEF Takings
        <5> QED BY <5>3, <5>5, <5>6
      <4> QED BY <4>1, <4>2
    <3> QED BY <2>1, <2>2, <3>2, <3>3
  <2> QED BY <1>3, <2>1, <2>2, <2>4, <2>5, <2>6
<1> QED BY <1>2, <1>3 DEF WireIs

\* Nothing that begins like an answer goes out while a body is open.
LEMMA NothingInside ==
    ASSUME Stays, OpenBody, Careful, \A j \in Requests : WriterOf(j) /\ Answering(j),
           Item("head") \/ Item("interim") \/ SaysError \/ SaysContinue
    PROVE  open = 0
<1> SUFFICES ASSUME open # 0 PROVE FALSE
  OBVIOUS
<1>1. /\ ~closed /\ 0 \notin Requests /\ writer \in Writers /\ cur \in Requests \cup {0} /\ Base
  BY RequestsAre DEF Stays, Base, Around, Typed, Item, Writes, SaysError, SaysContinue
<1>2. /\ cur = open
      /\ Writing(cur) => writer.started /\ writer.out # <<"head">>
  BY <1>1 DEF OpenBody
<1>3. PICK c \in Requests : c = cur
  BY <1>1, <1>2
<1>4. ASSUME NEW item \in {"head", "interim"}, Item(item) PROVE FALSE
  <2>1. Writing(c) /\ Phase(writer) /\ writer.out # <<>> /\ Head(writer.out) = item
    BY <1>3, <1>4, WritesIs DEF Item, Writes
  <2>2. /\ item = "head" => writer.out = <<"head">>
        /\ item = "interim" => ~writer.started
    BY <1>1, <2>1, WrittenPhase
  <2> QED BY <1>2, <1>3, <2>1, <2>2
<1>5. CASE SaysError
  <2>1. Writing(c) /\ ex[c].finished
    BY <1>1, <1>3, <1>5 DEF SaysError, Base, Control
  <2> QED BY <1>2, <1>3, <2>1 DEF Answering
<1>6. CASE SaysContinue
  <2>1. ~ex[c].started /\ app[c].pc # "none" /\ Sides(c)
    BY <1>1, <1>3, <1>6 DEF SaysContinue, Base, Control
  <2>2. CASE Writing(c)
    <3>1. writer.started
      BY <1>2, <1>3, <2>2
    <3> QED BY <2>1, <2>2, <3>1 DEF Answering, Holds, Opening
  <2>3. CASE ~Writing(c)
    BY <1>1, <2>1, <2>3 DEF Sides
  <2> QED BY <2>2, <2>3
<1> QED BY <1>4, <1>5, <1>6

\* No status line inside a body.
LEMMA HeadsOutsideBodiesStays ==
    ASSUME Stays, WireIs, OpenBody, Careful, HeadsOutsideBodies,
           \A j \in Requests : WriterOf(j) /\ Answering(j)
    PROVE  HeadsOutsideBodies'
<1> SUFFICES ASSUME NEW k \in DOMAIN heads' PROVE heads'[k].inside = 0
  BY DEF HeadsOutsideBodies
<1>1. CASE heads' = heads
  BY <1>1 DEF HeadsOutsideBodies
<1>2. ASSUME NEW i, NEW kind, NEW framing, Grown(HeadOf(i, kind, framing)), open = 0
      PROVE  heads'[k].inside = 0
  <2>1. k \in DOMAIN heads => heads'[k] = heads[k]
    BY <1>2 DEF Grown
  <2>2. k \notin DOMAIN heads => heads'[k] = HeadOf(i, kind, framing)
    BY <1>2 DEF Grown
  <2> QED BY <1>2, <2>1, <2>2 DEF HeadOf, HeadsOutsideBodies
<1>3. CASE heads' # heads
  <2>1. open = 0
    BY <1>3, NothingInside DEF WireIs
  <2> QED BY <1>2, <1>3, <2>1 DEF WireIs
<1> QED BY <1>1, <1>3

\* A final head goes out after those of earlier requests only.
LEMMA LaterThanAll ==
    ASSUME Stays, OnWire, NEW j \in DOMAIN heads, FinalHead(heads[j]),
           \A i \in Requests : WriterOf(i) /\ Answering(i)
    PROVE  /\ Item("head") => heads[j].of < cur
           /\ SaysError => heads[j].of < IF cur # 0 THEN cur ELSE Buffer[1].of
<1>1. /\ Around /\ Base /\ Requests \subseteq Nat /\ 0 \notin Requests /\ heads \in Seq(Heads)
      /\ cur \in Requests \cup {0} /\ writer \in Writers
  BY RequestsAre DEF Stays, Base, Around, Typed
<1>2. CASE closed
  BY <1>2 DEF Item, Writes, SaysError
<1>3. CASE ~closed
  <2>1. heads[j] \in Heads
    BY <1>1, LenProperties, ElementOfSeq
  <2>2. PICK p \in Requests : p = heads[j].of
    BY <1>3, <2>1 DEF OnWire, Heads
  <2>3. /\ app[p].pc # "none" /\ Dispatched(p)
        /\ Writing(p) => writer.started /\ writer.out # <<"head">>
    BY <1>1, <1>3, <2>2 DEF OnWire, Base
  <2>4. p \in Nat /\ cur \in Nat /\ (cur # 0 => p <= cur)
    BY <1>1, <1>3, <2>3 DEF Dispatched
  <2>5. CASE Item("head")
    <3>1. PICK c \in Requests : c = cur
      BY <1>1, <2>5 DEF Item, Writes, Base, Control
    <3>2. Writing(c) /\ writer.out = <<"head">>
      BY <2>5, <3>1, HeadWritten
    <3>3. p # cur /\ cur # 0
      BY <1>1, <2>3, <3>1, <3>2
    <3>4. ~SaysError
      BY <2>5, <3>1, <3>2, HeadWritten DEF SaysError
    <3> QED BY <2>2, <2>4, <3>3, <3>4
  <2>6. CASE SaysError /\ cur # 0
    <3>1. Writing(cur) /\ ex[cur].finished
      BY <1>1, <1>3, <2>6 DEF SaysError, Base, Control
    <3>2. cur \in Requests => ~writer.started
      BY <3>1 DEF Answering
    <3>3. p # cur
      BY <1>1, <2>3, <2>6, <3>1, <3>2
    <3>4. p < cur
      BY <2>4, <2>6, <3>3
    <3>5. ~Item("head")
      <4>1. cur \in Requests
        BY <1>1, <2>6
      <4>2. PICK c \in Requests : c = cur
        BY <4>1
      <4> QED BY <2>6, <4>2, HeadWritten DEF SaysError
    <3> QED BY <2>2, <2>6, <3>4, <3>5
  <2>7. CASE SaysError /\ cur = 0
    <3>1. read < arrived /\ state = "idle"
      BY <1>1, <1>3, <2>7 DEF SaysError, Base, Control
    <3>2. /\ read \in Nat /\ arrived \in Nat /\ arrived <= Len(stream) /\ Len(stream) \in Nat
          /\ DOMAIN stream = 1 .. Len(stream)
          /\ \A k \in DOMAIN stream : stream[k].of \in Requests
          /\ \A k \in DOMAIN stream :
                IsHead(stream[k]) <=> \A l \in 1 .. k - 1 : stream[l].of # stream[k].of
          /\ \A l, k \in DOMAIN stream : l <= k => stream[l].of <= stream[k].of
      BY <1>1, StreamIs
    <3>3. Buffer[1] = stream[read + 1] /\ read + 1 \in DOMAIN stream
      <4>1. ~(read = arrived)
        BY <3>1, <3>2
      <4> QED BY <1>1, <4>1, BufferIs
    <3>4. read < Len(stream)
      BY <3>1, <3>2
    <3>5. IsHead(stream[read + 1])
      BY <1>1, <1>3, <3>1, <3>4 DEF Base, Reading
    <3>6. PICK k \in 1 .. read : stream[k].of = p
      BY <2>3 DEF Dispatched
    <3>7. k \in DOMAIN stream /\ k <= read + 1 /\ k \in 1 .. (read + 1) - 1
      BY <3>2, <3>4, <3>6
    <3>8. p <= stream[read + 1].of
      BY <3>2, <3>3, <3>6, <3>7
    <3>9. p # stream[read + 1].of
      BY <3>2, <3>3, <3>5, <3>6, <3>7
    <3>10. stream[read + 1].of \in Nat
      BY <1>1, <3>2, <3>3
    <3>11. p < Buffer[1].of
      BY <2>4, <3>3, <3>8, <3>9, <3>10
    <3>12. ~Item("head")
      BY <1>1, <2>7 DEF Item, Writes, Base, Control
    <3> QED BY <2>2, <2>7, <3>11, <3>12
  <2> QED BY <2>5, <2>6, <2>7
<1> QED BY <1>2, <1>3

\* The answers are in the order of their requests.
LEMMA AnswersInOrderStays ==
    ASSUME Stays, WireIs, OnWire, AnswersInOrder, \A i \in Requests : WriterOf(i) /\ Answering(i)
    PROVE  AnswersInOrder'
<1> SUFFICES ASSUME NEW j \in DOMAIN heads', NEW k \in DOMAIN heads', j < k,
                    FinalHead(heads'[j]), FinalHead(heads'[k])
             PROVE  heads'[j].of < heads'[k].of
  BY DEF AnswersInOrder, FinalHead
<1>1. CASE heads' = heads
  BY <1>1 DEF AnswersInOrder
<1>2. heads \in Seq(Heads) /\ DOMAIN heads = 1 .. Len(heads) /\ Len(heads) \in Nat
      /\ heads' \in Seq(Heads) /\ DOMAIN heads' = 1 .. Len(heads')
  BY LenProperties DEF Stays, Base, Around
<1>3. ASSUME NEW i, NEW kind, NEW framing, Grown(HeadOf(i, kind, framing)),
             kind = "interim" \/ \A l \in DOMAIN heads : FinalHead(heads[l]) => heads[l].of < i
      PROVE  heads'[j].of < heads'[k].of
  <2>1. CASE k \in DOMAIN heads
    <3>1. j \in DOMAIN heads
      BY <1>2, <1>3, <2>1 DEF Grown
    <3> QED BY <1>3, <2>1, <3>1 DEF Grown, AnswersInOrder
  <2>2. CASE k \notin DOMAIN heads
    <3>1. heads'[k] = HeadOf(i, kind, framing) /\ k = Len(heads) + 1
      BY <1>3, <2>2 DEF Grown
    <3>2. j # Len(heads) + 1
      BY <1>2, <3>1
    <3>3. j \in DOMAIN heads /\ heads'[j] = heads[j]
      BY <1>3, <3>2 DEF Grown
    <3>4. heads'[k].kind = kind /\ heads'[k].of = i
      BY <3>1 DEF HeadOf
    <3>5. kind # "interim"
      BY <3>4 DEF FinalHead
    <3> QED BY <1>3, <3>3, <3>4, <3>5
  <2> QED BY <2>1, <2>2
<1>4. CASE Item("head") /\ Grown(HeadOf(cur, "head", writer.framing))
  <2>1. \A l \in DOMAIN heads : FinalHead(heads[l]) => heads[l].of < cur
    BY <1>4, LaterThanAll
  <2> QED BY <1>3, <1>4, <2>1
<1>5. CASE SaysError /\ Grown(HeadOf(IF cur # 0 THEN cur ELSE Buffer[1].of, "error", "none"))
  <2> DEFINE i == IF cur # 0 THEN cur ELSE Buffer[1].of
  <2>1. \A l \in DOMAIN heads : FinalHead(heads[l]) => heads[l].of < i
    BY <1>5, LaterThanAll
  <2>2. Grown(HeadOf(i, "error", "none"))
    BY <1>5
  <2> HIDE DEF i
  <2> QED BY <1>3, <2>1, <2>2
<1>6. ASSUME NEW i, NEW framing, Grown(HeadOf(i, "interim", framing))
      PROVE  heads'[j].of < heads'[k].of
  BY <1>3, <1>6
<1> QED BY <1>1, <1>4, <1>5, <1>6 DEF WireIs

-----------------------------------------------------------------------------
\* The inductive invariant holds.

\* What the lemmas on one conjunct at a time start from.
LEMMA NextStays ==
    ASSUME IInv, [Next]_vars
    PROVE  Stays /\ WireIs
<1>1. Base /\ \A i \in Requests : AtRequest(i)
  BY DEF IInv, Base, AtRequest
<1>2. Steps /\ Moved
  BY <1>1, NextSteps, NextMoves
<1>3. ASSUME writer.pc = "run" PROVE Phase(writer)
  <2>1. PICK c \in Requests : c = cur
    BY <1>1, <1>3 DEF Base, Control, Around
  <2>2. Writing(c)
    BY <1>1, <1>3, <2>1 DEF Base, Control, Writing
  <2> QED BY <1>1, <2>2 DEF AtRequest, WriterOf
<1>4. Wires
  <2>1. writer.pc = "run" => ~writer.aborted
    BY <1>3 DEF Phase
  <2> QED BY <1>1, <2>1, NextWires
<1>5. Typed' /\ \A i \in Requests : TypedAt(i) /\ TypedAt(i)'
  BY <1>1, <1>2, TypedStays
<1>6. Around'
  BY <1>1, <1>2, <1>4, AroundStays
<1>7. Tasks
  BY <1>1, <1>2, Onward DEF Tasks
<1>8. ASSUME NEW i \in Requests
      PROVE  /\ Sides(i)' /\ (app[i].pc # "none" => app'[i].pc # "none")
             /\ Wrote(i) /\ writer' = NoWriter => ex[i].started /\ ~ex[i].finished
  <2>1. Typed /\ Sides(i) /\ Answering(i) /\ Moves(i) /\ TypedAt(i) /\ TypedAt(i)'
    BY <1>1, <1>2, <1>5 DEF Base, AtRequest, Moved
  <2>2. Writing(i) => Phase(writer) /\ app[i].pc # "none"
    BY <1>1, <1>3 DEF Writing, Base, Control
  <2>3. Wrote(i) /\ writer' = NoWriter => ex[i].started /\ ~ex[i].finished
    BY <2>1, <2>2, EndsStarted DEF Wrote
  <2>4. Sides(i)' /\ (app[i].pc # "none" => app'[i].pc # "none")
    BY <1>7, <2>1, <2>2, <2>3, SidesStay
  <2> QED BY <2>3, <2>4
<1>9. Stays
  BY <1>1, <1>2, <1>5, <1>6, <1>7, <1>8 DEF Stays
<1> QED BY <1>4, <1>9, WiresAre

\* Nothing was read, dispatched or written yet.
LEMMA InitIInv == Init => IInv
<1> SUFFICES ASSUME Init PROVE IInv
  OBVIOUS
<1>1. /\ 0 \notin Requests /\ \A i \in Requests : ex[i] = NewExchange /\ app[i] = NoApp
      /\ <<>> \in Seq(Messages) /\ <<>> \in Seq(RequestMessages) /\ Len(<<>>) = 0
      /\ DOMAIN <<>> = {}
  BY RequestsAre, EmptySeq DEF Init
<1>2. Typed
  <2>1. NewExchange \in Exchanges /\ NoApp \in Apps
    BY <1>1 DEF NewExchange, NoApp, Exchanges, Apps
  <2>2. NoWriter \in Writers
    BY EmptySeq DEF NoWriter, Writers, Framings
  <2>3. Len(NewExchange.recv) <= RecvMax /\ Len(NewExchange.send) <= SendMax
    BY <1>1, QueueAssumption DEF NewExchange
  <2> QED BY <1>1, <2>1, <2>2, <2>3 DEF Typed, Init
<1>3. Around
  <2>1. stream \in Seq(Tokens)
    BY ConnectionAssumption DEF Init
  <2>2. Len(stream) \in Nat
    BY <2>1, LenProperties
  <2>3. heads \in Seq(Heads)
    BY EmptySeq DEF Init
  <2>4. /\ arrived \in 0 .. Len(stream) /\ read \in 0 .. arrived /\ taken \subseteq DOMAIN stream
        /\ stream \in Streams /\ served \in Nat /\ open \in Requests \cup {0}
        /\ cur \in Requests \cup {0}
    BY <2>2 DEF Init
  <2> QED BY <2>3, <2>4 DEF Around, Init
<1>4. Control
  BY DEF Control, Init, NoWriter
<1>5. Reading
  <2>1. read = 0 /\ Len(stream) \in Nat /\ DOMAIN stream = 1 .. Len(stream)
        /\ \A k \in DOMAIN stream :
                IsHead(stream[k]) <=> \A j \in 1 .. k - 1 : stream[j].of # stream[k].of
    BY <1>3, StreamIs DEF Init
  <2>2. ASSUME read < Len(stream) PROVE IsHead(stream[read + 1])
    <3>1. 1 \in DOMAIN stream /\ read + 1 = 1 /\ 1 .. 1 - 1 = {}
      BY <2>1, <2>2
    <3> QED BY <2>1, <3>1
  <2> QED BY <2>2 DEF Reading, Init
<1>6. /\ Passing /\ OnWire /\ OpenBody /\ AnswersInOrder /\ HeadsOutsideBodies /\ DataSeen
  BY <1>1 DEF Passing, OnWire, OpenBody, AnswersInOrder, HeadsOutsideBodies, DataSeen, Init
<1>7. ASSUME NEW i \in Requests PROVE AtRequest(i)
  <2>1. ex[i] = NewExchange /\ app[i] = NoApp /\ ~Writing(i)
    BY <1>1 DEF Init, Writing, NoWriter
  <2>2. Sides(i) /\ Dispatched(i) /\ WriterOf(i) /\ Answering(i) /\ Spaced(i)
    BY <2>1 DEF Sides, Dispatched, WriterOf, Answering, Spaced, NewExchange, NoApp
  <2>3. Told(i)
    BY <1>1, <2>1 DEF Told, Has, Ordered, NewExchange, NoApp
  <2>4. Asleep(i)
    BY <2>1 DEF Asleep, AsleepForAReason, NoApp
  <2>5. ~Chunked(i)
    BY <1>1 DEF Chunked, Init
  <2> QED BY <2>2, <2>3, <2>4, <2>5 DEF AtRequest, StaysOpen, ClosedAnswers
<1> QED BY <1>2, <1>3, <1>4, <1>5, <1>6, <1>7 DEF IInv

\* Every step keeps it.
LEMMA NextIInv == IInv /\ [Next]_vars => IInv'
<1> SUFFICES ASSUME IInv, [Next]_vars PROVE IInv'
  OBVIOUS
<1>1. /\ Stays /\ WireIs
      /\ Passing /\ OnWire /\ OpenBody /\ AnswersInOrder /\ (Careful => HeadsOutsideBodies)
      /\ DataSeen /\ \A i \in Requests : AtRequest(i)
  BY NextStays DEF IInv
<1>2. Typed' /\ Around' /\ Control' /\ Reading' /\ Passing' /\ DataSeen'
  BY <1>1, ControlStays, ReadingStays, PassingStays, DataSeenStays DEF Stays
<1>3. \A i \in Requests : WriterOf(i) /\ Answering(i)
  BY <1>1 DEF AtRequest
<1>4. OnWire' /\ OpenBody' /\ AnswersInOrder'
  BY <1>1, <1>3, OnWireStays, OpenBodyStays, AnswersInOrderStays
<1>5. Careful => HeadsOutsideBodies'
  BY <1>1, <1>3, HeadsOutsideBodiesStays
<1>6. ASSUME NEW i \in Requests PROVE AtRequest(i)'
  <2>1. /\ Sides(i) /\ Told(i) /\ StaysOpen(i) /\ ClosedAnswers(i) /\ Spaced(i) /\ Asleep(i)
        /\ WriterOf(i) /\ Answering(i)
    BY <1>1 DEF AtRequest
  <2>2. Dispatched(i)' /\ Sides(i)'
    BY <1>1, DispatchedStays DEF Stays
  <2>3. Told(i)'
    BY <1>1, <2>1, ToldStays
  <2>4. WriterOf(i)' /\ Answering(i)'
    BY <1>1, <2>1, AnsweringStays
  <2>5. StaysOpen(i)'
    BY <1>1, <1>3, <2>1, StaysOpenStays
  <2>6. ClosedAnswers(i)'
    BY <1>1, <1>3, <2>1, ClosedAnswersStays
  <2>7. Spaced(i)' /\ Asleep(i)'
    BY <1>1, <2>1, SleepStays
  <2> QED BY <2>2, <2>3, <2>4, <2>5, <2>6, <2>7 DEF AtRequest
<1> QED BY <1>2, <1>4, <1>5, <1>6 DEF IInv

\* The inductive invariant.
THEOREM Invariant == Spec => []IInv
<1>1. Init => IInv
  BY InitIInv
<1>2. IInv /\ [Next]_vars => IInv'
  BY NextIInv
<1> QED BY <1>1, <1>2, PTL DEF Spec

-----------------------------------------------------------------------------
\* What the runs check of every connection.

\* Every variable keeps its type, and the queues their limits.
THEOREM TypeCorrect == Spec => []TypeOK
<1>1. IInv => TypeOK
  <2> SUFFICES ASSUME Typed, Around PROVE TypeOK
    BY DEF IInv
  <2>1. ApplicationTypeOK
    BY DEF Typed, ApplicationTypeOK, Apps
  <2> QED BY <2>1 DEF Typed, Around, TypeOK, Writers, Heads
<1> QED BY <1>1, Invariant, PTL

\* The answers on the wire come in the order of their requests, one for each.
THEOREM InOrder == Spec => []AnswersInOrder
<1>1. IInv => AnswersInOrder
  BY DEF IInv
<1> QED BY <1>1, Invariant, PTL

\* Of applications that end what they announce, no head is written inside the
\* body of an earlier answer.
THEOREM OutsideBodies == Careful /\ Spec => []HeadsOutsideBodies
<1> SUFFICES ASSUME Careful PROVE Spec => []HeadsOutsideBodies
  OBVIOUS
<1>1. IInv => HeadsOutsideBodies
  BY DEF IInv
<1> QED BY <1>1, Invariant, PTL

\* What the reader takes for a head was sent as one.
THEOREM NeverReadFromBodies == Spec => []HeadsNeverReadFromBodies
<1>1. IInv => HeadsNeverReadFromBodies
  <2> SUFFICES ASSUME Around, Reading, ~closed, state = "idle", Buffer # <<>>
               PROVE  IsHead(Buffer[1])
    BY DEF IInv, HeadsNeverReadFromBodies
  <2>1. read + 1 \in DOMAIN stream /\ Buffer[1] = stream[read + 1]
    BY BufferIs
  <2>2. read < Len(stream)
    BY <2>1, StreamIs
  <2> QED BY <2>1, <2>2 DEF Reading
<1> QED BY <1>1, Invariant, PTL

\* An application that was told of the end had every unit of the body.
THEOREM WholeBodies == Spec => []WholeMeansWhole
<1>1. IInv => WholeMeansWhole
  BY DEF IInv, AtRequest, Told, WholeMeansWhole, Units
<1> QED BY <1>1, Invariant, PTL

\* A chunked answer that was given up is never ended on the wire.
THEOREM GivenUp == Spec => []GivenUpStaysOpen
<1>1. IInv => GivenUpStaysOpen
  BY DEF IInv, AtRequest, StaysOpen, Chunked, EndsWell, GivenUpStaysOpen
<1> QED BY <1>1, Invariant, PTL

\* No task sleeps while what it waits for is there.
THEOREM NoneMissed == Spec => []NoMissedWakeUp
<1>1. IInv => NoMissedWakeUp
  <2> SUFFICES ASSUME IInv PROVE NoMissedWakeUp
    OBVIOUS
  <2>1. reader = "data" /\ ~dataEvent => NothingToRead
    BY DEF IInv, DataSeen
  <2>2. ASSUME reader = "space", ~ex[cur].recvSpace PROVE Full(ex[cur]) /\ ~Gone(ex[cur])
    <3>1. ~closed /\ cur \in Requests
      BY <2>2 DEF IInv, Control, Around
    <3> QED BY <2>2, <3>1 DEF IInv, AtRequest, Spaced
  <2>3. \A i \in Requests : AsleepForAReason(i, writer.pc = "run" /\ writer.of = i)
    BY DEF IInv, AtRequest, Asleep, Writing
  <2> QED BY <2>1, <2>2, <2>3 DEF NoMissedWakeUp
<1> QED BY <1>1, Invariant, PTL
=============================================================================
