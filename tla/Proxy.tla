-------------------------------- MODULE Proxy --------------------------------
(***************************************************************************)
(* The reverse proxy (src/echocorn/proxy.py:159-332, 702-1123): requests   *)
(* that share a pool of connections to an upstream, which answers, closes  *)
(* or breaks the protocol whenever it likes.  Every await of the proxy is  *)
(* the end of a step; bytes are units, which know the request they answer. *)
(***************************************************************************)
EXTENDS Naturals, Sequences, SequencesExt, FiniteSets

CONSTANTS
    Requests,       \* the requests of the clients
    WithBody,       \* those with a body ...
    Repeatable,     \* ... and those of a method that may be sent again
    MaxIdle,        \* how many idle connections are kept (16)
    MaxConnections, \* bound: connections made in a behaviour
    Answers         \* bound: the kinds of answers the upstream gives to each

ASSUME ProxyAssumption ==
    /\ IsFiniteSet(Requests) /\ WithBody \subseteq Requests
    /\ Repeatable \subseteq Requests
    /\ MaxIdle \in Nat /\ MaxConnections \in Nat
    /\ DOMAIN Answers = Requests

VARIABLES
    ex,     \* request -> its exchange in the proxy
    conn,   \* connection -> the connection as the proxy and the upstream see it
    idle,   \* the pool, oldest first
    misled  \* history: the requests whose connection brought something while it
            \* was theirs, and had been led astray by then

vars == <<ex, conn, idle, misled>>

Connections == 1 .. MaxConnections
NoConnection == 0

\* How an answer is framed; the body of an "announced" one must not be there.
\* A "bad" part cannot be forwarded: a malformed head, an unexpected upgrade, a
\* length over max_response_size.
Framings == {"none", "announced", "length", "chunked", "eof"}
Kinds == {"interim", "head", "data", "last", "bad", "unread"}
Units == [kind : Kinds, of : Requests, framing : Framings, keep : BOOLEAN]
Part(kind, r, framing) ==
    [kind |-> kind, of |-> r, framing |-> framing, keep |-> TRUE]
Closing(unit) == [unit EXCEPT !.keep = FALSE]

\* What the upstream sends for a request, in segments of any length.  What it
\* sends beyond the end of an answer looks, at its worst, like another answer:
\* the body that an announced one must not have, and a surplus.
Script(r, answer) ==
    LET head(framing) == Part("head", r, framing)
        data(framing) == Part("data", r, framing)
        surplus == head("none")
    IN  CASE answer = "empty" -> <<head("none")>>
          [] answer = "lying" -> <<head("announced"), Part("unread", r, "none")>>
          [] answer = "once" -> <<Closing(head("length")), data("length")>>
          [] answer = "length" -> <<head("length"), data("length"), surplus>>
          [] answer = "chunked" ->
                <<Part("interim", r, "none"), head("chunked"), data("chunked"),
                  Part("last", r, "chunked"), surplus>>
          [] answer = "eof" -> <<head("eof"), data("eof")>>
          [] OTHER -> <<Part("bad", r, "none")>>

NoExchange == [pc |-> "new", conn |-> NoConnection, attempt |-> 0,
               reused |-> FALSE, framing |-> "none",
               keep |-> FALSE, got |-> <<>>, sent |-> 0, result |-> "none"]
Unmade == [state |-> "unmade", up |-> "open", eof |-> FALSE, buffer |-> <<>>,
           asked |-> <<>>, script |-> <<>>, stray |-> FALSE]
Made == [Unmade EXCEPT !.state = "open"]
Closed == [Unmade EXCEPT !.state = "closed"]

Init ==
    /\ ex = [r \in Requests |-> NoExchange]
    /\ conn = [c \in Connections |-> Unmade]
    /\ idle = <<>>
    /\ misled = {}

-----------------------------------------------------------------------------
\* The pool.

Reusable(c) == ~conn[c].eof /\ conn[c].buffer = <<>>
ClosedAll(cs) == [c \in Connections |-> IF c \in cs THEN Closed ELSE conn[c]]

\* _release: a healthy connection returns to the pool, any other is closed.
\* Mutant: the pool is not bounded.
ReleaseAlways(c, reusable) ==
    IF c = NoConnection THEN UNCHANGED <<conn, idle>>
    ELSE IF reusable /\ Reusable(c)
    THEN idle' = Append(idle, c) /\ UNCHANGED conn
    ELSE conn' = ClosedAll({c}) /\ UNCHANGED idle
Release(c, reusable) ==
    IF c = NoConnection THEN UNCHANGED <<conn, idle>>
    ELSE IF reusable /\ Reusable(c) /\ Len(idle) < MaxIdle
    THEN idle' = Append(idle, c) /\ UNCHANGED conn
    ELSE conn' = ClosedAll({c}) /\ UNCHANGED idle

\* _connect: the entries that are too old, the first ones of the pool, are
\* closed, then those that are found dead, up to one that is not.
Expire(n) == SubSeq(idle, n + 1, Len(idle))
Pooled(pool) == {k \in DOMAIN pool : Reusable(pool[k])}
FirstOf(ks) == CHOOSE k \in ks : \A j \in ks : k <= j

\* The exchange goes on with a connection, and its request is written at once.
Writes(r, c, reused) ==
    ex' = [ex EXCEPT ![r].pc = IF r \in WithBody THEN "body" ELSE "head",
                     ![r].conn = c, ![r].reused = reused, ![r].sent = @ + 1]

TakePooled(r, n) ==
    LET pool == Expire(n)
        k == FirstOf(Pooled(pool))
    IN  /\ Pooled(pool) # {}
        /\ conn' = [ClosedAll(ToSet(SubSeq(idle, 1, n + k - 1)))
                        EXCEPT ![pool[k]].asked = Append(@, r)]
        /\ idle' = SubSeq(pool, k + 1, Len(pool))
        /\ Writes(r, pool[k], TRUE)
TakeNone(r, n) ==
    /\ Pooled(Expire(n)) = {}
    /\ conn' = ClosedAll(ToSet(idle))
    /\ idle' = <<>>
    /\ ex' = [ex EXCEPT ![r].pc = "connecting"]

Connect(r) ==
    /\ ex[r].pc = "new"
    /\ IF ex[r].attempt = 0
       THEN \E n \in 0 .. Len(idle) : TakePooled(r, n) \/ TakeNone(r, n)
       ELSE /\ ex' = [ex EXCEPT ![r].pc = "connecting"]
            /\ UNCHANGED <<conn, idle>>

Connected(r) ==
    /\ ex[r].pc = "connecting"
    /\ \E c \in Connections :
        /\ conn[c].state = "unmade" /\ \A d \in 1 .. c - 1 : conn[d].state # "unmade"
        /\ conn' = [conn EXCEPT ![c] = [Made EXCEPT !.asked = <<r>>]]
        /\ Writes(r, c, FALSE)
    /\ UNCHANGED idle
ConnectFails(r) ==
    /\ ex[r].pc = "connecting"
    /\ ex' = [ex EXCEPT ![r].pc = "done", ![r].result = "502"]
    /\ UNCHANGED <<conn, idle>>

-----------------------------------------------------------------------------
\* One attempt at one exchange.

In(r, pc) == ex[r].pc = pc
Buffer(r) == conn[ex[r].conn].buffer
Eof(r) == conn[ex[r].conn].eof
Took(r, n) == [conn EXCEPT ![ex[r].conn].buffer = SubSeq(@, n + 1, Len(@))]

\* How many times a request may be sent.
Attempts(r) == IF r \notin WithBody /\ r \in Repeatable THEN 2 ELSE 1

\* An attempt that failed before the answer was begun: its connection is
\* closed, and the request is sent again if the connection was a pooled one.
\* Mutant: a pooled connection that failed is reason enough.
FailsAndRepeats(r) ==
    /\ Release(ex[r].conn, FALSE)
    /\ ex' = [ex EXCEPT ![r] =
        IF ex[r].reused THEN [@ EXCEPT !.pc = "new", !.conn = NoConnection,
                                       !.attempt = ex[r].attempt + 1, !.reused = FALSE]
        ELSE [@ EXCEPT !.pc = "done", !.conn = NoConnection, !.result = "502"]]
Fails(r) ==
    LET again == ex[r].attempt + 1 < Attempts(r) /\ ex[r].reused
    IN  /\ Release(ex[r].conn, FALSE)
        /\ ex' = [ex EXCEPT ![r] =
            IF again THEN [@ EXCEPT !.pc = "new", !.conn = NoConnection,
                                    !.attempt = ex[r].attempt + 1, !.reused = FALSE]
            ELSE [@ EXCEPT !.pc = "done", !.conn = NoConnection, !.result = "502"]]

\* One that failed after it: the answer is left unfinished.
\* Mutant: an answer cut short is ended.
AbortsQuietly(r) ==
    /\ Release(ex[r].conn, FALSE)
    /\ ex' = [ex EXCEPT ![r].pc = "done", ![r].conn = NoConnection,
                        ![r].result = "whole"]
Aborts(r) ==
    /\ Release(ex[r].conn, FALSE)
    /\ ex' = [ex EXCEPT ![r].pc = "done", ![r].conn = NoConnection,
                        ![r].result = "aborted"]

\* The body of the request, of which the client may withhold the rest.
ForwardBody(r) ==
    /\ In(r, "body")
    /\ \/ Fails(r)           \* the client, or the upstream, is gone
       \/ /\ ex' = [ex EXCEPT ![r].pc = "head"]
          /\ UNCHANGED <<conn, idle>>

\* read_line_block, for the head of the answer: interim answers are skipped.
\* What cannot be forwarded, a part that does not read as a head among it, fails.
ReadHead(r) ==
    /\ In(r, "head") /\ (Buffer(r) # <<>> \/ Eof(r))
    /\ IF Buffer(r) = <<>> THEN Fails(r)
       ELSE LET unit == Head(Buffer(r))
            IN  CASE unit.kind = "interim" ->
                       /\ conn' = Took(r, 1) /\ UNCHANGED <<ex, idle>>
                  [] unit.kind \in {"head", "unread"} ->
                       /\ conn' = Took(r, 1)
                       /\ ex' = [ex EXCEPT ![r].pc = "relay",
                                           ![r].framing = unit.framing,
                                           ![r].keep = unit.keep,
                                           ![r].got = Append(@, [unit EXCEPT !.kind = "head"])]
                       /\ UNCHANGED idle
                  [] OTHER -> Fails(r)

\* The answer is whole; its last messages are on their way to the client.
Relayed(r, units) ==
    ex' = [ex EXCEPT ![r].pc = "finish", ![r].got = @ \o units]
Relaying(r, units) == ex' = [ex EXCEPT ![r].got = @ \o units]

\* A decoder is fed all that was received and drops what follows the end.
UpToLast(units) ==
    LET ends == {k \in DOMAIN units : units[k].kind = "last"}
    IN  IF ends = {} THEN units ELSE SubSeq(units, 1, FirstOf(ends))
Ends(units) == \E k \in DOMAIN units : units[k].kind = "last"

\* In the middle of a body, a malformed chunk is refused, and what takes the
\* answer over max_response_size; an announced length was held against it before.
Refuses(r) ==
    /\ In(r, "relay") /\ ex[r].framing \in {"chunked", "eof"} /\ Buffer(r) # <<>>
    /\ Aborts(r)

Relay(r) ==
    /\ In(r, "relay")
    /\ CASE ex[r].framing \in {"none", "announced"} ->
               Relayed(r, <<>>) /\ UNCHANGED <<conn, idle>>
         [] ex[r].framing = "length" ->
               /\ Buffer(r) # <<>> \/ Eof(r)
               /\ IF Buffer(r) = <<>> THEN Aborts(r)
                  ELSE /\ Relayed(r, <<Head(Buffer(r))>>)
                       /\ conn' = Took(r, 1) /\ UNCHANGED idle
         [] ex[r].framing = "chunked" ->
               /\ Buffer(r) # <<>> \/ Eof(r)
               /\ IF Buffer(r) = <<>> THEN Aborts(r)
                  ELSE /\ IF Ends(Buffer(r)) THEN Relayed(r, UpToLast(Buffer(r)))
                          ELSE Relaying(r, Buffer(r))
                       /\ conn' = Took(r, Len(Buffer(r))) /\ UNCHANGED idle
         [] OTHER ->
               /\ Buffer(r) # <<>> \/ Eof(r)
               /\ IF Buffer(r) = <<>> THEN Relayed(r, <<>>) /\ UNCHANGED <<conn, idle>>
                  ELSE /\ Relaying(r, Buffer(r))
                       /\ conn' = Took(r, Len(Buffer(r))) /\ UNCHANGED idle

\* Whether the connection may serve another request.
\* Mutant: an announced body is taken for one that is not there.
MayServeAgainUnread(r) == ex[r].keep /\ ex[r].framing # "eof"
MayServeAgain(r) == ex[r].keep /\ ex[r].framing \notin {"eof", "announced"}
Finish(r) ==
    /\ In(r, "finish")
    /\ Release(ex[r].conn, MayServeAgain(r))
    /\ ex' = [ex EXCEPT ![r].pc = "done", ![r].conn = NoConnection,
                        ![r].result = "whole"]

\* The client goes away, or its request runs out of time: the application is
\* cancelled wherever it waits.
\* Mutant: a client that leaves before the head takes no connection along.
CancelForgets(r) ==
    /\ ex[r].pc \in {"connecting", "body", "head", "relay", "finish"}
    /\ ex' = [ex EXCEPT ![r].pc = "done", ![r].conn = NoConnection,
                        ![r].result = "cancelled"]
    /\ UNCHANGED <<conn, idle>>
Cancel(r) ==
    /\ ex[r].pc \in {"connecting", "body", "head", "relay", "finish"}
    /\ Release(ex[r].conn, FALSE)
    /\ ex' = [ex EXCEPT ![r].pc = "done", ![r].conn = NoConnection,
                        ![r].result = "cancelled"]

\* The lifespan ends when no request is left.
CloseIdle ==
    /\ idle # <<>> /\ \A r \in Requests : ex[r].pc = "done"
    /\ conn' = ClosedAll(ToSet(idle))
    /\ idle' = <<>>
    /\ UNCHANGED ex

-----------------------------------------------------------------------------
\* The upstream: it answers the requests of a connection in turn, piece by
\* piece, and may close at any time, which the proxy learns later.

UpstreamActs(c) ==
    /\ conn[c].state = "open" /\ conn[c].up = "open"
    /\ conn[c].asked # <<>> /\ conn[c].script = <<>>
    /\ \E answer \in Answers[Head(conn[c].asked)] :
        conn' = [conn EXCEPT ![c].script = Script(Head(conn[c].asked), answer),
                             ![c].asked = Tail(@)]
    /\ UNCHANGED <<ex, idle, misled>>

\* A connection is led astray when an exchange holds it and what comes is of an
\* earlier one, which had not announced it.
Owners(c) == {r \in Requests : ex[r].conn = c}
Strays(c, units) ==
    \/ conn[c].stray
    \/ \E r \in Owners(c), k \in DOMAIN units :
          units[k].of # r /\ units[k].kind # "unread"
UpstreamSends(c) ==
    /\ conn[c].state = "open" /\ conn[c].up = "open"
    /\ \E n \in 1 .. Len(conn[c].script) :
        LET units == SubSeq(conn[c].script, 1, n)
        IN  /\ conn' = [conn EXCEPT ![c].buffer = @ \o units,
                                    ![c].script = SubSeq(@, n + 1, Len(@)),
                                    ![c].stray = Strays(c, units)]
            /\ misled' = IF Strays(c, units) THEN misled \cup Owners(c) ELSE misled
    /\ UNCHANGED <<ex, idle>>
UpstreamCloses(c) ==
    /\ conn[c].state = "open" /\ conn[c].up = "open"
    /\ conn' = [conn EXCEPT ![c].up = "closed", ![c].script = <<>>, ![c].asked = <<>>]
    /\ UNCHANGED <<ex, idle, misled>>
EofArrives(c) ==
    /\ conn[c].state = "open" /\ conn[c].up = "closed" /\ ~conn[c].eof
    /\ conn' = [conn EXCEPT ![c].eof = TRUE]
    /\ UNCHANGED <<ex, idle, misled>>

ProxyStep ==
    \/ \E r \in Requests :
        \/ Connect(r) \/ Connected(r) \/ ConnectFails(r)
        \/ ForwardBody(r) \/ ReadHead(r) \/ Relay(r) \/ Refuses(r) \/ Finish(r)
        \/ Cancel(r)
    \/ CloseIdle
Next ==
    \/ ProxyStep /\ UNCHANGED misled
    \/ \E c \in Connections :
        UpstreamActs(c) \/ UpstreamSends(c) \/ UpstreamCloses(c) \/ EofArrives(c)

Spec == Init /\ [][Next]_vars

-----------------------------------------------------------------------------
\* Every variable holds a value of its type, and the pool stays within its
\* bound and holds no connection twice.
TypeOK ==
    /\ ex \in [Requests -> [pc : {"new", "connecting", "body", "head", "relay",
                                  "finish", "done"},
            conn : Connections \cup {NoConnection}, attempt : 0 .. 1,
            reused : BOOLEAN, framing : Framings, keep : BOOLEAN,
            got : Seq(Units), sent : 0 .. 2,
            result : {"none", "whole", "aborted", "502", "cancelled"}]]
    /\ conn \in [Connections -> [state : {"unmade", "open", "closed"},
            up : {"open", "closed"}, eof : BOOLEAN, buffer : Seq(Units),
            asked : Seq(Requests), script : Seq(Units), stray : BOOLEAN]]
    /\ misled \subseteq Requests
    /\ idle \in Seq(Connections) /\ Len(idle) <= MaxIdle
    /\ IsInjective(idle)

\* A client is sent parts of the answer to another request only if more than
\* that answer's head announced came after the connection was given to it, or to
\* one before it.  What comes with the answer, or while the connection is in the
\* pool, is the end of the connection, and an announced body that must not be
\* there never comes to anyone.  Bytes that come later are the next answer to
\* the proxy: it has nothing to tell them by (proxy.py:208-213, 243-245,
\* 733-742, 846-890).
OwnAnswer ==
    \A r \in Requests : r \in misled \/ \A k \in DOMAIN ex[r].got : ex[r].got[k].of = r

\* A request is sent twice only when repeating it does no harm, and never again
\* once a part of its answer has gone to the client (proxy.py:702-769).
SentOnce ==
    \A r \in Requests :
        /\ ex[r].sent <= (IF r \in Repeatable \ WithBody THEN 2 ELSE 1)
        /\ ex[r].got # <<>> => ex[r].pc \in {"relay", "finish", "done"}

\* A connection that is open has one owner, an exchange or the pool, wherever
\* an exchange fails or is cancelled: none is shared, and none is lost
\* (proxy.py:718-753, 882-895).
OneOwner ==
    /\ \A c \in Connections : conn[c].state = "open" =>
        Cardinality({r \in Requests : ex[r].conn = c})
            + Cardinality({k \in DOMAIN idle : idle[k] = c}) = 1
    /\ \A r \in Requests : ex[r].conn # NoConnection => conn[ex[r].conn].state = "open"
    /\ \A k \in DOMAIN idle : conn[idle[k]].state = "open"

\* A client that is told that its answer is complete has all of it, unless only
\* the end of the connection marked its end; and one that is answered 502 has
\* been sent nothing before it (proxy.py:1029-1058, 1060-1101, 1114-1123).
PartsOf(framing) ==
    CASE framing = "length" -> <<"head", "data">>
      [] framing = "chunked" -> <<"head", "data", "last">>
      [] OTHER -> <<"head">>
WholeMeansWhole ==
    \A r \in Requests :
        /\ ex[r].result = "whole" /\ ex[r].framing # "eof" =>
            [k \in DOMAIN ex[r].got |-> ex[r].got[k].kind] = PartsOf(ex[r].framing)
        /\ ex[r].result = "502" => ex[r].got = <<>>
=============================================================================
