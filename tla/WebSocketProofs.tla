--------------------------- MODULE WebSocketProofs ---------------------------
(***************************************************************************)
(* What WebSocketSession guarantees for any size of the queue, any number  *)
(* of frames and messages, and however often a server asks for its end:    *)
(* no frame before the answer to the handshake, one close frame, and no    *)
(* pause of the reading that nothing ends, in whatever order the socket    *)
(* takes the writes that wait for it.                                      *)
(***************************************************************************)
EXTENDS WebSocketSession, TLAPS, SequenceTheorems

-----------------------------------------------------------------------------
\* The inductive invariant, over who waits to write what and what was written.

Everyone == Tasks \cup Closers
OnLine(l, t, x) == \E w \in l : w.by = t /\ w.item = x
Waits(t, x) == OnLine(line, t, x)
Written(x) == \E k \in DOMAIN wire : wire[k] = x

\* The types of the variables, but for the line.
Typed ==
    /\ s \in Flags
    /\ runner \in {"handshake", "serving", "grace", "cleanup", "closing", "over"}
    /\ app \in [pc : {"run", "recv", "write", "put", "done"},
                over : BOOLEAN, sends : 0 .. MaxSends]
    /\ reader \in [pc : {"none", "run", "write", "put", "done"},
                   events : Seq(Frames), holds : Deliveries]
    /\ closer \in [Closers -> {"none", "write", "put", "done"}]
    /\ wire \in Seq(Items) /\ inbox \in Seq(Frames)
    /\ queue \in Seq(Deliveries) /\ Len(queue) <= QueueMax
    /\ peer \in [sent : 0 .. MaxFrames, closed : BOOLEAN]
    /\ net \in [state : {"open", "aborted", "closed"}, cut : BOOLEAN, early : BOOLEAN,
               lost : BOOLEAN]

\* The line, in which a task waits for one write at a time.
IsLine(l) ==
    /\ l \subseteq [by : Everyone, item : Items]
    /\ \A w, v \in l : w.by = v.by => w = v
Lined == IsLine(line)

\* Whoever waits to write is at the point where it does, and an application that
\* has ended writes a close frame or nothing.
Writers ==
    /\ app.over => app.pc \in {"write", "done"}
    /\ \A x \in Items :
        /\ Waits("app", x) =>
              app.pc = "write" /\ x # "pong" /\ (app.over => x = "close")
        /\ Waits("reader", x) => reader.pc = "write" /\ x \in {"pong", "close"}
        /\ Waits("runner", x) => runner = "closing" /\ x = "close"
        /\ \A k \in Closers : Waits(k, x) => closer[k] = "write" /\ x = "close"

\* What was written or waits to be agrees with the flags of the handshake.
FlagsTell ==
    /\ s.rejecting => s.rejected
    /\ Waits("app", "101") \/ Written("101") => s.handshake \/ s.rejected
    /\ \A x \in Refusals \cup {"body", "last"} : Waits("app", x) => s.rejected
    /\ s.answered => s.handshake \/ s.rejected \/ app.pc = "done"
    /\ Written("101") => s.answered

\* A socket that is not open any more takes nothing, so that what comes before
\* need not have been written.
Went(x) == Written(x) \/ net.state # "open"
Order ==
    /\ s.handshake /\ app.pc # "done" => Waits("app", "101") \/ Went("101")
    /\ s.handshake /\ s.answered => Went("101") \/ s.rejected
    /\ reader.pc \notin {"none", "done"} => Went("101") \/ s.rejected
    /\ runner # "handshake" => s.answered \/ net.state # "open"
    /\ runner = "handshake" => reader.pc = "none"
    /\ \A t \in Everyone :
        /\ Waits(t, "data") => Went("101")
        /\ Waits(t, "pong") => Went("101") \/ s.rejected
        /\ Waits(t, "close") => Went("101") \/ s.rejected \/ net.early

\* An application that never refused accepts once.
OneAnswer == Waits("app", "101") /\ Written("101") => s.rejected

\* A close frame is on its way once, from the moment the flag is set.
OneClose ==
    /\ ~ s.closeSent =>
        ~ Written("close") /\ \A t \in Everyone : ~ Waits(t, "close")
    /\ s.closeSent =>
        Went("close") \/ net.cut \/ \E t \in Everyone : Waits(t, "close")
    /\ \A t, u \in Everyone :
        Waits(t, "close") /\ Waits(u, "close") => t = u /\ ~ Written("close")

\* A session that is over has no task left, and one that the server aborted was
\* never answered.
AllOver ==
    /\ runner = "over" <=> net.state = "closed"
    /\ runner = "over" =>
        /\ app.pc = "done" /\ reader.pc = "done" /\ line = {}
        /\ \A k \in Closers : closer[k] = "done"
    /\ net.state = "aborted" => ~ Written("101")

IInv ==
    /\ Typed /\ Lined /\ Writers /\ FlagsTell /\ Order /\ OneAnswer
    /\ OneClose /\ AllOver
    /\ PausedForAReason /\ AnswerFirst /\ OneFarewell

-----------------------------------------------------------------------------
\* The line and the wire.

\* What waits is something that can be written.
LEMMA WaitsItems ==
    ASSUME Lined, NEW u, NEW y, Waits(u, y)
    PROVE  u \in Everyone /\ y \in Items
<1>1. PICK w \in line : w.by = u /\ w.item = y
  BY DEF Waits, OnLine
<1>2. w \in [by : Everyone, item : Items]
  BY DEF Lined, IsLine
<1> QED BY <1>1, <1>2

\* A task that writes joins a line.
LEMMA LineGrows ==
    ASSUME NEW l, IsLine(l), NEW w \in [by : Everyone, item : Items],
           \A y : ~ OnLine(l, w.by, y)
    PROVE  /\ IsLine(l \cup {w})
           /\ \A u, y : OnLine(l \cup {w}, u, y)
                         <=> OnLine(l, u, y) \/ (u = w.by /\ y = w.item)
<1>1. \A v \in l : v.by # w.by
  BY DEF OnLine
<1>2. \A v, x \in l \cup {w} : v.by = x.by => v = x
  BY <1>1 DEF IsLine
<1>3. IsLine(l \cup {w})
  BY <1>2 DEF IsLine
<1> QED BY <1>3 DEF OnLine

\* A task that is cancelled leaves the line, and nobody else does.
LEMMA LineWithout ==
    ASSUME Lined, NEW t \in Everyone
    PROVE  /\ IsLine(Without(t))
           /\ \A u, y : OnLine(Without(t), u, y) <=> u # t /\ Waits(u, y)
<1>1. IsLine(Without(t))
  BY DEF Lined, IsLine, Without
<1> QED BY <1>1 DEF Without, OnLine, Waits

\* Whoever is served leaves the line, and nobody else does.
LEMMA LineServed ==
    ASSUME Lined, NEW w \in line, line' = line \ {w}
    PROVE  /\ Lined' /\ w.by \in Everyone /\ w.item \in Items
           /\ Waits(w.by, w.item)
           /\ \A y : Waits(w.by, y) => y = w.item
           /\ \A u, y : Waits(u, y)' <=> Waits(u, y) /\ u # w.by
<1>1. /\ line \subseteq [by : Everyone, item : Items]
      /\ \A v, x \in line : v.by = x.by => v = x
  BY DEF Lined, IsLine
<1>2. w.by \in Everyone /\ w.item \in Items
  BY <1>1
<1>3. Lined'
  BY <1>1 DEF Lined, IsLine
<1>4. Waits(w.by, w.item) /\ \A y : Waits(w.by, y) => y = w.item
  BY <1>1 DEF Waits, OnLine
<1>5. \A u, y : Waits(u, y)' <=> Waits(u, y) /\ u # w.by
  BY <1>1 DEF Waits, OnLine
<1> QED BY <1>2, <1>3, <1>4, <1>5

\* A line that is given up is empty.
LEMMA LineEmptied ==
    ASSUME line' = {}
    PROVE  Lined' /\ \A u, y : ~ Waits(u, y)'
BY DEF Lined, IsLine, Waits, OnLine

\* What is written is at the end of the wire, and what was written stays.
LEMMA WireGrows ==
    ASSUME Typed, NEW x \in Items, wire' = Append(wire, x)
    PROVE  /\ wire' \in Seq(Items) /\ Len(wire) \in Nat
           /\ DOMAIN wire = 1 .. Len(wire) /\ DOMAIN wire' = 1 .. Len(wire) + 1
           /\ \A k \in 1 .. Len(wire) : wire'[k] = wire[k]
           /\ wire'[Len(wire) + 1] = x
           /\ \A y : Written(y)' <=> Written(y) \/ y = x
<1>1. /\ wire \in Seq(Items) /\ wire' \in Seq(Items) /\ Len(wire') = Len(wire) + 1
      /\ \A k \in 1 .. Len(wire) : wire'[k] = wire[k]
      /\ wire'[Len(wire) + 1] = x
  BY AppendProperties DEF Typed
<1>2. /\ Len(wire) \in Nat /\ DOMAIN wire = 1 .. Len(wire)
      /\ DOMAIN wire' = 1 .. Len(wire) + 1
  BY <1>1, LenProperties
<1>3. ASSUME NEW y
      PROVE  Written(y)' <=> Written(y) \/ y = x
  <2>1. Written(y)' => Written(y) \/ y = x
    BY <1>1, <1>2 DEF Written
  <2>2. ASSUME NEW k \in DOMAIN wire, wire[k] = y
        PROVE  k \in DOMAIN wire' /\ wire'[k] = y
    BY <1>1, <1>2, <2>2
  <2>3. Len(wire) + 1 \in DOMAIN wire' /\ wire'[Len(wire) + 1] = x
    BY <1>1, <1>2
  <2> QED BY <2>1, <2>2, <2>3 DEF Written
<1> QED BY <1>1, <1>2, <1>3

-----------------------------------------------------------------------------
\* The steps that write nothing and put nothing in line.

\* What the properties say of the wire and of an end that is not there yet stays
\* true while neither changes.
LEMMA WireStays ==
    ASSUME wire' = wire, net.early => net'.early, s.rejected => s'.rejected,
           AnswerFirst, OneFarewell,
           runner' = "over" =>
               /\ runner = "over"
               /\ (net.cut => net'.cut) /\ (net.lost => net'.lost)
    PROVE  /\ AnswerFirst' /\ OneFarewell' /\ \A x : Written(x)' <=> Written(x)
<1>1. \A items : At(items)' = At(items)
  BY DEF At
<1>2. AnswerFirst'
  BY <1>1 DEF AnswerFirst
<1>3. OneFarewell'
  BY <1>1 DEF OneFarewell
<1> QED BY <1>2, <1>3 DEF Written

\* The flags that tell whether a step changes what may be written.
Kept ==
    /\ s'.handshake = s.handshake /\ s'.rejected = s.rejected
    /\ s'.rejecting = s.rejecting /\ s'.closeSent = s.closeSent
\* They stay but for a refusal that begins and is not written.
Marked ==
    /\ s'.handshake = s.handshake /\ s'.closeSent = s.closeSent
    /\ s'.rejected

\* A step that only moves a task on, and answers the handshake at most when it is
\* refused or the application has ended, keeps the invariant.
LEMMA QuietStep ==
    ASSUME IInv, Typed', PausedForAReason', UNCHANGED <<line, wire>>,
           Kept \/ Marked,
           net'.state = net.state, net'.cut = net.cut, net'.lost = net.lost,
           net.early => net'.early,
           s.answered => s'.answered,
           s'.answered => \/ s.answered \/ s.rejected
                          \/ ~ s.handshake /\ app'.pc = "done",
           app'.over = app.over \/ app.pc # "write",
           app' = app \/ (app'.over => app'.pc = "done"),
           app.pc = "write" => app'.pc = "write",
           app.pc = "done" => app'.pc = "done",
           reader.pc = "write" => reader'.pc = "write",
           reader'.pc \notin {"none", "done"} =>
               reader.pc \notin {"none", "done"} \/ Went("101") \/ s.rejected,
           reader.pc = "done" => reader'.pc = "done",
           runner' = "handshake" /\ reader.pc = "none" => reader'.pc = "none",
           \A k \in Closers : /\ closer[k] = "write" => closer'[k] = "write"
                              /\ closer[k] = "done" => closer'[k] = "done",
           \/ runner' = runner
           \/ /\ runner \notin {"closing", "over"}
              /\ runner' \notin {"handshake", "closing", "over"}
              /\ runner = "handshake" => s.answered
    PROVE  IInv'
<1> s.rejected => s'.rejected
  BY DEF Kept, Marked
<1>1. /\ AnswerFirst' /\ OneFarewell' /\ \A x : Written(x)' <=> Written(x)
  BY WireStays DEF IInv
<1>2. /\ \A t, x : Waits(t, x)' <=> Waits(t, x)
      /\ \A x : Went(x)' <=> Went(x)
  BY <1>1 DEF Waits, OnLine, Went
<1>3. Lined'
  BY DEF IInv, Lined, IsLine
<1>4. Writers'
  BY <1>2 DEF IInv, Writers
<1>5. FlagsTell'
  BY <1>1, <1>2 DEF IInv, FlagsTell, Kept, Marked
<1>6. Order'
  BY <1>1, <1>2 DEF IInv, Order, FlagsTell, Kept, Marked
<1>7. OneAnswer'
  BY <1>1, <1>2 DEF IInv, OneAnswer
<1>8. OneClose'
  BY <1>1, <1>2 DEF IInv, OneClose, Kept, Marked
<1>9. AllOver'
  BY <1>1 DEF IInv, AllOver
<1> QED BY <1>1, <1>3, <1>4, <1>5, <1>6, <1>7, <1>8, <1>9 DEF IInv

\* A delivery respects the size of the queue, and a pause of the reading that it
\* begins or finds has a full queue behind it.
LEMMA Delivers ==
    ASSUME Typed, PausedForAReason, NEW m \in Deliveries,
           queue' = Delivered(m), s'.readPaused => s.readPaused \/ Full(queue)
    PROVE  queue' \in Seq(Deliveries) /\ Len(queue') <= QueueMax /\ PausedForAReason'
<1>1. queue \in Seq(Deliveries) /\ Len(queue) \in Nat /\ Len(queue) <= QueueMax
  BY LenProperties DEF Typed
<1>2. CASE Full(queue)
  BY <1>1, <1>2 DEF Delivered, PausedForAReason, Full
<1>3. CASE ~ Full(queue)
  <2>1. queue' \in Seq(Deliveries) /\ Len(queue') = Len(queue) + 1
    BY <1>1, <1>3, AppendProperties DEF Delivered
  <2> QED BY <1>1, <1>3, <2>1, SessionAssumption DEF Full, PausedForAReason
<1> QED BY <1>2, <1>3

\* The application takes a message, or waits for one.
LEMMA AppReceivesStep ==
    ASSUME IInv, AppReceives
    PROVE  IInv'
<1>1. Typed /\ PausedForAReason
  BY DEF IInv
<1>2. CASE queue = <<>>
  <2>1. /\ app' = [app EXCEPT !.pc = "recv"] /\ app.pc = "run"
        /\ UNCHANGED <<s, queue, runner, reader, closer, line, wire, inbox, peer, net>>
    BY <1>2 DEF AppReceives
  <2>2. app' \in [pc : {"run", "recv", "write", "put", "done"},
                    over : BOOLEAN, sends : 0 .. MaxSends]
    BY <1>1, <2>1 DEF Typed
  <2>3. app'.pc = "recv" /\ app'.over = app.over /\ ~ app.over
    BY <1>1, <2>1 DEF Typed, IInv, Writers
  <2>4. Typed' /\ PausedForAReason'
    BY <1>1, <2>1, <2>2 DEF Typed, PausedForAReason, Full
  <2> QED BY <2>1, <2>3, <2>4, QuietStep DEF Kept
<1>3. CASE queue # <<>>
  <2>1. /\ queue' = Tail(queue) /\ app.pc \in {"run", "recv"}
        /\ s' = [s EXCEPT !.readPaused = s.readPaused /\ Full(Tail(queue))]
        /\ app' = [app EXCEPT !.pc = "run"]
        /\ UNCHANGED <<runner, reader, closer, line, wire, inbox, peer, net>>
    BY <1>3 DEF AppReceives
  <2>2. queue' \in Seq(Deliveries) /\ Len(queue') <= QueueMax
    BY <1>1, <1>3, <2>1, HeadTailProperties, LenProperties, SessionAssumption DEF Typed
  <2>3. s' \in Flags /\ (s'.readPaused <=> s.readPaused /\ Full(queue')) /\ Kept
        /\ s'.answered = s.answered
    BY <1>1, <2>1 DEF Typed, Flags, Kept
  <2>4. app' \in [pc : {"run", "recv", "write", "put", "done"},
                    over : BOOLEAN, sends : 0 .. MaxSends]
    BY <1>1, <2>1 DEF Typed
  <2>5. Typed' /\ PausedForAReason'
    BY <1>1, <2>1, <2>2, <2>3, <2>4 DEF Typed, PausedForAReason
  <2>6. app'.pc = "run" /\ app'.over = app.over /\ ~ app.over
    BY <1>1, <2>1 DEF Typed, IInv, Writers
  <2> QED BY <2>1, <2>3, <2>5, <2>6, QuietStep
<1> QED BY <1>2, <1>3

\* A delivery that waited for room has it.
LEMMA PutsStep ==
    ASSUME IInv, NEW t \in Everyone, Puts(t)
    PROVE  IInv'
<1>1. Typed /\ PausedForAReason
  BY DEF IInv
<1>2. ~ Full(queue) /\ UNCHANGED <<s, runner, line, wire, inbox, peer, net>>
  BY DEF Puts
<1>3. PICK m \in Deliveries : queue' = Append(queue, m)
  BY <1>1 DEF Puts, Typed, Deliveries
<1>4. queue' = Delivered(m)
  BY <1>2, <1>3 DEF Delivered
<1>5. queue' \in Seq(Deliveries) /\ Len(queue') <= QueueMax /\ PausedForAReason'
  BY <1>1, <1>2, <1>4, Delivers
<1>6. CASE /\ t = "reader" /\ reader.pc = "put" /\ reader' = [reader EXCEPT !.pc = "run"]
           /\ UNCHANGED <<app, closer>>
  <2>1. /\ reader'.pc = "run"
        /\ reader' \in [pc : {"none", "run", "write", "put", "done"},
                       events : Seq(Frames), holds : Deliveries]
    BY <1>1, <1>6 DEF Typed
  <2>2. Typed'
    BY <1>1, <1>2, <1>5, <1>6, <2>1 DEF Typed
  <2>3. runner # "handshake"
    BY <1>6 DEF IInv, Order
  <2> QED BY <1>2, <1>5, <1>6, <2>1, <2>2, <2>3, QuietStep DEF Kept
<1>7. CASE /\ t \in Closers /\ closer[t] = "put" /\ closer' = [closer EXCEPT ![t] = "done"]
           /\ UNCHANGED <<app, reader>>
  <2>1. /\ Typed'
        /\ \A k \in Closers : /\ closer[k] = "write" => closer'[k] = "write"
                              /\ closer[k] = "done" => closer'[k] = "done"
    BY <1>1, <1>2, <1>5, <1>7 DEF Typed
  <2> QED BY <1>2, <1>5, <1>7, <2>1, QuietStep DEF Kept
<1>8. CASE /\ t = "app" /\ app.pc = "put" /\ app' = [app EXCEPT !.pc = "run"]
           /\ UNCHANGED <<reader, closer>>
  <2>1. /\ app'.pc = "run" /\ app'.over = app.over
        /\ app' \in [pc : {"run", "recv", "write", "put", "done"},
                       over : BOOLEAN, sends : 0 .. MaxSends]
    BY <1>1, <1>8 DEF Typed
  <2>2. Typed'
    BY <1>1, <1>2, <1>5, <1>8, <2>1 DEF Typed
  <2>3. ~ app.over
    BY <1>8 DEF IInv, Writers
  <2> QED BY <1>2, <1>5, <1>8, <2>1, <2>2, <2>3, QuietStep DEF Kept
<1> QED BY <1>6, <1>7, <1>8 DEF Puts

\* A frame that arrives waits to be parsed.
LEMMA PeerSendsStep ==
    ASSUME IInv, NEW f \in Frames, PeerSends(f)
    PROVE  IInv'
<1>1. Typed /\ PausedForAReason
  BY DEF IInv
<1>2. /\ inbox' = Append(inbox, f) /\ peer.sent < MaxFrames
      /\ peer' = [sent |-> peer.sent + 1, closed |-> f = "close"]
      /\ UNCHANGED <<s, runner, app, reader, closer, line, wire, queue, net>>
  BY DEF PeerSends
<1>3. inbox' \in Seq(Frames)
  BY <1>1, <1>2, AppendProperties DEF Typed
<1>4. peer' \in [sent : 0 .. MaxFrames, closed : BOOLEAN]
  <2>1. peer.sent \in 0 .. MaxFrames /\ (f = "close") \in BOOLEAN
    BY <1>1 DEF Typed
  <2>2. peer.sent + 1 \in 0 .. MaxFrames
    BY <1>2, <2>1, SessionAssumption
  <2> QED BY <1>2, <2>1, <2>2
<1>5. Typed' /\ PausedForAReason'
  BY <1>1, <1>2, <1>3, <1>4 DEF Typed, PausedForAReason, Full
<1> QED BY <1>2, <1>5, QuietStep DEF Kept

\* The session goes on, or goes from serving to the grace period.
LEMMA RunnerGoesOn ==
    ASSUME IInv, runner \in {"handshake", "serving"}, runner' \in {"serving", "grace"},
           runner = "handshake" => s.answered /\ s.handshake,
           \/ reader' = reader
           \/ reader' = [reader EXCEPT !.pc = "run"] /\ runner = "handshake",
           UNCHANGED <<s, app, closer, line, queue, net, wire, inbox, peer>>
    PROVE  IInv'
<1>1. Typed /\ PausedForAReason
  BY DEF IInv
<1>2. /\ reader' = reader \/ reader'.pc = "run"
      /\ reader' # reader => reader'.pc = "run" /\ runner = "handshake"
      /\ Typed' /\ PausedForAReason'
  <2>1. reader' \in [pc : {"none", "run", "write", "put", "done"},
                    events : Seq(Frames), holds : Deliveries]
    BY <1>1 DEF Typed
  <2>2. /\ reader' = reader \/ reader'.pc = "run"
        /\ reader' # reader => reader'.pc = "run" /\ runner = "handshake"
    BY <1>1 DEF Typed
  <2>3. Typed' /\ PausedForAReason'
    BY <1>1, <2>1 DEF Typed, PausedForAReason, Full
  <2> QED BY <2>2, <2>3
<1>3. CASE reader' = reader
  BY <1>2, <1>3, QuietStep DEF Kept
<1>4. CASE reader' # reader
  <2>1. Went("101") \/ s.rejected
    BY <1>2, <1>4 DEF IInv, Order
  <2>2. reader.pc = "none"
    BY <1>2, <1>4 DEF IInv, Order
  <2> QED BY <1>2, <1>4, <2>1, <2>2, QuietStep DEF Kept
<1> QED BY <1>3, <1>4

-----------------------------------------------------------------------------
\* The steps that put a write in line.

\* What has to come before a write, and what must not have.
MayWrite(t, x) ==
    /\ x \in Refusals \cup {"101"} => t = "app" /\ ~ s.handshake
    /\ x \in {"body", "last"} => t = "app" /\ s.rejecting
    /\ x = "data" => Went("101")
    /\ x = "pong" => Went("101") \/ s.rejected
    /\ x = "close" => ~ s.closeSent /\ (Went("101") \/ s.rejected \/ net'.early)

\* A write sets the flags that say so at once.
Noted(x) ==
    /\ s'.handshake <=> s.handshake \/ x = "101"
    /\ s'.rejected <=> s.rejected \/ x \in Refusals
    /\ s'.rejecting <=> s.rejecting \/ x = "refusal"
    /\ s'.closeSent <=> s.closeSent \/ x = "close"
    /\ s'.answered <=> s.answered

\* The task that writes, and only it, waits from then on.
Waiting(t, x) ==
    /\ t = "app" => app.pc = "run" /\ app'.pc = "write" /\ x # "pong"
                    /\ (app'.over => x = "close")
    /\ t # "app" => app' = app
    /\ t = "reader" => reader.pc = "run" /\ reader'.pc = "write" /\ x \in {"pong", "close"}
    /\ t # "reader" => reader' = reader
    /\ t \in Closers => closer[t] = "none" /\ closer'[t] = "write" /\ x = "close"
    /\ \A k \in Closers : k # t => closer'[k] = closer[k]

\* A task that may write what it writes keeps the invariant.
LEMMA WriteStep ==
    ASSUME IInv, Typed', PausedForAReason', NEW t \in Everyone \ {"runner"}, NEW x \in Items,
           line' = InLine(t, x), MayWrite(t, x), Noted(x), Waiting(t, x),
           UNCHANGED <<wire, runner>>, runner # "over",
           net'.state = net.state, net'.cut = net.cut, net'.lost = net.lost,
           net.early => net'.early
    PROVE  IInv'
<1> s.rejected => s'.rejected
  BY DEF Noted
<1>1. /\ AnswerFirst' /\ OneFarewell' /\ \A y : Written(y)' <=> Written(y)
  BY WireStays DEF IInv
<1>2. \A y \in Items : ~ Waits(t, y)
  BY DEF IInv, Writers, Waiting, Everyone, Tasks
<1>3. \A u, y : Waits(u, y) => y \in Items
  BY WaitsItems DEF IInv
<1>4. t \in Everyone /\ \A y : ~ Waits(t, y)
  BY <1>2, <1>3
<1>5. Lined' /\ \A u, y : Waits(u, y)' <=> Waits(u, y) \/ (u = t /\ y = x)
  <2> DEFINE w == [by |-> t, item |-> x]
  <2>1. /\ IsLine(line) /\ line' = line \cup {w}
        /\ w \in [by : Everyone, item : Items] /\ w.by = t /\ w.item = x
    BY DEF IInv, Lined, InLine
  <2> HIDE DEF w
  <2>2. \A y : ~ OnLine(line, w.by, y)
    BY <1>4, <2>1 DEF Waits
  <2>3. /\ IsLine(line')
        /\ \A u, y : OnLine(line', u, y) <=> OnLine(line, u, y) \/ (u = t /\ y = x)
    BY <2>1, <2>2, LineGrows
  <2> QED BY <2>3 DEF Lined, Waits, IsLine, OnLine
<1>6. \A y : Went(y)' <=> Went(y)
  BY <1>1 DEF Went
<1>7. "app" \notin Closers /\ "reader" \notin Closers /\ "runner" \notin Closers
  BY SessionAssumption
<1>8. Writers'
  BY <1>5, <1>7 DEF IInv, Writers, Waiting
<1>9. FlagsTell'
  BY <1>1, <1>5 DEF IInv, FlagsTell, Noted, MayWrite, Waiting, Refusals
<1>10. Order'
  BY <1>1, <1>5, <1>6 DEF IInv, Order, FlagsTell, Noted, MayWrite, Waiting, Refusals
<1>11. OneAnswer'
  BY <1>1, <1>5 DEF IInv, OneAnswer, FlagsTell, MayWrite, Noted, Refusals
<1>12. OneClose'
  BY <1>1, <1>4, <1>5, <1>6 DEF IInv, OneClose, Noted, MayWrite
<1>13. AllOver'
  BY <1>1 DEF IInv, AllOver
<1> QED BY <1>1, <1>5, <1>8, <1>9, <1>10, <1>11, <1>12, <1>13 DEF IInv

\* What the application sends in its turn may be written.
LEMMA AppWritesStep ==
    ASSUME IInv, app.pc = "run", app.sends < Allowed, NEW x \in Items, NEW f \in Flags,
           AppWrites(x, f), x \notin {"pong", "close"} \/ s.handshake,
           x # "pong", app.over = FALSE,
           f.handshake <=> s.handshake \/ x = "101",
           f.rejected <=> s.rejected \/ x \in Refusals,
           f.rejecting <=> s.rejecting \/ x = "refusal",
           f.closeSent <=> s.closeSent \/ x = "close",
           f.answered <=> s.answered, f.readPaused <=> s.readPaused,
           x \in Refusals \cup {"101"} => ~ s.handshake,
           x \in {"body", "last"} => s.rejecting, x = "data" => s.handshake,
           x = "close" => ~ s.closeSent,
           UNCHANGED <<runner, reader, closer, wire, queue, inbox, peer, net>>
    PROVE  IInv'
<1>1. Typed /\ PausedForAReason
  BY DEF IInv
<1>2. /\ s' = f /\ line' = InLine("app", x)
      /\ app' = [app EXCEPT !.pc = "write", !.sends = app.sends + 1]
  BY DEF AppWrites
<1>3. app.sends + 1 \in 0 .. MaxSends
  BY <1>1, SessionAssumption DEF Typed, Allowed
<1>4. /\ app'.pc = "write" /\ app'.over = app.over
      /\ app' \in [pc : {"run", "recv", "write", "put", "done"},
                   over : BOOLEAN, sends : 0 .. MaxSends]
  BY <1>1, <1>2, <1>3 DEF Typed
<1>5. Typed' /\ PausedForAReason'
  BY <1>1, <1>2, <1>4 DEF Typed, PausedForAReason, Full
<1>6. Noted(x)
  BY <1>2 DEF Noted
<1>7. "app" \notin Closers /\ "app" \in Everyone \ {"runner"}
  BY SessionAssumption DEF Everyone, Tasks
<1>8. Waiting("app", x)
  BY <1>2, <1>4, <1>7 DEF Waiting
<1>9. \A y : ~ Waits("app", y)
  BY WaitsItems DEF IInv, Writers
<1>10. MayWrite("app", x)
  BY <1>9 DEF MayWrite, IInv, Order, Refusals
<1>11. runner # "over"
  BY DEF IInv, AllOver
<1> QED BY <1>2, <1>5, <1>6, <1>7, <1>8, <1>10, <1>11, WriteStep

\* A message that only sets flags keeps what was written and what waits.
LEMMA AppMarksStep ==
    ASSUME IInv, app.pc = "run", app.over = FALSE, app.sends + 1 \in 0 .. MaxSends,
           NEW f \in Flags, AppMarks(f),
           f.handshake = s.handshake, f.closeSent = s.closeSent,
           f.answered = s.answered, f.readPaused = s.readPaused,
           f.rejected \/ (f.rejected = s.rejected /\ f.rejecting = s.rejecting),
           UNCHANGED <<runner, reader, closer, wire, queue, inbox, peer, net>>
    PROVE  IInv'
<1>1. Typed /\ PausedForAReason
  BY DEF IInv
<1>2. /\ s' = f /\ line' = line /\ app' = [app EXCEPT !.sends = app.sends + 1]
  BY DEF AppMarks
<1>3. /\ app'.pc = "run" /\ app'.over = app.over
      /\ app' \in [pc : {"run", "recv", "write", "put", "done"},
                   over : BOOLEAN, sends : 0 .. MaxSends]
  BY <1>1, <1>2 DEF Typed
<1>4. Typed' /\ PausedForAReason'
  BY <1>1, <1>2, <1>3 DEF Typed, PausedForAReason, Full
<1>5. Kept \/ Marked
  BY <1>2 DEF Kept, Marked
<1> QED BY <1>1, <1>2, <1>3, <1>4, <1>5, QuietStep

\* The application answers, sends data, closes or refuses, in any order that send
\* lets through.
LEMMA AppSendsStep ==
    ASSUME IInv, NEW m \in Messages, AppSends(m)
    PROVE  IInv'
<1>1. /\ Typed /\ PausedForAReason /\ s \in Flags /\ app.over = FALSE
      /\ s.rejecting => s.rejected
  BY DEF IInv, Typed, Writers, FlagsTell, AppSends
<1>2. /\ app.pc = "run" /\ app.sends < Allowed /\ InTurn(m)
      /\ UNCHANGED <<runner, reader, closer, wire, queue, inbox, peer, net>>
  BY DEF AppSends
<1>3. app.sends + 1 \in 0 .. MaxSends
  BY <1>1, <1>2, SessionAssumption DEF Typed, Allowed
<1>4. CASE m = "accept"
  <2> DEFINE f == [s EXCEPT !.handshake = TRUE]
  <2>1. AppWrites("101", f) /\ ~ s.handshake
    BY <1>2, <1>4 DEF AppSends, Accept, InTurn
  <2>2. /\ f \in Flags /\ f.handshake /\ f.rejected = s.rejected
        /\ f.rejecting = s.rejecting /\ f.closeSent = s.closeSent
        /\ f.answered = s.answered /\ f.readPaused = s.readPaused
    BY <1>1 DEF Flags
  <2> HIDE DEF f
  <2> QED BY <1>1, <1>2, <2>1, <2>2, AppWritesStep DEF Items, Refusals
<1>5. CASE m \in {"start", "malformed"}
  <2>1. /\ Refusing \in Flags /\ Refusing.handshake = s.handshake /\ Refusing.rejected
        /\ Refusing.rejecting /\ Refusing.closeSent = s.closeSent
        /\ Refusing.answered = s.answered /\ Refusing.readPaused = s.readPaused
    BY <1>1 DEF Flags, Refusing
  <2>2. CASE m = "start"
    <3>1. AppWrites("refusal", Refusing) /\ ~ s.handshake
      BY <1>2, <2>2 DEF AppSends, RejectStart, InTurn
    <3> QED BY <1>1, <1>2, <2>1, <3>1, AppWritesStep DEF Items, Refusals
  <2>3. CASE m = "malformed"
    <3>1. AppMarks(Refusing)
      BY <2>3 DEF AppSends, RejectStart
    <3> QED BY <1>1, <1>2, <1>3, <2>1, <3>1, AppMarksStep DEF Marked
  <2> QED BY <1>5, <2>2, <2>3
<1>6. CASE m \in {"body", "last"}
  <2>1. AppWrites(m, s) /\ s.rejecting
    BY <1>2, <1>6 DEF AppSends, InTurn
  <2> QED BY <1>1, <1>2, <1>6, <2>1, AppWritesStep DEF Items, Refusals
<1>7. CASE m = "data"
  <2>1. AppWrites("data", s) /\ s.handshake
    BY <1>2, <1>7 DEF AppSends, InTurn
  <2> QED BY <1>1, <1>2, <2>1, AppWritesStep DEF Items, Refusals
<1>8. CASE m = "close"
  <2>1. CASE ~ s.handshake
    <3> DEFINE f == [s EXCEPT !.rejected = TRUE]
    <3>1. AppWrites("403", f)
      BY <1>8, <2>1 DEF AppSends, Close
    <3>2. /\ f \in Flags /\ f.handshake = s.handshake /\ f.rejected
          /\ f.rejecting = s.rejecting /\ f.closeSent = s.closeSent
          /\ f.answered = s.answered /\ f.readPaused = s.readPaused
      BY <1>1 DEF Flags
    <3> HIDE DEF f
    <3> QED BY <1>1, <1>2, <2>1, <3>1, <3>2, AppWritesStep DEF Items, Refusals
  <2>2. CASE s.handshake /\ s.closeSent
    <3>1. AppMarks(MarkClosed(s))
      BY <1>8, <2>2 DEF AppSends, Close
    <3>2. /\ MarkClosed(s) \in Flags /\ MarkClosed(s).handshake = s.handshake
          /\ MarkClosed(s).rejected = s.rejected /\ MarkClosed(s).rejecting = s.rejecting
          /\ MarkClosed(s).closeSent = s.closeSent /\ MarkClosed(s).answered = s.answered
          /\ MarkClosed(s).readPaused = s.readPaused
      BY <1>1 DEF MarkClosed, Flags
    <3> QED BY <1>1, <1>2, <1>3, <3>1, <3>2, AppMarksStep
  <2>3. CASE s.handshake /\ ~ s.closeSent
    <3> DEFINE f == [s EXCEPT !.closeSent = TRUE]
    <3>1. AppWrites("close", f)
      BY <1>8, <2>3 DEF AppSends, Close
    <3>2. /\ f \in Flags /\ f.handshake = s.handshake /\ f.rejected = s.rejected
          /\ f.rejecting = s.rejecting /\ f.closeSent
          /\ f.answered = s.answered /\ f.readPaused = s.readPaused
      BY <1>1 DEF Flags
    <3> HIDE DEF f
    <3> QED BY <1>1, <1>2, <2>3, <3>1, <3>2, AppWritesStep DEF Items, Refusals
  <2> QED BY <2>1, <2>2, <2>3
<1> QED BY <1>4, <1>5, <1>6, <1>7, <1>8 DEF Messages

\* What the guard does last tells at most that a refusal is over.
LEMMA FinallyTells ==
    ASSUME NEW f \in Flags, NEW g, g = Finally(f)
    PROVE  /\ g \in Flags /\ g.handshake = f.handshake /\ g.rejected = f.rejected
           /\ g.rejecting = f.rejecting /\ g.closeSent = f.closeSent
           /\ g.readPaused = f.readPaused
           /\ f.answered => g.answered
           /\ g.answered => f.answered \/ f.rejecting
BY DEF Finally, Answered, MarkClosed, Flags

\* An application that ends says so, or closes the session first.
LEMMA AppEndsStep ==
    ASSUME IInv, NEW how \in {"return", "error", "fault"}, AppEnds(how)
    PROVE  IInv'
<1>1. /\ Typed /\ PausedForAReason /\ s \in Flags
      /\ app.pc = "run" /\ UNCHANGED <<runner, reader, closer, wire, queue, inbox, peer, net>>
  BY DEF IInv, Typed, AppEnds
<1>2. CASE how # "return" /\ s.handshake /\ ~ s.closeSent
  <2>1. /\ s' = [s EXCEPT !.closeSent = TRUE] /\ line' = InLine("app", "close")
        /\ app' = [app EXCEPT !.pc = "write", !.over = TRUE]
    BY <1>2 DEF AppEnds
  <2>2. /\ s' \in Flags /\ Noted("close") /\ s'.readPaused = s.readPaused
    BY <1>1, <2>1 DEF Flags, Noted, Refusals
  <2>3. /\ app' \in [pc : {"run", "recv", "write", "put", "done"},
                     over : BOOLEAN, sends : 0 .. MaxSends]
        /\ app'.pc = "write"
    BY <1>1, <2>1 DEF Typed
  <2>4. Typed' /\ PausedForAReason'
    BY <1>1, <2>2, <2>3 DEF Typed, PausedForAReason, Full
  <2>5. "app" \notin Closers /\ "app" \in Everyone \ {"runner"} /\ "close" \in Items
    BY SessionAssumption DEF Everyone, Tasks, Items
  <2>6. Waiting("app", "close")
    BY <1>1, <2>3, <2>5 DEF Waiting
  <2>7. \A y : ~ Waits("app", y)
    BY <1>1, WaitsItems DEF IInv, Writers
  <2>8. MayWrite("app", "close")
    BY <1>1, <1>2, <2>7 DEF MayWrite, IInv, Order, Refusals
  <2>9. runner # "over"
    BY <1>1 DEF IInv, AllOver
  <2> QED BY <1>1, <2>1, <2>2, <2>4, <2>5, <2>6, <2>8, <2>9, WriteStep
<1>3. CASE ~ (how # "return" /\ s.handshake /\ ~ s.closeSent)
  <2> DEFINE woken == IF how = "error" /\ ~s.handshake /\ ~s.answered
                      THEN Answered(MarkClosed(s)) ELSE s
  <2>1. /\ s' = Finally(woken) /\ line' = line
        /\ app' = [app EXCEPT !.pc = "done", !.over = TRUE]
    BY <1>3 DEF AppEnds
  <2>2. /\ woken \in Flags /\ woken.handshake = s.handshake /\ woken.rejected = s.rejected
        /\ woken.rejecting = s.rejecting /\ woken.closeSent = s.closeSent
        /\ woken.readPaused = s.readPaused /\ (s.answered => woken.answered)
        /\ woken.answered => s.answered \/ ~ s.handshake
    BY <1>1 DEF Flags, Answered, MarkClosed
  <2> HIDE DEF woken
  <2>3. /\ s' \in Flags /\ s'.handshake = s.handshake /\ s'.rejected = s.rejected
        /\ s'.rejecting = s.rejecting /\ s'.closeSent = s.closeSent
        /\ s'.readPaused = s.readPaused /\ (s.answered => s'.answered)
        /\ s'.answered => s.answered \/ ~ s.handshake \/ s.rejecting
    BY <2>1, <2>2, FinallyTells
  <2>4. s.rejecting => s.rejected
    BY DEF IInv, FlagsTell
  <2>5. /\ app' \in [pc : {"run", "recv", "write", "put", "done"},
                     over : BOOLEAN, sends : 0 .. MaxSends]
        /\ app'.pc = "done"
    BY <1>1, <2>1 DEF Typed
  <2>6. Typed' /\ PausedForAReason'
    BY <1>1, <2>3, <2>5 DEF Typed, PausedForAReason, Full
  <2> QED BY <1>1, <2>1, <2>3, <2>4, <2>5, <2>6, QuietStep DEF Kept
<1> QED BY <1>2, <1>3

\* A message that is delivered may pause the reading, and a goodbye closes the
\* session; neither tells anything of the handshake.
LEMMA PausedFlags ==
    ASSUME NEW f \in {s, MarkClosed(s)}, s \in Flags, s' = Paused(f)
    PROVE  /\ s' \in Flags /\ Kept /\ s'.answered = s.answered
           /\ s'.readPaused <=> s.readPaused \/ Full(queue)
<1>1. f \in Flags /\ f.handshake = s.handshake /\ f.rejected = s.rejected
      /\ f.rejecting = s.rejecting /\ f.closeSent = s.closeSent
      /\ f.answered = s.answered /\ f.readPaused = s.readPaused
  BY DEF MarkClosed, Flags
<1>2. s' = [f EXCEPT !.readPaused = f.readPaused \/ Full(queue)]
  BY DEF Paused
<1> QED BY <1>1, <1>2 DEF Flags, Kept

\* The reader delivers what it read, or its goodbye.
LEMMA ReaderDelivers ==
    ASSUME IInv, reader.pc = "run", NEW m \in Deliveries, NEW rest \in Seq(Frames),
           NEW f \in {s, MarkClosed(s)}, s' = Paused(f), queue' = Delivered(m),
           ReaderParts(AfterDelivery("run"), rest, m), inbox' \in Seq(Frames),
           UNCHANGED <<runner, app, closer, line, wire, peer, net>>
    PROVE  IInv'
<1>1. Typed /\ PausedForAReason /\ s \in Flags
  BY DEF IInv, Typed
<1>2. /\ s' \in Flags /\ Kept /\ s'.answered = s.answered
      /\ s'.readPaused <=> s.readPaused \/ Full(queue)
  BY <1>1, PausedFlags
<1>3. queue' \in Seq(Deliveries) /\ Len(queue') <= QueueMax /\ PausedForAReason'
  BY <1>1, <1>2, Delivers
<1>4. /\ reader' \in [pc : {"none", "run", "write", "put", "done"},
                      events : Seq(Frames), holds : Deliveries]
      /\ reader'.pc \in {"run", "put"}
  BY DEF ReaderParts, AfterDelivery
<1>5. Typed'
  BY <1>1, <1>2, <1>3, <1>4 DEF Typed
<1>6. runner # "handshake"
  BY DEF IInv, Order
<1> QED BY <1>2, <1>3, <1>5, <1>6, QuietStep

\* The reader answers a ping, or closes.
LEMMA ReaderWrites ==
    ASSUME IInv, reader.pc = "run", NEW x \in {"pong", "close"}, NEW rest \in Seq(Frames),
           NEW m \in Deliveries, s' = IF x = "close" THEN [s EXCEPT !.closeSent = TRUE] ELSE s,
           x = "close" => ~ s.closeSent, line' = InLine("reader", x),
           ReaderParts("write", rest, m), inbox' \in Seq(Frames),
           UNCHANGED <<runner, app, closer, wire, queue, peer, net>>
    PROVE  IInv'
<1>1. Typed /\ PausedForAReason /\ s \in Flags
  BY DEF IInv, Typed
<1>2. s' \in Flags /\ Noted(x) /\ s'.readPaused = s.readPaused
  BY <1>1 DEF Flags, Noted, Refusals
<1>3. /\ reader' \in [pc : {"none", "run", "write", "put", "done"},
                      events : Seq(Frames), holds : Deliveries]
      /\ reader'.pc = "write"
  BY DEF ReaderParts
<1>4. Typed' /\ PausedForAReason'
  BY <1>1, <1>2, <1>3 DEF Typed, PausedForAReason, Full
<1>5. /\ "reader" \notin Closers /\ "reader" \in Everyone \ {"runner"}
      /\ x \in Items
  BY SessionAssumption DEF Everyone, Tasks, Items
<1>6. Waiting("reader", x)
  BY <1>3, <1>5 DEF Waiting
<1>7. MayWrite("reader", x)
  BY DEF MayWrite, IInv, Order, Refusals
<1>8. runner # "over"
  BY DEF IInv, AllOver
<1> QED BY <1>2, <1>4, <1>5, <1>6, <1>7, <1>8, WriteStep

\* A reader that ends the session closes it, unless somebody did.
LEMMA ReaderEndsStep ==
    ASSUME IInv, reader.pc = "run", NEW rest \in Seq(Frames), ReaderEndsSession(rest),
           inbox' \in Seq(Frames), UNCHANGED <<runner, app, closer, wire, peer, net>>
    PROVE  IInv'
<1>1. CASE s.closeSent
  BY <1>1, ReaderDelivers DEF ReaderEndsSession, SayGoodbye, Deliveries
<1>2. CASE ~ s.closeSent
  BY <1>2, ReaderWrites DEF ReaderEndsSession, SendClose, Deliveries
<1> QED BY <1>1, <1>2

\* A round of the reader.
LEMMA ReaderRoundStep ==
    ASSUME IInv, ReaderStep
    PROVE  IInv'
<1>1. /\ Typed /\ PausedForAReason /\ s \in Flags /\ reader.pc = "run"
      /\ reader.events \in Seq(Frames) /\ reader.holds \in Deliveries
      /\ inbox \in Seq(Frames) /\ UNCHANGED <<runner, app, closer, wire, peer, net>>
  BY DEF IInv, Typed, ReaderStep
<1>2. CASE s.closed
  <2>1. /\ ReaderParts("done", reader.events, reader.holds)
        /\ UNCHANGED <<s, line, queue, inbox>>
    BY <1>2 DEF ReaderStep
  <2>2. /\ reader' \in [pc : {"none", "run", "write", "put", "done"},
                        events : Seq(Frames), holds : Deliveries]
        /\ reader'.pc = "done"
    BY <1>1, <2>1 DEF ReaderParts
  <2>3. Typed' /\ PausedForAReason'
    BY <1>1, <2>1, <2>2 DEF Typed, PausedForAReason, Full
  <2>4. runner # "handshake"
    BY <1>1 DEF IInv, Order
  <2> QED BY <1>1, <2>1, <2>2, <2>3, <2>4, QuietStep DEF Kept
<1>3. CASE ~ s.closed
  <2>1. /\ Batch # <<>> /\ inbox' = IF reader.events # <<>> THEN inbox ELSE <<>>
        /\ IF Contains(Batch, "bad") THEN ReaderEndsSession(<<>>)
           ELSE Handle(Head(Batch), Tail(Batch))
    BY <1>3 DEF ReaderStep
  <2>2. Batch \in Seq(Frames)
    BY <1>1 DEF Batch
  <2>3. <<>> \in Seq(Frames)
    BY EmptySeq
  <2>4. inbox' \in Seq(Frames)
    BY <1>1, <2>1, <2>3
  <2>5. Tail(Batch) \in Seq(Frames)
    BY <2>1, <2>2, HeadTailProperties
  <2>6. CASE Contains(Batch, "bad")
    <3>1. ReaderEndsSession(<<>>)
      BY <2>1, <2>6
    <3> QED BY <1>1, <2>3, <2>4, <3>1, ReaderEndsStep
  <2>7. CASE ~ Contains(Batch, "bad")
    <3> DEFINE event == Head(Batch)
               rest == Tail(Batch)
    <3>1. Handle(event, rest) /\ rest \in Seq(Frames)
      BY <2>1, <2>5, <2>7
    <3> HIDE DEF event, rest
    <3>2. CASE event = "message"
      <4>1. /\ s' = Paused(s) /\ queue' = Delivered("message")
            /\ ReaderParts(AfterDelivery("run"), rest, "message") /\ line' = line
        BY <3>1, <3>2 DEF Handle
      <4> QED BY <1>1, <2>4, <3>1, <4>1, ReaderDelivers DEF Deliveries
    <3>3. CASE event = "ping"
      <4>1. /\ line' = InLine("reader", "pong") /\ UNCHANGED <<s, queue>>
            /\ ReaderParts("write", rest, "message")
        BY <3>1, <3>3 DEF Handle
      <4> QED BY <1>1, <2>4, <3>1, <4>1, ReaderWrites DEF Deliveries
    <3>4. CASE event \notin {"message", "ping"}
      <4>1. ReaderEndsSession(rest)
        BY <3>1, <3>4 DEF Handle
      <4> QED BY <1>1, <2>4, <3>1, <4>1, ReaderEndsStep
    <3> QED BY <3>2, <3>3, <3>4
  <2> QED BY <2>6, <2>7
<1> QED BY <1>2, <1>3

-----------------------------------------------------------------------------
\* The steps with which the socket takes a write, or the session ends.

\* Cutting a close frame is cancelling a task that waits to write it.
LEMMA CutCloseIs ==
    ASSUME NEW ts
    PROVE  CutClose(ts) <=> \E t \in ts : Waits(t, "close")
BY DEF CutClose, Waits, OnLine

\* A write in line may be written where it is, whichever it is, and says which.
LEMMA WireTakes ==
    ASSUME IInv, NEW w \in line, net'.early = net.early, s.rejected => s'.rejected,
           wire' = IF net.state = "open" THEN Append(wire, w.item) ELSE wire
    PROVE  /\ AnswerFirst' /\ wire' \in Seq(Items)
           /\ (\A i, j \in At({"close"}) : i = j)'
           /\ \A y : Written(y)' <=> \/ Written(y)
                                     \/ y = w.item /\ net.state = "open"
<1> DEFINE t == w.by
           x == w.item
           n == Len(wire)
<1>1. t \in Everyone /\ x \in Items /\ Waits(t, x)
  <2>1. Waits(t, x)
    BY DEF Waits, OnLine
  <2> QED BY <2>1, WaitsItems DEF IInv
<1>2. AnswerFirst /\ \A i, j \in At({"close"}) : i = j
  BY DEF IInv, OneFarewell
<1> HIDE DEF t, x
<1>3. CASE net.state # "open"
  <2>1. wire' = wire
    BY <1>3
  <2>2. \A items : At(items)' = At(items)
    BY <2>1 DEF At
  <2>3. AnswerFirst' /\ (\A i, j \in At({"close"}) : i = j)'
    BY <1>2, <2>1, <2>2 DEF AnswerFirst
  <2>4. wire' \in Seq(Items)
    BY <2>1 DEF IInv, Typed
  <2>5. \A y : Written(y)' <=> Written(y)
    BY <2>1 DEF Written
  <2> QED BY <1>3, <2>3, <2>4, <2>5 DEF x
<1>4. CASE net.state = "open"
  <2>1. wire' = Append(wire, x)
    BY <1>4 DEF x
  <2>2. /\ wire' \in Seq(Items) /\ n \in Nat
        /\ DOMAIN wire = 1 .. n /\ DOMAIN wire' = 1 .. n + 1
        /\ \A k \in 1 .. n : wire'[k] = wire[k]
        /\ wire'[n + 1] = x
        /\ \A y : Written(y)' <=> Written(y) \/ y = x
    BY <1>1, <2>1, WireGrows DEF IInv
  <2> HIDE DEF n
  <2>3. ASSUME NEW items
        PROVE  /\ At(items) \subseteq 1 .. n
               /\ At(items)' = IF x \in items THEN At(items) \cup {n + 1} ELSE At(items)
               /\ At(items) # {} <=> \E y \in items : Written(y)
    BY <2>2 DEF At, Written
  <2>4. \A y : Went(y) <=> Written(y)
    BY <1>4 DEF Went
  <2>5. \A i, j \in At({"101"})' : i = j \/ s'.rejected
    <3>1. x = "101" => t = "app"
      BY <1>1 DEF IInv, Writers, Everyone, Tasks
    <3>2. x = "101" => At({"101"}) = {} \/ s.rejected
      BY <1>1, <2>3, <3>1 DEF IInv, OneAnswer
    <3>3. At({"101"})' = IF x = "101" THEN At({"101"}) \cup {n + 1} ELSE At({"101"})
      BY <2>3
    <3>4. \A i, j \in At({"101"}) : i = j \/ s.rejected
      BY <1>2 DEF AnswerFirst
    <3> QED BY <3>2, <3>3, <3>4
  <2>6. \A i, j \in At({"close"})' : i = j
    <3>1. x = "close" => At({"close"}) = {}
      BY <1>1, <2>3 DEF IInv, OneClose
    <3> QED BY <1>2, <2>3, <3>1
  <2>7. ASSUME NEW k \in At({"data", "pong", "close"})'
        PROVE  \/ \E i \in At({"101"})' : i < k
               \/ wire'[k] # "data" /\ s'.rejected
               \/ wire'[k] = "close" /\ net'.early
    <3>1. x \in {"data", "pong", "close"} =>
              \/ At({"101"}) # {}
              \/ x # "data" /\ s.rejected
              \/ x = "close" /\ net.early
      BY <1>1, <2>3, <2>4 DEF IInv, Order
    <3>2. At({"101"}) \subseteq At({"101"})' /\ \A i \in At({"101"}) : i < n + 1
      BY <2>2, <2>3
    <3>3. CASE k \in At({"data", "pong", "close"})
      <4>1. k \in 1 .. n /\ wire'[k] = wire[k]
        BY <2>2, <2>3, <3>3
      <4> QED BY <1>2, <3>2, <3>3, <4>1 DEF AnswerFirst
    <3>4. CASE k \notin At({"data", "pong", "close"})
      <4>1. k = n + 1 /\ x \in {"data", "pong", "close"} /\ wire'[k] = x
        BY <2>2, <2>3, <2>7, <3>4
      <4> QED BY <3>1, <3>2, <4>1
    <3> QED BY <3>3, <3>4
  <2>8. AnswerFirst'
    BY <2>5, <2>7 DEF AnswerFirst
  <2> QED BY <1>4, <2>2, <2>6, <2>8 DEF x
<1> QED BY <1>3, <1>4

\* A connection that ends leaves no task, and its session either was told
\* goodbye, or was not accepted, or was lost.
LEMMA EndedStep ==
    ASSUME IInv, NEW how \in {"served", "lost"}, Ended(how), net.state # "closed", peer' = peer,
           wire' \in Seq(Items), AnswerFirst', (\A i, j \in At({"close"}) : i = j)',
           \A x : Written(x) => Written(x)',
           \A x : Written(x)' => Written(x) \/ (x = "close" /\ s.closeSent),
           how = "served" /\ Written("101") =>
               Written("close")' \/ net.cut \/ s.rejected
               \/ \E t \in Everyone : Waits(t, "close")
    PROVE  IInv'
<1>1. /\ Typed /\ PausedForAReason /\ s \in Flags
      /\ net.cut \in BOOLEAN /\ net.early \in BOOLEAN
  BY DEF IInv, Typed
<1>2. /\ runner' = "over" /\ line' = {} /\ inbox' = <<>> /\ queue' = queue
      /\ app' = [app EXCEPT !.pc = "done"] /\ reader' = [reader EXCEPT !.pc = "done"]
      /\ closer' = [k \in Closers |-> "done"]
      /\ net' = [net EXCEPT !.state = "closed", !.lost = how = "lost",
                            !.cut = net.cut \/ CutClose(Tasks \cup Closers)]
      /\ s' = IF runner = "handshake" THEN s ELSE MarkClosed(s)
  BY DEF Ended
<1>3. /\ net'.state = "closed" /\ net'.early = net.early
      /\ net' \in [state : {"open", "aborted", "closed"}, cut : BOOLEAN, early : BOOLEAN,
                   lost : BOOLEAN]
      /\ net'.cut <=> net.cut \/ \E t \in Everyone : Waits(t, "close")
      /\ net'.lost <=> how = "lost"
  <2> DEFINE cut == net.cut \/ CutClose(Tasks \cup Closers)
             lost == how = "lost"
  <2>1. cut \in BOOLEAN /\ lost \in BOOLEAN
    BY <1>1
  <2>2. cut <=> net.cut \/ \E t \in Everyone : Waits(t, "close")
    BY CutCloseIs DEF Everyone
  <2>3. net' = [net EXCEPT !.state = "closed", !.lost = lost, !.cut = cut]
    BY <1>2
  <2> HIDE DEF cut, lost
  <2>4. /\ net'.state = "closed" /\ net'.early = net.early /\ net'.cut = cut
        /\ net'.lost = lost
        /\ net' \in [state : {"open", "aborted", "closed"}, cut : BOOLEAN, early : BOOLEAN,
                     lost : BOOLEAN]
    BY <1>1, <2>1, <2>3 DEF Typed
  <2> QED BY <2>1, <2>2, <2>4 DEF lost
<1>4. /\ s' \in Flags /\ s'.handshake = s.handshake /\ s'.rejected = s.rejected
      /\ s'.rejecting = s.rejecting /\ s'.closeSent = s.closeSent
      /\ s'.answered = s.answered /\ s'.readPaused = s.readPaused
  BY <1>1, <1>2 DEF MarkClosed, Flags
<1>5. /\ app' \in [pc : {"run", "recv", "write", "put", "done"},
                   over : BOOLEAN, sends : 0 .. MaxSends]
      /\ app'.pc = "done"
  BY <1>1, <1>2 DEF Typed
<1>6. /\ reader' \in [pc : {"none", "run", "write", "put", "done"},
                      events : Seq(Frames), holds : Deliveries]
      /\ reader'.pc = "done"
  BY <1>1, <1>2 DEF Typed
<1>7. /\ closer' \in [Closers -> {"none", "write", "put", "done"}]
      /\ \A k \in Closers : closer'[k] = "done"
  BY <1>2
<1>8. inbox' \in Seq(Frames)
  BY <1>2, EmptySeq
<1>9. Typed' /\ PausedForAReason'
  BY <1>1, <1>2, <1>3, <1>4, <1>5, <1>6, <1>7, <1>8 DEF Typed, PausedForAReason, Full
<1>10. Lined' /\ \A u, y : ~ Waits(u, y)'
  BY <1>2, LineEmptied
<1>11. Writers'
  BY <1>5, <1>10 DEF Writers
<1>12. FlagsTell'
  BY <1>4, <1>5, <1>10 DEF IInv, FlagsTell, Refusals
<1>13. Order'
  BY <1>2, <1>3, <1>5, <1>6, <1>10 DEF Order, Went
<1>14. OneAnswer'
  BY <1>10 DEF OneAnswer
<1>15. OneClose'
  BY <1>3, <1>4, <1>10 DEF IInv, OneClose, Went
<1>16. AllOver'
  BY <1>2, <1>3, <1>5, <1>6, <1>7 DEF AllOver
<1>17. \A y : At({y})' # {} <=> Written(y)'
  BY DEF At, Written
<1>18. OneFarewell'
  BY <1>3, <1>4, <1>17 DEF OneFarewell
<1> QED BY <1>9, <1>10, <1>11, <1>12, <1>13, <1>14, <1>15, <1>16, <1>18 DEF IInv

\* A connection that is lost, and a server that ends a session it has closed.
LEMMA LostStep ==
    ASSUME IInv, Ended("lost"), net.state # "closed", UNCHANGED <<wire, peer>>
    PROVE  IInv'
<1>1. /\ wire' \in Seq(Items) /\ \A items : At(items)' = At(items)
      /\ \A x : Written(x)' <=> Written(x)
  BY DEF IInv, Typed, At, Written
<1>2. (\A i, j \in At({"close"}) : i = j)'
  BY <1>1 DEF IInv, OneFarewell
<1>3. net'.early = net.early /\ (s.rejected => s'.rejected)
  BY DEF IInv, Typed, Ended, Flags, MarkClosed
<1>4. AnswerFirst'
  BY <1>1, <1>3 DEF IInv, AnswerFirst
<1> QED BY <1>1, <1>2, <1>4, EndedStep

\* A server that shuts down asks the session to say goodbye.
LEMMA ServerShutsDownStep ==
    ASSUME IInv, NEW k \in Closers, ServerShutsDown(k)
    PROVE  IInv'
<1>1. /\ Typed /\ PausedForAReason /\ s \in Flags /\ net.early \in BOOLEAN
      /\ net.state # "closed" /\ closer[k] = "none" /\ UNCHANGED <<wire, peer>>
  BY DEF IInv, Typed, ServerShutsDown
<1>2. CASE s.closed
  <2>1. Ended("lost")
    BY <1>2 DEF ServerShutsDown
  <2> QED BY <1>1, <2>1, LostStep
<1>3. CASE ~ s.closed
  <2> DEFINE early == net.early \/ ~ Contains(wire, "101")
  <2>1. /\ net' = [net EXCEPT !.early = early] /\ early \in BOOLEAN
        /\ UNCHANGED <<runner, app, reader, inbox>>
    BY <1>1, <1>3 DEF ServerShutsDown
  <2>2. (net.early => early) /\ (Went("101") \/ early)
    <3>1. DOMAIN wire = 1 .. Len(wire)
      BY <1>1, LenProperties DEF Typed
    <3> QED BY <3>1 DEF Contains, Went, Written
  <2> HIDE DEF early
  <2>3. /\ net'.state = net.state /\ net'.cut = net.cut /\ net'.lost = net.lost
        /\ net'.early = early
        /\ net' \in [state : {"open", "aborted", "closed"}, cut : BOOLEAN, early : BOOLEAN,
                     lost : BOOLEAN]
    BY <1>1, <2>1 DEF Typed
  <2>4. CASE s.closeSent
    <3>1. /\ s' = Paused(MarkClosed(s)) /\ queue' = Delivered("disconnect")
          /\ closer' = [closer EXCEPT ![k] = AfterDelivery("done")] /\ line' = line
      BY <1>3, <2>4 DEF ServerShutsDown, SayGoodbye
    <3>2. /\ s' \in Flags /\ Kept /\ s'.answered = s.answered
          /\ s'.readPaused <=> s.readPaused \/ Full(queue)
      BY <1>1, <3>1, PausedFlags
    <3>3. queue' \in Seq(Deliveries) /\ Len(queue') <= QueueMax /\ PausedForAReason'
      BY <1>1, <3>1, <3>2, Delivers DEF Deliveries
    <3>4. /\ closer' \in [Closers -> {"none", "write", "put", "done"}]
          /\ \A c \in Closers : /\ closer[c] = "write" => closer'[c] = "write"
                                /\ closer[c] = "done" => closer'[c] = "done"
      BY <1>1, <3>1 DEF AfterDelivery, Typed
    <3>5. Typed'
      BY <1>1, <2>1, <2>3, <3>2, <3>3, <3>4 DEF Typed
    <3> QED BY <1>1, <2>1, <2>2, <2>3, <3>1, <3>2, <3>3, <3>4, <3>5, QuietStep
  <2>5. CASE ~ s.closeSent
    <3>1. /\ s' = [s EXCEPT !.closeSent = TRUE] /\ line' = InLine(k, "close")
          /\ queue' = queue /\ closer' = [closer EXCEPT ![k] = "write"]
      BY <1>3, <2>5 DEF ServerShutsDown, SendClose
    <3>2. /\ s' \in Flags /\ Noted("close") /\ s'.readPaused = s.readPaused
      BY <1>1, <3>1 DEF Flags, Noted, Refusals
    <3>3. /\ closer' \in [Closers -> {"none", "write", "put", "done"}]
          /\ closer'[k] = "write" /\ \A c \in Closers : c # k => closer'[c] = closer[c]
      BY <1>1, <3>1 DEF Typed
    <3>4. Typed' /\ PausedForAReason'
      BY <1>1, <2>1, <2>3, <3>1, <3>2, <3>3 DEF Typed, PausedForAReason, Full
    <3>5. /\ k \in Everyone \ {"runner"} /\ k # "app" /\ k # "reader" /\ "close" \in Items
      BY SessionAssumption DEF Everyone, Items
    <3>6. Waiting(k, "close")
      BY <1>1, <2>1, <3>3, <3>5 DEF Waiting
    <3>7. MayWrite(k, "close")
      BY <2>2, <2>3, <2>5 DEF MayWrite, Refusals
    <3>8. runner # "over"
      BY <1>1 DEF IInv, AllOver
    <3> QED BY <1>1, <2>1, <2>2, <2>3, <3>1, <3>2, <3>4, <3>5, <3>6, <3>7, <3>8, WriteStep
  <2> QED BY <2>4, <2>5
<1> QED BY <1>2, <1>3

\* The cleanup cancels the reader, with the close frame it may be waiting to write.
LEMMA EntersCleanupStep ==
    ASSUME IInv, NEW state, EntersCleanup(s, state), UNCHANGED <<wire, inbox, peer>>,
           runner \in {"handshake", "serving", "grace"},
           \/ state = net.state
           \/ state = "aborted" /\ runner = "handshake" /\ ~ s.answered,
           runner = "handshake" => s.answered \/ state = "aborted"
    PROVE  IInv'
<1>1. /\ Typed /\ PausedForAReason /\ s \in Flags /\ net.cut \in BOOLEAN
  BY DEF IInv, Typed
<1>2. /\ s' = MarkClosed(s) /\ runner' = "cleanup" /\ line' = Without("reader")
      /\ reader' = [reader EXCEPT !.pc = IF reader.pc = "none" THEN "none" ELSE "done"]
      /\ net' = [net EXCEPT !.state = state, !.cut = net.cut \/ CutClose({"reader"})]
      /\ UNCHANGED <<app, queue, closer>>
  BY DEF EntersCleanup
<1>3. /\ net'.state = state /\ net'.early = net.early /\ net'.lost = net.lost
      /\ net'.cut <=> net.cut \/ Waits("reader", "close")
      /\ net' \in [state : {"open", "aborted", "closed"}, cut : BOOLEAN, early : BOOLEAN,
                   lost : BOOLEAN]
  <2> DEFINE cut == net.cut \/ CutClose({"reader"})
  <2>1. cut \in BOOLEAN /\ (cut <=> net.cut \/ Waits("reader", "close"))
    BY <1>1, CutCloseIs
  <2>2. net' = [net EXCEPT !.state = state, !.cut = cut]
    BY <1>2
  <2> HIDE DEF cut
  <2>3. state \in {"open", "aborted", "closed"}
    BY <1>1 DEF Typed
  <2> QED BY <1>1, <2>1, <2>2, <2>3 DEF Typed
<1>4. /\ s' \in Flags /\ s'.handshake = s.handshake /\ s'.rejected = s.rejected
      /\ s'.rejecting = s.rejecting /\ s'.closeSent = s.closeSent
      /\ s'.answered = s.answered /\ s'.readPaused = s.readPaused
  BY <1>1, <1>2 DEF MarkClosed, Flags
<1>5. /\ reader' \in [pc : {"none", "run", "write", "put", "done"},
                      events : Seq(Frames), holds : Deliveries]
      /\ reader'.pc \in {"none", "done"}
  BY <1>1, <1>2 DEF Typed
<1>6. Typed' /\ PausedForAReason'
  BY <1>1, <1>2, <1>3, <1>4, <1>5 DEF Typed, PausedForAReason, Full
<1>7. Lined' /\ \A u, y : Waits(u, y)' <=> u # "reader" /\ Waits(u, y)
  <2>1. "reader" \in Everyone
    BY DEF Everyone, Tasks
  <2>2. /\ IsLine(line') /\ \A u, y : OnLine(line', u, y) <=> u # "reader" /\ Waits(u, y)
    BY <1>2, <2>1, LineWithout DEF IInv
  <2> QED BY <2>2 DEF Lined, Waits, IsLine, OnLine
<1>8. /\ AnswerFirst' /\ OneFarewell' /\ \A x : Written(x)' <=> Written(x)
  BY <1>2, <1>3, <1>4, WireStays DEF IInv
<1>9. /\ net.state # "open" => net'.state # "open"
      /\ \A x : Went(x) => Went(x)'
  BY <1>3, <1>8 DEF Went, IInv, AllOver
<1>10. Writers'
  BY <1>2, <1>7 DEF IInv, Writers
<1>11. FlagsTell'
  BY <1>2, <1>4, <1>7, <1>8 DEF IInv, FlagsTell
<1>12. Order'
  <2>1. s'.answered \/ net'.state # "open"
    BY <1>3, <1>4, <1>9 DEF IInv, Order
  <2> QED BY <1>2, <1>3, <1>4, <1>5, <1>7, <1>9, <2>1 DEF IInv, Order
<1>13. OneAnswer'
  BY <1>4, <1>7, <1>8 DEF IInv, OneAnswer
<1>14. OneClose'
  BY <1>3, <1>4, <1>7, <1>8, <1>9 DEF IInv, OneClose
<1>15. AllOver'
  BY <1>2, <1>3, <1>8 DEF IInv, AllOver, FlagsTell
<1> QED BY <1>6, <1>7, <1>8, <1>10, <1>11, <1>12, <1>13, <1>14, <1>15 DEF IInv

\* The task of the connection goes on, or begins to clean up.
LEMMA RunnerStep ==
    ASSUME IInv, HandshakeAnswered \/ HandshakeTimesOut \/ StopsServing \/ GraceEnds
    PROVE  IInv'
<1>1. CASE HandshakeAnswered
  <2>1. CASE s.handshake
    BY <1>1, <2>1, RunnerGoesOn DEF HandshakeAnswered
  <2>2. CASE ~ s.handshake
    <3>1. /\ EntersCleanup(s, net.state) /\ runner = "handshake" /\ s.answered
          /\ UNCHANGED <<wire, inbox, peer>>
      BY <1>1, <2>2 DEF HandshakeAnswered
    <3> QED BY <3>1, EntersCleanupStep
  <2> QED BY <2>1, <2>2
<1>2. CASE HandshakeTimesOut
  BY <1>2, EntersCleanupStep DEF HandshakeTimesOut
<1>3. CASE StopsServing
  <2>1. CASE AppHasEnded
    <3>1. /\ EntersCleanup(s, net.state) /\ runner = "serving"
          /\ UNCHANGED <<wire, inbox, peer>>
      BY <1>3, <2>1 DEF StopsServing
    <3> QED BY <3>1, EntersCleanupStep
  <2>2. CASE ~ AppHasEnded
    <3>1. /\ runner = "serving" /\ runner' = "grace"
          /\ UNCHANGED <<s, app, reader, closer, line, queue, net, wire, inbox, peer>>
      BY <1>3, <2>2 DEF StopsServing
    <3> QED BY <3>1, RunnerGoesOn
  <2> QED BY <2>1, <2>2
<1>4. CASE GraceEnds
  BY <1>4, EntersCleanupStep DEF GraceEnds
<1> QED BY <1>1, <1>2, <1>3, <1>4

\* A session that sent no close frame ends with one, on behalf of the connection.
LEMMA CleanupEndsStep ==
    ASSUME IInv, CleanupEnds
    PROVE  IInv'
<1>1. /\ Typed /\ PausedForAReason /\ s \in Flags /\ runner = "cleanup"
      /\ UNCHANGED <<wire, peer>>
  BY DEF IInv, Typed, CleanupEnds
<1>2. net.state # "closed"
  BY <1>1 DEF IInv, AllOver
<1>3. CASE s.closeSent \/ ~ s.handshake
  <2>1. Ended("served")
    BY <1>3 DEF CleanupEnds
  <2>2. /\ wire' \in Seq(Items) /\ \A items : At(items)' = At(items)
        /\ \A x : Written(x)' <=> Written(x)
    BY <1>1 DEF Typed, At, Written
  <2>3. (\A i, j \in At({"close"}) : i = j)'
    BY <2>2 DEF IInv, OneFarewell
  <2>4. net'.early = net.early /\ (s.rejected => s'.rejected)
    BY <1>1, <2>1 DEF Typed, Ended, Flags, MarkClosed
  <2>5. AnswerFirst'
    BY <1>1, <2>2, <2>4 DEF IInv, AnswerFirst
  <2>6. ASSUME Written("101")
        PROVE  \/ Written("close") \/ net.cut \/ s.rejected
               \/ \E t \in Everyone : Waits(t, "close")
    <3>1. s.closeSent \/ s.rejected
      BY <1>3, <2>6 DEF IInv, FlagsTell
    <3>2. net.state = "open"
      BY <1>1, <1>2, <2>6 DEF IInv, Typed, AllOver
    <3> QED BY <3>1, <3>2 DEF IInv, OneClose, Went
  <2> QED BY <1>1, <1>2, <2>1, <2>2, <2>3, <2>5, <2>6, EndedStep
<1>4. CASE ~ (s.closeSent \/ ~ s.handshake)
  <2> DEFINE w == [by |-> "runner", item |-> "close"]
  <2>1. /\ s' = [s EXCEPT !.closeSent = TRUE] /\ runner' = "closing"
        /\ app' = [app EXCEPT !.pc = "done"] /\ line' = Without("app") \cup {w}
        /\ UNCHANGED <<reader, closer, queue, inbox, net>>
    BY <1>4 DEF CleanupEnds
  <2>2. s' \in Flags /\ Noted("close") /\ s'.readPaused = s.readPaused
    BY <1>1, <2>1 DEF Flags, Noted, Refusals
  <2>3. /\ app' \in [pc : {"run", "recv", "write", "put", "done"},
                     over : BOOLEAN, sends : 0 .. MaxSends]
        /\ app'.pc = "done"
    BY <1>1, <2>1 DEF Typed
  <2>4. Typed' /\ PausedForAReason'
    BY <1>1, <2>1, <2>2, <2>3 DEF Typed, PausedForAReason, Full
  <2>5. /\ w \in [by : Everyone, item : Items] /\ w.by = "runner" /\ w.item = "close"
        /\ "app" \in Everyone /\ "runner" \in Everyone
    BY DEF Everyone, Tasks, Items
  <2> HIDE DEF w
  <2>6. \A y : ~ Waits("runner", y)
    BY <1>1, WaitsItems DEF IInv, Writers
  <2>7. Lined' /\ \A u, y : Waits(u, y)' <=>
                      (u # "app" /\ Waits(u, y)) \/ (u = "runner" /\ y = "close")
    <3>1. /\ IsLine(Without("app"))
          /\ \A u, y : OnLine(Without("app"), u, y) <=> u # "app" /\ Waits(u, y)
      BY <2>5, LineWithout DEF IInv
    <3>2. \A y : ~ OnLine(Without("app"), w.by, y)
      BY <2>5, <2>6, <3>1
    <3>3. /\ IsLine(line')
          /\ \A u, y : OnLine(line', u, y) <=>
                           OnLine(Without("app"), u, y) \/ (u = w.by /\ y = w.item)
      BY <2>1, <2>5, <3>1, <3>2, LineGrows
    <3>4. /\ IsLine(line')
          /\ \A u, y : OnLine(line', u, y) <=>
                           (u # "app" /\ Waits(u, y)) \/ (u = "runner" /\ y = "close")
      BY <2>5, <3>1, <3>3
    <3> QED BY <3>4 DEF Lined, Waits, IsLine, OnLine
  <2>8. /\ AnswerFirst' /\ OneFarewell' /\ \A x : Written(x)' <=> Written(x)
    BY <1>1, <2>1, <2>2, WireStays DEF IInv, Noted
  <2>9. \A x : Went(x)' <=> Went(x)
    BY <2>1, <2>8 DEF Went
  <2>10. "app" \notin Closers /\ "runner" \notin Closers
    BY SessionAssumption
  <2>11. Writers'
    BY <2>1, <2>3, <2>7, <2>10 DEF IInv, Writers
  <2>12. FlagsTell'
    BY <2>2, <2>3, <2>7, <2>8 DEF IInv, FlagsTell, Noted, Refusals
  <2>13. Order'
    <3>1. Went("101") \/ s.rejected
      BY <1>1, <1>4 DEF IInv, Order, Went
    <3> QED BY <1>1, <2>1, <2>2, <2>3, <2>7, <2>9, <3>1 DEF IInv, Order, Noted, Refusals
  <2>14. OneAnswer'
    BY <2>7, <2>8 DEF IInv, OneAnswer
  <2>15. OneClose'
    <3>1. ~ Written("close") /\ \A t \in Everyone : ~ Waits(t, "close")
      BY <1>4 DEF IInv, OneClose
    <3> QED BY <2>2, <2>5, <2>7, <2>8, <3>1 DEF OneClose, Noted
  <2>16. AllOver'
    BY <1>1, <2>1, <2>8 DEF IInv, AllOver
  <2> QED BY <2>4, <2>7, <2>8, <2>11, <2>12, <2>13, <2>14, <2>15, <2>16 DEF IInv
<1> QED BY <1>3, <1>4

\* A write that the socket took moves its task on, and an answer is noted.
LEMMA ServedStep ==
    ASSUME IInv, Typed', PausedForAReason', NEW w \in line, line' = line \ {w},
           UNCHANGED <<runner, net>>, NEW t, t = w.by, NEW x, x = w.item,
           wire' = IF net.state = "open" THEN Append(wire, x) ELSE wire,
           s'.handshake <=> s.handshake /\ ~ (x = "last" /\ t = "app"),
           s'.rejected = s.rejected, s'.rejecting = s.rejecting,
           s'.closeSent = s.closeSent, s.answered => s'.answered,
           s'.answered => s.answered \/ s.rejected \/ x = "101",
           x = "101" => s'.answered,
           app'.over = app.over,
           t = "app" => app'.pc \notin {"write", "done"} \/ app'.pc = "done",
           t = "app" => (app.over <=> app'.pc = "done"),
           t # "app" => app' = app,
           t = "reader" => reader'.pc \in {"run", "put"},
           t # "reader" => reader' = reader, t # "runner",
           \A k \in Closers : k # t => closer'[k] = closer[k]
    PROVE  IInv'
<1>1. /\ Lined' /\ t \in Everyone /\ x \in Items /\ Waits(t, x)
      /\ \A y : Waits(t, y) => y = x
      /\ \A u, y : Waits(u, y)' <=> Waits(u, y) /\ u # t
  BY LineServed DEF IInv
<1> s.rejected => s'.rejected
  OBVIOUS
<1>2. /\ AnswerFirst' /\ (\A i, j \in At({"close"}) : i = j)'
      /\ \A y : Written(y)' <=> Written(y) \/ (y = x /\ net.state = "open")
  BY WireTakes
<1>3. \A y : Went(y)' <=> Went(y) \/ y = x
  BY <1>2 DEF Went
<1>4. /\ runner # "over" /\ runner' # "over"
  BY DEF IInv, AllOver
<1>5. OneFarewell'
  BY <1>2, <1>4 DEF OneFarewell
<1>6. x \in {"101", "data", "last"} \cup Refusals => t = "app"
  BY <1>1 DEF IInv, Writers, Refusals, Everyone, Tasks
<1>7. s.rejecting => s.rejected
  BY DEF IInv, FlagsTell
<1>8. Writers'
  BY <1>1 DEF IInv, Writers
<1>9. FlagsTell'
  <2>1. x = "last" => s.rejected
    <3>1. x = "last" => Waits("app", "last")
      BY <1>1, <1>6
    <3> QED BY <3>1 DEF IInv, FlagsTell
  <2>2. x = "101" => s.handshake \/ s.rejected
    BY <1>1, <1>6 DEF IInv, FlagsTell
  <2>3. s'.answered => s'.handshake \/ s'.rejected \/ app'.pc = "done"
    <3>1. app.pc = "done" => app'.pc = "done"
      BY <1>1 DEF IInv, Writers
    <3>2. x = "101" => s'.handshake \/ s'.rejected
      BY <2>2
    <3> QED BY <2>1, <3>1, <3>2 DEF IInv, FlagsTell
  <2>4. ASSUME Waits("app", "101")' \/ Written("101")'
        PROVE  s'.handshake \/ s'.rejected
    <3>1. s.handshake \/ s.rejected
      BY <1>1, <1>2, <2>2, <2>4 DEF IInv, FlagsTell
    <3> QED BY <2>1, <3>1
  <2>5. Written("101")' => s'.answered
    BY <1>2 DEF IInv, FlagsTell
  <2>6. \A y \in Refusals \cup {"body", "last"} : Waits("app", y)' => s'.rejected
    BY <1>1 DEF IInv, FlagsTell
  <2>7. s'.rejecting => s'.rejected
    BY <1>7
  <2> QED BY <2>3, <2>4, <2>5, <2>6, <2>7 DEF FlagsTell
<1>10. Order'
  <2>1. t = "app" => app.pc = "write"
    BY <1>1 DEF IInv, Writers
  <2>2. t = "reader" => Went("101") \/ s.rejected
    BY <1>1 DEF IInv, Writers, Order
  <2>3. /\ s'.handshake => s.handshake
        /\ s'.handshake /\ s'.answered => s.answered \/ s.rejected \/ x = "101"
    OBVIOUS
  <2>4. s'.handshake /\ app'.pc # "done" => Waits("app", "101")' \/ Went("101")'
    BY <1>1, <1>3, <2>1, <2>3 DEF IInv, Order
  <2>5. s'.handshake /\ s'.answered => Went("101")' \/ s'.rejected
    BY <1>3, <2>3 DEF IInv, Order
  <2>6. reader'.pc \notin {"none", "done"} => Went("101")' \/ s'.rejected
    BY <1>3, <2>2 DEF IInv, Order
  <2>7. /\ runner' # "handshake" => s'.answered \/ net'.state # "open"
        /\ runner' = "handshake" => reader'.pc = "none"
    BY <1>1 DEF IInv, Order, Writers
  <2>8. \A u \in Everyone :
          /\ Waits(u, "data")' => Went("101")'
          /\ Waits(u, "pong")' => Went("101")' \/ s'.rejected
          /\ Waits(u, "close")' => Went("101")' \/ s'.rejected \/ net'.early
    BY <1>1, <1>3 DEF IInv, Order
  <2> QED BY <2>4, <2>5, <2>6, <2>7, <2>8 DEF Order
<1>11. OneAnswer'
  BY <1>1, <1>2, <1>6 DEF IInv, OneAnswer
<1>12. OneClose'
  <2>1. x = "close" => s.closeSent
    BY <1>1 DEF IInv, OneClose
  <2> QED BY <1>1, <1>2, <1>3, <2>1 DEF IInv, OneClose
<1>13. AllOver'
  BY <1>2, <1>4 DEF IInv, AllOver
<1> QED BY <1>1, <1>2, <1>5, <1>8, <1>9, <1>10, <1>11, <1>12, <1>13 DEF IInv

\* Whatever is written can be.
LEMMA WireKeepsType ==
    ASSUME IInv, NEW w \in line,
           wire' = IF net.state = "open" THEN Append(wire, w.item) ELSE wire
    PROVE  wire' \in Seq(Items)
<1>1. w.item \in Items /\ Typed
  BY DEF IInv, Lined, IsLine
<1>2. CASE net.state = "open"
  BY <1>1, <1>2, WireGrows
<1> QED BY <1>1, <1>2 DEF Typed

\* The application goes on after its write, or has ended with it.
LEMMA AppServed ==
    ASSUME IInv, NEW w \in line, SocketTakes(w), w.by = "app"
    PROVE  IInv'
<1> DEFINE x == w.item
<1>1. /\ Typed /\ PausedForAReason /\ s \in Flags /\ app.over \in BOOLEAN
      /\ line' = line \ {w}
      /\ wire' = IF net.state = "open" THEN Append(wire, x) ELSE wire
      /\ AppWrote(x) /\ UNCHANGED <<reader, closer, runner, inbox, net, peer>>
  BY DEF IInv, Typed, SocketTakes
<1>2. wire' \in Seq(Items)
  BY <1>1, WireKeepsType
<1>3. x \in Items /\ Waits("app", x) /\ (app.over => x = "close")
  <2>1. x \in Items /\ Waits("app", x)
    BY <1>1, LineServed DEF IInv
  <2> QED BY <2>1 DEF IInv, Writers
<1> HIDE DEF x
<1>4. \A pc \in {"run", "put", "done"} : [app EXCEPT !.pc = pc] \in
          [pc : {"run", "recv", "write", "put", "done"},
           over : BOOLEAN, sends : 0 .. MaxSends]
  BY <1>1 DEF Typed
<1>5. \A pc \in {"run", "put", "done"} : /\ [app EXCEPT !.pc = pc].pc = pc
                                          /\ [app EXCEPT !.pc = pc].over = app.over
  BY <1>1 DEF Typed
<1>6. /\ x \in {"403", "refusal"} => s.rejected
      /\ x = "last" => s.rejected
      /\ s.rejecting => s.rejected
  BY <1>3 DEF IInv, FlagsTell, Refusals
<1>7. CASE app.over
  <2>1. s' = Finally(s) /\ app' = [app EXCEPT !.pc = "done"] /\ queue' = queue
    BY <1>1, <1>7 DEF AppWrote
  <2>2. /\ s' \in Flags /\ s'.handshake = s.handshake /\ s'.rejected = s.rejected
        /\ s'.rejecting = s.rejecting /\ s'.closeSent = s.closeSent
        /\ s'.readPaused = s.readPaused /\ (s.answered => s'.answered)
        /\ s'.answered => s.answered \/ s.rejecting
    BY <1>1, <2>1, FinallyTells
  <2>3. Typed' /\ PausedForAReason'
    BY <1>1, <1>2, <1>4, <2>1, <2>2 DEF Typed, PausedForAReason, Full
  <2>4. x = "close" /\ app'.pc = "done" /\ app'.over = app.over
    BY <1>3, <1>5, <1>7, <2>1
  <2> QED BY <1>1, <1>6, <1>7, <2>2, <2>3, <2>4, ServedStep DEF x
<1>8. CASE ~ app.over /\ x # "last"
  <2>1. /\ s' = IF x \in {"101", "403"} THEN Answered(s)
                ELSE IF x = "close" THEN MarkClosed(s) ELSE s
        /\ app' = [app EXCEPT !.pc = "run"] /\ queue' = queue
    BY <1>1, <1>8 DEF AppWrote
  <2>2. /\ s' \in Flags /\ s'.handshake = s.handshake /\ s'.rejected = s.rejected
        /\ s'.rejecting = s.rejecting /\ s'.closeSent = s.closeSent
        /\ s'.readPaused = s.readPaused /\ (s.answered => s'.answered)
        /\ s'.answered => s.answered \/ x \in {"101", "403"}
        /\ x = "101" => s'.answered
    BY <1>1, <2>1 DEF Flags, Answered, MarkClosed
  <2>3. Typed' /\ PausedForAReason'
    BY <1>1, <1>2, <1>4, <2>1, <2>2 DEF Typed, PausedForAReason, Full
  <2>4. app'.pc = "run" /\ app'.over = app.over
    BY <1>5, <2>1
  <2> QED BY <1>1, <1>6, <1>8, <2>2, <2>3, <2>4, ServedStep DEF x
<1>9. CASE ~ app.over /\ x = "last"
  <2> DEFINE f == Answered(MarkClosed([s EXCEPT !.handshake = FALSE]))
  <2>1. /\ s' = Paused(f) /\ queue' = Delivered("disconnect")
        /\ app' = [app EXCEPT !.pc = AfterDelivery("run")]
    BY <1>1, <1>9 DEF AppWrote
  <2>2. /\ f \in Flags /\ f.handshake = FALSE /\ f.rejected = s.rejected
        /\ f.rejecting = s.rejecting /\ f.closeSent = s.closeSent
        /\ f.readPaused = s.readPaused /\ f.answered = TRUE
    BY <1>1 DEF Flags, Answered, MarkClosed
  <2> HIDE DEF f
  <2>3. /\ s' \in Flags /\ s'.handshake = FALSE /\ s'.rejected = s.rejected
        /\ s'.rejecting = s.rejecting /\ s'.closeSent = s.closeSent
        /\ s'.answered = TRUE
        /\ s'.readPaused <=> s.readPaused \/ Full(queue)
    BY <2>1, <2>2 DEF Paused, Flags
  <2>4. queue' \in Seq(Deliveries) /\ Len(queue') <= QueueMax /\ PausedForAReason'
    BY <1>1, <2>1, <2>3, Delivers DEF Deliveries
  <2>5. AfterDelivery("run") \in {"run", "put"}
    BY DEF AfterDelivery
  <2>6. app' \in [pc : {"run", "recv", "write", "put", "done"},
                    over : BOOLEAN, sends : 0 .. MaxSends]
    BY <1>1, <2>1, <2>5 DEF Typed
  <2>7. Typed'
    BY <1>1, <1>2, <1>4, <2>1, <2>3, <2>4, <2>6 DEF Typed
  <2>8. app'.pc \in {"run", "put"} /\ app'.over = app.over
    BY <1>5, <2>1, <2>5
  <2> QED BY <1>1, <1>6, <1>9, <2>3, <2>4, <2>7, <2>8, ServedStep DEF x
<1> QED BY <1>7, <1>8, <1>9

\* The reader goes on after its write, or says goodbye with it.
LEMMA ReaderServed ==
    ASSUME IInv, NEW w \in line, SocketTakes(w), w.by = "reader"
    PROVE  IInv'
<1> DEFINE x == w.item
<1>1. /\ Typed /\ PausedForAReason /\ s \in Flags /\ app.over \in BOOLEAN
      /\ reader.events \in Seq(Frames) /\ reader.holds \in Deliveries
      /\ line' = line \ {w}
      /\ wire' = IF net.state = "open" THEN Append(wire, x) ELSE wire
      /\ ReaderWrote(x) /\ UNCHANGED <<app, closer, runner, inbox, net, peer>>
  BY DEF IInv, Typed, SocketTakes
<1>2. wire' \in Seq(Items)
  BY <1>1, WireKeepsType
<1>3. x \in {"pong", "close"}
  <2>1. x \in Items /\ Waits("reader", x)
    BY <1>1, LineServed DEF IInv
  <2> QED BY <2>1 DEF IInv, Writers
<1> HIDE DEF x
<1>4. CASE x = "close"
  <2>1. /\ s' = Paused(MarkClosed(s)) /\ queue' = Delivered("disconnect")
        /\ ReaderParts(AfterDelivery("run"), reader.events, "disconnect")
    BY <1>1, <1>4 DEF ReaderWrote, SayGoodbye
  <2>2. /\ s' \in Flags /\ Kept /\ s'.answered = s.answered
        /\ s'.readPaused <=> s.readPaused \/ Full(queue)
    BY <1>1, <2>1, PausedFlags
  <2>3. queue' \in Seq(Deliveries) /\ Len(queue') <= QueueMax /\ PausedForAReason'
    BY <1>1, <2>1, <2>2, Delivers DEF Deliveries
  <2>4. /\ reader' \in [pc : {"none", "run", "write", "put", "done"},
                        events : Seq(Frames), holds : Deliveries]
        /\ reader'.pc \in {"run", "put"}
    BY <1>1, <2>1 DEF ReaderParts, AfterDelivery, Deliveries
  <2>5. Typed'
    BY <1>1, <1>2, <2>2, <2>3, <2>4 DEF Typed
  <2> QED BY <1>1, <1>4, <2>2, <2>3, <2>4, <2>5, ServedStep DEF x, Kept
<1>5. CASE x = "pong"
  <2>1. s' = s /\ queue' = queue /\ ReaderParts("run", reader.events, reader.holds)
    BY <1>1, <1>5 DEF ReaderWrote
  <2>2. /\ reader' \in [pc : {"none", "run", "write", "put", "done"},
                        events : Seq(Frames), holds : Deliveries]
        /\ reader'.pc = "run"
    BY <1>1, <2>1 DEF ReaderParts
  <2>3. Typed' /\ PausedForAReason'
    BY <1>1, <1>2, <2>1, <2>2 DEF Typed, PausedForAReason, Full
  <2> QED BY <1>1, <1>5, <2>1, <2>2, <2>3, ServedStep DEF x
<1> QED BY <1>3, <1>4, <1>5

\* The task of a server that shuts down is done after its write.
LEMMA CloserServed ==
    ASSUME IInv, NEW w \in line, SocketTakes(w), NEW k \in Closers, w.by = k
    PROVE  IInv'
<1> DEFINE x == w.item
<1>1. k # "app" /\ k # "reader" /\ k # "runner"
  BY SessionAssumption
<1>2. /\ Typed /\ PausedForAReason /\ s \in Flags /\ app.over \in BOOLEAN
      /\ line' = line \ {w}
      /\ wire' = IF net.state = "open" THEN Append(wire, x) ELSE wire
      /\ SayGoodbye /\ closer' = [closer EXCEPT ![k] = AfterDelivery("done")]
      /\ UNCHANGED <<app, reader, runner, inbox, net, peer>>
  BY <1>1 DEF IInv, Typed, SocketTakes
<1>3. wire' \in Seq(Items)
  BY <1>2, WireKeepsType
<1>4. x = "close"
  <2>1. x \in Items /\ Waits(k, x)
    BY <1>2, LineServed DEF IInv
  <2> QED BY <2>1 DEF IInv, Writers
<1> HIDE DEF x
<1>5. /\ s' \in Flags /\ Kept /\ s'.answered = s.answered
      /\ s'.readPaused <=> s.readPaused \/ Full(queue)
  BY <1>2, PausedFlags DEF SayGoodbye
<1>6. queue' \in Seq(Deliveries) /\ Len(queue') <= QueueMax /\ PausedForAReason'
  BY <1>2, <1>5, Delivers DEF Deliveries, SayGoodbye
<1>7. /\ closer' \in [Closers -> {"none", "write", "put", "done"}]
      /\ \A c \in Closers : c # k => closer'[c] = closer[c]
  BY <1>2 DEF AfterDelivery, Typed
<1>8. Typed'
  BY <1>2, <1>3, <1>5, <1>6, <1>7 DEF Typed
<1> QED BY <1>1, <1>2, <1>4, <1>5, <1>6, <1>7, <1>8, ServedStep DEF x, Kept

\* The connection ends after the close frame it wrote itself.
LEMMA RunnerServed ==
    ASSUME IInv, NEW w \in line, SocketTakes(w), w.by = "runner"
    PROVE  IInv'
<1> DEFINE x == w.item
<1>1. /\ Ended("served") /\ peer' = peer
      /\ wire' = IF net.state = "open" THEN Append(wire, x) ELSE wire
  BY DEF SocketTakes
<1>2. x \in Items /\ Waits("runner", x)
  <2>2. Waits("runner", x)
    BY DEF Waits, OnLine
  <2> QED BY <2>2, WaitsItems DEF IInv
<1>3. x = "close" /\ runner = "closing" /\ s.closeSent
  <2>1. x = "close" /\ runner = "closing"
    BY <1>2 DEF IInv, Writers
  <2>2. "runner" \in Everyone
    BY DEF Everyone, Tasks
  <2> QED BY <1>2, <2>1, <2>2 DEF IInv, OneClose
<1>4. net.state \in {"open", "aborted"} /\ (net.state = "aborted" => ~ Written("101"))
  BY <1>3 DEF IInv, AllOver, Typed
<1>5. net'.early = net.early /\ (s.rejected => s'.rejected)
  BY <1>1 DEF Ended, IInv, Typed, Flags, MarkClosed
<1>6. /\ AnswerFirst' /\ wire' \in Seq(Items)
      /\ (\A i, j \in At({"close"}) : i = j)'
      /\ \A y : Written(y)' <=> Written(y) \/ (y = x /\ net.state = "open")
  BY <1>1, <1>5, WireTakes
<1> QED BY <1>1, <1>3, <1>4, <1>6, EndedStep

\* The socket takes a write in line.
LEMMA SocketWritesStep ==
    ASSUME IInv, SocketWrites
    PROVE  IInv'
<1>1. PICK w \in line : SocketTakes(w)
  BY DEF SocketWrites
<1>2. w.by \in Everyone
  BY DEF IInv, Lined, IsLine
<1>3. CASE w.by = "app"
  BY <1>1, <1>3, AppServed
<1>4. CASE w.by = "reader"
  BY <1>1, <1>4, ReaderServed
<1>5. CASE w.by = "runner"
  BY <1>1, <1>5, RunnerServed
<1>6. CASE w.by \in Closers
  BY <1>1, <1>6, CloserServed
<1> QED BY <1>2, <1>3, <1>4, <1>5, <1>6 DEF Everyone, Tasks

-----------------------------------------------------------------------------
\* At the start nothing was written, and nobody waits,
LEMMA InitIInv ==
    ASSUME Init
    PROVE  IInv
<1>1. /\ <<>> \in Seq(Items) /\ <<>> \in Seq(Frames) /\ DOMAIN wire = {} /\ line = {}
  <2>1. wire = <<>> /\ line = {}
    BY DEF Init
  <2> QED BY <2>1, EmptySeq
<1>2. \A u, y : ~ Waits(u, y) /\ ~ Written(y)
  BY <1>1 DEF Waits, OnLine, Written
<1>3. \A items : At(items) = {}
  BY <1>1 DEF At
<1>4. queue \in Seq(Deliveries) /\ Len(queue) = 1
  <2>1. "connect" \in Deliveries /\ queue = <<"connect">>
    BY DEF Init, Deliveries
  <2>2. queue = Append(<<>>, "connect") /\ <<>> \in Seq(Deliveries) /\ Len(<<>>) = 0
    BY <2>1, EmptySeq
  <2> QED BY <2>1, <2>2, AppendProperties
<1>5. Typed
  <2>1. s \in Flags
    BY DEF Init, Flags
  <2>2. app \in [pc : {"run", "recv", "write", "put", "done"},
                 over : BOOLEAN, sends : 0 .. MaxSends]
    BY SessionAssumption DEF Init
  <2>3. reader \in [pc : {"none", "run", "write", "put", "done"},
                    events : Seq(Frames), holds : Deliveries]
    BY <1>1 DEF Init, Deliveries
  <2>4. peer \in [sent : 0 .. MaxFrames, closed : BOOLEAN]
    BY SessionAssumption DEF Init
  <2>5. net \in [state : {"open", "aborted", "closed"}, cut : BOOLEAN, early : BOOLEAN,
                 lost : BOOLEAN]
    BY DEF Init
  <2>6. /\ runner = "handshake" /\ closer \in [Closers -> {"none", "write", "put", "done"}]
        /\ wire = <<>> /\ inbox = <<>>
    BY DEF Init
  <2> QED BY <1>1, <1>4, <2>1, <2>2, <2>3, <2>4, <2>5, <2>6, SessionAssumption DEF Typed
<1>6. Lined
  BY <1>1 DEF Init, Lined, IsLine
<1>7. Writers /\ FlagsTell /\ OneAnswer
  BY <1>2 DEF Init, Writers, FlagsTell, OneAnswer
<1>8. Order
  BY <1>2 DEF Init, Order
<1>9. OneClose /\ AllOver
  BY <1>2 DEF Init, OneClose, AllOver
<1>10. PausedForAReason
  BY DEF Init, PausedForAReason
<1>11. AnswerFirst /\ OneFarewell
  BY <1>3 DEF AnswerFirst, OneFarewell
<1> QED BY <1>5, <1>6, <1>7, <1>8, <1>9, <1>10, <1>11 DEF IInv

\* every step keeps the invariant,
LEMMA NextIInv ==
    ASSUME IInv, [Next]_vars
    PROVE  IInv'
<1>1. ASSUME NEW m \in Messages, AppSends(m)
      PROVE  IInv'
  BY <1>1, AppSendsStep
<1>2. ASSUME NEW how \in {"return", "error", "fault"}, AppEnds(how)
      PROVE  IInv'
  BY <1>2, AppEndsStep
<1>3. ASSUME NEW t \in Everyone, Puts(t)
      PROVE  IInv'
  BY <1>3, PutsStep
<1>4. ASSUME NEW f \in Frames, PeerSends(f)
      PROVE  IInv'
  BY <1>4, PeerSendsStep
<1>5. ASSUME NEW k \in Closers, ServerShutsDown(k)
      PROVE  IInv'
  BY <1>5, ServerShutsDownStep
<1>6. CASE ConnectionLost
  BY <1>6, LostStep DEF ConnectionLost
<1>7. CASE \/ AppReceives \/ ReaderStep \/ HandshakeAnswered \/ HandshakeTimesOut
           \/ StopsServing \/ GraceEnds \/ CleanupEnds \/ SocketWrites
  BY <1>7, AppReceivesStep, ReaderRoundStep, RunnerStep, CleanupEndsStep, SocketWritesStep
<1>8. CASE UNCHANGED vars
  <2>1. /\ UNCHANGED <<s, runner, app, reader, closer, line, wire, queue, inbox, peer, net>>
    BY <1>8 DEF vars
  <2>2. Typed' /\ PausedForAReason' /\ (app' = app)
    BY <2>1 DEF IInv, Typed, PausedForAReason, Full
  <2> QED BY <2>1, <2>2, QuietStep DEF Kept
<1> QED BY <1>1, <1>2, <1>3, <1>4, <1>5, <1>6, <1>7, <1>8 DEF Next, Everyone

\* and so it always holds.
LEMMA Invariant == Spec => []IInv
<1>1. Init => IInv
  BY InitIInv
<1>2. IInv /\ [Next]_vars => IInv'
  BY NextIInv
<1> QED BY <1>1, <1>2, PTL DEF Spec

\* Every variable of a session keeps its type, the queue its bound, and no task
\* waits for two writes at once.
THEOREM TypeCorrect == Spec => []TypeOK
<1>1. IInv => TypeOK
  BY DEF IInv, Typed, Lined, IsLine, TypeOK, Everyone
<1> QED BY <1>1, Invariant, PTL

\* Frames follow the answer to the handshake, whoever writes them and in whatever
\* order a paused socket lets the waiting writes through, unless the server shut
\* down before the answer or the application refused the handshake too, and an
\* application that never refuses has one 101 written.
THEOREM HandshakeAnsweredFirst == Spec => []AnswerFirst
<1>1. IInv => AnswerFirst
  BY DEF IInv
<1> QED BY <1>1, Invariant, PTL

\* However many tasks end a session, the peer gets one close frame, and it gets
\* one unless a task was cancelled while it waited to write it.
THEOREM OneFarewellEach == Spec => []OneFarewell
<1>1. IInv => OneFarewell
  BY DEF IInv
<1> QED BY <1>1, Invariant, PTL

\* Reading is never paused with room in the queue.
THEOREM NoIdlePause == Spec => []PausedForAReason
<1>1. IInv => PausedForAReason
  BY DEF IInv
<1> QED BY <1>1, Invariant, PTL
=============================================================================
