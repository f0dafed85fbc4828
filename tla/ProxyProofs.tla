----------------------------- MODULE ProxyProofs -----------------------------
(***************************************************************************)
(* What Proxy guarantees for any set of requests, any pool and any number  *)
(* of connections, of an upstream that may send more than it announced at  *)
(* any time: a connection has one owner; unless such a surplus comes after *)
(* it was given away it brings its owner's answer; the body of an answer   *)
(* follows its head whoever reads them, so one told to be complete is.     *)
(***************************************************************************)
EXTENDS Proxy, TLAPS, WellFoundedInduction, SequenceTheorems, FiniteSetTheorems

-----------------------------------------------------------------------------
\* Numbers.

\* A non-empty set of naturals has a least element.
LEMMA LeastNatural ==
    ASSUME NEW S, S \subseteq Nat, S # {}
    PROVE  \E x \in S : \A y \in S : x <= y
<1> DEFINE R == OpToRel(<, Nat)
<1>1. IsWellFoundedOn(R, Nat)
  BY NatLessThanWellFounded
<1>2. \A x, y \in Nat : <<x, y>> \in R <=> x < y
  BY DEF OpToRel
<1> HIDE DEF R
<1>3. PICK x \in S : \A y \in S : ~ (<<y, x>> \in R)
  BY <1>1, WFMin
<1>4. \A y \in S : ~ (y < x)
  BY <1>2, <1>3
<1>5. \A y \in S : x <= y
  BY <1>4, SMT
<1> QED BY <1>5

-----------------------------------------------------------------------------
\* The inductive invariant.  First the types of an exchange and a connection,
\* and who owns what.

Exchange ==
    [pc : {"new", "connecting", "body", "head", "relay", "finish", "done"},
     conn : Connections \cup {NoConnection}, attempt : 0 .. 1,
     reused : BOOLEAN, framing : Framings, keep : BOOLEAN,
     got : Seq(Units), sent : 0 .. 2,
     result : {"none", "whole", "aborted", "502", "cancelled"}]
Connection ==
    [state : {"unmade", "open", "closed"}, up : {"open", "closed"}, eof : BOOLEAN,
     buffer : Seq(Units), asked : Seq(Requests), script : Seq(Units), stray : BOOLEAN]

Holding == {"body", "head", "relay", "finish"}

\* An exchange holds a connection from the request it writes to the end of its
\* answer, an open one, and no two hold the same.
Held ==
    \A r \in Requests :
        /\ ex[r].pc \in Holding <=> ex[r].conn # NoConnection
        /\ ex[r].conn # NoConnection => conn[ex[r].conn].state = "open"
        /\ \A q \in Requests :
              ex[r].conn # NoConnection /\ ex[q].conn = ex[r].conn => q = r

\* What a connection still brings: the units that were received and are not read,
\* and those the upstream has yet to send.
Stream(c) == c.buffer \o c.script
NoneUnread(s) == \A k \in DOMAIN s : s[k].kind # "unread"

\* The connections of the pool are open and nobody holds them.  One that was not
\* led astray owes no answer, and no body that was only announced.
Rests(c) ==
    /\ c.state = "open"
    /\ ~ c.stray => c.asked = <<>> /\ NoneUnread(Stream(c))
Pool ==
    \A k \in DOMAIN idle :
        /\ Rests(conn[idle[k]])
        /\ \A r \in Requests : ex[r].conn # idle[k]

\* Any other open connection is held.
NoneLost ==
    \A c \in Connections : conn[c].state = "open" =>
        \/ \E r \in Requests : ex[r].conn = c
        \/ \E k \in DOMAIN idle : idle[k] = c

\* A request is sent once per attempt, and attempted again only where it may be.
Tried(e, r) ==
    /\ e.sent \in e.attempt .. e.attempt + 1
    /\ e.pc \in {"new", "connecting"} => e.sent = e.attempt
    /\ e.pc \in Holding => e.sent = e.attempt + 1
    /\ e.attempt = 1 => r \in Repeatable \ WithBody
Tries == \A r \in Requests : Tried(ex[r], r)

\* Only what was sent is asked and answered.
Known(c, x) ==
    /\ \A k \in DOMAIN c.asked : x[c.asked[k]].sent # 0
    /\ \A k \in DOMAIN Stream(c) : x[Stream(c)[k].of].sent # 0

\* The body of an answer follows its head, whoever reads them, and an upstream
\* that does not close finishes what it began.
Unfinished(unit) ==
    \/ unit.kind \in {"head", "unread"} /\ unit.framing \in {"length", "chunked"}
    \/ unit.kind = "data" /\ unit.framing = "chunked"
Goes(unit, next) ==
    /\ unit.kind \in {"head", "unread"} /\ unit.framing \in {"length", "chunked"} =>
          next.kind = "data" /\ next.framing = unit.framing
    /\ unit.kind = "data" /\ unit.framing = "chunked" => next.kind = "last"
Framed(s, up) ==
    /\ \A j, k \in DOMAIN s : k = j + 1 => Goes(s[j], s[k])
    /\ up = "open" /\ s # <<>> => ~ Unfinished(s[Len(s)])
Sound(c) == Framed(Stream(c), c.up)
Streams == \A c \in Connections : Sound(conn[c]) /\ Known(conn[c], ex)

\* What the client was sent when its answer is complete,
Complete(got, framing) ==
    framing # "eof" =>
        /\ Len(got) \in 1 .. 3 /\ got[1].kind = "head"
        /\ framing \in {"none", "announced"} => Len(got) = 1
        /\ framing = "length" => Len(got) = 2 /\ got[2].kind = "data"
        /\ framing = "chunked" =>
              Len(got) = 3 /\ got[2].kind = "data" /\ got[3].kind = "last"

\* and while it is on its way: what comes next is the next part of it.
Underway(got, framing, s, up) ==
    framing # "eof" =>
        /\ Len(got) \in 1 .. 2 /\ got[1].kind = "head"
        /\ framing # "chunked" => Len(got) = 1
        /\ Len(got) = 2 => got[2].kind = "data"
        /\ framing \in {"length", "chunked"} /\ s = <<>> => up # "open"
        /\ framing \in {"length", "chunked"} /\ Len(got) = 1 /\ s # <<>> =>
              s[1].kind = "data" /\ s[1].framing = framing
        /\ Len(got) = 2 /\ s # <<>> => s[1].kind = "last"

\* A connection that was not led astray brings its exchange what answers it: the
\* request is asked and nothing was received, or it is being answered.  A body
\* that was only announced comes right behind its head.
Behind(r, s, k) == \A j \in DOMAIN s : j < k /\ s[j].of = r =>
                       s[j].kind = "head" /\ s[j].framing = "announced"
Straight(e, r, c) ==
    /\ \A k \in DOMAIN c.buffer : c.buffer[k].of = r
    /\ c.asked # <<>> =>
          /\ c.asked = <<r>> /\ e.pc \in {"body", "head"}
          /\ \A k \in DOMAIN Stream(c) : Stream(c)[k].of # r /\ Stream(c)[k].kind # "unread"
    /\ \A k \in DOMAIN Stream(c) : Stream(c)[k].kind = "unread" =>
          /\ Stream(c)[k].of = r
          /\ e.pc \in {"body", "head"} => Behind(r, Stream(c), k)
          /\ e.pc \in {"relay", "finish"} => e.framing = "announced"
Serves(e, r, c, m) ==
    /\ e.pc = "relay" => Underway(e.got, e.framing, Stream(c), c.up)
    /\ ~ c.stray => Straight(e, r, c)
    /\ c.stray /\ r \notin m => c.buffer = <<>>
Serving ==
    \A r \in Requests :
        ex[r].conn # NoConnection => Serves(ex[r], r, conn[ex[r].conn], misled)

\* What a client was sent: parts of its answer, once there was one to send, and
\* all of them when it is told so.
Given(e, r, m) ==
    /\ r \notin m => \A k \in DOMAIN e.got : e.got[k].of = r
    /\ e.got # <<>> => e.pc \in {"relay", "finish", "done"}
    /\ e.result # "none" => e.pc = "done"
    /\ e.pc = "finish" \/ e.result = "whole" => Complete(e.got, e.framing)
    /\ e.result = "502" => e.got = <<>>
Parts == \A r \in Requests : Given(ex[r], r, misled)

IInv ==
    /\ TypeOK
    /\ Held /\ Pool /\ NoneLost
    /\ Tries /\ Streams /\ Serving /\ Parts

-----------------------------------------------------------------------------
\* Sequences.

\* Two sequences one after the other.
LEMMA Joined ==
    ASSUME NEW s \in Seq(Units), NEW t \in Seq(Units)
    PROVE  /\ s \o t \in Seq(Units) /\ Len(s \o t) = Len(s) + Len(t)
           /\ Len(s) \in Nat /\ Len(t) \in Nat
           /\ DOMAIN s = 1 .. Len(s) /\ DOMAIN t = 1 .. Len(t)
           /\ DOMAIN (s \o t) = 1 .. Len(s) + Len(t)
           /\ \A i \in 1 .. Len(s) : (s \o t)[i] = s[i]
           /\ \A i \in 1 .. Len(t) : (s \o t)[Len(s) + i] = t[i]
           /\ \A i \in 1 .. Len(s) + Len(t) :
                 \/ i \in 1 .. Len(s)
                 \/ i - Len(s) \in 1 .. Len(t) /\ (s \o t)[i] = t[i - Len(s)]
<1>1. /\ s \o t \in Seq(Units) /\ Len(s \o t) = Len(s) + Len(t)
      /\ Len(s) \in Nat /\ Len(t) \in Nat
      /\ DOMAIN s = 1 .. Len(s) /\ DOMAIN t = 1 .. Len(t)
      /\ DOMAIN (s \o t) = 1 .. Len(s) + Len(t)
      /\ \A i \in 1 .. Len(s) + Len(t) :
            (s \o t)[i] = IF i <= Len(s) THEN s[i] ELSE t[i - Len(s)]
  BY ConcatProperties, LenProperties
<1>2. \A i \in 1 .. Len(s) : (s \o t)[i] = s[i]
  BY <1>1
<1>3. \A i \in 1 .. Len(t) : (s \o t)[Len(s) + i] = t[i]
  <2> TAKE i \in 1 .. Len(t)
  <2>1. Len(s) + i \in 1 .. Len(s) + Len(t) /\ ~ (Len(s) + i <= Len(s))
        /\ Len(s) + i - Len(s) = i
    BY <1>1
  <2> QED BY <1>1, <2>1
<1>4. ASSUME NEW i \in 1 .. Len(s) + Len(t), i \notin 1 .. Len(s)
      PROVE  i - Len(s) \in 1 .. Len(t) /\ (s \o t)[i] = t[i - Len(s)]
  BY <1>1, <1>4
<1> QED BY <1>1, <1>2, <1>3, <1>4

\* What follows the first n elements of a sequence,
LEMMA LastUnits ==
    ASSUME NEW s \in Seq(Units), NEW n \in 0 .. Len(s)
    PROVE  LET t == SubSeq(s, n + 1, Len(s))
           IN  /\ t \in Seq(Units) /\ Len(t) = Len(s) - n /\ DOMAIN t = 1 .. Len(s) - n
               /\ \A i \in 1 .. Len(s) - n : t[i] = s[i + n]
<1> DEFINE t == SubSeq(s, n + 1, Len(s))
<1>1. Len(s) \in Nat /\ DOMAIN s = 1 .. Len(s)
  BY LenProperties
<1>2. n + 1 \in Int /\ Len(s) \in Int /\ \A i \in n + 1 .. Len(s) : s[i] \in Units
  BY <1>1, ElementOfSeq
<1>3. /\ t \in Seq(Units)
      /\ Len(t) = IF n + 1 <= Len(s) THEN Len(s) - (n + 1) + 1 ELSE 0
      /\ \A i \in 1 .. Len(s) - (n + 1) + 1 : t[i] = s[n + 1 + i - 1]
  BY <1>2, SubSeqProperties
<1> HIDE DEF t
<1>4. Len(t) = Len(s) - n
  BY <1>1, <1>3
<1>5. ASSUME NEW i \in 1 .. Len(s) - n PROVE t[i] = s[i + n]
  <2>1. i \in 1 .. Len(s) - (n + 1) + 1 /\ n + 1 + i - 1 = i + n
    BY <1>1
  <2> QED BY <1>3, <2>1
<1> QED BY <1>3, <1>4, <1>5, LenProperties DEF t

\* and the first n.
LEMMA FirstUnits ==
    ASSUME NEW s \in Seq(Units), NEW n \in 0 .. Len(s)
    PROVE  LET t == SubSeq(s, 1, n)
           IN  /\ t \in Seq(Units) /\ Len(t) = n /\ DOMAIN t = 1 .. n
               /\ \A i \in 1 .. n : i \in DOMAIN s /\ t[i] = s[i]
<1> DEFINE t == SubSeq(s, 1, n)
<1>1. Len(s) \in Nat /\ DOMAIN s = 1 .. Len(s) /\ n \in Nat
  BY LenProperties
<1>2. \A i \in 1 .. n : i \in DOMAIN s /\ s[i] \in Units
  BY <1>1, ElementOfSeq
<1>3. /\ t \in Seq(Units) /\ Len(t) = IF 1 <= n THEN n - 1 + 1 ELSE 0
      /\ \A i \in 1 .. n - 1 + 1 : t[i] = s[1 + i - 1]
  BY <1>1, <1>2, SubSeqProperties
<1> HIDE DEF t
<1>4. Len(t) = n
  BY <1>1, <1>3
<1>5. ASSUME NEW i \in 1 .. n PROVE t[i] = s[i]
  <2>1. i \in 1 .. n - 1 + 1 /\ 1 + i - 1 = i
    BY <1>1
  <2> QED BY <1>3, <2>1
<1> QED BY <1>2, <1>3, <1>4, <1>5, LenProperties DEF t

\* Elements that move from the front of one sequence to the end of the one before
\* it change nothing of the two together.
LEMMA Moved ==
    ASSUME NEW b \in Seq(Units), NEW s \in Seq(Units), NEW n \in 0 .. Len(s)
    PROVE  (b \o SubSeq(s, 1, n)) \o SubSeq(s, n + 1, Len(s)) = b \o s
<1> DEFINE f == SubSeq(s, 1, n)
           t == SubSeq(s, n + 1, Len(s))
<1>1. /\ f \in Seq(Units) /\ Len(f) = n
      /\ \A i \in 1 .. n : f[i] = s[i]
  BY FirstUnits
<1>2. /\ t \in Seq(Units) /\ Len(t) = Len(s) - n
      /\ \A i \in 1 .. Len(s) - n : t[i] = s[i + n]
  BY LastUnits
<1> HIDE DEF f, t
<1>3. /\ Len(b) \in Nat /\ Len(s) \in Nat /\ n \in Nat
      /\ b \o f \in Seq(Units) /\ Len(b \o f) = Len(b) + n
      /\ b \o s \in Seq(Units) /\ Len(b \o s) = Len(b) + Len(s)
      /\ (b \o f) \o t \in Seq(Units) /\ Len((b \o f) \o t) = Len(b) + Len(s)
  <2>1. Len(b) \in Nat /\ Len(s) \in Nat /\ n \in Nat
    BY LenProperties
  <2>2. b \o f \in Seq(Units) /\ Len(b \o f) = Len(b) + n
    BY <1>1, Joined
  <2>3. b \o s \in Seq(Units) /\ Len(b \o s) = Len(b) + Len(s)
    BY Joined
  <2>4. (b \o f) \o t \in Seq(Units) /\ Len((b \o f) \o t) = Len(b \o f) + Len(t)
    BY <1>2, <2>2, Joined
  <2> QED BY <1>2, <2>1, <2>2, <2>3, <2>4
<1>4. ASSUME NEW i \in 1 .. Len(b) + Len(s)
      PROVE  ((b \o f) \o t)[i] = (b \o s)[i]
  <2>1. CASE i <= Len(b)
    <3>1. i \in 1 .. Len(b) /\ i \in 1 .. Len(b \o f)
      BY <1>3, <2>1
    <3>2. ((b \o f) \o t)[i] = (b \o f)[i]
      BY <1>2, <1>3, <3>1, Joined
    <3>3. (b \o f)[i] = b[i] /\ (b \o s)[i] = b[i]
      BY <1>1, <3>1, Joined
    <3> QED BY <3>2, <3>3
  <2>2. CASE i > Len(b) /\ i <= Len(b) + n
    <3>1. PICK j \in 1 .. n : i = Len(b) + j
      <4>1. i - Len(b) \in 1 .. n /\ i = Len(b) + (i - Len(b))
        BY <1>3, <2>2
      <4> QED BY <4>1
    <3>2. i \in 1 .. Len(b \o f) /\ j \in 1 .. Len(f) /\ j \in 1 .. Len(s)
      BY <1>1, <1>3, <2>2
    <3>3. ((b \o f) \o t)[i] = (b \o f)[i]
      BY <1>2, <1>3, <3>2, Joined
    <3>4. (b \o f)[Len(b) + j] = f[j] /\ (b \o s)[Len(b) + j] = s[j]
      BY <1>1, <3>2, Joined
    <3> QED BY <1>1, <3>1, <3>3, <3>4
  <2>3. CASE i > Len(b) + n
    <3>1. PICK j \in 1 .. Len(s) - n : i = Len(b) + n + j
      <4>1. i - (Len(b) + n) \in 1 .. Len(s) - n /\ i = Len(b) + n + (i - (Len(b) + n))
        BY <1>3, <2>3
      <4> QED BY <4>1
    <3>2. j + n \in 1 .. Len(s) /\ i = Len(b) + (j + n) /\ j \in 1 .. Len(t)
          /\ i = Len(b \o f) + j
      BY <1>2, <1>3, <3>1
    <3>3. ((b \o f) \o t)[Len(b \o f) + j] = t[j]
      <4>1. b \o f \in Seq(Units) /\ t \in Seq(Units) /\ j \in 1 .. Len(t)
        BY <1>2, <1>3, <3>2
      <4> QED BY ZenonT(30), <4>1, Joined
    <3>4. (b \o s)[Len(b) + (j + n)] = s[j + n]
      BY <3>2, Joined
    <3> QED BY <1>2, <3>2, <3>3, <3>4
  <2> QED BY <1>3, <2>1, <2>2, <2>3
<1> QED BY <1>3, <1>4, SeqEqual DEF f, t

-----------------------------------------------------------------------------
\* Streams.

\* A stream is made of what was received and what was not.
LEMMA StreamOf ==
    ASSUME NEW b \in Seq(Units), NEW sc \in Seq(Units), NEW s, s = b \o sc
    PROVE  /\ s \in Seq(Units) /\ Len(s) = Len(b) + Len(sc)
           /\ Len(s) \in Nat /\ Len(b) \in Nat /\ Len(sc) \in Nat
           /\ DOMAIN s = 1 .. Len(s) /\ DOMAIN b = 1 .. Len(b)
           /\ \A i \in 1 .. Len(b) : i \in 1 .. Len(s) /\ s[i] = b[i]
           /\ \A i \in 1 .. Len(sc) : s[Len(b) + i] = sc[i]
           /\ \A i \in DOMAIN s : s[i] \in Units
<1>1. /\ s \in Seq(Units) /\ Len(s) = Len(b) + Len(sc)
      /\ Len(b) \in Nat /\ Len(sc) \in Nat
      /\ DOMAIN b = 1 .. Len(b)
      /\ \A i \in 1 .. Len(b) : s[i] = b[i]
      /\ \A i \in 1 .. Len(sc) : s[Len(b) + i] = sc[i]
  BY Joined
<1>2. DOMAIN s = 1 .. Len(s) /\ \A i \in DOMAIN s : s[i] \in Units
  BY <1>1, LenProperties, ElementOfSeq
<1>3. Len(s) \in Nat /\ \A i \in 1 .. Len(b) : i \in 1 .. Len(s)
  BY <1>1
<1> QED BY <1>1, <1>2, <1>3

\* The stream of a connection is one.
LEMMA StreamIs ==
    ASSUME NEW c \in Connection
    PROVE  LET s == Stream(c)
               b == c.buffer
           IN  /\ s \in Seq(Units) /\ Len(s) = Len(b) + Len(c.script)
               /\ b \in Seq(Units) /\ c.script \in Seq(Units)
               /\ Len(s) \in Nat /\ Len(b) \in Nat /\ Len(c.script) \in Nat
               /\ DOMAIN s = 1 .. Len(s) /\ DOMAIN b = 1 .. Len(b)
               /\ \A i \in 1 .. Len(b) : i \in 1 .. Len(s) /\ s[i] = b[i]
               /\ \A i \in 1 .. Len(c.script) : s[Len(b) + i] = c.script[i]
               /\ \A i \in DOMAIN s : s[i] \in Units
<1> DEFINE b == c.buffer
           sc == c.script
           s == Stream(c)
<1>1. b \in Seq(Units) /\ sc \in Seq(Units) /\ s = b \o sc
  BY DEF Connection, Stream
<1> HIDE DEF b, sc, s
<1>2. /\ s \in Seq(Units) /\ Len(s) = Len(b) + Len(sc)
      /\ Len(s) \in Nat /\ Len(b) \in Nat /\ Len(sc) \in Nat
      /\ DOMAIN s = 1 .. Len(s) /\ DOMAIN b = 1 .. Len(b)
      /\ \A i \in 1 .. Len(b) : i \in 1 .. Len(s) /\ s[i] = b[i]
      /\ \A i \in 1 .. Len(sc) : s[Len(b) + i] = sc[i]
      /\ \A i \in DOMAIN s : s[i] \in Units
  BY <1>1, StreamOf
<1> QED BY <1>1, <1>2 DEF b, sc, s

\* A stream of which the first n units are gone,
Rest(s, n, t) ==
    /\ Len(t) = Len(s) - n
    /\ \A i \in 1 .. Len(s) - n : t[i] = s[i + n]

\* is framed as it was.
LEMMA FramedRest ==
    ASSUME NEW s \in Seq(Units), NEW n \in 0 .. Len(s), NEW t \in Seq(Units),
           Rest(s, n, t), NEW up, Framed(s, up)
    PROVE  Framed(t, up)
<1>1. /\ Len(s) \in Nat /\ Len(t) \in Nat /\ n \in Nat /\ Len(t) = Len(s) - n
      /\ DOMAIN s = 1 .. Len(s) /\ DOMAIN t = 1 .. Len(t)
      /\ \A i \in 1 .. Len(t) : i + n \in DOMAIN s /\ t[i] = s[i + n]
  BY LenProperties DEF Rest
<1>2. ASSUME NEW j \in DOMAIN t, NEW k \in DOMAIN t, k = j + 1
      PROVE  Goes(t[j], t[k])
  <2>1. j + n \in DOMAIN s /\ k + n \in DOMAIN s /\ k + n = (j + n) + 1
    <3>1. j \in Nat /\ j \in 1 .. Len(t) /\ k \in 1 .. Len(t)
      BY <1>1
    <3>2. j + n \in DOMAIN s /\ k + n \in DOMAIN s
      BY <1>1, <3>1
    <3> QED BY <1>1, <1>2, <3>1, <3>2
  <2>2. Goes(s[j + n], s[k + n])
    BY <2>1 DEF Framed
  <2> QED BY <1>1, <2>2
<1>3. ASSUME up = "open", t # <<>> PROVE ~ Unfinished(t[Len(t)])
  <2>1. Len(t) # 0
    BY <1>3, EmptySeq
  <2>2. Len(t) \in 1 .. Len(t) /\ Len(t) + n = Len(s) /\ Len(s) # 0
    BY <1>1, <2>1
  <2>3. t[Len(t)] = s[Len(s)] /\ s # <<>>
    BY <1>1, <2>2, EmptySeq
  <2> QED BY <1>3, <2>3 DEF Framed
<1> QED BY <1>2, <1>3 DEF Framed

\* What an upstream that closed does not send leaves what it sent framed,
LEMMA FramedFront ==
    ASSUME NEW b \in Seq(Units), NEW s \in Seq(Units), NEW up, Framed(b \o s, up)
    PROVE  Framed(b, "closed")
<1>1. /\ Len(b) \in Nat /\ Len(s) \in Nat
      /\ DOMAIN b = 1 .. Len(b) /\ DOMAIN (b \o s) = 1 .. Len(b) + Len(s)
      /\ \A i \in 1 .. Len(b) : (b \o s)[i] = b[i]
  BY Joined
<1>2. ASSUME NEW j \in DOMAIN b, NEW k \in DOMAIN b, k = j + 1
      PROVE  Goes(b[j], b[k])
  <2>1. /\ j \in DOMAIN (b \o s) /\ k \in DOMAIN (b \o s)
        /\ (b \o s)[j] = b[j] /\ (b \o s)[k] = b[k]
    BY <1>1
  <2> QED BY <1>2, <2>1 DEF Framed
<1> QED BY <1>2 DEF Framed

\* and another answer goes behind what an open one sent.
LEMMA FramedJoined ==
    ASSUME NEW b \in Seq(Units), NEW s \in Seq(Units),
           Framed(b, "open"), Framed(s, "open")
    PROVE  Framed(b \o s, "open")
<1>1. /\ Len(b) \in Nat /\ Len(s) \in Nat
      /\ DOMAIN b = 1 .. Len(b) /\ DOMAIN s = 1 .. Len(s)
      /\ DOMAIN (b \o s) = 1 .. Len(b) + Len(s) /\ Len(b \o s) = Len(b) + Len(s)
      /\ \A i \in 1 .. Len(b) : (b \o s)[i] = b[i]
      /\ \A i \in 1 .. Len(s) : (b \o s)[Len(b) + i] = s[i]
  BY Joined
<1>2. ASSUME NEW j \in DOMAIN (b \o s), NEW k \in DOMAIN (b \o s), k = j + 1
      PROVE  Goes((b \o s)[j], (b \o s)[k])
  <2>1. CASE k <= Len(b)
    <3>1. j \in DOMAIN b /\ k \in DOMAIN b
      BY <1>1, <1>2, <2>1
    <3> QED BY <1>1, <1>2, <3>1 DEF Framed
  <2>2. CASE j > Len(b)
    <3>1. PICK i \in DOMAIN s : j = Len(b) + i
      <4>1. j - Len(b) \in DOMAIN s /\ j = Len(b) + (j - Len(b))
        BY <1>1, <2>2
      <4> QED BY <4>1
    <3>2. i + 1 \in DOMAIN s /\ k = Len(b) + (i + 1)
      BY <1>1, <1>2, <3>1
    <3>3. Goes(s[i], s[i + 1])
      BY <3>2 DEF Framed
    <3>4. (b \o s)[j] = s[i] /\ (b \o s)[k] = s[i + 1]
      BY <1>1, <3>1, <3>2
    <3> QED BY <3>3, <3>4
  <2>3. CASE j = Len(b)
    <3>1. b # <<>> /\ Len(b) \in 1 .. Len(b)
      BY <1>1, <2>3, EmptySeq
    <3>2. (b \o s)[j] = b[Len(b)] /\ ~ Unfinished(b[Len(b)])
      BY <1>1, <2>3, <3>1 DEF Framed
    <3> QED BY <3>2 DEF Unfinished, Goes
  <2> QED BY <1>1, <1>2, <2>1, <2>2, <2>3
<1>3. ASSUME b \o s # <<>> PROVE ~ Unfinished((b \o s)[Len(b \o s)])
  <2>1. CASE s = <<>>
    <3>1. b \o s = b
      BY <2>1, ConcatEmptySeq
    <3> QED BY <1>3, <3>1 DEF Framed
  <2>2. CASE s # <<>>
    <3>1. Len(s) \in 1 .. Len(s)
      BY <1>1, <2>2, EmptySeq
    <3>2. (b \o s)[Len(b \o s)] = s[Len(s)]
      BY <1>1, <3>1
    <3> QED BY <2>2, <3>2 DEF Framed
  <2> QED BY <2>1, <2>2
<1> QED BY <1>2, <1>3 DEF Framed

\* The units that an exchange reads from its connection.
Reads(c, n) == [c EXCEPT !.buffer = SubSeq(c.buffer, n + 1, Len(c.buffer))]

\* What it has not read is as sound as before, and nobody else's.
LEMMA ReadsStream ==
    ASSUME NEW c \in Connection, NEW n \in 0 .. Len(c.buffer)
    PROVE  LET d == Reads(c, n)
           IN  /\ d \in Connection /\ d.state = c.state /\ d.up = c.up /\ d.stray = c.stray
               /\ d.asked = c.asked /\ d.script = c.script
               /\ d.buffer = SubSeq(c.buffer, n + 1, Len(c.buffer))
               /\ n \in 0 .. Len(Stream(c)) /\ Rest(Stream(c), n, Stream(d))
               /\ Rest(c.buffer, n, d.buffer)
               /\ Sound(c) => Sound(d)
               /\ \A x : Known(c, x) => Known(d, x)
<1> DEFINE b == c.buffer
           t == SubSeq(c.buffer, n + 1, Len(c.buffer))
           d == Reads(c, n)
<1>1. /\ b \in Seq(Units) /\ c.script \in Seq(Units) /\ Len(b) \in Nat /\ n \in Nat
      /\ Len(c.script) \in Nat
  <2>1. n \in Nat
    BY StreamIs
  <2> QED BY <2>1, StreamIs
<1>2. /\ t \in Seq(Units) /\ Len(t) = Len(b) - n /\ DOMAIN t = 1 .. Len(b) - n
      /\ \A i \in 1 .. Len(b) - n : t[i] = b[i + n]
  BY <1>1, LastUnits
<1> HIDE DEF b, t
<1>3. /\ d \in Connection /\ d.state = c.state /\ d.up = c.up /\ d.stray = c.stray
      /\ d.asked = c.asked /\ d.script = c.script /\ d.buffer = t
  BY <1>2 DEF Reads, Connection, t
<1> HIDE DEF d
<1>4. Rest(b, n, d.buffer)
  BY <1>2, <1>3 DEF Rest
<1>5. n \in 0 .. Len(Stream(c)) /\ Len(Stream(c)) = Len(b) + Len(c.script)
  <2>1. Len(Stream(c)) = Len(b) + Len(c.script)
    BY StreamIs DEF b
  <2>2. n \in 0 .. Len(b)
    BY DEF b
  <2> QED BY <1>1, <2>1, <2>2
<1>6. Len(Stream(d)) = Len(Stream(c)) - n
  <2>1. Len(Stream(d)) = Len(t) + Len(c.script)
    BY <1>3, StreamIs
  <2> QED BY <1>1, <1>2, <1>5, <2>1
<1>7. ASSUME NEW i \in 1 .. Len(Stream(c)) - n
      PROVE  Stream(d)[i] = Stream(c)[i + n]
  <2>1. CASE i <= Len(b) - n
    <3>1. i \in 1 .. Len(t) /\ i + n \in 1 .. Len(b)
      BY <1>1, <1>2, <2>1
    <3>2. Stream(d)[i] = t[i] /\ Stream(c)[i + n] = b[i + n]
      BY <1>3, <3>1, StreamIs DEF b
    <3> QED BY <1>2, <2>1, <3>1, <3>2
  <2>2. CASE i > Len(b) - n
    <3>1. PICK j \in 1 .. Len(c.script) : i = Len(t) + j
      <4>1. i - Len(t) \in 1 .. Len(c.script) /\ i = Len(t) + (i - Len(t))
        BY <1>1, <1>2, <1>5, <2>2
      <4> QED BY <4>1
    <3>2. i + n = Len(b) + j
      BY <1>1, <1>2, <3>1
    <3>3. Stream(d)[Len(t) + j] = c.script[j]
      BY <1>3, StreamIs
    <3>4. Stream(c)[Len(b) + j] = c.script[j]
      BY StreamIs DEF b
    <3> QED BY <3>1, <3>2, <3>3, <3>4
  <2> QED BY <1>1, <2>1, <2>2
<1>8. Rest(Stream(c), n, Stream(d))
  BY <1>6, <1>7 DEF Rest
<1>9. ASSUME Sound(c) PROVE Sound(d)
  <2>1. Stream(c) \in Seq(Units) /\ Stream(d) \in Seq(Units)
    BY <1>3, StreamIs
  <2> QED BY <1>3, <1>5, <1>8, <1>9, <2>1, FramedRest DEF Sound
<1>10. ASSUME NEW x, Known(c, x) PROVE Known(d, x)
  <2>1. /\ DOMAIN Stream(d) = 1 .. Len(Stream(d)) /\ DOMAIN Stream(c) = 1 .. Len(Stream(c))
        /\ Len(Stream(c)) \in Nat
    BY <1>3, StreamIs
  <2>2. ASSUME NEW k \in DOMAIN Stream(d) PROVE x[Stream(d)[k].of].sent # 0
    <3>1. k + n \in DOMAIN Stream(c) /\ k \in 1 .. Len(Stream(c)) - n
      BY <1>1, <1>6, <2>1
    <3>2. Stream(d)[k] = Stream(c)[k + n]
      BY <1>7, <3>1
    <3> QED BY <1>10, <3>1, <3>2 DEF Known
  <2> QED BY <1>3, <1>10, <2>2 DEF Known
<1> QED BY <1>3, <1>4, <1>5, <1>8, <1>9, <1>10 DEF b, t, d

-----------------------------------------------------------------------------
\* What the upstream sends, and what the relay makes of it.

\* The elements of a short tuple of units.
LEMMA ShortTuples ==
    /\ \A a \in Units : LET t == <<a>>
                        IN  t \in Seq(Units) /\ Len(t) = 1 /\ DOMAIN t = 1 .. 1 /\ t[1] = a
    /\ \A a, b \in Units :
        LET t == <<a, b>>
        IN  t \in Seq(Units) /\ Len(t) = 2 /\ DOMAIN t = 1 .. 2 /\ t[1] = a /\ t[2] = b
    /\ \A a, b, c \in Units :
        LET t == <<a, b, c>>
        IN  /\ t \in Seq(Units) /\ Len(t) = 3 /\ DOMAIN t = 1 .. 3
            /\ t[1] = a /\ t[2] = b /\ t[3] = c
    /\ \A a, b, c, d, e \in Units :
        LET t == <<a, b, c, d, e>>
        IN  /\ t \in Seq(Units) /\ Len(t) = 5 /\ DOMAIN t = 1 .. 5
            /\ t[1] = a /\ t[2] = b /\ t[3] = c /\ t[4] = d /\ t[5] = e
<1> DEFINE U == Units
<1> HIDE DEF U
<1>1. \A a \in U : LET t == <<a>>
                   IN  t \in Seq(U) /\ Len(t) = 1 /\ DOMAIN t = 1 .. 1 /\ t[1] = a
  OBVIOUS
<1>2. \A a, b \in U :
        LET t == <<a, b>>
        IN  t \in Seq(U) /\ Len(t) = 2 /\ DOMAIN t = 1 .. 2 /\ t[1] = a /\ t[2] = b
  OBVIOUS
<1>3. \A a, b, c \in U :
        LET t == <<a, b, c>>
        IN  /\ t \in Seq(U) /\ Len(t) = 3 /\ DOMAIN t = 1 .. 3
            /\ t[1] = a /\ t[2] = b /\ t[3] = c
  OBVIOUS
<1>4. \A a, b, c, d, e \in U :
        LET t == <<a, b, c, d, e>>
        IN  /\ t \in Seq(U) /\ Len(t) = 5 /\ DOMAIN t = 1 .. 5
            /\ t[1] = a /\ t[2] = b /\ t[3] = c /\ t[4] = d /\ t[5] = e
  OBVIOUS
<1> QED BY <1>1, <1>2, <1>3, <1>4 DEF U

\* An answer is of the request that was asked, is framed, and only the body of a
\* head that announced one is not to be read.
Answer(r, s) ==
    /\ s \in Seq(Units) /\ s # <<>> /\ Framed(s, "open")
    /\ \A k \in DOMAIN s : s[k].of = r
    /\ \A k \in DOMAIN s : s[k].kind = "unread" =>
          \A j \in DOMAIN s : j < k => s[j].kind = "head" /\ s[j].framing = "announced"

\* Answers of one unit,
LEMMA AnswerOfOne ==
    ASSUME NEW r, NEW a \in Units, a.of = r, ~ Unfinished(a)
    PROVE  Answer(r, <<a>>)
<1> DEFINE s == <<a>>
<1>1. s \in Seq(Units) /\ Len(s) = 1 /\ DOMAIN s = 1 .. 1 /\ s[1] = a
  BY ShortTuples
<1> HIDE DEF s
<1>2. s # <<>> /\ \A k \in DOMAIN s : k = 1
  BY <1>1, EmptySeq
<1>3. Framed(s, "open")
  BY <1>1, <1>2 DEF Framed
<1> QED BY <1>1, <1>2, <1>3 DEF Answer, s

\* of two,
LEMMA AnswerOfTwo ==
    ASSUME NEW r, NEW a \in Units, NEW b \in Units, a.of = r, b.of = r,
           Goes(a, b), ~ Unfinished(b), a.kind = "head",
           b.kind = "unread" => a.framing = "announced"
    PROVE  Answer(r, <<a, b>>)
<1> DEFINE s == <<a, b>>
<1>1. s \in Seq(Units) /\ Len(s) = 2 /\ DOMAIN s = 1 .. 2 /\ s[1] = a /\ s[2] = b
  BY ShortTuples
<1> HIDE DEF s
<1>2. s # <<>> /\ \A k \in DOMAIN s : k = 1 \/ k = 2
  <2>1. s # <<>>
    <3>1. Len(s) # 0
      BY <1>1
    <3> QED BY <3>1, EmptySeq
  <2>2. \A k \in 1 .. 2 : k = 1 \/ k = 2
    OBVIOUS
  <2> QED BY <1>1, <2>1, <2>2
<1>3. Framed(s, "open")
  BY <1>1, <1>2 DEF Framed
<1>4. ASSUME NEW k \in DOMAIN s, s[k].kind = "unread", NEW j \in DOMAIN s, j < k
      PROVE  s[j].kind = "head" /\ s[j].framing = "announced"
  <2>1. k = 2 /\ j = 1
    BY <1>2, <1>4
  <2> QED BY <1>1, <1>4, <2>1
<1> QED BY <1>1, <1>2, <1>3, <1>4 DEF Answer, s

\* of three,
LEMMA AnswerOfThree ==
    ASSUME NEW r, NEW a \in Units, NEW b \in Units, NEW c \in Units,
           a.of = r, b.of = r, c.of = r, Goes(a, b), Goes(b, c), ~ Unfinished(c),
           a.kind # "unread", b.kind # "unread", c.kind # "unread"
    PROVE  Answer(r, <<a, b, c>>)
<1> DEFINE s == <<a, b, c>>
<1>1. /\ s \in Seq(Units) /\ Len(s) = 3 /\ DOMAIN s = 1 .. 3
      /\ s[1] = a /\ s[2] = b /\ s[3] = c
  BY ShortTuples
<1> HIDE DEF s
<1>2. s # <<>> /\ \A k \in DOMAIN s : k = 1 \/ k = 2 \/ k = 3
  <2>1. s # <<>>
    <3>1. Len(s) # 0
      BY <1>1
    <3> QED BY <3>1, EmptySeq
  <2>2. \A k \in 1 .. 3 : k = 1 \/ k = 2 \/ k = 3
    OBVIOUS
  <2> QED BY <1>1, <2>1, <2>2
<1>3. Framed(s, "open")
  BY <1>1, <1>2 DEF Framed
<1>4. \A k \in DOMAIN s : s[k].of = r /\ s[k].kind # "unread"
  BY <1>1, <1>2
<1> QED BY <1>1, <1>2, <1>3, <1>4 DEF Answer, s

\* and of five.
LEMMA AnswerOfFive ==
    ASSUME NEW r, NEW a \in Units, NEW b \in Units, NEW c \in Units, NEW d \in Units,
           NEW e \in Units, a.of = r, b.of = r, c.of = r, d.of = r, e.of = r,
           Goes(a, b), Goes(b, c), Goes(c, d), Goes(d, e), ~ Unfinished(e),
           a.kind # "unread", b.kind # "unread", c.kind # "unread",
           d.kind # "unread", e.kind # "unread"
    PROVE  Answer(r, <<a, b, c, d, e>>)
<1> DEFINE s == <<a, b, c, d, e>>
<1>1. /\ s \in Seq(Units) /\ Len(s) = 5 /\ DOMAIN s = 1 .. 5
      /\ s[1] = a /\ s[2] = b /\ s[3] = c /\ s[4] = d /\ s[5] = e
  BY ShortTuples
<1> HIDE DEF s
<1>2. s # <<>> /\ \A k \in DOMAIN s : k = 1 \/ k = 2 \/ k = 3 \/ k = 4 \/ k = 5
  <2>1. s # <<>>
    <3>1. Len(s) # 0
      BY <1>1
    <3> QED BY <3>1, EmptySeq
  <2>2. \A k \in 1 .. 5 : k = 1 \/ k = 2 \/ k = 3 \/ k = 4 \/ k = 5
    OBVIOUS
  <2> QED BY <1>1, <2>1, <2>2
<1>3. Framed(s, "open")
  <2>1. ASSUME NEW j \in DOMAIN s, NEW k \in DOMAIN s, k = j + 1
        PROVE  Goes(s[j], s[k])
    <3>1. \/ (j = 1 /\ k = 2)
          \/ (j = 2 /\ k = 3)
          \/ (j = 3 /\ k = 4)
          \/ (j = 4 /\ k = 5)
      BY <1>2, <2>1
    <3> QED BY <1>1, <3>1
  <2> QED BY <1>1, <2>1 DEF Framed
<1>4. \A k \in DOMAIN s : s[k].of = r /\ s[k].kind # "unread"
  BY <1>1, <1>2
<1> QED BY <1>1, <1>2, <1>3, <1>4 DEF Answer, s

\* Every script is an answer.
LEMMA ScriptIs ==
    ASSUME NEW r \in Requests, NEW answer
    PROVE  Answer(r, Script(r, answer))
<1> DEFINE head(framing) == Part("head", r, framing)
           data(framing) == Part("data", r, framing)
           interim == Part("interim", r, "none")
           last == Part("last", r, "chunked")
           unread == Part("unread", r, "none")
           bad == Part("bad", r, "none")
           once == Closing(head("length"))
<1>1. \A f \in Framings : /\ head(f) \in Units /\ head(f).of = r
                          /\ head(f).kind = "head" /\ head(f).framing = f
                          /\ data(f) \in Units /\ data(f).of = r
                          /\ data(f).kind = "data" /\ data(f).framing = f
  BY DEF Units, Kinds, Part
<1>2. /\ interim \in Units /\ interim.of = r /\ interim.kind = "interim"
      /\ last \in Units /\ last.of = r /\ last.kind = "last"
      /\ unread \in Units /\ unread.of = r /\ unread.kind = "unread"
      /\ unread.framing = "none"
      /\ bad \in Units /\ bad.of = r /\ bad.kind = "bad"
  BY DEF Units, Kinds, Framings, Part
<1>3. once \in Units /\ once.of = r /\ once.kind = "head" /\ once.framing = "length"
  BY DEF Units, Kinds, Framings, Part, Closing
<1>4. /\ "none" \in Framings /\ "announced" \in Framings /\ "length" \in Framings
      /\ "chunked" \in Framings /\ "eof" \in Framings
  BY DEF Framings
<1>5. /\ answer = "empty" => Script(r, answer) = <<head("none")>>
      /\ answer = "lying" => Script(r, answer) = <<head("announced"), unread>>
      /\ answer = "once" => Script(r, answer) = <<once, data("length")>>
      /\ answer = "length" =>
            Script(r, answer) = <<head("length"), data("length"), head("none")>>
      /\ answer = "chunked" =>
            Script(r, answer) = <<interim, head("chunked"), data("chunked"), last, head("none")>>
      /\ answer = "eof" => Script(r, answer) = <<head("eof"), data("eof")>>
      /\ answer \notin {"empty", "lying", "once", "length", "chunked", "eof"} =>
            Script(r, answer) = <<bad>>
  BY DEF Script
<1> HIDE DEF head, data, interim, last, unread, bad, once
<1>6. CASE answer = "empty"
  BY <1>1, <1>4, <1>5, <1>6, AnswerOfOne DEF Unfinished
<1>7. CASE answer = "lying"
  BY <1>1, <1>2, <1>4, <1>5, <1>7, AnswerOfTwo DEF Unfinished, Goes
<1>8. CASE answer = "once"
  BY <1>1, <1>3, <1>4, <1>5, <1>8, AnswerOfTwo DEF Unfinished, Goes
<1>9. CASE answer = "length"
  BY <1>1, <1>4, <1>5, <1>9, AnswerOfThree DEF Unfinished, Goes
<1>10. CASE answer = "chunked"
  <2>1. /\ head("chunked") \in Units /\ head("chunked").of = r
        /\ head("chunked").kind = "head" /\ head("chunked").framing = "chunked"
        /\ data("chunked") \in Units /\ data("chunked").of = r
        /\ data("chunked").kind = "data" /\ data("chunked").framing = "chunked"
        /\ head("none") \in Units /\ head("none").of = r
        /\ head("none").kind = "head" /\ head("none").framing = "none"
    BY <1>1, <1>4
  <2>2. /\ Goes(interim, head("chunked")) /\ Goes(head("chunked"), data("chunked"))
        /\ Goes(data("chunked"), last) /\ Goes(last, head("none"))
        /\ ~ Unfinished(head("none"))
    BY <1>2, <2>1 DEF Unfinished, Goes
  <2>3. /\ interim.kind # "unread" /\ head("chunked").kind # "unread"
        /\ data("chunked").kind # "unread" /\ last.kind # "unread"
        /\ head("none").kind # "unread"
    BY <1>2, <2>1
  <2>4. Answer(r, <<interim, head("chunked"), data("chunked"), last, head("none")>>)
    BY <1>2, <2>1, <2>2, <2>3, AnswerOfFive
  <2> QED BY <1>5, <1>10, <2>4
<1>11. CASE answer = "eof"
  BY <1>1, <1>4, <1>5, <1>11, AnswerOfTwo DEF Unfinished, Goes
<1>12. CASE answer \notin {"empty", "lying", "once", "length", "chunked", "eof"}
  BY <1>2, <1>5, <1>12, AnswerOfOne DEF Unfinished
<1> QED BY <1>6, <1>7, <1>8, <1>9, <1>10, <1>11, <1>12

\* The first of a set of positions is the least.
LEMMA FirstOfIs ==
    ASSUME NEW S \in SUBSET Nat, NEW k \in S, \A j \in S : k <= j
    PROVE  FirstOf(S) = k
<1>1. \A i \in S : (\A j \in S : i <= j) => i = k
  BY SMT
<1> QED BY <1>1 DEF FirstOf

\* Two units behind the one that was sent.
LEMMA TwoBehindOne ==
    ASSUME NEW a \in Seq(Units), Len(a) = 1, NEW s \in Seq(Units), Len(s) = 2
    PROVE  /\ a \o s \in Seq(Units) /\ Len(a \o s) = 3
           /\ (a \o s)[1] = a[1] /\ (a \o s)[2] = s[1] /\ (a \o s)[3] = s[2]
<1>1. /\ a \o s \in Seq(Units) /\ Len(a \o s) = Len(a) + Len(s)
      /\ \A i \in 1 .. Len(a) + Len(s) :
            (a \o s)[i] = IF i <= Len(a) THEN a[i] ELSE s[i - Len(a)]
  BY ConcatProperties
<1>2. (a \o s)[1] = a[1]
  BY <1>1
<1>3. (a \o s)[2] = s[1] /\ (a \o s)[3] = s[2]
  BY <1>1
<1> QED BY <1>1, <1>2, <1>3

\* A decoder that is fed the rest of a chunked body ends with its last part, and
\* with its data alone it does not.
LEMMA FeedsChunks ==
    ASSUME NEW b \in Seq(Units), b # <<>>, NEW sc \in Seq(Units), NEW got \in Seq(Units),
           NEW up, Framed(b \o sc, up), Underway(got, "chunked", b \o sc, up)
    PROVE  /\ Ends(b) =>
                /\ UpToLast(b) \in Seq(Units)
                /\ Complete(got \o UpToLast(b), "chunked")
                /\ \A k \in DOMAIN UpToLast(b) : k \in DOMAIN b /\ UpToLast(b)[k] = b[k]
           /\ ~ Ends(b) => Underway(got \o b, "chunked", sc, up)
<1> DEFINE ends == {k \in DOMAIN b : b[k].kind = "last"}
           s == b \o sc
<1>1. /\ Len(b) \in Nat \ {0} /\ DOMAIN b = 1 .. Len(b)
      /\ Len(sc) \in Nat /\ Len(s) = Len(b) + Len(sc) /\ DOMAIN s = 1 .. Len(s)
      /\ \A i \in 1 .. Len(b) : i \in DOMAIN s /\ s[i] = b[i]
      /\ \A i \in 1 .. Len(sc) : s[Len(b) + i] = sc[i]
      /\ s # <<>> /\ s[1] = b[1] /\ 1 \in DOMAIN b
  <2>1. /\ Len(b) \in Nat /\ Len(b) # 0 /\ DOMAIN b = 1 .. Len(b)
        /\ Len(sc) \in Nat /\ Len(s) = Len(b) + Len(sc) /\ DOMAIN s = 1 .. Len(s)
        /\ \A i \in 1 .. Len(b) : i \in DOMAIN s /\ s[i] = b[i]
        /\ \A i \in 1 .. Len(sc) : s[Len(b) + i] = sc[i]
    BY EmptySeq, StreamOf
  <2> HIDE DEF s
  <2>2. s # <<>> /\ 1 \in 1 .. Len(b)
    BY <2>1, EmptySeq
  <2> QED BY <2>1, <2>2
<1>0. \A j, k \in DOMAIN s : k = j + 1 => Goes(s[j], s[k])
  BY DEF Framed
<1>2. ASSUME NEW n \in DOMAIN b
      PROVE  /\ SubSeq(b, 1, n) \in Seq(Units) /\ Len(SubSeq(b, 1, n)) = n
             /\ DOMAIN SubSeq(b, 1, n) = 1 .. n
             /\ \A i \in 1 .. n : i \in DOMAIN b /\ SubSeq(b, 1, n)[i] = b[i]
  <2>1. n \in 0 .. Len(b)
    BY <1>1
  <2> QED BY <2>1, FirstUnits
<1>3. ASSUME NEW n \in DOMAIN b, b[n].kind = "last", \A j \in 1 .. n - 1 : b[j].kind # "last"
      PROVE  UpToLast(b) = SubSeq(b, 1, n)
  <2>1. ends \subseteq Nat /\ n \in ends
    BY <1>1, <1>3
  <2>2. \A j \in ends : n <= j
    BY <1>1, <1>3
  <2>3. FirstOf(ends) = n
    BY <2>1, <2>2, FirstOfIs
  <2> QED BY <2>1, <2>3 DEF UpToLast
<1>4. ASSUME NEW t \in Seq(Units)
      PROVE  /\ got \o t \in Seq(Units) /\ Len(got \o t) = Len(got) + Len(t)
             /\ \A i \in 1 .. Len(got) : (got \o t)[i] = got[i]
             /\ \A i \in 1 .. Len(t) : (got \o t)[Len(got) + i] = t[i]
  BY Joined
<1>5. /\ Len(got) \in 1 .. 2 /\ got[1].kind = "head"
      /\ Len(got) = 2 => got[2].kind = "data"
      /\ Len(got) = 1 => b[1].kind = "data" /\ b[1].framing = "chunked"
      /\ Len(got) = 2 => b[1].kind = "last"
  BY <1>1 DEF Underway
<1>6. CASE Len(got) = 1
  <2>1. b[1].kind = "data" /\ b[1].framing = "chunked" /\ got[1].kind = "head"
    BY <1>5, <1>6
  <2>2. CASE Len(b) = 1
    <3>1. ~ Ends(b)
      BY <1>1, <2>1, <2>2 DEF Ends
    <3>2. Len(got \o b) = 2 /\ (got \o b)[1].kind = "head" /\ (got \o b)[2].kind = "data"
      BY <1>4, <1>6, <2>1, <2>2
    <3>3. ASSUME sc = <<>> PROVE up # "open"
      <4>1. Len(sc) = 0
        BY <3>3, EmptySeq
      <4>2. s[Len(s)] = b[1]
        BY <1>1, <2>2, <4>1
      <4>3. Unfinished(s[Len(s)])
        BY <2>1, <4>2 DEF Unfinished
      <4> QED BY <1>1, <4>3 DEF Framed
    <3>4. ASSUME sc # <<>> PROVE sc[1].kind = "last"
      <4>1. 1 \in 1 .. Len(sc)
        BY <1>1, <3>4, EmptySeq
      <4>2. s[2] = sc[1] /\ 1 \in DOMAIN s /\ 2 \in DOMAIN s
        BY <1>1, <2>2, <4>1
      <4>3. Goes(s[1], s[2])
        <5>1. 2 = 1 + 1 => Goes(s[1], s[2])
          BY ZenonT(30), <1>0, <4>2
        <5>2. 2 = 1 + 1
          OBVIOUS
        <5> QED BY ZenonT(30), <5>1, <5>2
      <4> QED BY <1>1, <2>1, <4>2, <4>3 DEF Goes
    <3>5. Underway(got \o b, "chunked", sc, up)
      BY <3>2, <3>3, <3>4 DEF Underway
    <3> QED BY <3>1, <3>5
  <2>3. CASE Len(b) # 1
    <3>1. 2 \in DOMAIN b /\ 1 \in DOMAIN b
      BY <1>1, <2>3
    <3>2. b[2].kind = "last"
      <4>1. s[2] = b[2] /\ s[1] = b[1] /\ 1 \in DOMAIN s /\ 2 \in DOMAIN s
        BY <1>1, <3>1
      <4>2. Goes(s[1], s[2])
        <5>1. 2 = 1 + 1 => Goes(s[1], s[2])
          BY ZenonT(30), <1>0, <4>1
        <5>2. 2 = 1 + 1
          OBVIOUS
        <5> QED BY ZenonT(30), <5>1, <5>2
      <4> QED BY <2>1, <4>1, <4>2 DEF Goes
    <3>3. UpToLast(b) = SubSeq(b, 1, 2)
      <4>1. \A j \in 1 .. 2 - 1 : b[j].kind # "last"
        BY <2>1
      <4> QED BY <1>3, <3>1, <3>2, <4>1
    <3>4. Ends(b)
      BY <3>1, <3>2 DEF Ends
    <3>5. /\ Len(got \o UpToLast(b)) = 3 /\ got \o UpToLast(b) \in Seq(Units)
          /\ (got \o UpToLast(b))[1].kind = "head"
          /\ (got \o UpToLast(b))[2].kind = "data"
          /\ (got \o UpToLast(b))[3].kind = "last"
      <4> DEFINE t == UpToLast(b)
      <4>1. /\ t \in Seq(Units) /\ Len(t) = 2 /\ t[1] = b[1] /\ t[2] = b[2]
        BY <1>2, <3>1, <3>3
      <4> HIDE DEF t
      <4>2. /\ got \o t \in Seq(Units) /\ Len(got \o t) = 3
            /\ (got \o t)[1] = got[1]
            /\ (got \o t)[2] = t[1] /\ (got \o t)[3] = t[2]
        BY <1>6, <4>1, TwoBehindOne
      <4> QED BY <2>1, <3>2, <4>1, <4>2 DEF t
    <3>6. UpToLast(b) \in Seq(Units)
          /\ \A k \in DOMAIN UpToLast(b) : k \in DOMAIN b /\ UpToLast(b)[k] = b[k]
      BY <1>2, <3>1, <3>3
    <3>7. Complete(got \o UpToLast(b), "chunked")
      BY <3>5 DEF Complete
    <3> QED BY <3>4, <3>6, <3>7
  <2> QED BY <2>2, <2>3
<1>7. CASE Len(got) = 2
  <2>1. /\ b[1].kind = "last" /\ got[1].kind = "head" /\ got[2].kind = "data"
    BY <1>5, <1>7
  <2>2. 1 \in DOMAIN b /\ Ends(b)
    BY <1>1, <2>1 DEF Ends
  <2>3. UpToLast(b) = SubSeq(b, 1, 1)
    <3>1. \A j \in 1 .. 1 - 1 : b[j].kind # "last"
      OBVIOUS
    <3> QED BY <1>3, <2>1, <2>2, <3>1
  <2>4. /\ Len(got \o UpToLast(b)) = 3
        /\ (got \o UpToLast(b))[1].kind = "head"
        /\ (got \o UpToLast(b))[2].kind = "data"
        /\ (got \o UpToLast(b))[3].kind = "last"
    <3> DEFINE t == UpToLast(b)
    <3>1. /\ t \in Seq(Units) /\ Len(t) = 1 /\ t[1] = b[1]
      BY <1>2, <2>2, <2>3
    <3> HIDE DEF t
    <3>2. /\ Len(got \o t) = 3
          /\ (got \o t)[1] = got[1] /\ (got \o t)[2] = got[2]
          /\ (got \o t)[2 + 1] = t[1]
      <4>1. 1 \in 1 .. Len(got) /\ 2 \in 1 .. Len(got) /\ 1 \in 1 .. Len(t)
        BY <1>7, <3>1
      <4>2. /\ Len(got \o t) = Len(got) + Len(t)
            /\ (got \o t)[1] = got[1] /\ (got \o t)[2] = got[2]
            /\ (got \o t)[Len(got) + 1] = t[1]
        BY <1>4, <3>1, <4>1
      <4> QED BY <1>7, <3>1, <4>2
    <3> QED BY <2>1, <3>1, <3>2 DEF t
  <2>5. UpToLast(b) \in Seq(Units)
        /\ \A k \in DOMAIN UpToLast(b) : k \in DOMAIN b /\ UpToLast(b)[k] = b[k]
    BY <1>2, <2>2, <2>3
  <2>6. Complete(got \o UpToLast(b), "chunked")
    BY <2>4 DEF Complete
  <2> QED BY <2>2, <2>5, <2>6
<1> QED BY <1>5, <1>6, <1>7


-----------------------------------------------------------------------------
\* The steps of the proxy and its upstream, by what they do to who owns what.

\* The invariant's types are those of the model.
LEMMA Types ==
    TypeOK <=> /\ ex \in [Requests -> Exchange]
               /\ conn \in [Connections -> Connection]
               /\ misled \subseteq Requests
               /\ idle \in Seq(Connections) /\ Len(idle) <= MaxIdle
               /\ IsInjective(idle)
  BY DEF TypeOK, Exchange, Connection

\* NoConnection is no connection.
LEMMA NoConnectionIsNone == NoConnection \notin Connections
  BY DEF NoConnection, Connections

\* What was sent stays sent.
LEMMA KnownStays ==
    ASSUME NEW c \in Connection, NEW x, NEW y, Known(c, x),
           \A q \in Requests : x[q].sent # 0 => y[q].sent # 0
    PROVE  Known(c, y)
<1>1. ASSUME NEW k \in DOMAIN c.asked PROVE y[c.asked[k]].sent # 0
  <2>1. c.asked \in Seq(Requests)
    BY DEF Connection
  <2>2. c.asked[k] \in Requests
    BY <2>1, LenProperties, ElementOfSeq
  <2> QED BY <2>2 DEF Known
<1>2. ASSUME NEW k \in DOMAIN Stream(c) PROVE y[Stream(c)[k].of].sent # 0
  <2>1. Stream(c)[k].of \in Requests
    BY StreamIs DEF Units
  <2> QED BY <2>1 DEF Known
<1> QED BY <1>1, <1>2 DEF Known

\* A connection on which nothing is asked and nothing comes is fit for anything.
LEMMA EmptyStream ==
    ASSUME NEW c, c.buffer = <<>>, c.script = <<>>
    PROVE  /\ Stream(c) = <<>> /\ Sound(c) /\ NoneUnread(Stream(c))
           /\ c.asked = <<>> => \A x : Known(c, x)
<1>1. Stream(c) = <<>>
  BY EmptySeq, ConcatEmptySeq DEF Stream
<1>2. DOMAIN Stream(c) = {}
  BY <1>1
<1>3. c.asked = <<>> => DOMAIN c.asked = {}
  OBVIOUS
<1> QED BY <1>1, <1>2, <1>3 DEF Sound, Framed, NoneUnread, Known

\* One that was closed is such a one.
LEMMA ClosedIs ==
    /\ Closed \in Connection /\ Closed.state # "open"
    /\ Sound(Closed) /\ \A x : Known(Closed, x)
<1>1. /\ Closed \in Connection /\ Closed.state # "open"
      /\ Closed.buffer = <<>> /\ Closed.script = <<>> /\ Closed.asked = <<>>
  BY EmptySeq DEF Closed, Unmade, Connection
<1> QED BY <1>1, EmptyStream

\* The more are known to be misled, the less is promised.
LEMMA MisledMore ==
    ASSUME NEW e, NEW r, NEW c, NEW m, NEW n, m \subseteq n
    PROVE  /\ Serves(e, r, c, m) => Serves(e, r, c, n)
           /\ Given(e, r, m) => Given(e, r, n)
<1>1. r \notin n => r \notin m
  OBVIOUS
<1> QED BY <1>1 DEF Serves, Given

\* The upstream changes a connection that is open.
LEMMA UpstreamStep ==
    ASSUME IInv, NEW c \in Connections, NEW n \in Connection,
           NEW m \in SUBSET Requests, misled \subseteq m,
           conn[c].state = "open", n.state = "open",
           Sound(n), Known(n, ex),
           \A k \in DOMAIN idle : idle[k] = c => Rests(n),
           \A r \in Requests : ex[r].conn = c => Serves(ex[r], r, n, m),
           conn' = [conn EXCEPT ![c] = n], misled' = m, UNCHANGED <<ex, idle>>
    PROVE  IInv'
<1>1. /\ ex' = ex /\ idle' = idle
      /\ conn' \in [Connections -> Connection]
      /\ \A d \in Connections : conn'[d] = IF d = c THEN n ELSE conn[d]
  BY Types DEF IInv
<1>2. TypeOK'
  BY <1>1 DEF IInv, TypeOK, Exchange, Connection
<1>3. /\ \A r \in Requests : ex[r].conn \in Connections \cup {NoConnection}
      /\ \A k \in DOMAIN idle : idle[k] \in Connections
  BY Types, LenProperties, ElementOfSeq DEF IInv, Exchange
<1>4. Held'
  BY <1>1, <1>3 DEF IInv, Held
<1>5. Pool'
  BY <1>1, <1>3 DEF IInv, Pool
<1>6. NoneLost'
  BY <1>1 DEF IInv, NoneLost
<1>7. Tries'
  BY <1>1 DEF IInv, Tries
<1>8. Streams'
  BY <1>1 DEF IInv, Streams
<1>9. Serving'
  <2>1. ASSUME NEW r \in Requests, ex[r].conn # NoConnection
        PROVE  Serves(ex[r], r, conn'[ex[r].conn], m)
    <3>1. CASE ex[r].conn = c
      BY <1>1, <3>1
    <3>2. CASE ex[r].conn # c
      <4>1. conn'[ex[r].conn] = conn[ex[r].conn]
        BY <1>1, <1>3, <2>1, <3>2
      <4>2. Serves(ex[r], r, conn[ex[r].conn], misled)
        BY <2>1 DEF IInv, Serving
      <4> QED BY <4>1, <4>2, MisledMore
    <3> QED BY <3>1, <3>2
  <2> QED BY <1>1, <2>1 DEF Serving
<1>10. Parts'
  <2>1. ASSUME NEW r \in Requests PROVE Given(ex[r], r, m)
    BY MisledMore DEF IInv, Parts
  <2> QED BY <1>1, <2>1 DEF Parts
<1> QED BY <1>2, <1>4, <1>5, <1>6, <1>7, <1>8, <1>9, <1>10 DEF IInv

\* What gives nothing new to ask leaves what every connection brings known.
LEMMA StreamsKept ==
    ASSUME conn' \in [Connections -> Connection],
           \A d \in Connections : Sound(conn'[d]) /\ Known(conn'[d], ex),
           \A q \in Requests : ex[q].sent # 0 => ex'[q].sent # 0
    PROVE  Streams'
<1>1. ASSUME NEW d \in Connections PROVE Known(conn'[d], ex')
  BY KnownStays
<1> QED BY <1>1 DEF Streams

\* An exchange goes on with the connection it has.
LEMMA ExchangeStep ==
    ASSUME IInv, NEW r \in Requests, ex[r].conn # NoConnection,
           NEW e \in Exchange, e.conn = ex[r].conn, e.pc \in Holding,
           e.sent = ex[r].sent, Tried(e, r), Given(e, r, misled),
           NEW n \in Connection, n.state = "open", Sound(n), Known(n, ex),
           Serves(e, r, n, misled),
           ex' = [ex EXCEPT ![r] = e],
           conn' = [conn EXCEPT ![ex[r].conn] = n], UNCHANGED <<idle, misled>>
    PROVE  IInv'
<1> DEFINE c == ex[r].conn
<1>1. /\ \A q \in Requests : ex[q].conn \in Connections \cup {NoConnection}
      /\ \A k \in DOMAIN idle : idle[k] \in Connections
      /\ c \in Connections
  BY Types, LenProperties, ElementOfSeq DEF IInv, Exchange
<1>2. /\ idle' = idle
      /\ ex' \in [Requests -> Exchange]
      /\ \A q \in Requests : ex'[q] = IF q = r THEN e ELSE ex[q]
      /\ conn' \in [Connections -> Connection]
      /\ \A d \in Connections : conn'[d] = IF d = c THEN n ELSE conn[d]
  BY <1>1, Types DEF IInv
<1>3. \A q \in Requests : ex'[q].conn = ex[q].conn /\ ex'[q].sent = ex[q].sent
  BY <1>2
<1> HIDE DEF c
<1>4. TypeOK'
  BY <1>2 DEF IInv, TypeOK, Exchange, Connection
<1>5. Held'
  <2>1. conn[c].state = "open" /\ ex[r].conn = c
    BY DEF IInv, Held, c
  <2> QED BY <1>1, <1>2, <1>3, <2>1, NoConnectionIsNone DEF IInv, Held
<1>6. Pool'
  <2>1. \A k \in DOMAIN idle : idle[k] # c
    BY DEF IInv, Pool, c
  <2> QED BY <1>1, <1>2, <1>3, <2>1 DEF IInv, Pool
<1>7. NoneLost'
  <2>1. \A d \in Connections : conn'[d].state = "open" => conn[d].state = "open" \/ d = ex[r].conn
    BY <1>2 DEF c
  <2> QED BY <1>2, <1>3, <2>1 DEF IInv, NoneLost
<1>8. Tries'
  BY <1>2 DEF IInv, Tries
<1>9. Streams'
  <2>1. ASSUME NEW d \in Connections PROVE Sound(conn'[d]) /\ Known(conn'[d], ex)
    BY <1>2 DEF IInv, Streams
  <2>2. \A q \in Requests : ex[q].sent # 0 => ex'[q].sent # 0
    BY <1>3
  <2> QED BY <1>2, <2>1, <2>2, StreamsKept
<1>10. Serving'
  <2>1. \A q \in Requests : q # r /\ ex[q].conn # NoConnection => ex[q].conn # c
    BY DEF IInv, Held, c
  <2>2. conn'[c] = n /\ ex'[r] = e /\ ex'[r].conn = c
    BY <1>1, <1>2 DEF c
  <2>3. ASSUME NEW q \in Requests, ex'[q].conn # NoConnection
        PROVE  Serves(ex'[q], q, conn'[ex'[q].conn], misled)
    <3>1. CASE q = r
      BY <2>2, <3>1
    <3>2. CASE q # r
      <4>1. ex'[q] = ex[q] /\ conn'[ex[q].conn] = conn[ex[q].conn]
        BY <1>1, <1>2, <2>1, <2>3, <3>2
      <4> QED BY <2>3, <4>1 DEF IInv, Serving
    <3> QED BY <3>1, <3>2
  <2> QED BY <2>3 DEF Serving
<1>11. Parts'
  BY <1>2 DEF IInv, Parts
<1> QED BY <1>4, <1>5, <1>6, <1>7, <1>8, <1>9, <1>10, <1>11 DEF IInv

\* Connections that are closed do so too.
LEMMA StreamsStay ==
    ASSUME IInv, conn' \in [Connections -> Connection],
           \A d \in Connections : conn'[d] = conn[d] \/ conn'[d] = Closed,
           \A q \in Requests : ex[q].sent # 0 => ex'[q].sent # 0
    PROVE  Streams'
<1>1. ASSUME NEW d \in Connections PROVE Sound(conn'[d]) /\ Known(conn'[d], ex)
  BY ClosedIs DEF IInv, Streams
<1> QED BY <1>1, StreamsKept

\* An exchange gives its connection up, if it has one, to the pool or for good.
LEMMA GivesUp ==
    ASSUME IInv, NEW r \in Requests, NEW reusable \in BOOLEAN,
           Release(ex[r].conn, reusable),
           reusable /\ ex[r].conn # NoConnection => Rests(conn[ex[r].conn]),
           NEW e \in Exchange, e.conn = NoConnection, e.pc \notin Holding,
           e.sent = ex[r].sent, Tried(e, r), Given(e, r, misled),
           ex' = [ex EXCEPT ![r] = e], UNCHANGED misled
    PROVE  IInv'
<1> DEFINE c == ex[r].conn
<1>1. /\ \A q \in Requests : ex[q].conn \in Connections \cup {NoConnection}
      /\ \A k \in DOMAIN idle : idle[k] \in Connections
      /\ idle \in Seq(Connections) /\ Len(idle) \in Nat /\ DOMAIN idle = 1 .. Len(idle)
      /\ Len(idle) <= MaxIdle
      /\ \A j, k \in DOMAIN idle : idle[j] = idle[k] => j = k
      /\ conn \in [Connections -> Connection]
  BY Types, LenProperties, ElementOfSeq DEF IInv, Exchange, IsInjective
<1>2. /\ ex' \in [Requests -> Exchange]
      /\ \A q \in Requests : ex'[q] = IF q = r THEN e ELSE ex[q]
      /\ \A q \in Requests : ex[q].sent # 0 => ex'[q].sent # 0
  BY Types DEF IInv
<1>3. Tries' /\ Parts'
  BY <1>2 DEF IInv, Tries, Parts
<1>4. /\ \A q \in Requests : q # r /\ ex[q].conn # NoConnection => ex[q].conn # c
      /\ c # NoConnection => conn[c].state = "open" /\ c \in Connections
      /\ c # NoConnection => \A k \in DOMAIN idle : idle[k] # c
  BY <1>1 DEF IInv, Held, Pool
<1>5. CASE c = NoConnection
  <2>1. conn' = conn /\ idle' = idle
    BY <1>5 DEF Release
  <2>2. TypeOK'
    BY <1>2, <2>1 DEF IInv, TypeOK, Exchange, Connection
  <2>3. Held'
    BY <1>2, <2>1 DEF IInv, Held
  <2>4. Pool'
    BY <1>1, <1>2, <2>1, NoConnectionIsNone DEF IInv, Pool
  <2>5. NoneLost'
    <3>1. ASSUME NEW d \in Connections, NEW q \in Requests, ex[q].conn = d
          PROVE  ex'[q].conn = d
      BY <1>2, <1>5, <3>1, NoConnectionIsNone
    <3> QED BY <2>1, <3>1 DEF IInv, NoneLost
  <2>6. Streams'
    BY <1>1, <1>2, <2>1, StreamsStay
  <2>7. Serving'
    BY <1>2, <2>1 DEF IInv, Serving
  <2> QED BY <1>3, <2>2, <2>3, <2>4, <2>5, <2>6, <2>7 DEF IInv
<1>6. CASE c # NoConnection /\ reusable /\ Reusable(c) /\ Len(idle) < MaxIdle
  <2>1. conn' = conn /\ idle' = Append(idle, c)
    BY <1>6 DEF Release
  <2>2. /\ idle' \in Seq(Connections) /\ Len(idle') = Len(idle) + 1
        /\ \A k \in 1 .. Len(idle) : idle'[k] = idle[k]
        /\ idle'[Len(idle) + 1] = c
        /\ DOMAIN idle' = 1 .. Len(idle) + 1
    BY <1>1, <1>4, <1>6, <2>1, AppendProperties, LenProperties
  <2>3. ASSUME NEW k \in DOMAIN idle'
        PROVE  \/ k \in DOMAIN idle /\ idle'[k] = idle[k]
               \/ k = Len(idle) + 1 /\ idle'[k] = c
    BY <1>1, <2>2
  <2>4. TypeOK'
    <3>1. IsInjective(idle')
      BY <1>1, <1>4, <1>6, <2>2, <2>3 DEF IsInjective
    <3>2. Len(idle') <= MaxIdle
      BY <1>1, <1>6, <2>2, ProxyAssumption
    <3> QED BY <1>2, <2>1, <2>2, <3>1, <3>2 DEF IInv, TypeOK, Exchange, Connection
  <2>5. Held'
    BY <1>2, <2>1 DEF IInv, Held
  <2>6. Pool'
    <3>1. ASSUME NEW k \in DOMAIN idle, NEW q \in Requests
          PROVE  ex'[q].conn # idle[k]
      BY <1>1, <1>2, NoConnectionIsNone DEF IInv, Pool
    <3>2. ASSUME NEW q \in Requests PROVE ex'[q].conn # c
      BY <1>2, <1>4, <1>6
    <3>3. Rests(conn[c])
      BY <1>6
    <3>4. ASSUME NEW k \in DOMAIN idle' PROVE Rests(conn[idle'[k]])
      BY <2>3, <3>3 DEF IInv, Pool
    <3>5. ASSUME NEW k \in DOMAIN idle', NEW q \in Requests PROVE ex'[q].conn # idle'[k]
      BY <2>3, <3>1, <3>2
    <3> QED BY <2>1, <3>4, <3>5 DEF Pool
  <2>7. NoneLost'
    <3>1. ASSUME NEW d \in Connections, NEW q \in Requests, ex[q].conn = d, d # c
          PROVE  ex'[q].conn = d
      BY <1>2, <3>1
    <3>2. Len(idle) + 1 \in DOMAIN idle'
      BY <1>1, <2>2
    <3>3. \A k \in DOMAIN idle : k \in DOMAIN idle' /\ idle'[k] = idle[k]
      BY <1>1, <2>2
    <3> QED BY <2>1, <2>2, <3>1, <3>2, <3>3 DEF IInv, NoneLost
  <2>8. Streams'
    BY <1>1, <1>2, <2>1, StreamsStay
  <2>9. Serving'
    BY <1>2, <2>1 DEF IInv, Serving
  <2> QED BY <1>3, <2>4, <2>5, <2>6, <2>7, <2>8, <2>9 DEF IInv
<1>7. CASE c # NoConnection /\ ~ (reusable /\ Reusable(c) /\ Len(idle) < MaxIdle)
  <2>1. conn' = ClosedAll({c}) /\ idle' = idle
    BY <1>7 DEF Release
  <2>2. /\ conn' \in [Connections -> Connection]
        /\ \A d \in Connections : conn'[d] = IF d = c THEN Closed ELSE conn[d]
    BY <2>1, ClosedIs, Types DEF ClosedAll, IInv
  <2>3. Closed.state # "open"
    BY ClosedIs
  <2>4. TypeOK'
    BY <1>2, <2>1, <2>2 DEF IInv, TypeOK, Exchange, Connection
  <2> HIDE DEF c
  <2>5. Held'
    BY <1>1, <1>2, <1>4, <2>2 DEF IInv, Held
  <2>6. Pool'
    <3>1. ASSUME NEW k \in DOMAIN idle, NEW q \in Requests
          PROVE  ex'[q].conn # idle[k]
      BY <1>1, <1>2, NoConnectionIsNone DEF IInv, Pool
    <3>2. \A k \in DOMAIN idle : conn'[idle[k]] = conn[idle[k]]
      BY <1>1, <1>4, <1>7, <2>2
    <3>3. ASSUME NEW k \in DOMAIN idle PROVE Rests(conn'[idle[k]])
      BY <3>2 DEF IInv, Pool
    <3> QED BY <2>1, <3>1, <3>3 DEF Pool
  <2>7. NoneLost'
    <3>1. ASSUME NEW d \in Connections, NEW q \in Requests, ex[q].conn = d, d # c
          PROVE  ex'[q].conn = d
      BY <1>2, <3>1 DEF c
    <3> QED BY <2>1, <2>2, <2>3, <3>1 DEF IInv, NoneLost
  <2>8. Streams'
    BY <1>2, <2>2, StreamsStay
  <2>9. Serving'
    <3>1. ASSUME NEW q \in Requests, ex'[q].conn # NoConnection
          PROVE  Serves(ex'[q], q, conn'[ex'[q].conn], misled)
      <4>1. q # r /\ ex'[q] = ex[q]
        BY <1>2, <3>1
      <4>2. conn'[ex[q].conn] = conn[ex[q].conn]
        BY <1>1, <1>4, <2>2, <3>1, <4>1
      <4> QED BY <3>1, <4>1, <4>2 DEF IInv, Serving
    <3> QED BY <3>1 DEF Serving
  <2> QED BY <1>3, <2>4, <2>5, <2>6, <2>7, <2>8, <2>9 DEF IInv
<1> QED BY <1>5, <1>6, <1>7

\* The pool is emptied: nobody's connection is in it.
LEMMA PoolEmptied ==
    ASSUME IInv, conn' = ClosedAll(ToSet(idle)), idle' = <<>>, UNCHANGED misled,
           ex' \in [Requests -> Exchange],
           \A q \in Requests :
               /\ ex'[q].conn = ex[q].conn /\ ex'[q].sent = ex[q].sent
               /\ ex'[q].pc \in Holding <=> ex[q].pc \in Holding
               /\ ex[q].conn # NoConnection => ex'[q] = ex[q]
               /\ Tried(ex'[q], q) /\ Given(ex'[q], q, misled)
    PROVE  IInv'
<1>1. /\ \A q \in Requests : ex[q].conn \in Connections \cup {NoConnection}
      /\ \A k \in DOMAIN idle : idle[k] \in Connections
  BY Types, LenProperties, ElementOfSeq DEF IInv, Exchange
<1>2. /\ conn' \in [Connections -> Connection]
      /\ \A d \in Connections :
            conn'[d] = IF \E k \in DOMAIN idle : idle[k] = d THEN Closed ELSE conn[d]
  BY ClosedIs, Types DEF ClosedAll, ToSet, IInv
<1>3. Closed.state # "open"
  BY ClosedIs
<1>4. TypeOK'
  <2>1. idle' \in Seq(Connections) /\ Len(idle') <= MaxIdle /\ IsInjective(idle')
    BY EmptySeq, ProxyAssumption DEF IsInjective
  <2>2. misled' \subseteq Requests
    BY Types DEF IInv
  <2> QED BY <1>2, <2>1, <2>2 DEF TypeOK, Exchange, Connection
<1>5. \A q \in Requests : ex[q].conn # NoConnection => conn'[ex[q].conn] = conn[ex[q].conn]
  BY <1>1, <1>2 DEF IInv, Pool
<1>6. Held'
  BY <1>5 DEF IInv, Held
<1>7. Pool'
  BY EmptySeq DEF Pool
<1>8. NoneLost'
  <2>1. ASSUME NEW d \in Connections, conn'[d].state = "open"
        PROVE  \E q \in Requests : ex'[q].conn = d
    BY <1>2, <1>3, <2>1 DEF IInv, NoneLost
  <2> QED BY <2>1 DEF NoneLost
<1>9. Streams'
  BY <1>2, StreamsStay
<1>10. Serving'
  BY <1>5 DEF IInv, Serving
<1>11. Tries' /\ Parts'
  BY DEF Tries, Parts
<1> QED BY <1>4, <1>6, <1>7, <1>8, <1>9, <1>10, <1>11 DEF IInv

\* The connections of the pool that are left when its first n entries have expired.
LEMMA ExpireProperties ==
    ASSUME idle \in Seq(Connections), NEW n \in 0 .. Len(idle)
    PROVE  /\ Expire(n) \in Seq(Connections)
           /\ Len(Expire(n)) = Len(idle) - n
           /\ DOMAIN Expire(n) = 1 .. Len(idle) - n
           /\ \A j \in 1 .. Len(idle) - n : Expire(n)[j] = idle[n + j]
<1>1. Len(idle) \in Nat /\ DOMAIN idle = 1 .. Len(idle)
  BY LenProperties
<1>2. n + 1 \in Int /\ Len(idle) \in Int /\ \A i \in n + 1 .. Len(idle) : idle[i] \in Connections
  BY <1>1, ElementOfSeq
<1>3. /\ Expire(n) \in Seq(Connections)
      /\ Len(Expire(n)) = IF n + 1 <= Len(idle) THEN Len(idle) - (n + 1) + 1 ELSE 0
      /\ \A i \in 1 .. Len(idle) - (n + 1) + 1 : Expire(n)[i] = idle[n + 1 + i - 1]
  BY <1>2, SubSeqProperties DEF Expire
<1>4. Len(Expire(n)) = Len(idle) - n
  BY <1>1, <1>3
<1>5. ASSUME NEW j \in 1 .. Len(idle) - n PROVE Expire(n)[j] = idle[n + j]
  <2>1. j \in 1 .. Len(idle) - (n + 1) + 1 /\ n + 1 + j - 1 = n + j
    BY <1>1
  <2> QED BY <1>3, <2>1
<1> QED BY <1>3, <1>4, <1>5, LenProperties

\* The request is written: what its exchange is then.
LEMMA WritesExchange ==
    ASSUME IInv, NEW r \in Requests, ex[r].pc \in {"new", "connecting"},
           NEW c \in Connections, NEW reused \in BOOLEAN, Writes(r, c, reused)
    PROVE  /\ ex' \in [Requests -> Exchange]
           /\ \A q \in Requests : q # r => ex'[q] = ex[q]
           /\ ex'[r].conn = c /\ ex'[r].pc \in {"body", "head"}
           /\ ex'[r].sent = ex[r].sent + 1 /\ ex[r].sent = ex[r].attempt
           /\ ex'[r].sent # 0
           /\ \A q \in Requests : ex[q].sent # 0 => ex'[q].sent # 0
           /\ Tried(ex'[r], r) /\ Given(ex'[r], r, misled)
           /\ ex[r].conn = NoConnection
<1> DEFINE pc == IF r \in WithBody THEN "body" ELSE "head"
           e == [ex[r] EXCEPT !.pc = pc, !.conn = c, !.reused = reused, !.sent = @ + 1]
<1>1. ex[r] \in Exchange /\ ex \in [Requests -> Exchange]
  BY Types DEF IInv
<1>2. ex' = [ex EXCEPT ![r] = e]
  BY <1>1 DEF Writes, Exchange
<1>3. Tried(ex[r], r) /\ Given(ex[r], r, misled) /\ ex[r].conn = NoConnection
  BY DEF IInv, Tries, Parts, Held, Holding
<1>4. ex[r].sent = ex[r].attempt /\ ex[r].attempt \in 0 .. 1
  BY <1>1, <1>3 DEF Tried, Exchange
<1>5. /\ e \in Exchange /\ e.conn = c /\ e.pc = pc /\ pc \in {"body", "head"}
      /\ e.sent = ex[r].sent + 1 /\ e.attempt = ex[r].attempt
      /\ e.got = ex[r].got /\ e.result = ex[r].result
  <2>1. pc \in {"body", "head"} /\ ex[r].sent + 1 \in 0 .. 2
    BY <1>4
  <2> HIDE DEF pc
  <2>2. e \in Exchange
    BY <1>1, <2>1 DEF Exchange
  <2> QED BY <1>1, <2>1 DEF Exchange
<1>6. Tried(e, r)
  BY <1>3, <1>4, <1>5 DEF Tried, Holding
<1>7. Given(e, r, misled)
  BY <1>3, <1>5, EmptySeq DEF Given
<1>8. ex'[r] = e /\ \A q \in Requests : q # r => ex'[q] = ex[q]
  BY <1>1, <1>2
<1> HIDE DEF e
<1>9. e.sent # 0 /\ \A q \in Requests : ex[q].sent # 0 => ex'[q].sent # 0
  <2>1. e.sent # 0
    BY <1>4, <1>5
  <2> QED BY <1>8, <2>1
<1> QED BY <1>1, <1>2, <1>3, <1>4, <1>5, <1>6, <1>7, <1>8, <1>9

\* A connection that brings nothing of the request it is asked, and no body that was
\* only announced, serves it.
LEMMA ServesAsked ==
    ASSUME NEW r \in Requests, NEW e, e.pc \in {"body", "head"}, NEW m,
           NEW c, c.buffer = <<>>,
           ~ c.stray => /\ c.asked = <<r>> /\ NoneUnread(Stream(c))
                        /\ \A k \in DOMAIN Stream(c) : Stream(c)[k].of # r
    PROVE  Serves(e, r, c, m)
<1>1. DOMAIN c.buffer = {}
  OBVIOUS
<1>2. ASSUME ~ c.stray PROVE Straight(e, r, c)
  BY <1>1, <1>2 DEF Straight, NoneUnread
<1> QED BY <1>2 DEF Serves

\* An idle connection that is taken from the pool holds nothing of an earlier answer.
LEMMA TakePooledStep ==
    ASSUME IInv, NEW r \in Requests, ex[r].pc = "new", ex[r].attempt = 0,
           UNCHANGED misled,
           NEW n \in 0 .. Len(idle), TakePooled(r, n)
    PROVE  IInv'
<1> DEFINE pool == Expire(n)
           k == FirstOf(Pooled(pool))
           p == n + k
           c == pool[k]
           asked == [conn[c] EXCEPT !.asked = Append(conn[c].asked, r)]
<1>1. /\ idle \in Seq(Connections) /\ Len(idle) \in Nat /\ DOMAIN idle = 1 .. Len(idle)
      /\ Len(idle) <= MaxIdle
      /\ \A i, j \in DOMAIN idle : idle[i] = idle[j] => i = j
      /\ \A q \in Requests : ex[q].conn \in Connections \cup {NoConnection}
      /\ \A i \in DOMAIN idle : idle[i] \in Connections
  BY Types, LenProperties, ElementOfSeq DEF IInv, Exchange, IsInjective
<1>2. /\ pool \in Seq(Connections) /\ Len(pool) = Len(idle) - n
      /\ DOMAIN pool = 1 .. Len(idle) - n
      /\ \A j \in 1 .. Len(idle) - n : pool[j] = idle[n + j]
  BY <1>1, ExpireProperties
<1>3. k \in DOMAIN pool /\ Reusable(c)
  <2>1. Pooled(pool) \subseteq Nat /\ Pooled(pool) # {}
    <3>1. Pooled(pool) # {}
      BY DEF TakePooled
    <3>2. Pooled(pool) \subseteq DOMAIN pool
      BY DEF Pooled
    <3> HIDE DEF pool
    <3> QED BY <1>1, <1>2, <3>1, <3>2
  <2>2. k \in Pooled(pool)
    BY <2>1, LeastNatural, FirstOfIs
  <2> QED BY <2>2 DEF Pooled
<1>4. p \in 1 .. Len(idle) /\ c = idle[p] /\ c \in Connections
  BY <1>1, <1>2, <1>3
<1>5. k \in Nat /\ p = n + k /\ n \in Nat
  BY <1>1, <1>2, <1>3
<1>6. /\ idle' = SubSeq(pool, k + 1, Len(pool))
      /\ conn' = [ClosedAll(ToSet(SubSeq(idle, 1, p - 1))) EXCEPT ![c].asked = Append(@, r)]
      /\ Writes(r, c, TRUE)
  <2>1. idle' = SubSeq(pool, k + 1, Len(pool))
    BY DEF TakePooled
  <2>2. Writes(r, c, TRUE)
    BY DEF TakePooled
  <2>3. conn' = [ClosedAll(ToSet(SubSeq(idle, 1, n + k - 1))) EXCEPT ![c].asked = Append(@, r)]
    BY DEF TakePooled
  <2>4. n + k - 1 = p - 1
    BY <1>5
  <2> HIDE DEF pool, k, p, c
  <2> QED BY <2>1, <2>2, <2>3, <2>4
<1> HIDE DEF pool, k, p, c, asked
<1>7. /\ idle' \in Seq(Connections) /\ Len(idle') = Len(idle) - p
      /\ DOMAIN idle' = 1 .. Len(idle) - p
      /\ \A j \in 1 .. Len(idle) - p : idle'[j] = idle[p + j]
  <2>1. /\ k + 1 \in Int /\ Len(pool) \in Int
        /\ \A i \in k + 1 .. Len(pool) : pool[i] \in Connections
    BY <1>1, <1>2, <1>5, ElementOfSeq
  <2>2. /\ idle' \in Seq(Connections)
        /\ Len(idle') = IF k + 1 <= Len(pool) THEN Len(pool) - (k + 1) + 1 ELSE 0
        /\ \A i \in 1 .. Len(pool) - (k + 1) + 1 : idle'[i] = pool[k + 1 + i - 1]
    BY <1>6, <2>1, SubSeqProperties
  <2>3. Len(idle') = Len(idle) - p
    BY <1>1, <1>2, <1>3, <1>5, <2>2
  <2>4. ASSUME NEW j \in 1 .. Len(idle) - p PROVE idle'[j] = idle[p + j]
    <3>1. j \in 1 .. Len(pool) - (k + 1) + 1 /\ k + 1 + j - 1 = k + j
      BY <1>1, <1>2, <1>5
    <3>2. idle'[j] = pool[k + j]
      BY <2>2, <3>1
    <3>3. k + j \in 1 .. Len(idle) - n /\ n + (k + j) = p + j
      BY <1>1, <1>5
    <3> QED BY <1>2, <3>2, <3>3
  <2> QED BY <2>2, <2>3, <2>4, LenProperties
<1>8. ToSet(SubSeq(idle, 1, p - 1)) = {idle[j] : j \in 1 .. p - 1}
  <2>1. /\ 1 \in Int /\ p - 1 \in Int /\ \A i \in 1 .. p - 1 : idle[i] \in Connections
    BY <1>1, <1>4
  <2>2. /\ SubSeq(idle, 1, p - 1) \in Seq(Connections)
        /\ Len(SubSeq(idle, 1, p - 1)) = IF 1 <= p - 1 THEN p - 1 - 1 + 1 ELSE 0
        /\ \A i \in 1 .. p - 1 - 1 + 1 : SubSeq(idle, 1, p - 1)[i] = idle[1 + i - 1]
    BY <2>1, SubSeqProperties
  <2>3. DOMAIN SubSeq(idle, 1, p - 1) = 1 .. p - 1
    BY <1>4, <2>2, LenProperties
  <2>4. \A i \in 1 .. p - 1 : SubSeq(idle, 1, p - 1)[i] = idle[i]
    <3> TAKE i \in 1 .. p - 1
    <3>1. i \in 1 .. p - 1 - 1 + 1 /\ 1 + i - 1 = i
      BY <1>1, <1>4
    <3> QED BY <2>2, <3>1
  <2> QED BY <2>3, <2>4 DEF ToSet
<1>9. /\ conn' \in [Connections -> Connection] /\ asked \in Connection
      /\ conn'[c] = asked
      /\ \A j \in 1 .. p - 1 : conn'[idle[j]] = Closed
      /\ \A d \in Connections : d # c /\ (\A j \in 1 .. p - 1 : d # idle[j]) => conn'[d] = conn[d]
      /\ \A d \in Connections : d # c => conn'[d] = Closed \/ conn'[d] = conn[d]
  <2>1. asked \in Connection
    <3>1. conn[c] \in Connection
      BY <1>4, Types DEF IInv
    <3>2. Append(conn[c].asked, r) \in Seq(Requests)
      BY <3>1, AppendProperties DEF Connection
    <3> QED BY <3>1, <3>2 DEF Connection, asked
  <2>2. \A j \in 1 .. p - 1 : idle[j] # c /\ idle[j] \in Connections
    BY <1>1, <1>4
  <2>3. conn' = [d \in Connections |->
                    IF d = c THEN asked
                    ELSE IF \E j \in 1 .. p - 1 : idle[j] = d THEN Closed ELSE conn[d]]
    <3> DEFINE gone == {idle[j] : j \in 1 .. p - 1}
    <3>1. ClosedAll(gone) = [d \in Connections |-> IF d \in gone THEN Closed ELSE conn[d]]
      BY DEF ClosedAll
    <3>2. c \notin gone /\ \A d : d \in gone <=> \E j \in 1 .. p - 1 : idle[j] = d
      BY <2>2
    <3>3. conn' = [ClosedAll(gone) EXCEPT ![c].asked = Append(@, r)]
      BY <1>6, <1>8
    <3> HIDE DEF gone
    <3>4. conn' = [d \in Connections |->
                     IF d = c THEN [conn[c] EXCEPT !.asked = Append(@, r)]
                     ELSE IF d \in gone THEN Closed ELSE conn[d]]
      BY <1>4, <3>1, <3>2, <3>3
    <3> QED BY <3>2, <3>4 DEF asked
  <2> HIDE DEF asked
  <2> QED BY <1>4, <2>1, <2>2, <2>3, ClosedIs, Types DEF IInv
<1>10. /\ ex' \in [Requests -> Exchange]
       /\ \A q \in Requests : q # r => ex'[q] = ex[q]
       /\ ex'[r].conn = c /\ ex'[r].pc \in {"body", "head"}
       /\ Tried(ex'[r], r) /\ Given(ex'[r], r, misled)
       /\ ex[r].conn = NoConnection /\ ex[r].sent = 0 /\ ex'[r].sent = 1
       /\ \A q \in Requests : ex[q].sent # 0 => ex'[q].sent # 0
  <2>1. /\ ex' \in [Requests -> Exchange]
        /\ \A q \in Requests : q # r => ex'[q] = ex[q]
        /\ ex'[r].conn = c /\ ex'[r].pc \in {"body", "head"}
        /\ ex'[r].sent = ex[r].sent + 1 /\ ex[r].sent = ex[r].attempt
        /\ \A q \in Requests : ex[q].sent # 0 => ex'[q].sent # 0
        /\ Tried(ex'[r], r) /\ Given(ex'[r], r, misled)
        /\ ex[r].conn = NoConnection
    BY <1>4, <1>6, WritesExchange
  <2>2. ex[r].sent = 0 /\ ex'[r].sent = 1
    BY <2>1
  <2> QED BY <2>1, <2>2
<1>11. /\ conn[c].state = "open" /\ conn[c].buffer = <<>> /\ Rests(conn[c])
       /\ \A q \in Requests : \A i \in DOMAIN idle : ex[q].conn # idle[i]
       /\ c # NoConnection /\ conn[c] \in Connection
       /\ Sound(conn[c]) /\ Known(conn[c], ex)
  <2>1. conn[c].buffer = <<>>
    BY <1>3 DEF Reusable
  <2>2. Rests(conn[c]) /\ conn[c].state = "open"
    BY <1>1, <1>4 DEF IInv, Pool, Rests
  <2>3. Sound(conn[c]) /\ Known(conn[c], ex)
    BY <1>4 DEF IInv, Streams
  <2> QED BY <1>1, <1>4, <2>1, <2>2, <2>3, NoConnectionIsNone, Types DEF IInv, Pool
<1>12. \A q \in Requests : q # r /\ ex[q].conn # NoConnection =>
           ex[q].conn # c /\ conn'[ex[q].conn] = conn[ex[q].conn]
  <2> TAKE q \in Requests
  <2> HAVE q # r /\ ex[q].conn # NoConnection
  <2>1. ex[q].conn \in Connections /\ ex[q].conn # c
    BY <1>1, <1>4, <1>11
  <2>2. \A j \in 1 .. p - 1 : j \in DOMAIN idle
    BY <1>1, <1>4
  <2>3. \A j \in 1 .. p - 1 : ex[q].conn # idle[j]
    BY <1>11, <2>2
  <2> QED BY <1>9, <2>1, <2>3
<1>13. /\ asked.state = "open" /\ asked.asked = Append(conn[c].asked, r)
       /\ asked.buffer = <<>> /\ asked.script = conn[c].script /\ asked.up = conn[c].up
       /\ asked.stray = conn[c].stray
       /\ Stream(asked) = Stream(conn[c])
  <2>1. /\ asked.state = "open" /\ asked.asked = Append(conn[c].asked, r)
        /\ asked.buffer = conn[c].buffer /\ asked.script = conn[c].script
        /\ asked.up = conn[c].up /\ asked.stray = conn[c].stray
    BY <1>11 DEF Connection, asked
  <2> QED BY <1>11, <2>1 DEF Stream
<1>14. TypeOK'
  <2>1. Len(idle') <= MaxIdle
    BY <1>1, <1>4, <1>7, ProxyAssumption
  <2>2. IsInjective(idle')
    <3>1. ASSUME NEW i \in DOMAIN idle', NEW j \in DOMAIN idle', idle'[i] = idle'[j]
          PROVE  i = j
      <4>1. p + i \in DOMAIN idle /\ p + j \in DOMAIN idle /\ idle[p + i] = idle[p + j]
        BY <1>1, <1>4, <1>7, <3>1
      <4>2. p + i = p + j
        BY <1>1, <4>1
      <4> QED BY <1>4, <1>7, <4>2
    <3> QED BY <3>1 DEF IsInjective
  <2> QED BY <1>7, <1>9, <1>10, <2>1, <2>2, Types DEF IInv, TypeOK, Exchange, Connection
<1>15. Held'
  <2>1. ASSUME NEW q \in Requests
        PROVE  /\ ex'[q].pc \in Holding <=> ex'[q].conn # NoConnection
               /\ ex'[q].conn # NoConnection => conn'[ex'[q].conn].state = "open"
    BY <1>9, <1>10, <1>11, <1>12, <1>13 DEF IInv, Held, Holding
  <2>2. ASSUME NEW q \in Requests, NEW s \in Requests,
               ex'[q].conn # NoConnection, ex'[s].conn = ex'[q].conn
        PROVE  s = q
    BY <1>10, <1>11, <1>12, <2>2 DEF IInv, Held
  <2> QED BY <2>1, <2>2 DEF Held
<1>16. Pool'
  <2>1. ASSUME NEW j \in DOMAIN idle'
        PROVE  /\ Rests(conn'[idle'[j]])
               /\ \A q \in Requests : ex'[q].conn # idle'[j]
    <3>1. p + j \in DOMAIN idle /\ idle'[j] = idle[p + j] /\ p + j # p
      BY <1>1, <1>4, <1>7
    <3>2. idle[p + j] # c /\ \A i \in 1 .. p - 1 : i \in DOMAIN idle /\ i # p + j
      <4>1. p \in DOMAIN idle /\ c = idle[p]
        BY <1>1, <1>4
      <4>2. idle[p + j] # c
        BY <1>1, <3>1, <4>1
      <4>3. \A i \in 1 .. p - 1 : i \in DOMAIN idle /\ i # p + j
        BY <1>1, <1>4, <1>7
      <4> QED BY <4>2, <4>3
    <3>3. conn'[idle[p + j]] = conn[idle[p + j]]
      BY <1>1, <1>9, <3>1, <3>2
    <3>4. \A q \in Requests : ex'[q].conn # idle[p + j]
      BY <1>10, <1>11, <3>1, <3>2
    <3> QED BY <3>1, <3>3, <3>4 DEF IInv, Pool
  <2> QED BY <2>1 DEF Pool
<1>17. NoneLost'
  <2>1. ASSUME NEW d \in Connections, conn'[d].state = "open"
        PROVE  \/ \E q \in Requests : ex'[q].conn = d
               \/ \E j \in DOMAIN idle' : idle'[j] = d
    <3>1. CASE d = c
      BY <1>10, <3>1
    <3>2. CASE d # c
      <4>1. \A j \in 1 .. p - 1 : d # idle[j]
        BY <1>9, <2>1, ClosedIs
      <4>2. conn[d].state = "open"
        BY <1>9, <2>1, <3>2, <4>1
      <4>3. CASE \E q \in Requests : ex[q].conn = d
        BY <1>10, <4>3, NoConnectionIsNone
      <4>4. ASSUME NEW i \in DOMAIN idle, idle[i] = d PROVE \E j \in DOMAIN idle' : idle'[j] = d
        <5>1. i \in Nat /\ i > p /\ i <= Len(idle)
          BY <1>1, <1>4, <3>2, <4>1, <4>4
        <5>2. i - p \in DOMAIN idle' /\ p + (i - p) = i
          BY <1>1, <1>4, <1>7, <5>1
        <5> QED BY <1>7, <4>4, <5>2
      <4> QED BY <4>2, <4>3, <4>4 DEF IInv, NoneLost
    <3> QED BY <3>1, <3>2
  <2> QED BY <2>1 DEF NoneLost
<1>18. Streams'
  <2>1. ASSUME NEW d \in Connections, d # c PROVE Sound(conn'[d]) /\ Known(conn'[d], ex')
    <3>1. Sound(conn'[d]) /\ Known(conn'[d], ex)
      BY <1>9, <2>1, ClosedIs DEF IInv, Streams
    <3> QED BY <1>9, <1>10, <3>1, KnownStays
  <2>2. Sound(asked)
    BY <1>11, <1>13 DEF Sound
  <2>3. Known(asked, ex')
    <3>1. Known(conn[c], ex')
      BY <1>10, <1>11, KnownStays
    <3>2. ASSUME NEW j \in DOMAIN asked.asked PROVE ex'[asked.asked[j]].sent # 0
      <4>1. conn[c].asked \in Seq(Requests)
        BY <1>11 DEF Connection
      <4>2. \/ j \in DOMAIN conn[c].asked /\ asked.asked[j] = conn[c].asked[j]
            \/ asked.asked[j] = r
        <5>1. /\ Len(asked.asked) = Len(conn[c].asked) + 1
              /\ \A i \in 1 .. Len(conn[c].asked) : asked.asked[i] = conn[c].asked[i]
              /\ asked.asked[Len(conn[c].asked) + 1] = r
              /\ asked.asked \in Seq(Requests)
          BY <1>13, <4>1, AppendProperties
        <5>2. /\ j \in 1 .. Len(asked.asked) /\ DOMAIN conn[c].asked = 1 .. Len(conn[c].asked)
              /\ Len(conn[c].asked) \in Nat
          BY <4>1, <5>1, LenProperties
        <5> QED BY <5>1, <5>2
      <4>3. ex'[r].sent # 0
        BY <1>10
      <4> QED BY <3>1, <4>2, <4>3 DEF Known
    <3> QED BY <1>13, <3>1, <3>2 DEF Known
  <2> QED BY <1>9, <2>1, <2>2, <2>3 DEF Streams
<1>19. Serving'
  <2>1. ~ asked.stray => /\ asked.asked = <<r>> /\ NoneUnread(Stream(asked))
                         /\ \A j \in DOMAIN Stream(asked) : Stream(asked)[j].of # r
    <3>1. \A j \in DOMAIN Stream(conn[c]) : Stream(conn[c])[j].of # r
      BY <1>10, <1>11 DEF Known
    <3>2. Append(<<>>, r) = <<r>>
      OBVIOUS
    <3> QED BY <1>11, <1>13, <3>1, <3>2 DEF Rests
  <2>2. Serves(ex'[r], r, asked, misled)
    <3> DEFINE e == ex'[r]
    <3>1. e.pc \in {"body", "head"} /\ asked.buffer = <<>>
      BY <1>10, <1>13
    <3> HIDE DEF e
    <3>2. Serves(e, r, asked, misled)
      BY <2>1, <3>1, ServesAsked
    <3> QED BY <3>2 DEF e
  <2>3. ASSUME NEW q \in Requests, ex'[q].conn # NoConnection
        PROVE  Serves(ex'[q], q, conn'[ex'[q].conn], misled)
    <3>1. CASE q = r
      BY <1>9, <1>10, <2>2, <3>1
    <3>2. CASE q # r
      <4>1. ex'[q] = ex[q] /\ conn'[ex[q].conn] = conn[ex[q].conn]
        BY <1>10, <1>12, <2>3, <3>2
      <4> QED BY <2>3, <4>1 DEF IInv, Serving
    <3> QED BY <3>1, <3>2
  <2> QED BY <2>3 DEF Serving
<1>20. Tries' /\ Parts'
  BY <1>10 DEF IInv, Tries, Parts
<1> QED BY <1>14, <1>15, <1>16, <1>17, <1>18, <1>19, <1>20 DEF IInv

\* A new connection holds nothing yet, and nobody else has it.
LEMMA ConnectedStep ==
    ASSUME IInv, NEW r \in Requests, Connected(r), UNCHANGED misled
    PROVE  IInv'
<1>1. PICK c \in Connections :
        /\ conn[c].state = "unmade"
        /\ conn' = [conn EXCEPT ![c] = [Made EXCEPT !.asked = <<r>>]]
        /\ Writes(r, c, FALSE)
  BY DEF Connected
<1> DEFINE n == [Made EXCEPT !.asked = <<r>>]
<1>2. /\ n \in Connection /\ n.state = "open" /\ n.asked = <<r>>
      /\ n.buffer = <<>> /\ n.script = <<>>
  <2>1. <<r>> \in Seq(Requests)
    OBVIOUS
  <2> QED BY <2>1, EmptySeq DEF Made, Unmade, Connection
<1> HIDE DEF n
<1>3. /\ conn' \in [Connections -> Connection] /\ idle' = idle
      /\ \A d \in Connections : conn'[d] = IF d = c THEN n ELSE conn[d]
  BY <1>1, <1>2, Types DEF IInv, Connected, n
<1>4. /\ ex' \in [Requests -> Exchange]
      /\ \A q \in Requests : q # r => ex'[q] = ex[q]
      /\ ex'[r].conn = c /\ ex'[r].pc \in {"body", "head"}
      /\ Tried(ex'[r], r) /\ Given(ex'[r], r, misled)
      /\ ex[r].conn = NoConnection /\ ex'[r].sent # 0
      /\ \A q \in Requests : ex[q].sent # 0 => ex'[q].sent # 0
  BY <1>1, WritesExchange DEF Connected
<1>5. /\ \A q \in Requests : ex[q].conn \in Connections \cup {NoConnection}
      /\ \A k \in DOMAIN idle : idle[k] \in Connections
      /\ c # NoConnection
  BY Types, LenProperties, ElementOfSeq, NoConnectionIsNone DEF IInv, Exchange
<1>6. /\ \A q \in Requests : q # r /\ ex[q].conn # NoConnection =>
             ex[q].conn # c /\ conn'[ex[q].conn] = conn[ex[q].conn]
      /\ \A k \in DOMAIN idle : idle[k] # c /\ conn'[idle[k]] = conn[idle[k]]
  BY <1>1, <1>3, <1>5 DEF IInv, Held, Pool, Rests
<1>7. TypeOK'
  BY <1>3, <1>4, Types DEF IInv, TypeOK, Exchange, Connection
<1>8. Held'
  <2>1. ASSUME NEW q \in Requests
        PROVE  /\ ex'[q].pc \in Holding <=> ex'[q].conn # NoConnection
               /\ ex'[q].conn # NoConnection => conn'[ex'[q].conn].state = "open"
    BY <1>2, <1>3, <1>4, <1>5, <1>6 DEF IInv, Held, Holding
  <2>2. ASSUME NEW q \in Requests, NEW s \in Requests,
               ex'[q].conn # NoConnection, ex'[s].conn = ex'[q].conn
        PROVE  s = q
    BY <1>4, <1>6, <2>2 DEF IInv, Held
  <2> QED BY <2>1, <2>2 DEF Held
<1>9. Pool'
  <2>1. \A q \in Requests, k \in DOMAIN idle : ex'[q].conn # idle[k]
    BY <1>4, <1>6 DEF IInv, Pool
  <2>2. ASSUME NEW k \in DOMAIN idle
        PROVE  Rests(conn'[idle[k]])
    BY <1>6 DEF IInv, Pool
  <2> QED BY <1>3, <2>1, <2>2 DEF Pool
<1>10. NoneLost'
  <2>1. \A d \in Connections, q \in Requests : ex[q].conn = d => ex'[q].conn = d
    BY <1>4, NoConnectionIsNone
  <2> QED BY <1>3, <1>4, <2>1 DEF IInv, NoneLost
<1>11. Streams'
  <2>1. Sound(n) /\ Stream(n) = <<>>
    BY <1>2, EmptyStream
  <2>2. Known(n, ex')
    <3>1. DOMAIN n.asked = {1} /\ n.asked[1] = r
      BY <1>2
    <3>2. DOMAIN Stream(n) = {}
      BY <2>1
    <3> QED BY <1>4, <3>1, <3>2 DEF Known
  <2>3. ASSUME NEW d \in Connections PROVE Sound(conn'[d]) /\ Known(conn'[d], ex')
    <3>1. CASE d = c
      BY <1>3, <2>1, <2>2, <3>1
    <3>2. CASE d # c
      <4>1. conn'[d] = conn[d] /\ conn[d] \in Connection
        BY <1>3, <3>2, Types DEF IInv
      <4>2. Sound(conn[d]) /\ Known(conn[d], ex)
        BY DEF IInv, Streams
      <4>3. Known(conn[d], ex')
        BY <1>4, <4>1, <4>2, KnownStays
      <4> QED BY <4>1, <4>2, <4>3
    <3> QED BY <3>1, <3>2
  <2> QED BY <2>3 DEF Streams
<1>12. Serving'
  <2>1. Serves(ex'[r], r, n, misled)
    <3> DEFINE e == ex'[r]
    <3>1. e.pc \in {"body", "head"}
      BY <1>4
    <3>2. NoneUnread(Stream(n)) /\ Stream(n) = <<>>
      BY <1>2, EmptyStream
    <3>3. DOMAIN Stream(n) = {}
      BY <3>2
    <3> HIDE DEF e
    <3>4. Serves(e, r, n, misled)
      BY <1>2, <3>1, <3>2, <3>3, ServesAsked
    <3> QED BY <3>4 DEF e
  <2>2. ASSUME NEW q \in Requests, ex'[q].conn # NoConnection
        PROVE  Serves(ex'[q], q, conn'[ex'[q].conn], misled)
    <3>1. CASE q = r
      BY <1>3, <1>4, <2>1, <3>1
    <3>2. CASE q # r
      <4>1. ex'[q] = ex[q] /\ conn'[ex[q].conn] = conn[ex[q].conn]
        BY <1>4, <1>6, <2>2, <3>2
      <4> QED BY <2>2, <4>1 DEF IInv, Serving
    <3> QED BY <3>1, <3>2
  <2> QED BY <2>2 DEF Serving
<1>13. Tries' /\ Parts'
  BY <1>4 DEF IInv, Tries, Parts
<1> QED BY <1>7, <1>8, <1>9, <1>10, <1>11, <1>12, <1>13 DEF IInv

\* An exchange that begins to connect holds no connection.
LEMMA ConnectStep ==
    ASSUME IInv, NEW r \in Requests, Connect(r), UNCHANGED misled
    PROVE  IInv'
<1> DEFINE e == [ex[r] EXCEPT !.pc = "connecting"]
<1>1. ex[r] \in Exchange /\ ex \in [Requests -> Exchange] /\ ex[r].pc = "new"
  BY Types DEF IInv, Connect
<1>2. /\ e \in Exchange /\ e.pc = "connecting" /\ e.conn = ex[r].conn
      /\ e.sent = ex[r].sent /\ e.attempt = ex[r].attempt
      /\ e.got = ex[r].got /\ e.result = ex[r].result
  BY <1>1 DEF Exchange
<1>3. Tried(ex[r], r) /\ Given(ex[r], r, misled) /\ ex[r].conn = NoConnection
  BY <1>1 DEF IInv, Tries, Parts, Held, Holding
<1>4. Tried(e, r) /\ Given(e, r, misled)
  <2>1. Tried(e, r)
    BY <1>1, <1>2, <1>3 DEF Tried, Holding
  <2>2. Given(e, r, misled)
    BY <1>1, <1>2, <1>3 DEF Given
  <2> QED BY <2>1, <2>2
<1> HIDE DEF e
<1>5. ASSUME NEW n \in 0 .. Len(idle), TakePooled(r, n), ex[r].attempt = 0
      PROVE  IInv'
  BY <1>1, <1>5, TakePooledStep
<1>6. ASSUME NEW n \in 0 .. Len(idle), TakeNone(r, n) PROVE IInv'
  <2>1. conn' = ClosedAll(ToSet(idle)) /\ idle' = <<>> /\ ex' = [ex EXCEPT ![r] = e]
    BY <1>1, <1>6 DEF TakeNone, e
  <2>2. ex' \in [Requests -> Exchange]
    BY <1>1, <1>2, <2>1
  <2>3. ASSUME NEW q \in Requests
        PROVE  /\ ex'[q].conn = ex[q].conn /\ ex'[q].sent = ex[q].sent
               /\ ex'[q].pc \in Holding <=> ex[q].pc \in Holding
               /\ ex[q].conn # NoConnection => ex'[q] = ex[q]
               /\ Tried(ex'[q], q) /\ Given(ex'[q], q, misled)
    <3>1. CASE q = r
      BY <1>1, <1>2, <1>3, <1>4, <2>1, <3>1 DEF Holding
    <3>2. CASE q # r
      BY <1>1, <2>1, <3>2 DEF IInv, Tries, Parts
    <3> QED BY <3>1, <3>2
  <2> QED BY <2>1, <2>2, <2>3, PoolEmptied
<1>7. CASE ex' = [ex EXCEPT ![r].pc = "connecting"] /\ UNCHANGED <<conn, idle>>
  <2>1. ex' = [ex EXCEPT ![r] = e]
    BY <1>1, <1>7 DEF e
  <2>2. Release(ex[r].conn, FALSE)
    BY <1>3, <1>7 DEF Release
  <2>3. e.pc \notin Holding /\ e.conn = NoConnection
    BY <1>2, <1>3 DEF Holding
  <2> QED BY <1>2, <1>4, <2>1, <2>2, <2>3, GivesUp
<1> QED BY <1>5, <1>6, <1>7 DEF Connect

\* The ways out of an attempt.
LEMMA FailsStep ==
    ASSUME IInv, NEW r \in Requests, ex[r].pc \in {"body", "head"}, Fails(r),
           UNCHANGED misled
    PROVE  IInv'
<1> DEFINE again == ex[r].attempt + 1 < Attempts(r) /\ ex[r].reused
           e == IF again THEN [ex[r] EXCEPT !.pc = "new", !.conn = NoConnection,
                                            !.attempt = ex[r].attempt + 1, !.reused = FALSE]
                ELSE [ex[r] EXCEPT !.pc = "done", !.conn = NoConnection, !.result = "502"]
<1>1. ex[r] \in Exchange /\ ex \in [Requests -> Exchange]
  BY Types DEF IInv
<1>2. /\ Tried(ex[r], r) /\ Given(ex[r], r, misled)
      /\ ex[r].got = <<>> /\ ex[r].result = "none"
  BY DEF IInv, Tries, Parts, Given
<1>3. ex' = [ex EXCEPT ![r] = e] /\ Release(ex[r].conn, FALSE)
  <2>1. Release(ex[r].conn, FALSE)
    BY DEF Fails
  <2>2. ex' = [ex EXCEPT ![r] = e]
    <3>1. CASE again
      BY <1>1, <3>1 DEF Fails
    <3>2. CASE ~ again
      BY <1>1, <3>2 DEF Fails
    <3> QED BY <3>1, <3>2
  <2> QED BY <2>1, <2>2
<1>4. /\ e \in Exchange /\ e.conn = NoConnection /\ e.pc \notin Holding
      /\ e.sent = ex[r].sent /\ Tried(e, r) /\ Given(e, r, misled)
  <2>1. CASE again
    <3>1. ex[r].attempt = 0 /\ r \in Repeatable \ WithBody
      BY <1>1, <2>1 DEF Attempts, Exchange
    <3>2. e = [ex[r] EXCEPT !.pc = "new", !.conn = NoConnection,
                            !.attempt = 1, !.reused = FALSE]
      BY <1>1, <2>1, <3>1 DEF Exchange
    <3>3. /\ e \in Exchange /\ e.pc = "new" /\ e.conn = NoConnection /\ e.attempt = 1
          /\ e.sent = ex[r].sent /\ e.got = <<>> /\ e.result = "none"
      <4> HIDE DEF e
      <4>1. e = [pc |-> "new", conn |-> NoConnection, attempt |-> 1, reused |-> FALSE,
                 framing |-> ex[r].framing, keep |-> ex[r].keep, got |-> ex[r].got,
                 sent |-> ex[r].sent, result |-> ex[r].result]
        BY <1>1, <3>2 DEF Exchange
      <4>2. e \in Exchange
        BY <1>1, <4>1 DEF Exchange
      <4> QED BY <1>1, <1>2, <3>2, <4>2 DEF Exchange
    <3>4. ex[r].sent = 1
      BY <1>2, <2>1, <3>1 DEF Tried, Holding
    <3> QED BY <3>1, <3>3, <3>4, EmptySeq DEF Tried, Given, Holding
  <2>2. CASE ~ again
    <3>1. e = [ex[r] EXCEPT !.pc = "done", !.conn = NoConnection, !.result = "502"]
      BY <2>2
    <3>2. /\ e \in Exchange /\ e.pc = "done" /\ e.conn = NoConnection
          /\ e.attempt = ex[r].attempt
          /\ e.sent = ex[r].sent /\ e.got = <<>> /\ e.result = "502"
      BY <1>1, <1>2, <3>1 DEF Exchange
    <3> QED BY <1>2, <3>2, EmptySeq DEF Tried, Given, Holding
  <2> QED BY <2>1, <2>2
<1> HIDE DEF e
<1> QED BY <1>3, <1>4, GivesUp

\* An exchange that ends gives up its connection, whatever the result.
LEMMA EndsStep ==
    ASSUME IInv, NEW r \in Requests, NEW result \in {"whole", "aborted", "cancelled"},
           ex[r].pc \in {"connecting", "body", "head", "relay", "finish"},
           result = "whole" => Complete(ex[r].got, ex[r].framing),
           NEW reusable \in BOOLEAN, Release(ex[r].conn, reusable),
           reusable /\ ex[r].conn # NoConnection =>
               Rests(conn[ex[r].conn]),
           ex' = [ex EXCEPT ![r].pc = "done", ![r].conn = NoConnection,
                            ![r].result = result],
           UNCHANGED misled
    PROVE  IInv'
<1> DEFINE e == [ex[r] EXCEPT !.pc = "done", !.conn = NoConnection, !.result = result]
<1>1. ex[r] \in Exchange /\ ex \in [Requests -> Exchange]
  BY Types DEF IInv
<1>2. ex' = [ex EXCEPT ![r] = e]
  BY <1>1
<1>3. /\ e \in Exchange /\ e.conn = NoConnection /\ e.pc = "done"
      /\ e.sent = ex[r].sent /\ e.attempt = ex[r].attempt
      /\ e.got = ex[r].got /\ e.framing = ex[r].framing /\ e.result = result
  BY <1>1 DEF Exchange
<1>4. Tried(ex[r], r) /\ Given(ex[r], r, misled)
  BY DEF IInv, Tries, Parts
<1> HIDE DEF e
<1>5. Tried(e, r) /\ Given(e, r, misled) /\ e.pc \notin Holding
  BY <1>3, <1>4 DEF Tried, Given, Holding
<1> QED BY <1>2, <1>3, <1>5, GivesUp

\* What a step that goes on with its connection may use.
LEMMA HoldingFacts ==
    ASSUME IInv, NEW r \in Requests, ex[r].pc \in Holding
    PROVE  /\ ex[r].conn \in Connections /\ ex[r].conn # NoConnection
           /\ ex[r] \in Exchange /\ ex \in [Requests -> Exchange]
           /\ conn[ex[r].conn] \in Connection /\ conn \in [Connections -> Connection]
           /\ conn[ex[r].conn].state = "open"
           /\ Serves(ex[r], r, conn[ex[r].conn], misled)
           /\ Sound(conn[ex[r].conn]) /\ Known(conn[ex[r].conn], ex)
           /\ Tried(ex[r], r) /\ Given(ex[r], r, misled) /\ ex[r].result = "none"
<1>1. ex[r] \in Exchange /\ ex \in [Requests -> Exchange] /\ conn \in [Connections -> Connection]
  BY Types DEF IInv
<1>2. ex[r].conn # NoConnection /\ conn[ex[r].conn].state = "open"
  BY DEF IInv, Held
<1>3. ex[r].conn \in Connections
  BY <1>1, <1>2 DEF Exchange
<1>4. Tried(ex[r], r) /\ Given(ex[r], r, misled)
  BY DEF IInv, Tries, Parts
<1>5. Serves(ex[r], r, conn[ex[r].conn], misled)
  BY <1>2 DEF IInv, Serving
<1>7. Sound(conn[ex[r].conn]) /\ Known(conn[ex[r].conn], ex)
  BY <1>3 DEF IInv, Streams
<1>6. ex[r].result = "none"
  BY <1>4 DEF Given, Holding
<1> QED BY <1>1, <1>2, <1>3, <1>4, <1>5, <1>6, <1>7

\* The body of a request goes to the connection that the exchange holds.
LEMMA ForwardBodyStep ==
    ASSUME IInv, NEW r \in Requests, ForwardBody(r), UNCHANGED misled
    PROVE  IInv'
<1>1. ex[r].pc = "body" /\ ex[r].pc \in Holding
  BY DEF ForwardBody, In, Holding
<1>2. CASE Fails(r)
  BY <1>1, <1>2, FailsStep
<1>3. CASE ex' = [ex EXCEPT ![r].pc = "head"] /\ UNCHANGED <<conn, idle>>
  <2> DEFINE e == [ex[r] EXCEPT !.pc = "head"]
             n == conn[ex[r].conn]
  <2>1. ex' = [ex EXCEPT ![r] = e] /\ conn' = [conn EXCEPT ![ex[r].conn] = n]
    BY <1>1, <1>3, HoldingFacts
  <2>2. /\ e \in Exchange /\ e.pc = "head" /\ e.conn = ex[r].conn
        /\ e.sent = ex[r].sent /\ e.attempt = ex[r].attempt
        /\ e.got = ex[r].got /\ e.framing = ex[r].framing /\ e.result = ex[r].result
    BY <1>1, HoldingFacts DEF Exchange
  <2>3. Tried(e, r) /\ Given(e, r, misled) /\ e.pc \in Holding
    BY <1>1, <2>2, HoldingFacts DEF Tried, Given, Holding
  <2>4. Serves(e, r, n, misled) /\ Sound(n) /\ Known(n, ex)
    BY <1>1, <2>2, HoldingFacts DEF Serves, Straight
  <2>5. n \in Connection /\ n.state = "open" /\ ex[r].conn # NoConnection /\ idle' = idle
    BY <1>1, <1>3, HoldingFacts
  <2> HIDE DEF e, n
  <2> QED BY <2>1, <2>2, <2>3, <2>4, <2>5, ExchangeStep
<1> QED BY <1>2, <1>3 DEF ForwardBody

\* What is read of a straight connection leaves it straight.
LEMMA StraightOn ==
    ASSUME NEW r, NEW c \in Connection, NEW n \in 0 .. Len(c.buffer), NEW d, NEW e,
           Straight(d, r, c),
           \/ d.pc \in {"body", "head"} /\ e.pc \in {"body", "head"}
           \/ /\ d.pc \in {"relay", "finish"} /\ e.pc \in {"relay", "finish"}
              /\ e.framing = d.framing
           \/ /\ d.pc \in {"body", "head"} /\ e.pc = "relay" /\ n = 1
              /\ e.framing = c.buffer[1].framing
    PROVE  Straight(e, r, Reads(c, n))
<1> DEFINE m == Reads(c, n)
           s == Stream(c)
           t == Stream(m)
           b == c.buffer
           a == c.asked
<1>1. /\ m \in Connection /\ m.asked = a
      /\ n \in 0 .. Len(s) /\ Rest(s, n, t) /\ Rest(b, n, m.buffer)
  BY ReadsStream
<1>2. /\ DOMAIN s = 1 .. Len(s) /\ DOMAIN t = 1 .. Len(t) /\ Len(s) \in Nat
      /\ DOMAIN b = 1 .. Len(b) /\ DOMAIN m.buffer = 1 .. Len(m.buffer) /\ Len(b) \in Nat
      /\ n \in 0 .. Len(b)
      /\ \A i \in 1 .. Len(b) : i \in 1 .. Len(s) /\ s[i] = b[i]
  BY <1>1, StreamIs
<1>3. /\ \A k \in DOMAIN b : b[k].of = r
      /\ a # <<>> => /\ a = <<r>> /\ d.pc \in {"body", "head"}
                     /\ \A k \in DOMAIN s : s[k].of # r /\ s[k].kind # "unread"
      /\ \A k \in DOMAIN s : s[k].kind = "unread" =>
            /\ s[k].of = r
            /\ d.pc \in {"body", "head"} => Behind(r, s, k)
            /\ d.pc \in {"relay", "finish"} => d.framing = "announced"
  BY DEF Straight
<1> HIDE DEF m, s, t, b, a
<1>4. ASSUME NEW k \in DOMAIN t
      PROVE  k + n \in DOMAIN s /\ t[k] = s[k + n] /\ k \in Nat /\ k >= 1
  <2>1. k \in 1 .. Len(s) - n
    BY <1>1, <1>2 DEF Rest
  <2> QED BY <1>1, <1>2, <2>1 DEF Rest
<1>5. ASSUME NEW k \in DOMAIN m.buffer PROVE m.buffer[k].of = r
  <2>1. k \in 1 .. Len(b) - n
    BY <1>1, <1>2 DEF Rest
  <2>2. m.buffer[k] = b[k + n]
    BY <1>1, <2>1 DEF Rest
  <2>3. k + n \in DOMAIN b
    BY <1>2, <2>1
  <2> QED BY <1>3, <2>2, <2>3
<1>6. ASSUME a # <<>>
      PROVE  /\ a = <<r>> /\ e.pc \in {"body", "head"}
             /\ \A k \in DOMAIN t : t[k].of # r /\ t[k].kind # "unread"
  <2>1. Len(b) = 0
    <3>1. SUFFICES ASSUME Len(b) # 0 PROVE FALSE
      OBVIOUS
    <3>2. 1 \in DOMAIN b /\ 1 \in DOMAIN s /\ s[1] = b[1]
      BY <1>2, <3>1
    <3> QED BY <1>3, <1>6, <3>2
  <2>2. n # 1
    BY <1>2, <2>1
  <2>3. e.pc \in {"body", "head"}
    BY <1>3, <1>6, <2>2
  <2> QED BY <1>3, <1>4, <1>6, <2>3
<1>7. ASSUME NEW k \in DOMAIN t, t[k].kind = "unread"
      PROVE  /\ t[k].of = r
             /\ e.pc \in {"body", "head"} => Behind(r, t, k)
             /\ e.pc \in {"relay", "finish"} => e.framing = "announced"
  <2>1. /\ k + n \in DOMAIN s /\ s[k + n] = t[k] /\ s[k + n].of = r
        /\ d.pc \in {"body", "head"} => Behind(r, s, k + n)
        /\ d.pc \in {"relay", "finish"} => d.framing = "announced"
    BY <1>3, <1>4, <1>7
  <2>2. ASSUME e.pc \in {"body", "head"} PROVE Behind(r, t, k)
    <3>1. Behind(r, s, k + n)
      BY <2>1, <2>2
    <3>2. ASSUME NEW j \in DOMAIN t, j < k
          PROVE  j + n \in DOMAIN s /\ j + n < k + n /\ t[j] = s[j + n]
      <4>1. j \in Nat /\ k \in Nat /\ n \in Nat
        BY <1>2, <1>4, <3>2
      <4> QED BY <1>4, <3>2, <4>1
    <3> QED BY <3>1, <3>2 DEF Behind
  <2>3. ASSUME e.pc \in {"relay", "finish"} PROVE e.framing = "announced"
    <3>1. CASE d.pc \in {"relay", "finish"}
      BY <2>1, <2>3, <3>1
    <3>2. CASE d.pc \in {"body", "head"}
      <4>1. n = 1 /\ e.framing = c.buffer[1].framing /\ Behind(r, s, k + n)
        BY <2>1, <2>3, <3>2
      <4>2. 1 \in DOMAIN b /\ 1 \in DOMAIN s /\ s[1] = b[1] /\ 1 < k + n
        BY <1>2, <1>4, <4>1
      <4>3. s[1].of = r
        BY <1>3, <4>2
      <4>4. s[1].framing = "announced"
        BY <4>1, <4>2, <4>3 DEF Behind
      <4> QED BY <4>1, <4>2, <4>4 DEF b
    <3> QED BY <2>3, <3>1, <3>2
  <2> QED BY <2>1, <2>2, <2>3
<1>8. Straight(e, r, m)
  <2>1. Stream(m) = t /\ m.asked = a
    BY <1>1 DEF t
  <2> QED BY <1>5, <1>6, <1>7, <2>1 DEF Straight
<1> QED BY <1>8 DEF m

\* What an exchange does to the connection it reads n units from.
LEMMA TookProperties ==
    ASSUME IInv, NEW r \in Requests, ex[r].pc \in Holding,
           NEW n \in 0 .. Len(Buffer(r))
    PROVE  LET c == conn[ex[r].conn]
               d == Reads(c, n)
           IN  /\ Took(r, n) = [conn EXCEPT ![ex[r].conn] = d]
               /\ d \in Connection /\ d.state = "open" /\ Sound(d) /\ Known(d, ex)
               /\ d.up = c.up /\ d.stray = c.stray
               /\ d.buffer = SubSeq(c.buffer, n + 1, Len(c.buffer)) /\ d.script = c.script
               /\ c.buffer = <<>> => d.buffer = <<>>
<1> DEFINE c == conn[ex[r].conn]
<1>1. /\ c \in Connection /\ conn \in [Connections -> Connection]
      /\ ex[r].conn \in Connections /\ Buffer(r) = c.buffer
      /\ c.state = "open" /\ Sound(c) /\ Known(c, ex)
  BY HoldingFacts DEF Buffer
<1>2. Took(r, n) = [conn EXCEPT ![ex[r].conn] = Reads(c, n)]
  BY <1>1 DEF Took, Reads, Connection
<1> HIDE DEF c
<1>3. n \in 0 .. Len(c.buffer)
  BY <1>1
<1>4. LET d == Reads(c, n)
      IN  /\ d \in Connection /\ d.state = "open" /\ Sound(d) /\ Known(d, ex)
          /\ d.up = c.up /\ d.stray = c.stray
          /\ d.buffer = SubSeq(c.buffer, n + 1, Len(c.buffer)) /\ d.script = c.script
  BY <1>1, <1>3, ReadsStream
<1>5. ASSUME c.buffer = <<>> PROVE SubSeq(c.buffer, n + 1, Len(c.buffer)) = <<>>
  <2>1. Len(c.buffer) = 0 /\ n = 0
    BY <1>3, <1>5
  <2>2. /\ SubSeq(c.buffer, n + 1, Len(c.buffer)) \in Seq(Units)
        /\ Len(SubSeq(c.buffer, n + 1, Len(c.buffer))) = Len(c.buffer) - n
    BY <1>1, <1>3, LastUnits DEF Connection
  <2> QED BY <2>1, <2>2, EmptySeq
<1> QED BY <1>2, <1>4, <1>5 DEF c

\* The head is read from what the connection holds.
LEMMA ReadHeadStep ==
    ASSUME IInv, NEW r \in Requests, ReadHead(r), UNCHANGED misled
    PROVE  IInv'
<1> DEFINE c == conn[ex[r].conn]
           b == Buffer(r)
           unit == Head(b)
           n == Reads(c, 1)
           s == Stream(c)
<1>1. ex[r].pc = "head" /\ ex[r].pc \in Holding
  BY DEF ReadHead, In, Holding
<1>2. /\ ex[r].conn # NoConnection /\ ex[r].conn \in Connections
      /\ c \in Connection /\ b = c.buffer /\ b \in Seq(Units)
      /\ Serves(ex[r], r, c, misled) /\ Sound(c)
      /\ Tried(ex[r], r) /\ Given(ex[r], r, misled) /\ ex[r].result = "none"
      /\ ex[r] \in Exchange /\ ex \in [Requests -> Exchange]
  BY <1>1, HoldingFacts DEF Buffer, Connection
<1>3. CASE Fails(r)
  BY <1>1, <1>3, FailsStep
<1>4. ASSUME b # <<>>
      PROVE  /\ unit = b[1] /\ unit \in Units /\ 1 \in 0 .. Len(b)
             /\ 1 \in DOMAIN s /\ s[1] = unit /\ 1 \in 1 .. Len(b)
  <2>1. Len(b) \in Nat /\ Len(b) # 0 /\ unit = b[1] /\ unit \in Units
    BY <1>2, <1>4, EmptySeq, LenProperties, HeadTailProperties
  <2>2. 1 \in 0 .. Len(b) /\ 1 \in 1 .. Len(b)
    BY <2>1
  <2>3. 1 \in DOMAIN s /\ s[1] = b[1]
    <3>1. DOMAIN s = 1 .. Len(s) /\ \A i \in 1 .. Len(b) : i \in 1 .. Len(s) /\ s[i] = b[i]
      BY <1>2, StreamIs
    <3> QED BY <2>2, <3>1
  <2> QED BY <2>1, <2>2, <2>3
<1>5. ASSUME b # <<>>
      PROVE  /\ Took(r, 1) = [conn EXCEPT ![ex[r].conn] = n]
             /\ n \in Connection /\ n.state = "open" /\ Sound(n) /\ Known(n, ex)
             /\ n.up = c.up /\ n.stray = c.stray
             /\ Rest(s, 1, Stream(n))
  <2>1. Rest(s, 1, Stream(n))
    BY <1>2, <1>4, <1>5, ReadsStream
  <2> QED BY <1>1, <1>4, <1>5, <2>1, TookProperties
<1>6. ASSUME b # <<>>
      PROVE  /\ r \notin misled => ~ c.stray
             /\ ~ c.stray => Straight(ex[r], r, c)
  BY <1>2, <1>6 DEF Serves
<1>7. ASSUME NEW e, b # <<>>, e.pc = "head" \/ (e.pc = "relay" /\ e.framing = unit.framing),
             e.pc = "relay" => Underway(e.got, e.framing, Stream(n), n.up)
      PROVE  Serves(e, r, n, misled)
  <2>1. ASSUME ~ c.stray PROVE Straight(e, r, n)
    <3>1. Straight(ex[r], r, c) /\ 1 \in 0 .. Len(c.buffer) /\ unit = c.buffer[1]
      BY <1>2, <1>4, <1>6, <1>7, <2>1
    <3> HIDE DEF c, unit
    <3> QED BY <1>1, <1>2, <1>7, <3>1, StraightOn
  <2> QED BY <1>5, <1>6, <1>7, <2>1 DEF Serves
<1>8. CASE b # <<>> /\ unit.kind = "interim" /\ conn' = Took(r, 1) /\ UNCHANGED <<ex, idle>>
  <2>1. ex' = [ex EXCEPT ![r] = ex[r]]
    BY <1>2, <1>8
  <2>2. Serves(ex[r], r, n, misled)
    BY <1>1, <1>7, <1>8
  <2> HIDE DEF n, b, c
  <2> QED BY <1>1, <1>2, <1>5, <1>8, <2>1, <2>2, ExchangeStep
<1>9. CASE /\ b # <<>> /\ unit.kind \in {"head", "unread"}
           /\ conn' = Took(r, 1) /\ UNCHANGED idle
           /\ ex' = [ex EXCEPT ![r].pc = "relay", ![r].framing = unit.framing,
                               ![r].keep = unit.keep,
                               ![r].got = Append(@, [unit EXCEPT !.kind = "head"])]
  <2> DEFINE head == [unit EXCEPT !.kind = "head"]
             e == [ex[r] EXCEPT !.pc = "relay", !.framing = unit.framing,
                                !.keep = unit.keep, !.got = Append(@, head)]
  <2>1. ex[r].got = <<>>
    BY <1>1, <1>2 DEF Given
  <2>2. head \in Units /\ head.kind = "head" /\ head.of = unit.of
    BY <1>4, <1>9 DEF Units, Kinds
  <2> HIDE DEF head
  <2>3. Append(ex[r].got, head) = <<head>> /\ <<head>> \in Seq(Units)
    BY <2>1, <2>2
  <2>4. ex' = [ex EXCEPT ![r] = e]
    BY <1>2, <1>9 DEF head
  <2>5. unit.framing \in Framings /\ unit.keep \in BOOLEAN
    BY <1>4, <1>9 DEF Units
  <2>6. /\ e \in Exchange /\ e.pc = "relay" /\ e.conn = ex[r].conn
        /\ e.sent = ex[r].sent /\ e.attempt = ex[r].attempt
        /\ e.got = <<head>> /\ e.framing = unit.framing /\ e.result = ex[r].result
    <3> HIDE DEF unit
    <3>1. e = [ex[r] EXCEPT !.pc = "relay", !.framing = unit.framing,
                            !.keep = unit.keep, !.got = <<head>>]
      BY <1>2, <2>3 DEF Exchange
    <3> HIDE DEF e
    <3> QED BY <1>2, <2>3, <2>5, <3>1 DEF Exchange
  <2> HIDE DEF e
  <2>7. Len(<<head>>) = 1 /\ <<head>>[1] = head /\ DOMAIN <<head>> = {1}
    OBVIOUS
  <2>8. Tried(e, r) /\ Given(e, r, misled) /\ e.pc \in Holding
    <3>1. Tried(e, r) /\ e.pc \in Holding
      BY <1>1, <1>2, <2>6 DEF Tried, Holding
    <3>2. r \notin misled => head.of = r
      <4>1. ASSUME r \notin misled PROVE unit.of = r
        <5>1. Straight(ex[r], r, c)
          BY <1>6, <1>9, <4>1
        <5>2. \A k \in DOMAIN c.buffer : c.buffer[k].of = r
          BY <5>1 DEF Straight
        <5>3. 1 \in DOMAIN c.buffer /\ unit = c.buffer[1]
          BY <1>2, <1>4, <1>9, LenProperties
        <5> HIDE DEF unit, c
        <5> QED BY <5>2, <5>3
      <4> QED BY <2>2, <4>1
    <3>3. r \notin misled => \A k \in DOMAIN e.got : e.got[k].of = r
      BY <2>6, <2>7, <3>2
    <3>4. e.pc = "relay" /\ e.result = "none"
      BY <1>2, <2>6
    <3>5. Given(e, r, misled)
      BY <3>3, <3>4 DEF Given
    <3> QED BY <3>1, <3>5
  <2>9. Underway(e.got, e.framing, Stream(n), n.up)
    <3>1. Len(e.got) = 1 /\ e.got[1].kind = "head" /\ e.framing = unit.framing
      BY <2>2, <2>6, <2>7
    <3>2. /\ Len(Stream(n)) = Len(s) - 1 /\ Len(s) \in Nat /\ Len(Stream(n)) \in Nat
          /\ DOMAIN s = 1 .. Len(s) /\ Stream(n) \in Seq(Units) /\ s \in Seq(Units)
          /\ \A i \in 1 .. Len(s) - 1 : Stream(n)[i] = s[i + 1]
      BY <1>2, <1>5, <1>9, StreamIs DEF Rest
    <3>3. ASSUME e.framing \in {"length", "chunked"}, Stream(n) = <<>> PROVE n.up # "open"
      <4>1. Len(s) = 1 /\ s # <<>>
        <5>1. Len(Stream(n)) = 0
          BY <3>2, <3>3, EmptySeq
        <5>2. Len(s) = 1
          <6> DEFINE x == Len(s)
                     y == Len(Stream(n))
          <6>1. y = x - 1 /\ x \in Nat /\ y = 0
            BY <3>2, <5>1
          <6> HIDE DEF x, y
          <6>2. x = 1
            BY <6>1
          <6> QED BY <6>2 DEF x
        <5> QED BY <3>2, <5>2, EmptySeq
      <4>2. s[Len(s)] = unit /\ Unfinished(unit)
        BY <1>4, <1>9, <3>1, <3>3, <4>1 DEF Unfinished
      <4> QED BY <1>2, <1>5, <1>9, <4>1, <4>2 DEF Sound, Framed
    <3>4. ASSUME e.framing \in {"length", "chunked"}, Stream(n) # <<>>
          PROVE  Stream(n)[1].kind = "data" /\ Stream(n)[1].framing = e.framing
      <4>1. 1 \in 1 .. Len(s) - 1 /\ 1 \in DOMAIN s /\ 1 + 1 \in DOMAIN s
        <5>1. Len(Stream(n)) # 0
          BY <3>2, <3>4, EmptySeq
        <5> QED BY <3>2, <5>1
      <4>2. Stream(n)[1] = s[1 + 1]
        BY <3>2, <4>1
      <4>3. Goes(s[1], s[1 + 1])
        <5>1. \A j, k \in DOMAIN s : k = j + 1 => Goes(s[j], s[k])
          BY <1>2 DEF Sound, Framed
        <5> QED BY ZenonT(30), <4>1, <5>1
      <4> QED BY <1>4, <1>9, <3>1, <3>4, <4>2, <4>3 DEF Goes
    <3> QED BY <3>1, <3>3, <3>4 DEF Underway
  <2>10. Serves(e, r, n, misled)
    BY <1>7, <1>9, <2>6, <2>9
  <2> HIDE DEF n, b, c, unit
  <2> QED BY <1>2, <1>5, <1>9, <2>4, <2>6, <2>8, <2>10, ExchangeStep
<1> QED BY <1>3, <1>8, <1>9 DEF ReadHead

\* A part of the body is forwarded, the last one or not.
LEMMA ForwardsStep ==
    ASSUME IInv, NEW r \in Requests, ex[r].pc = "relay", UNCHANGED <<idle, misled>>,
           NEW pc \in {"relay", "finish"}, NEW k \in 0 .. Len(Buffer(r)),
           k # 0 => Buffer(r) # <<>>,
           NEW units \in Seq(Units),
           \A j \in DOMAIN units : Buffer(r) # <<>> /\ \E i \in DOMAIN Buffer(r) :
                                       units[j] = Buffer(r)[i],
           pc = "relay" => Underway(ex[r].got \o units, ex[r].framing,
                                    Stream(Reads(conn[ex[r].conn], k)), conn[ex[r].conn].up),
           pc = "finish" => Complete(ex[r].got \o units, ex[r].framing),
           ex' = [ex EXCEPT ![r].pc = pc, ![r].got = @ \o units],
           conn' = Took(r, k)
    PROVE  IInv'
<1> DEFINE c == conn[ex[r].conn]
           got == ex[r].got \o units
           e == [ex[r] EXCEPT !.pc = pc, !.got = got]
           n == Reads(c, k)
<1>0. ex[r].pc \in Holding
  BY DEF Holding
<1>1. /\ ex[r].conn # NoConnection /\ Buffer(r) = c.buffer /\ c \in Connection
      /\ Serves(ex[r], r, c, misled)
      /\ Tried(ex[r], r) /\ Given(ex[r], r, misled) /\ ex[r].result = "none"
      /\ ex[r] \in Exchange /\ ex \in [Requests -> Exchange] /\ ex[r].got \in Seq(Units)
  BY <1>0, HoldingFacts DEF Buffer, Exchange
<1>2. /\ Took(r, k) = [conn EXCEPT ![ex[r].conn] = n]
      /\ n \in Connection /\ n.state = "open" /\ Sound(n) /\ Known(n, ex)
      /\ n.up = c.up /\ n.stray = c.stray /\ (c.buffer = <<>> => n.buffer = <<>>)
  BY <1>0, TookProperties
<1>3. got \in Seq(Units) /\ (r \notin misled => \A j \in DOMAIN got : got[j].of = r)
  <2>1. /\ got \in Seq(Units) /\ DOMAIN got = 1 .. Len(ex[r].got) + Len(units)
        /\ DOMAIN ex[r].got = 1 .. Len(ex[r].got) /\ DOMAIN units = 1 .. Len(units)
        /\ \A i \in 1 .. Len(ex[r].got) : got[i] = ex[r].got[i]
        /\ \A i \in 1 .. Len(ex[r].got) + Len(units) :
              \/ i \in 1 .. Len(ex[r].got)
              \/ i - Len(ex[r].got) \in 1 .. Len(units) /\ got[i] = units[i - Len(ex[r].got)]
    BY <1>1, Joined
  <2>2. ASSUME r \notin misled, NEW j \in DOMAIN units PROVE units[j].of = r
    <3>1. c.buffer # <<>> /\ \E i \in DOMAIN c.buffer : units[j] = c.buffer[i]
      BY <1>1
    <3>2. Straight(ex[r], r, c)
      BY <1>1, <2>2, <3>1 DEF Serves
    <3> QED BY <3>1, <3>2 DEF Straight
  <2>3. ASSUME r \notin misled, NEW j \in DOMAIN got PROVE got[j].of = r
    <3>1. CASE j \in 1 .. Len(ex[r].got)
      BY <1>1, <2>1, <2>3, <3>1 DEF Given
    <3>2. CASE j - Len(ex[r].got) \in 1 .. Len(units) /\ got[j] = units[j - Len(ex[r].got)]
      BY <2>1, <2>2, <2>3, <3>2
    <3> QED BY <2>1, <3>1, <3>2
  <2> QED BY <2>1, <2>3
<1>4. ex' = [ex EXCEPT ![r] = e]
  BY <1>1
<1>5. /\ pc = "relay" => Underway(got, ex[r].framing, Stream(n), c.up)
      /\ pc = "finish" => Complete(got, ex[r].framing)
  OBVIOUS
<1> HIDE DEF got
<1>6. /\ e \in Exchange /\ e.pc = pc /\ e.conn = ex[r].conn
      /\ e.sent = ex[r].sent /\ e.attempt = ex[r].attempt
      /\ e.got = got /\ e.framing = ex[r].framing /\ e.result = "none"
  BY <1>1, <1>3 DEF Exchange
<1> HIDE DEF e, n, c
<1>7. Tried(e, r) /\ Given(e, r, misled) /\ e.pc \in Holding
  <2>1. Tried(e, r) /\ e.pc \in Holding
    BY <1>1, <1>6 DEF Tried, Holding
  <2>2. Given(e, r, misled)
    BY <1>3, <1>5, <1>6 DEF Given
  <2> QED BY <2>1, <2>2
<1>8. Serves(e, r, n, misled)
  <2>1. ASSUME ~ c.stray PROVE Straight(e, r, n)
    <3>1. Straight(ex[r], r, c) /\ k \in 0 .. Len(c.buffer)
      BY <1>1, <2>1 DEF Serves
    <3>2. /\ ex[r].pc \in {"relay", "finish"} /\ e.pc \in {"relay", "finish"}
          /\ e.framing = ex[r].framing
      BY <1>6
    <3> QED BY <1>1, <3>1, <3>2, StraightOn DEF n
  <2>2. c.stray /\ r \notin misled => n.buffer = <<>>
    BY <1>1, <1>2 DEF Serves
  <2>3. e.pc = "relay" => Underway(e.got, e.framing, Stream(n), n.up)
    BY <1>2, <1>5, <1>6
  <2> QED BY <1>2, <2>1, <2>2, <2>3 DEF Serves
<1> QED BY <1>1, <1>2, <1>4, <1>6, <1>7, <1>8, ExchangeStep

\* What was received is the front of what a connection brings.
LEMMA FrontOf ==
    ASSUME NEW c \in Connection, c.buffer # <<>>
    PROVE  Stream(c) # <<>> /\ Stream(c)[1] = c.buffer[1]
<1> DEFINE s == Stream(c)
           b == c.buffer
<1>1. /\ s \in Seq(Units) /\ b \in Seq(Units) /\ Len(b) \in Nat /\ Len(s) \in Nat
      /\ \A i \in 1 .. Len(b) : i \in 1 .. Len(s) /\ s[i] = b[i]
  BY StreamIs
<1> HIDE DEF s, b
<1>2. Len(b) # 0
  BY <1>1, EmptySeq DEF b
<1>3. 1 \in 1 .. Len(s) /\ s[1] = b[1]
  BY <1>1, <1>2
<1>4. s # <<>>
  BY <1>1, <1>3, EmptySeq
<1> QED BY <1>3, <1>4 DEF s, b

\* Each part that is relayed is the next one of the answer.
LEMMA RelayStep ==
    ASSUME IInv, NEW r \in Requests, Relay(r), UNCHANGED misled
    PROVE  IInv'
<1> DEFINE c == conn[ex[r].conn]
           b == Buffer(r)
           s == Stream(c)
           got == ex[r].got
           framing == ex[r].framing
<1>1. ex[r].pc = "relay" /\ ex[r].pc \in Holding
  BY DEF Relay, In, Holding
<1>2. /\ c \in Connection /\ b = c.buffer /\ b \in Seq(Units) /\ Len(b) \in Nat
      /\ got \in Seq(Units) /\ Underway(got, framing, s, c.up)
      /\ framing \in Framings /\ Sound(c)
      /\ ex[r] \in Exchange /\ ex \in [Requests -> Exchange]
      /\ ex[r].conn \in Connections /\ conn \in [Connections -> Connection]
  <2>1. /\ c \in Connection /\ b = c.buffer /\ b \in Seq(Units) /\ Sound(c)
        /\ Serves(ex[r], r, c, misled)
        /\ ex[r] \in Exchange /\ ex \in [Requests -> Exchange]
        /\ ex[r].conn \in Connections /\ conn \in [Connections -> Connection]
    BY <1>1, HoldingFacts DEF Buffer, Connection
  <2>2. Underway(got, framing, s, c.up)
    BY <1>1, <2>1 DEF Serves
  <2>3. got \in Seq(Units) /\ framing \in Framings /\ Len(b) \in Nat
    BY <2>1, LenProperties DEF Exchange
  <2> QED BY <2>1, <2>2, <2>3
<1>3. /\ got \o <<>> = got /\ <<>> \in Seq(Units) /\ DOMAIN <<>> = {}
      /\ 0 \in 0 .. Len(b) /\ conn = Took(r, 0)
  <2>1. got \o <<>> = got /\ <<>> \in Seq(Units) /\ DOMAIN <<>> = {}
    BY <1>2, ConcatEmptySeq, EmptySeq
  <2>2. 0 \in 0 .. Len(b)
    BY <1>2
  <2>3. SubSeq(b, 0 + 1, Len(b)) = b
    <3> DEFINE t == SubSeq(b, 0 + 1, Len(b))
    <3>1. /\ t \in Seq(Units) /\ Len(t) = Len(b) - 0
          /\ \A i \in 1 .. Len(b) - 0 : t[i] = b[i + 0]
      BY <1>2, <2>2, LastUnits
    <3> HIDE DEF t, b
    <3>2. Len(t) = Len(b) /\ \A i \in 1 .. Len(b) : t[i] = b[i]
      BY <1>2, <3>1
    <3>3. t = b
      BY <1>2, <3>1, <3>2, SeqEqual
    <3> QED BY <3>3 DEF t
  <2>4. [c EXCEPT !.buffer = b] = c
    BY <1>2 DEF Connection
  <2>5. Took(r, 0) = [conn EXCEPT ![ex[r].conn] = [c EXCEPT !.buffer = SubSeq(b, 0 + 1, Len(b))]]
    BY <1>2 DEF Took, Connection
  <2>6. [conn EXCEPT ![ex[r].conn] = c] = conn
    BY <1>2
  <2> QED BY <2>1, <2>2, <2>3, <2>4, <2>5, <2>6
<1>4. CASE framing \in {"none", "announced"} /\ Relayed(r, <<>>) /\ UNCHANGED <<conn, idle>>
  <2>1. Complete(got \o <<>>, framing)
    BY <1>2, <1>3, <1>4 DEF Underway, Complete
  <2>2. ex' = [ex EXCEPT ![r].pc = "finish", ![r].got = @ \o <<>>]
    BY <1>4 DEF Relayed
  <2>3. conn' = Took(r, 0)
    BY <1>3, <1>4
  <2> HIDE DEF b
  <2> QED BY <1>1, <1>3, <1>4, <2>1, <2>2, <2>3, ForwardsStep DEF b
<1>5. CASE Aborts(r)
  BY <1>1, <1>5, EndsStep DEF Aborts
<1>6. CASE /\ framing = "length" /\ b # <<>> /\ Relayed(r, <<Head(b)>>)
           /\ conn' = Took(r, 1) /\ UNCHANGED idle
  <2>1. /\ Head(b) = b[1] /\ Head(b) \in Units /\ 1 \in DOMAIN b /\ 1 \in 0 .. Len(b)
        /\ <<Head(b)>> \in Seq(Units)
    <3>1. Len(b) # 0 /\ DOMAIN b = 1 .. Len(b) /\ Head(b) = b[1] /\ Head(b) \in Units
      BY <1>2, <1>6, EmptySeq, LenProperties, HeadTailProperties
    <3> QED BY <1>2, <3>1
  <2>2. Len(got) = 1 /\ got[1].kind = "head" /\ Head(b).kind = "data"
    <3>1. s # <<>> /\ s[1] = b[1]
      BY <1>2, <1>6, <2>1, FrontOf
    <3> QED BY <1>2, <1>6, <2>1, <3>1 DEF Underway
  <2>3. Len(<<Head(b)>>) = 1 /\ <<Head(b)>>[1] = Head(b) /\ DOMAIN <<Head(b)>> = {1}
    OBVIOUS
  <2>4. Complete(got \o <<Head(b)>>, framing)
    <3> DEFINE t == <<Head(b)>>
    <3>1. /\ t \in Seq(Units) /\ Len(t) = 1 /\ t[1].kind = "data"
      BY <2>1, <2>2, <2>3
    <3> HIDE DEF t, b
    <3>2. /\ Len(got \o t) = 2 /\ (got \o t)[1] = got[1] /\ (got \o t)[1 + 1] = t[1]
      <4>1. 1 \in 1 .. Len(got) /\ 1 \in 1 .. Len(t)
        BY <2>2, <3>1
      <4>2. /\ Len(got \o t) = Len(got) + Len(t) /\ (got \o t)[1] = got[1]
            /\ (got \o t)[Len(got) + 1] = t[1]
        <5>1. got \in Seq(Units)
          BY <1>2
        <5> HIDE DEF got
        <5>2. /\ Len(got \o t) = Len(got) + Len(t)
              /\ \A i \in 1 .. Len(got) : (got \o t)[i] = got[i]
              /\ \A i \in 1 .. Len(t) : (got \o t)[Len(got) + i] = t[i]
          BY <3>1, <5>1, Joined
        <5> QED BY <4>1, <5>2
      <4> QED BY <2>2, <3>1, <4>2
    <3> QED BY <1>6, <2>2, <3>1, <3>2 DEF Complete, t
  <2>5. ex' = [ex EXCEPT ![r].pc = "finish", ![r].got = @ \o <<Head(b)>>]
    BY <1>6 DEF Relayed
  <2>6. \A j \in DOMAIN <<Head(b)>> : b # <<>> /\ \E i \in DOMAIN b : <<Head(b)>>[j] = b[i]
    BY <1>6, <2>1, <2>3
  <2> HIDE DEF b
  <2> QED BY <1>1, <1>6, <2>1, <2>4, <2>5, <2>6, ForwardsStep DEF b
<1>7. /\ Len(b) \in 0 .. Len(b)
      /\ Stream(Reads(c, Len(b))) = c.script
  <2>1. Len(b) \in 0 .. Len(b)
    BY <1>2
  <2>2. SubSeq(c.buffer, Len(b) + 1, Len(c.buffer)) = <<>>
    <3>1. /\ SubSeq(b, Len(b) + 1, Len(b)) \in Seq(Units)
          /\ Len(SubSeq(b, Len(b) + 1, Len(b))) = Len(b) - Len(b)
      BY <1>2, <2>1, LastUnits
    <3>2. Len(b) - Len(b) = 0
      BY <1>2
    <3> QED BY <1>2, <3>1, <3>2, EmptySeq
  <2>3. Reads(c, Len(b)).buffer = <<>> /\ Reads(c, Len(b)).script = c.script
    BY <1>2, <2>2 DEF Reads, Connection
  <2>4. <<>> \o c.script = c.script
    BY <1>2, ConcatEmptySeq DEF Connection
  <2> QED BY <2>1, <2>3, <2>4 DEF Stream
<1>8. CASE /\ framing = "chunked" /\ b # <<>> /\ Ends(b) /\ Relayed(r, UpToLast(b))
           /\ conn' = Took(r, Len(b)) /\ UNCHANGED idle
  <2>1. /\ UpToLast(b) \in Seq(Units) /\ Complete(got \o UpToLast(b), "chunked")
        /\ \A k \in DOMAIN UpToLast(b) : k \in DOMAIN b /\ UpToLast(b)[k] = b[k]
    BY <1>2, <1>8, FeedsChunks DEF Sound, Stream, Connection
  <2>2. \A j \in DOMAIN UpToLast(b) : b # <<>> /\ \E i \in DOMAIN b : UpToLast(b)[j] = b[i]
    BY <1>8, <2>1
  <2>3. ex' = [ex EXCEPT ![r].pc = "finish", ![r].got = @ \o UpToLast(b)]
    BY <1>8 DEF Relayed
  <2> HIDE DEF b
  <2> QED BY <1>1, <1>7, <1>8, <2>1, <2>2, <2>3, ForwardsStep DEF b
<1>9. CASE /\ b # <<>> /\ Relaying(r, b)
           /\ (framing = "chunked" /\ ~ Ends(b)) \/ framing = "eof"
           /\ conn' = Took(r, Len(b)) /\ UNCHANGED idle
  <2>1. Underway(got \o b, framing, c.script, c.up)
    <3>1. CASE framing = "chunked" /\ ~ Ends(b)
      BY <1>2, <1>9, <3>1, FeedsChunks DEF Sound, Stream, Connection
    <3>2. CASE framing = "eof"
      BY <3>2 DEF Underway
    <3> QED BY <1>9, <3>1, <3>2
  <2>2. ex' = [ex EXCEPT ![r].pc = "relay", ![r].got = @ \o b]
    BY <1>1, <1>2, <1>9 DEF Relaying, Exchange
  <2>3. \A j \in DOMAIN b : b # <<>> /\ \E i \in DOMAIN b : b[j] = b[i]
    BY <1>9
  <2>4. Underway(got \o b, framing, Stream(Reads(c, Len(b))), c.up)
    BY <1>7, <2>1
  <2> HIDE DEF b
  <2> QED BY <1>1, <1>2, <1>7, <1>9, <2>2, <2>3, <2>4, ForwardsStep DEF b
<1>10. CASE framing = "eof" /\ Relayed(r, <<>>) /\ UNCHANGED <<conn, idle>>
  <2>1. Complete(got \o <<>>, framing)
    BY <1>10 DEF Complete
  <2>2. ex' = [ex EXCEPT ![r].pc = "finish", ![r].got = @ \o <<>>]
    BY <1>10 DEF Relayed
  <2>3. conn' = Took(r, 0)
    BY <1>3, <1>10
  <2> HIDE DEF b
  <2> QED BY <1>1, <1>3, <1>10, <2>1, <2>2, <2>3, ForwardsStep DEF b
<1> QED BY <1>2, <1>4, <1>5, <1>6, <1>8, <1>9, <1>10 DEF Relay, Framings

\* An answer that is refused in the middle is broken off.
LEMMA RefusesStep ==
    ASSUME IInv, NEW r \in Requests, Refuses(r), UNCHANGED misled
    PROVE  IInv'
  BY EndsStep DEF Refuses, Aborts, In

\* A connection goes back to the pool, or is closed, once the answer is complete.
LEMMA FinishStep ==
    ASSUME IInv, NEW r \in Requests, Finish(r), UNCHANGED misled
    PROVE  IInv'
<1> DEFINE c == conn[ex[r].conn]
<1>1. ex[r].pc = "finish" /\ ex[r].pc \in Holding
  BY DEF Finish, In, Holding
<1>2. /\ Serves(ex[r], r, c, misled) /\ ex[r] \in Exchange /\ c.state = "open"
      /\ Complete(ex[r].got, ex[r].framing)
  BY <1>1, HoldingFacts DEF Given
<1>3. ASSUME MayServeAgain(r) PROVE Rests(c)
  <2>1. ASSUME ~ c.stray PROVE c.asked = <<>> /\ NoneUnread(Stream(c))
    <3>1. Straight(ex[r], r, c) /\ ex[r].framing # "announced"
      BY <1>2, <1>3, <2>1 DEF Serves, MayServeAgain
    <3> HIDE DEF c
    <3> QED BY <1>1, <3>1 DEF Straight, NoneUnread
  <2> QED BY <1>2, <2>1 DEF Rests
<1>4. MayServeAgain(r) \in BOOLEAN
  BY <1>2 DEF MayServeAgain, Exchange
<1> QED BY <1>1, <1>2, <1>3, <1>4, EndsStep DEF Finish

\* A client that goes away takes its connection with it.
LEMMA CancelStep ==
    ASSUME IInv, NEW r \in Requests, Cancel(r), UNCHANGED misled
    PROVE  IInv'
  BY EndsStep DEF Cancel

\* A connection that cannot be made leaves the exchange without one.
LEMMA ConnectFailsStep ==
    ASSUME IInv, NEW r \in Requests, ConnectFails(r), UNCHANGED misled
    PROVE  IInv'
<1> DEFINE e == [ex[r] EXCEPT !.pc = "done", !.result = "502"]
<1>1. ex[r] \in Exchange /\ ex \in [Requests -> Exchange] /\ ex[r].pc = "connecting"
  BY Types DEF IInv, ConnectFails
<1>2. Tried(ex[r], r) /\ Given(ex[r], r, misled) /\ ex[r].conn = NoConnection
  BY <1>1 DEF IInv, Tries, Parts, Held, Holding
<1>3. /\ e \in Exchange /\ e.conn = NoConnection /\ e.pc = "done"
      /\ e.sent = ex[r].sent /\ e.attempt = ex[r].attempt
      /\ e.got = ex[r].got /\ e.result = "502"
  BY <1>1, <1>2 DEF Exchange
<1>4. ex' = [ex EXCEPT ![r] = e]
  BY <1>1 DEF ConnectFails
<1>5. Release(ex[r].conn, FALSE)
  BY <1>2 DEF ConnectFails, Release
<1> HIDE DEF e
<1>6. ex[r].got = <<>>
  BY <1>1, <1>2 DEF Given
<1>7. Tried(e, r) /\ Given(e, r, misled) /\ e.pc \notin Holding
  <2>1. Tried(e, r) /\ e.pc \notin Holding
    BY <1>2, <1>3 DEF Tried, Holding
  <2>2. Given(e, r, misled)
    BY <1>3, <1>6, EmptySeq DEF Given
  <2> QED BY <2>1, <2>2
<1> QED BY <1>3, <1>4, <1>5, <1>7, GivesUp

\* A pool that is closed leaves no connection open that nobody holds.
LEMMA CloseIdleStep ==
    ASSUME IInv, CloseIdle, UNCHANGED misled
    PROVE  IInv'
<1>1. ex' = ex /\ ex \in [Requests -> Exchange]
  BY Types DEF IInv, CloseIdle
<1>2. \A q \in Requests : Tried(ex[q], q) /\ Given(ex[q], q, misled)
  BY DEF IInv, Tries, Parts
<1> QED BY <1>1, <1>2, PoolEmptied DEF CloseIdle

\* What a step of the upstream may use.
LEMMA OpenFacts ==
    ASSUME IInv, NEW c \in Connections, conn[c].state = "open"
    PROVE  /\ conn[c] \in Connection /\ conn \in [Connections -> Connection]
           /\ Sound(conn[c]) /\ Known(conn[c], ex) /\ misled \in SUBSET Requests
           /\ \A k \in DOMAIN idle : idle[k] = c => Rests(conn[c])
           /\ \A r \in Requests : ex[r].conn = c => Serves(ex[r], r, conn[c], misled)
<1>1. /\ conn[c] \in Connection /\ conn \in [Connections -> Connection]
      /\ misled \in SUBSET Requests
  BY Types DEF IInv
<1>2. Sound(conn[c]) /\ Known(conn[c], ex)
  BY DEF IInv, Streams
<1>3. \A k \in DOMAIN idle : idle[k] = c => Rests(conn[c])
  BY DEF IInv, Pool
<1>4. \A r \in Requests : ex[r].conn = c => Serves(ex[r], r, conn[c], misled)
  BY NoConnectionIsNone DEF IInv, Serving
<1> QED BY <1>1, <1>2, <1>3, <1>4

\* An exchange is served by a connection that begins to answer it.
LEMMA AnswerServes ==
    ASSUME NEW e, NEW r, NEW m, NEW c \in Connection, NEW n \in Connection, NEW s,
           Serves(e, r, c, m), c.up = "open", c.asked # <<>>, c.script = <<>>,
           c.asked = <<r>> => Answer(r, s), s \in Seq(Units),
           n.buffer = c.buffer, n.script = s, n.asked = Tail(c.asked),
           n.up = c.up, n.stray = c.stray
    PROVE  Serves(e, r, n, m)
<1> DEFINE b == c.buffer
           t == Stream(n)
<1>1. /\ b \in Seq(Units) /\ Stream(c) = b /\ t = b \o s
  BY ConcatEmptySeq DEF Connection, Stream
<1>2. ASSUME e.pc = "relay" PROVE Underway(e.got, e.framing, t, n.up)
  <2>1. Underway(e.got, e.framing, b, "open")
    BY <1>1, <1>2 DEF Serves
  <2>2. CASE b = <<>>
    BY <2>1, <2>2 DEF Underway
  <2>3. CASE b # <<>>
    <3>1. t # <<>> /\ t[1] = b[1]
      BY <2>3, FrontOf
    <3> HIDE DEF b, t
    <3> QED BY <2>1, <2>3, <3>1 DEF Underway
  <2> QED BY <2>2, <2>3
<1>3. ASSUME ~ c.stray PROVE Straight(e, r, n)
  <2>1. /\ c.asked = <<r>> /\ e.pc \in {"body", "head"} /\ Straight(e, r, c)
        /\ \A k \in DOMAIN Stream(c) : Stream(c)[k].of # r
        /\ \A k \in DOMAIN b : b[k].of = r
    BY <1>3 DEF Serves, Straight
  <2>2. b = <<>>
    <3>1. DOMAIN b = {}
      BY <1>1, <2>1
    <3>2. Len(b) = 0
      BY <1>1, <3>1, LenProperties
    <3> QED BY <1>1, <3>2, EmptySeq
  <2>3. t = s /\ DOMAIN n.buffer = {} /\ n.asked = <<>>
    <3>1. t = s
      BY <1>1, <2>2, ConcatEmptySeq
    <3>2. n.asked = <<>> /\ n.buffer = <<>>
      BY <2>1, <2>2
    <3>3. DOMAIN n.buffer = {}
      BY <3>2
    <3> QED BY <3>1, <3>2, <3>3
  <2>4. Answer(r, s)
    BY <2>1
  <2>5. ASSUME NEW k \in DOMAIN t, t[k].kind = "unread"
        PROVE  t[k].of = r /\ Behind(r, t, k)
    BY <2>3, <2>4, <2>5 DEF Answer, Behind
  <2> HIDE DEF b
  <2> QED BY <2>1, <2>3, <2>5 DEF Straight
<1>4. c.stray /\ r \notin m => n.buffer = <<>>
  BY DEF Serves
<1> QED BY <1>2, <1>3, <1>4 DEF Serves

\* The upstream answers the first of the requests it was asked.
LEMMA UpstreamActsStep ==
    ASSUME IInv, NEW c \in Connections, UpstreamActs(c)
    PROVE  IInv'
<1>1. /\ conn[c].state = "open" /\ conn[c].up = "open"
      /\ conn[c].asked # <<>> /\ conn[c].script = <<>>
      /\ UNCHANGED <<ex, idle, misled>>
  BY DEF UpstreamActs
<1>2. /\ conn[c] \in Connection /\ conn \in [Connections -> Connection]
      /\ Sound(conn[c]) /\ Known(conn[c], ex) /\ misled \in SUBSET Requests
      /\ \A k \in DOMAIN idle : idle[k] = c => Rests(conn[c])
      /\ \A r \in Requests : ex[r].conn = c => Serves(ex[r], r, conn[c], misled)
  BY <1>1, OpenFacts
<1>3. PICK answer :
        conn' = [conn EXCEPT ![c].script = Script(Head(conn[c].asked), answer),
                             ![c].asked = Tail(@)]
  BY DEF UpstreamActs
<1> DEFINE o == conn[c]
           a == Head(o.asked)
           s == Script(a, answer)
           n == [o EXCEPT !.script = s, !.asked = Tail(o.asked)]
<1>4. conn' = [conn EXCEPT ![c] = n]
  BY <1>2, <1>3
<1>5. /\ o.asked \in Seq(Requests) /\ a \in Requests /\ Tail(o.asked) \in Seq(Requests)
      /\ a = o.asked[1] /\ 1 \in DOMAIN o.asked
      /\ \A k \in DOMAIN Tail(o.asked) : \E j \in DOMAIN o.asked : Tail(o.asked)[k] = o.asked[j]
  <2>1. o.asked \in Seq(Requests) /\ o.asked # <<>>
    BY <1>1, <1>2 DEF Connection
  <2> DEFINE q == o.asked
  <2> HIDE DEF q
  <2>2. q \in Seq(Requests) /\ q # <<>>
    BY <2>1 DEF q
  <2>3. /\ Len(q) \in Nat /\ Len(q) # 0 /\ DOMAIN q = 1 .. Len(q)
        /\ Head(q) \in Requests /\ Tail(q) \in Seq(Requests) /\ Head(q) = q[1]
        /\ Len(Tail(q)) = Len(q) - 1 /\ \A i \in 1 .. Len(Tail(q)) : Tail(q)[i] = q[i + 1]
    BY <2>2, EmptySeq, LenProperties, HeadTailProperties
  <2>4. ASSUME NEW k \in DOMAIN Tail(q) PROVE \E j \in DOMAIN q : Tail(q)[k] = q[j]
    <3>1. k \in 1 .. Len(q) - 1
      BY <2>3, <2>4, LenProperties
    <3>2. k + 1 \in DOMAIN q /\ Tail(q)[k] = q[k + 1]
      BY <2>3, <3>1
    <3> QED BY <3>2
  <2>5. 1 \in DOMAIN q
    BY <2>3
  <2> QED BY <2>2, <2>3, <2>4, <2>5 DEF q
<1>6. Answer(a, s)
  BY <1>5, ScriptIs
<1>7. /\ n \in Connection /\ n.state = "open" /\ n.buffer = o.buffer /\ n.up = o.up
      /\ n.script = s /\ n.asked = Tail(o.asked) /\ n.stray = o.stray
      /\ s \in Seq(Units)
  <2>1. s \in Seq(Units) /\ Tail(o.asked) \in Seq(Requests)
    BY <1>5, <1>6 DEF Answer
  <2> HIDE DEF s
  <2> QED BY <1>1, <1>2, <2>1 DEF Connection
<1>8. /\ Stream(o) = o.buffer /\ Stream(n) = o.buffer \o s /\ o.buffer \in Seq(Units)
  <2> HIDE DEF s, n
  <2> QED BY <1>1, <1>2, <1>7, ConcatEmptySeq DEF Connection, Stream
<1> HIDE DEF n, s, a
<1>9. Sound(n)
  <2>1. Framed(o.buffer, "open") /\ Framed(s, "open")
    BY <1>1, <1>2, <1>6, <1>8 DEF Sound, Answer
  <2>2. Framed(o.buffer \o s, "open")
    BY <1>7, <1>8, <2>1, FramedJoined
  <2> QED BY <1>1, <1>7, <1>8, <2>2 DEF Sound
<1>10. Known(n, ex)
  <2>1. ASSUME NEW k \in DOMAIN n.asked PROVE ex[n.asked[k]].sent # 0
    BY <1>2, <1>5, <1>7, <2>1 DEF Known
  <2>2. ex[a].sent # 0
    BY <1>2, <1>5 DEF Known
  <2>3. ASSUME NEW k \in DOMAIN Stream(n) PROVE ex[Stream(n)[k].of].sent # 0
    <3>1. /\ k \in 1 .. Len(o.buffer) + Len(s)
          /\ \/ k \in 1 .. Len(o.buffer)
             \/ k - Len(o.buffer) \in 1 .. Len(s) /\ Stream(n)[k] = s[k - Len(o.buffer)]
          /\ \A i \in 1 .. Len(o.buffer) : Stream(n)[i] = o.buffer[i]
          /\ DOMAIN o.buffer = 1 .. Len(o.buffer) /\ DOMAIN s = 1 .. Len(s)
      <4> HIDE DEF o
      <4>1. s \in Seq(Units) /\ o.buffer \in Seq(Units)
        BY <1>7, <1>8
      <4>2. /\ DOMAIN (o.buffer \o s) = 1 .. Len(o.buffer) + Len(s)
            /\ DOMAIN o.buffer = 1 .. Len(o.buffer) /\ DOMAIN s = 1 .. Len(s)
            /\ \A i \in 1 .. Len(o.buffer) : (o.buffer \o s)[i] = o.buffer[i]
            /\ \A i \in 1 .. Len(o.buffer) + Len(s) :
                  \/ i \in 1 .. Len(o.buffer)
                  \/ i - Len(o.buffer) \in 1 .. Len(s)
                     /\ (o.buffer \o s)[i] = s[i - Len(o.buffer)]
        BY <4>1, Joined
      <4>3. Stream(n) = o.buffer \o s /\ k \in DOMAIN Stream(n)
        BY <1>8, <2>3
      <4> QED BY <4>2, <4>3
    <3>2. CASE k \in 1 .. Len(o.buffer)
      BY <1>2, <1>8, <3>1, <3>2 DEF Known
    <3>3. CASE k - Len(o.buffer) \in 1 .. Len(s) /\ Stream(n)[k] = s[k - Len(o.buffer)]
      BY <1>6, <2>2, <3>1, <3>3 DEF Answer
    <3> QED BY <3>1, <3>2, <3>3
  <2> QED BY <2>1, <2>3 DEF Known
<1>11. \A k \in DOMAIN idle : idle[k] = c => Rests(n)
  BY <1>1, <1>2, <1>7 DEF Rests
<1>12. ASSUME NEW r \in Requests, ex[r].conn = c PROVE Serves(ex[r], r, n, misled)
  <2>1. Serves(ex[r], r, o, misled) /\ (o.asked = <<r>> => Answer(r, s))
    BY <1>2, <1>5, <1>6, <1>12
  <2> HIDE DEF o
  <2> QED BY <1>1, <1>2, <1>7, <2>1, AnswerServes DEF o
<1> QED BY <1>1, <1>2, <1>4, <1>7, <1>9, <1>10, <1>11, <1>12, UpstreamStep

\* Units that arrive are still of the same stream; where they lead it astray, those
\* who own the connection may be misled.
LEMMA SendsServes ==
    ASSUME NEW e, NEW r, NEW m, NEW l, m \subseteq l,
           NEW c \in Connection, NEW n \in Connection, NEW s \in Seq(Units),
           Serves(e, r, c, m), Stream(n) = Stream(c), n.asked = c.asked, n.up = c.up,
           n.buffer = c.buffer \o s,
           n.stray => r \in l,
           ~ n.stray => /\ ~ c.stray
                        /\ \A k \in DOMAIN s : s[k].of = r \/ s[k].kind = "unread"
    PROVE  Serves(e, r, n, l)
<1>1. ASSUME ~ n.stray PROVE Straight(e, r, n)
  <2>1. Straight(e, r, c)
    BY <1>1 DEF Serves
  <2>2. ASSUME NEW k \in DOMAIN n.buffer PROVE n.buffer[k].of = r
    <3> DEFINE b == c.buffer
    <3>1. /\ b \in Seq(Units) /\ n.buffer = b \o s
      BY DEF Connection
    <3> HIDE DEF b
    <3>2. /\ DOMAIN b = 1 .. Len(b) /\ DOMAIN s = 1 .. Len(s)
          /\ \A i \in 1 .. Len(b) : n.buffer[i] = b[i]
          /\ \/ k \in 1 .. Len(b)
             \/ k - Len(b) \in 1 .. Len(s) /\ n.buffer[k] = s[k - Len(b)]
      BY <2>2, <3>1, Joined
    <3>3. CASE k \in 1 .. Len(b)
      BY <2>1, <3>2, <3>3 DEF Straight, b
    <3>4. CASE k - Len(b) \in 1 .. Len(s) /\ n.buffer[k] = s[k - Len(b)]
      <4>1. n.buffer[k].of = r \/ n.buffer[k].kind = "unread"
        BY <1>1, <3>2, <3>4
      <4>2. k \in DOMAIN Stream(n) /\ Stream(n)[k] = n.buffer[k]
        BY <2>2, StreamIs
      <4> QED BY <2>1, <4>1, <4>2 DEF Straight
    <3> QED BY <3>2, <3>3, <3>4
  <2> QED BY <2>1, <2>2 DEF Straight
<1>2. e.pc = "relay" => Underway(e.got, e.framing, Stream(n), n.up)
  BY DEF Serves
<1>3. r \notin l => ~ n.stray
  OBVIOUS
<1> QED BY <1>1, <1>2, <1>3 DEF Serves

\* What the upstream sends arrives.
LEMMA UpstreamSendsStep ==
    ASSUME IInv, NEW c \in Connections, UpstreamSends(c)
    PROVE  IInv'
<1>1. conn[c].state = "open" /\ UNCHANGED <<ex, idle>>
  BY DEF UpstreamSends
<1>2. /\ conn[c] \in Connection /\ conn \in [Connections -> Connection]
      /\ Sound(conn[c]) /\ Known(conn[c], ex) /\ misled \in SUBSET Requests
      /\ \A k \in DOMAIN idle : idle[k] = c => Rests(conn[c])
      /\ \A r \in Requests : ex[r].conn = c => Serves(ex[r], r, conn[c], misled)
  BY <1>1, OpenFacts
<1> DEFINE o == conn[c]
           b == o.buffer
           sc == o.script
<1>3. PICK k \in 1 .. Len(sc) :
        /\ conn' = [conn EXCEPT ![c].buffer = @ \o SubSeq(sc, 1, k),
                                ![c].script = SubSeq(@, k + 1, Len(@)),
                                ![c].stray = Strays(c, SubSeq(sc, 1, k))]
        /\ misled' = IF Strays(c, SubSeq(sc, 1, k)) THEN misled \cup Owners(c) ELSE misled
  BY DEF UpstreamSends
<1> DEFINE units == SubSeq(sc, 1, k)
           later == SubSeq(sc, k + 1, Len(sc))
           n == [o EXCEPT !.buffer = b \o units, !.script = later,
                          !.stray = Strays(c, units)]
<1>4. conn' = [conn EXCEPT ![c] = n]
  BY <1>2, <1>3
<1>5. b \in Seq(Units) /\ sc \in Seq(Units) /\ k \in 0 .. Len(sc)
  <2>1. b \in Seq(Units) /\ sc \in Seq(Units)
    BY <1>2 DEF Connection
  <2>2. k \in 1 .. Len(sc) /\ Len(sc) \in Nat
    BY <2>1, LenProperties
  <2>3. k \in 0 .. Len(sc)
    BY <2>2
  <2> QED BY <2>1, <2>3
<1>6. /\ units \in Seq(Units) /\ later \in Seq(Units) /\ b \o units \in Seq(Units)
      /\ (b \o units) \o later = b \o sc
  <2> HIDE DEF b, sc
  <2>1. units \in Seq(Units) /\ later \in Seq(Units)
    BY <1>5, FirstUnits, LastUnits
  <2>2. (b \o units) \o later = b \o sc
    BY <1>5, Moved
  <2>3. b \o units \in Seq(Units)
    BY <1>5, <2>1, Joined
  <2> QED BY <2>1, <2>2, <2>3
<1> HIDE DEF units, later
<1>7. Strays(c, units) \in BOOLEAN
  BY <1>2 DEF Strays, Connection
<1>8. /\ n \in Connection /\ n.state = "open" /\ n.buffer = b \o units
      /\ n.script = later /\ n.asked = o.asked /\ n.up = o.up
      /\ n.stray = Strays(c, units)
  <2> HIDE DEF b
  <2> QED BY <1>1, <1>2, <1>6, <1>7 DEF Connection
<1>9. Stream(n) = Stream(o)
  <2> HIDE DEF n
  <2> QED BY <1>6, <1>8 DEF Stream
<1> HIDE DEF n
<1>10. Sound(n) /\ Known(n, ex)
  BY <1>2, <1>8, <1>9 DEF Sound, Known
<1>11. o.stray => n.stray
  BY <1>8 DEF Strays
<1>12. \A j \in DOMAIN idle : idle[j] = c => Rests(n)
  BY <1>2, <1>8, <1>9, <1>11 DEF Rests
<1> DEFINE m == IF Strays(c, units) THEN misled \cup Owners(c) ELSE misled
<1>13. m \in SUBSET Requests /\ misled \subseteq m /\ misled' = m
  <2>1. Owners(c) \subseteq Requests
    BY DEF Owners
  <2>2. misled' = m
    BY <1>3 DEF units
  <2> QED BY <1>2, <2>1, <2>2
<1>14. ASSUME NEW r \in Requests, ex[r].conn = c PROVE Serves(ex[r], r, n, m)
  <2>1. r \in Owners(c)
    BY <1>14 DEF Owners
  <2>2. n.stray => r \in m
    BY <1>8, <2>1
  <2>3. ~ n.stray => /\ ~ o.stray
                     /\ \A j \in DOMAIN units : units[j].of = r \/ units[j].kind = "unread"
    BY <1>8, <2>1 DEF Strays
  <2>4. Serves(ex[r], r, o, misled) /\ o \in Connection /\ n.buffer = o.buffer \o units
    BY <1>2, <1>8, <1>14
  <2> HIDE DEF m, o
  <2> QED BY <1>6, <1>8, <1>9, <1>13, <2>2, <2>3, <2>4, SendsServes
<1> HIDE DEF m
<1> QED BY <1>1, <1>2, <1>4, <1>8, <1>10, <1>12, <1>13, <1>14, UpstreamStep

\* An exchange is served by a connection that brings nothing more.
LEMMA CutServes ==
    ASSUME NEW e, NEW r, NEW m, NEW c \in Connection, NEW n \in Connection,
           Serves(e, r, c, m), n.buffer = c.buffer, Stream(n) = c.buffer,
           n.asked = <<>>, n.up = "closed", n.stray = c.stray
    PROVE  Serves(e, r, n, m)
<1> DEFINE b == c.buffer
<1>1. /\ b \in Seq(Units) /\ DOMAIN b = 1 .. Len(b) /\ DOMAIN Stream(c) = 1 .. Len(Stream(c))
      /\ \A i \in 1 .. Len(b) : i \in 1 .. Len(Stream(c)) /\ Stream(c)[i] = b[i]
  BY StreamIs
<1>2. ASSUME e.pc = "relay" PROVE Underway(e.got, e.framing, b, "closed")
  <2>1. Underway(e.got, e.framing, Stream(c), c.up)
    BY <1>2 DEF Serves
  <2>2. CASE b = <<>>
    BY <2>1, <2>2 DEF Underway
  <2>3. CASE b # <<>>
    <3>1. Stream(c) # <<>> /\ Stream(c)[1] = b[1]
      BY <2>3, FrontOf
    <3> HIDE DEF b
    <3> QED BY <2>1, <2>3, <3>1 DEF Underway
  <2> QED BY <2>2, <2>3
<1>3. ASSUME ~ c.stray PROVE Straight(e, r, n)
  <2>1. Straight(e, r, c)
    BY <1>3 DEF Serves
  <2>2. ASSUME NEW k \in DOMAIN b, b[k].kind = "unread"
        PROVE  /\ b[k].of = r
               /\ e.pc \in {"body", "head"} => Behind(r, b, k)
               /\ e.pc \in {"relay", "finish"} => e.framing = "announced"
    <3>1. k \in DOMAIN Stream(c) /\ Stream(c)[k] = b[k]
      BY <1>1
    <3>2. /\ b[k].of = r
          /\ e.pc \in {"body", "head"} => Behind(r, Stream(c), k)
          /\ e.pc \in {"relay", "finish"} => e.framing = "announced"
      BY <2>1, <2>2, <3>1 DEF Straight
    <3>3. ASSUME Behind(r, Stream(c), k) PROVE Behind(r, b, k)
      BY <1>1, <3>3 DEF Behind
    <3> QED BY <3>2, <3>3
  <2>3. \A k \in DOMAIN b : b[k].of = r
    BY <2>1 DEF Straight
  <2> HIDE DEF b
  <2>4. n.buffer = b /\ Stream(n) = b
    BY DEF b
  <2> QED BY <2>2, <2>3, <2>4 DEF Straight
<1>4. c.stray /\ r \notin m => n.buffer = <<>>
  BY DEF Serves
<1> QED BY <1>2, <1>3, <1>4 DEF Serves

\* An upstream that closes brings nothing more,
LEMMA UpstreamClosesStep ==
    ASSUME IInv, NEW c \in Connections, UpstreamCloses(c)
    PROVE  IInv'
<1> DEFINE o == conn[c]
           n == [o EXCEPT !.up = "closed", !.script = <<>>, !.asked = <<>>]
<1>1. conn[c].state = "open" /\ UNCHANGED <<ex, idle, misled>>
  BY DEF UpstreamCloses
<1>2. /\ conn[c] \in Connection /\ conn \in [Connections -> Connection]
      /\ Sound(conn[c]) /\ Known(conn[c], ex) /\ misled \in SUBSET Requests
      /\ \A k \in DOMAIN idle : idle[k] = c => Rests(conn[c])
      /\ \A r \in Requests : ex[r].conn = c => Serves(ex[r], r, conn[c], misled)
  BY <1>1, OpenFacts
<1>3. conn' = [conn EXCEPT ![c] = n]
  BY <1>2 DEF UpstreamCloses
<1>4. /\ n \in Connection /\ n.state = "open" /\ n.buffer = o.buffer
      /\ n.script = <<>> /\ n.asked = <<>> /\ n.up = "closed" /\ n.stray = o.stray
  BY <1>1, <1>2, EmptySeq DEF Connection
<1> HIDE DEF n
<1>5. /\ Stream(n) = o.buffer /\ o.buffer \in Seq(Units) /\ o.script \in Seq(Units)
      /\ Stream(o) = o.buffer \o o.script
  BY <1>2, <1>4, ConcatEmptySeq DEF Connection, Stream
<1>6. \A i \in DOMAIN o.buffer : i \in DOMAIN Stream(o) /\ Stream(o)[i] = o.buffer[i]
  <2> HIDE DEF o
  <2> QED BY <1>2, StreamIs DEF o
<1>7. Sound(n)
  BY <1>2, <1>4, <1>5, FramedFront DEF Sound
<1>8. Known(n, ex)
  <2>1. DOMAIN n.asked = {}
    BY <1>4
  <2> QED BY <1>2, <1>5, <1>6, <2>1 DEF Known
<1>9. ASSUME NEW k \in DOMAIN idle, idle[k] = c PROVE Rests(n)
  BY <1>2, <1>4, <1>5, <1>6, <1>9 DEF Rests, NoneUnread
<1>10. ASSUME NEW r \in Requests, ex[r].conn = c PROVE Serves(ex[r], r, n, misled)
  BY <1>2, <1>4, <1>5, <1>10, CutServes
<1> QED BY <1>1, <1>2, <1>3, <1>4, <1>7, <1>8, <1>9, <1>10, UpstreamStep

\* which the proxy learns later.
LEMMA EofArrivesStep ==
    ASSUME IInv, NEW c \in Connections, EofArrives(c)
    PROVE  IInv'
<1> DEFINE o == conn[c]
           n == [o EXCEPT !.eof = TRUE]
<1>1. conn[c].state = "open" /\ UNCHANGED <<ex, idle, misled>>
  BY DEF EofArrives
<1>2. /\ conn[c] \in Connection /\ conn \in [Connections -> Connection]
      /\ Sound(conn[c]) /\ Known(conn[c], ex) /\ misled \in SUBSET Requests
      /\ \A k \in DOMAIN idle : idle[k] = c => Rests(conn[c])
      /\ \A r \in Requests : ex[r].conn = c => Serves(ex[r], r, conn[c], misled)
  BY <1>1, OpenFacts
<1>3. conn' = [conn EXCEPT ![c] = n]
  BY <1>2 DEF EofArrives
<1>4. /\ n \in Connection /\ n.state = "open" /\ n.buffer = o.buffer
      /\ n.script = o.script /\ n.asked = o.asked /\ n.up = o.up /\ n.stray = o.stray
  BY <1>1, <1>2 DEF Connection
<1> HIDE DEF n
<1>5. Stream(n) = Stream(o)
  BY <1>4 DEF Stream
<1>6. Sound(n) /\ Known(n, ex)
  BY <1>2, <1>4, <1>5 DEF Sound, Known
<1>7. \A k \in DOMAIN idle : idle[k] = c => Rests(n)
  BY <1>1, <1>2, <1>4, <1>5 DEF Rests
<1>8. ASSUME NEW r \in Requests, ex[r].conn = c PROVE Serves(ex[r], r, n, misled)
  BY <1>2, <1>4, <1>5, <1>8 DEF Serves, Straight
<1> QED BY <1>1, <1>2, <1>3, <1>4, <1>6, <1>7, <1>8, UpstreamStep

-----------------------------------------------------------------------------
\* The invariant holds, and what follows from it.

\* The invariant holds at the start,
LEMMA InitIInv ==
    ASSUME Init
    PROVE  IInv
<1>1. /\ ex \in [Requests -> Exchange] /\ \A r \in Requests : ex[r] = NoExchange
      /\ conn \in [Connections -> Connection] /\ \A c \in Connections : conn[c] = Unmade
      /\ idle = <<>> /\ misled = {}
  <2>1. NoExchange \in Exchange /\ Unmade \in Connection
    BY EmptySeq DEF NoExchange, Unmade, Exchange, Connection, Framings
  <2> QED BY <2>1 DEF Init
<1>2. DOMAIN <<>> = {} /\ Len(<<>>) = 0 /\ <<>> \in Seq(Connections)
  BY EmptySeq
<1>3. TypeOK
  BY <1>1, <1>2, Types, ProxyAssumption DEF IsInjective
<1>4. Held
  BY <1>1 DEF Held, NoExchange, Holding
<1>5. Pool
  BY <1>1, <1>2 DEF Pool
<1>6. NoneLost
  BY <1>1 DEF NoneLost, Unmade
<1>7. Tries
  BY <1>1 DEF Tries, Tried, NoExchange, Holding
<1>8. Streams
  <2>1. Unmade.buffer = <<>> /\ Unmade.script = <<>> /\ Unmade.asked = <<>>
    BY DEF Unmade
  <2>2. Sound(Unmade) /\ \A x : Known(Unmade, x)
    BY <2>1, EmptyStream
  <2> QED BY <1>1, <2>2 DEF Streams
<1>10. Serving
  BY <1>1 DEF Serving, NoExchange
<1>9. Parts
  BY <1>1, <1>2 DEF Parts, Given, NoExchange
<1> QED BY <1>3, <1>4, <1>5, <1>6, <1>7, <1>8, <1>9, <1>10 DEF IInv

\* every step keeps it,
LEMMA NextIInv ==
    ASSUME IInv, [Next]_vars
    PROVE  IInv'
<1>1. ASSUME NEW r \in Requests, UNCHANGED misled,
             \/ Connect(r) \/ Connected(r) \/ ConnectFails(r)
             \/ ForwardBody(r) \/ ReadHead(r) \/ Relay(r) \/ Refuses(r) \/ Finish(r)
             \/ Cancel(r)
      PROVE  IInv'
  BY <1>1, ConnectStep, ConnectedStep, ConnectFailsStep, ForwardBodyStep, ReadHeadStep,
     RelayStep, RefusesStep, FinishStep, CancelStep
<1>2. CASE CloseIdle /\ UNCHANGED misled
  BY <1>2, CloseIdleStep
<1>3. ASSUME NEW c \in Connections,
             \/ UpstreamActs(c) \/ UpstreamSends(c)
             \/ UpstreamCloses(c) \/ EofArrives(c)
      PROVE  IInv'
  BY <1>3, UpstreamActsStep, UpstreamSendsStep, UpstreamClosesStep, EofArrivesStep
<1>4. CASE UNCHANGED vars
  BY <1>4 DEF vars, IInv, TypeOK, Held, Pool, NoneLost, Tries, Streams, Serving, Parts
<1> QED BY <1>1, <1>2, <1>3, <1>4 DEF Next, ProxyStep

\* and so it always holds.
LEMMA Invariant == Spec => []IInv
<1>1. Init => IInv
  BY InitIInv
<1>2. IInv /\ [Next]_vars => IInv'
  BY NextIInv
<1> QED BY <1>1, <1>2, PTL DEF Spec

\* Every variable of the proxy keeps its type, and the pool its bound.
THEOREM TypeCorrect == Spec => []TypeOK
<1>1. IInv => TypeOK
  BY DEF IInv
<1> QED BY <1>1, Invariant, PTL

\* Clients that share connections to an upstream, which may send more than it
\* announced, and when it likes, are sent parts of their own answers and of no other,
\* unless such a surplus came after a connection had been given to them or to
\* somebody before them.
THEOREM AnswersAreOwn == Spec => []OwnAnswer
<1>1. IInv => OwnAnswer
  BY DEF IInv, Parts, Given, OwnAnswer
<1> QED BY <1>1, Invariant, PTL

\* A request is sent again only where that does no harm, and before any part of
\* its answer has gone to the client.
THEOREM SentAgainSafely == Spec => []SentOnce
<1>1. IInv => SentOnce
  <2>1. ASSUME IInv, NEW r \in Requests
        PROVE  /\ ex[r].sent <= (IF r \in Repeatable \ WithBody THEN 2 ELSE 1)
               /\ ex[r].got # <<>> => ex[r].pc \in {"relay", "finish", "done"}
    <3>1. Tried(ex[r], r) /\ Given(ex[r], r, misled) /\ ex[r] \in Exchange
      BY <2>1, Types DEF IInv, Tries, Parts
    <3>2. ex[r].attempt \in 0 .. 1 /\ ex[r].sent \in 0 .. 2
      BY <3>1 DEF Exchange
    <3> QED BY <3>1, <3>2 DEF Tried, Given
  <2> QED BY <2>1 DEF SentOnce
<1> QED BY <1>1, Invariant, PTL

\* An open connection is an exchange's or the pool's, and of one of them only.
THEOREM ConnectionsAreOwned == Spec => []OneOwner
<1>1. ASSUME IInv, NEW c \in Connections, conn[c].state = "open"
      PROVE  Cardinality({r \in Requests : ex[r].conn = c})
                 + Cardinality({k \in DOMAIN idle : idle[k] = c}) = 1
  <2> DEFINE R == {r \in Requests : ex[r].conn = c}
             K == {k \in DOMAIN idle : idle[k] = c}
  <2>1. CASE \E r \in Requests : ex[r].conn = c
    <3>1. PICK r \in Requests : ex[r].conn = c
      BY <2>1
    <3>2. R = {r}
      BY <1>1, <3>1, NoConnectionIsNone DEF IInv, Held
    <3>3. K = {}
      BY <1>1, <3>1 DEF IInv, Pool
    <3> HIDE DEF R, K
    <3>4. Cardinality(R) = 1 /\ Cardinality(K) = 0
      BY <3>2, <3>3, FS_Singleton, FS_EmptySet
    <3> QED BY <3>4 DEF R, K
  <2>2. CASE \E k \in DOMAIN idle : idle[k] = c
    <3>1. PICK k \in DOMAIN idle : idle[k] = c
      BY <2>2
    <3>2. K = {k}
      BY <1>1, <3>1, Types DEF IInv, IsInjective
    <3>3. R = {}
      BY <1>1, <3>1 DEF IInv, Pool
    <3> HIDE DEF R, K
    <3>4. Cardinality(R) = 0 /\ Cardinality(K) = 1
      BY <3>2, <3>3, FS_Singleton, FS_EmptySet
    <3> QED BY <3>4 DEF R, K
  <2> QED BY <1>1, <2>1, <2>2 DEF IInv, NoneLost
<1>2. IInv => OneOwner
  BY <1>1 DEF IInv, Held, Pool, Rests, OneOwner
<1> QED BY <1>2, Invariant, PTL

\* A client that is told that its answer is complete has all of it, and one that
\* is answered 502 was sent nothing before.
THEOREM WholeAnswersAreWhole == Spec => []WholeMeansWhole
<1>1. ASSUME IInv, NEW r \in Requests, ex[r].result = "whole", ex[r].framing # "eof"
      PROVE  [k \in DOMAIN ex[r].got |-> ex[r].got[k].kind] = PartsOf(ex[r].framing)
  <2> DEFINE got == ex[r].got
             framing == ex[r].framing
  <2>1. Complete(got, framing) /\ got \in Seq(Units) /\ framing \in Framings
    BY <1>1, Types DEF IInv, Parts, Given, Exchange
  <2>2. DOMAIN got = 1 .. Len(got)
    BY <2>1, LenProperties
  <2> HIDE DEF got, framing
  <2>3. CASE framing \in {"none", "announced"}
    <3>1. Len(got) = 1 /\ got[1].kind = "head" /\ PartsOf(framing) = <<"head">>
      BY <2>1, <2>3 DEF Complete, PartsOf
    <3> QED BY <2>2, <3>1 DEF got, framing
  <2>4. CASE framing = "length"
    <3>1. /\ Len(got) = 2 /\ got[1].kind = "head" /\ got[2].kind = "data"
          /\ PartsOf(framing) = <<"head", "data">>
      BY <2>1, <2>4 DEF Complete, PartsOf
    <3> QED BY <2>2, <3>1 DEF got, framing
  <2>5. CASE framing = "chunked"
    <3>1. /\ Len(got) = 3 /\ got[1].kind = "head" /\ got[2].kind = "data"
          /\ got[3].kind = "last" /\ PartsOf(framing) = <<"head", "data", "last">>
      BY <2>1, <2>5 DEF Complete, PartsOf
    <3> QED BY <2>2, <3>1 DEF got, framing
  <2>6. framing # "eof"
    BY <1>1 DEF framing
  <2> QED BY <2>1, <2>3, <2>4, <2>5, <2>6 DEF Framings
<1>2. IInv => WholeMeansWhole
  BY <1>1 DEF IInv, Parts, Given, WholeMeansWhole
<1> QED BY <1>2, Invariant, PTL
=============================================================================
