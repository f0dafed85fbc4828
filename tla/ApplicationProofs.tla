------------------------- MODULE ApplicationProofs -------------------------
(***************************************************************************)
(* What the operators on an exchange do to it, for the proofs about the    *)
(* handlers of both protocols: which fields they set, and what becomes of  *)
(* the two queues.                                                         *)
(***************************************************************************)
EXTENDS Application, FiniteSetTheorems, FunctionTheorems, SequenceTheorems, TLAPS

\* How often an element of S occurs in a sequence.
Count(s, S) == Cardinality({k \in DOMAIN s : s[k] \in S})

\* A body message, one that ends the body, and one that carries data of it.
Body == [kind : {"body"}, data : BOOLEAN, more : BOOLEAN, aborted : BOOLEAN]
Final == [kind : {"body"}, data : BOOLEAN, more : {FALSE}, aborted : {FALSE}]
Loaded == [kind : {"body"}, data : {TRUE}, more : BOOLEAN, aborted : BOOLEAN]

\* Two exchanges that are alike in what was said of the response, and in what
\* was queued of it.
SameFlags(r, e) ==
    /\ e.started = r.started /\ e.announced = r.announced
    /\ e.trailersSent = r.trailersSent /\ e.bodyEnded = r.bodyEnded
SameAnswer(r, e) == SameFlags(r, e) /\ e.send = r.send

\* ... and in how far they are.
SameState(r, e) ==
    /\ e.finished = r.finished /\ e.disconnected = r.disconnected
    /\ e.complete = r.complete

-----------------------------------------------------------------------------
\* The positions of a sequence are finitely many.
LEMMA CountIsNatural ==
    ASSUME NEW T, NEW s \in Seq(T), NEW S
    PROVE  /\ Count(s, S) \in Nat
           /\ IsFiniteSet({k \in DOMAIN s : s[k] \in S})
           /\ Count(s, S) = 0 <=> \A k \in DOMAIN s : s[k] \notin S
<1> DEFINE K == {k \in DOMAIN s : s[k] \in S}
<1>1. DOMAIN s = 1 .. Len(s) /\ Len(s) \in Nat
  BY LenProperties
<1>2. IsFiniteSet(1 .. Len(s))
  BY <1>1, FS_Interval
<1>3. K \in SUBSET (1 .. Len(s))
  BY <1>1
<1>4. K = {} <=> \A k \in DOMAIN s : s[k] \notin S
  OBVIOUS
<1> HIDE DEF K
<1>5. IsFiniteSet(K)
  BY <1>2, <1>3, FS_Subset
<1>6. Cardinality(K) \in Nat /\ (Cardinality(K) = 0 <=> K = {})
  BY <1>5, FS_CardinalityType, FS_EmptySet
<1> QED BY <1>4, <1>5, <1>6 DEF Count, K

\* What a sequence holds after its first element ...
LEMMA TailPoints ==
    ASSUME NEW T, NEW s \in Seq(T), s # <<>>
    PROVE  /\ Len(s) \in Nat \ {0} /\ DOMAIN s = 1 .. Len(s)
           /\ Head(s) = s[1] /\ Head(s) \in T
           /\ Tail(s) \in Seq(T) /\ DOMAIN Tail(s) = 1 .. Len(s) - 1
           /\ \A k \in 1 .. Len(s) - 1 : Tail(s)[k] = s[k + 1]
<1>1. /\ Tail(s) \in Seq(T) /\ Len(Tail(s)) = Len(s) - 1
      /\ \A k \in 1 .. Len(Tail(s)) : Tail(s)[k] = s[k + 1]
      /\ Len(s) \in Nat \ {0} /\ DOMAIN s = 1 .. Len(s)
  BY HeadTailProperties, EmptySeq, LenProperties
<1>2. DOMAIN Tail(s) = 1 .. Len(s) - 1
  BY <1>1, LenProperties
<1>3. Head(s) = s[1] /\ Head(s) \in T
  BY <1>1, HeadTailProperties
<1> QED BY <1>1, <1>2, <1>3

\* ... and before one more.
LEMMA AppendPoints ==
    ASSUME NEW T, NEW s \in Seq(T), NEW x \in T
    PROVE  /\ Len(s) \in Nat /\ DOMAIN s = 1 .. Len(s)
           /\ Append(s, x) \in Seq(T) /\ DOMAIN Append(s, x) = 1 .. Len(s) + 1
           /\ Append(s, x)[Len(s) + 1] = x
           /\ \A k \in 1 .. Len(s) : Append(s, x)[k] = s[k]
<1>1. /\ Append(s, x) \in Seq(T) /\ Len(Append(s, x)) = Len(s) + 1
      /\ Append(s, x)[Len(s) + 1] = x
      /\ \A k \in 1 .. Len(s) : Append(s, x)[k] = s[k]
      /\ Len(s) \in Nat /\ DOMAIN s = 1 .. Len(s)
  BY AppendProperties, LenProperties
<1>2. DOMAIN Append(s, x) = 1 .. Len(s) + 1
  BY <1>1, LenProperties
<1> QED BY <1>1, <1>2

\* An element more at the end counts one more, or none.
LEMMA CountAppend ==
    ASSUME NEW T, NEW s \in Seq(T), NEW x \in T, NEW S
    PROVE  Count(Append(s, x), S) = Count(s, S) + (IF x \in S THEN 1 ELSE 0)
<1> DEFINE t == Append(s, x)
           K == {k \in DOMAIN s : s[k] \in S}
           L == {k \in DOMAIN t : t[k] \in S}
           n == Len(s) + 1
<1>1. /\ DOMAIN s = 1 .. Len(s) /\ Len(s) \in Nat
      /\ DOMAIN t = 1 .. n /\ t[n] = x /\ \A k \in 1 .. Len(s) : t[k] = s[k]
  <2>1. t \in Seq(T) /\ Len(t) = Len(s) + 1
    BY AppendProperties
  <2>2. DOMAIN t = 1 .. n
    BY <2>1, LenProperties
  <2> QED BY <2>2, LenProperties, AppendProperties
<1>2. IsFiniteSet(K) /\ Cardinality(K) \in Nat
  BY CountIsNatural DEF Count
<1>3. n \notin K /\ L = IF x \in S THEN K \cup {n} ELSE K
  BY <1>1
<1> HIDE DEF K, L, n
<1>4. CASE x \in S
  <2>1. Cardinality(K \cup {n}) = Cardinality(K) + 1
    BY <1>2, <1>3, FS_AddElement
  <2> QED BY <1>3, <1>4, <2>1 DEF Count, K, L, t
<1>5. CASE x \notin S
  <2>1. Cardinality(L) = Cardinality(K) + 0
    BY <1>2, <1>3, <1>5
  <2> QED BY <1>5, <2>1 DEF Count, K, L, t
<1> QED BY <1>4, <1>5

\* And one less at the front.
LEMMA CountTail ==
    ASSUME NEW T, NEW s \in Seq(T), s # <<>>, NEW S
    PROVE  Count(s, S) = Count(Tail(s), S) + (IF Head(s) \in S THEN 1 ELSE 0)
<1> DEFINE t == Tail(s)
           K == {k \in DOMAIN s : s[k] \in S}
           L == {k \in DOMAIN t : t[k] \in S}
           f == [k \in L |-> k + 1]
<1>1. /\ Len(s) \in Nat \ {0} /\ DOMAIN s = 1 .. Len(s) /\ Head(s) = s[1]
      /\ DOMAIN t = 1 .. Len(s) - 1 /\ \A k \in 1 .. Len(s) - 1 : t[k] = s[k + 1]
  <2>1. t \in Seq(T) /\ Len(t) = Len(s) - 1
    BY HeadTailProperties
  <2>2. DOMAIN t = 1 .. Len(s) - 1
    BY <2>1, LenProperties
  <2> QED BY <2>1, <2>2, LenProperties, EmptySeq, HeadTailProperties
<1>2. IsFiniteSet(K) /\ Cardinality(K) \in Nat /\ IsFiniteSet(L) /\ Cardinality(L) \in Nat
  <2>1. t \in Seq(T)
    BY HeadTailProperties
  <2> QED BY <2>1, CountIsNatural DEF Count
<1>3. f \in Bijection(L, K \ {1})
  <2>1. L \subseteq 1 .. Len(s) - 1
    BY <1>1
  <2>2. \A k \in L : k + 1 \in K \ {1}
    BY <1>1
  <2>3. f \in [L -> K \ {1}]
    BY <2>2
  <2>4. \A k, l \in L : f[k] = f[l] => k = l
    BY <2>1
  <2>5. \A k \in K \ {1} : \E l \in L : f[l] = k
    <3> SUFFICES ASSUME NEW k \in K \ {1} PROVE k - 1 \in L /\ f[k - 1] = k
      OBVIOUS
    <3>1. k \in 2 .. Len(s) /\ s[k] \in S
      BY <1>1
    <3>2. k - 1 \in 1 .. Len(s) - 1 /\ t[k - 1] = s[(k - 1) + 1]
      BY <1>1, <3>1
    <3> QED BY <1>1, <3>1, <3>2
  <2> HIDE DEF L, K, f
  <2> QED BY <2>3, <2>4, <2>5, Fun_IsBij
<1>4. (1 \in K) <=> Head(s) \in S
  BY <1>1
<1> HIDE DEF K, L, f
<1>5. Cardinality(K \ {1}) = Cardinality(L)
  BY <1>2, <1>3, FS_Bijection, Fun_ExistsBij
<1>6. Cardinality(K \ {1}) = IF 1 \in K THEN Cardinality(K) - 1 ELSE Cardinality(K)
  BY <1>2, FS_RemoveElement
<1>7. Cardinality(K) = Cardinality(L) + (IF Head(s) \in S THEN 1 ELSE 0)
  BY <1>2, <1>4, <1>5, <1>6
<1> QED BY <1>7 DEF Count, K, L, t
-----------------------------------------------------------------------------
\* feed_request queues one message of the request, and nothing else.
LEMMA FeedActs ==
    ASSUME NEW r \in Exchanges, NEW x \in RequestMessages
    PROVE  /\ Feed(r, x) \in Exchanges
           /\ SameAnswer(r, Feed(r, x)) /\ SameState(r, Feed(r, x))
           /\ Feed(r, x).recv = Append(r.recv, x)
           /\ Feed(r, x).sendSpace = r.sendSpace
<1>1. r.recv \in Seq(RequestMessages) /\ Append(r.recv, x) \in Seq(RequestMessages)
  BY AppendProperties DEF Exchanges
<1> QED BY <1>1 DEF Feed, Exchanges, SameAnswer, SameFlags, SameState

\* A queue that is told of the end holds something then, and stays in bounds.
LEMMA OfferedActs ==
    ASSUME NEW r \in Exchanges, NEW x \in RequestMessages
    PROVE  /\ Offered(r, x) \in Seq(RequestMessages) /\ Offered(r, x) # <<>>
           /\ Len(r.recv) <= RecvMax => Len(Offered(r, x)) <= RecvMax
<1>1. /\ r.recv \in Seq(RequestMessages) /\ Len(r.recv) \in Nat
      /\ Append(r.recv, x) \in Seq(RequestMessages) /\ Append(r.recv, x) # <<>>
      /\ Len(Append(r.recv, x)) = Len(r.recv) + 1
  BY AppendProperties, LenProperties DEF Exchanges
<1>2. Len(r.recv) = RecvMax => r.recv # <<>>
  BY QueueAssumption, EmptySeq
<1> QED BY <1>1, <1>2, QueueAssumption DEF Offered, Full

\* notify_disconnect ends an exchange, and leaves what was said of the answer.
LEMMA NotifyDisconnectActs ==
    ASSUME NEW r \in Exchanges
    PROVE  /\ NotifyDisconnect(r) \in Exchanges /\ SameAnswer(r, NotifyDisconnect(r))
           /\ NotifyDisconnect(r).finished /\ NotifyDisconnect(r).disconnected
           /\ NotifyDisconnect(r).complete = r.complete
           /\ NotifyDisconnect(r).recv # <<>>
           /\ Len(r.recv) <= RecvMax => Len(NotifyDisconnect(r).recv) <= RecvMax
<1>1. "disconnect" \in RequestMessages
  BY DEF RequestMessages
<1> QED BY <1>1, OfferedActs DEF NotifyDisconnect, Exchanges, SameAnswer, SameFlags

\* So does the end of a writer.
LEMMA CompletedActs ==
    ASSUME NEW r \in Exchanges
    PROVE  /\ Completed(r) \in Exchanges /\ SameAnswer(r, Completed(r))
           /\ Completed(r).finished /\ Completed(r).disconnected
           /\ Completed(r).complete /\ Completed(r).sendSpace
           /\ ~r.disconnected => Completed(r).recv # <<>>
           /\ r.disconnected => Completed(r).recv = r.recv
           /\ Len(r.recv) <= RecvMax => Len(Completed(r).recv) <= RecvMax
<1>1. "disconnect" \in RequestMessages
  BY DEF RequestMessages
<1> DEFINE recv == IF r.disconnected THEN r.recv ELSE Offered(r, "disconnect")
<1>2. /\ recv \in Seq(RequestMessages)
      /\ ~r.disconnected => recv # <<>>
      /\ r.disconnected => recv = r.recv
      /\ Len(r.recv) <= RecvMax => Len(recv) <= RecvMax
  BY <1>1, OfferedActs DEF Exchanges
<1>3. Completed(r) = [r EXCEPT !.finished = TRUE, !.disconnected = TRUE, !.sendSpace = TRUE,
                               !.recvSpace = TRUE, !.recv = recv, !.complete = TRUE]
  BY DEF Completed, MarkFinished, Exchanges
<1> HIDE DEF recv
<1> QED BY <1>2, <1>3 DEF Exchanges, SameAnswer, SameFlags

\* next_response_message takes the first of the messages.
LEMMA TakenActs ==
    ASSUME NEW r \in Exchanges, r.send # <<>>
    PROVE  /\ Taken(r) \in Exchanges /\ SameFlags(r, Taken(r)) /\ SameState(r, Taken(r))
           /\ Taken(r).send = Tail(r.send) /\ Taken(r).recv = r.recv /\ Taken(r).sendSpace
           /\ Head(r.send) \in Messages /\ Len(Taken(r).send) = Len(r.send) - 1
<1>1. r.send \in Seq(Messages)
  BY DEF Exchanges
<1>2. /\ Tail(r.send) \in Seq(Messages) /\ Head(r.send) \in Messages
      /\ Len(Tail(r.send)) = Len(r.send) - 1
  BY <1>1, HeadTailProperties
<1> QED BY <1>2 DEF Taken, Exchanges, SameFlags, SameState

\* receive takes the first message of the request.
LEMMA ReceivedActs ==
    ASSUME NEW r \in Exchanges, r.recv # <<>>
    PROVE  /\ Received(r) \in Exchanges
           /\ SameAnswer(r, Received(r)) /\ SameState(r, Received(r))
           /\ Received(r).recv = Tail(r.recv) /\ Received(r).sendSpace = r.sendSpace
           /\ Len(r.recv) \in Nat /\ Len(Received(r).recv) = Len(r.recv) - 1
<1>1. r.recv \in Seq(RequestMessages)
  BY DEF Exchanges
<1>2. /\ Tail(r.recv) \in Seq(RequestMessages) /\ Len(r.recv) \in Nat
      /\ Len(Tail(r.recv)) = Len(r.recv) - 1
  BY <1>1, HeadTailProperties, LenProperties
<1> QED BY <1>2 DEF Received, Exchanges, SameAnswer, SameFlags, SameState

\* What send notes of a message it notes before it queues anything.
LEMMA NotedActs ==
    ASSUME NEW r \in Exchanges, NEW m \in Messages
    PROVE  /\ Noted(r, m) \in Exchanges /\ SameState(r, Noted(r, m))
           /\ Noted(r, m).send = r.send /\ Noted(r, m).recv = r.recv
           /\ Noted(r, m).sendSpace = r.sendSpace
           /\ r.started => Noted(r, m).started
           /\ r.bodyEnded => Noted(r, m).bodyEnded
<1>1. CASE m.kind = "start"
  <2>1. m.trailers \in BOOLEAN
    BY <1>1 DEF Messages, Interim, Trailers
  <2> QED BY <1>1, <2>1 DEF Noted, Exchanges, SameState
<1>2. CASE m.kind = "body"
  <2> DEFINE ended == r.bodyEnded \/ (~m.more /\ ~m.aborted)
  <2>1. ended \in BOOLEAN /\ (r.bodyEnded => ended)
    BY DEF Exchanges
  <2>2. Noted(r, m) = [r EXCEPT !.bodyEnded = ended]
    BY <1>2 DEF Noted
  <2> HIDE DEF ended
  <2> QED BY <2>1, <2>2 DEF Exchanges, SameState
<1>3. CASE m.kind = "trailers"
  BY <1>3 DEF Noted, Exchanges, SameState
<1>4. CASE m.kind = "interim"
  BY <1>4 DEF Noted, Exchanges, SameState
<1> QED BY <1>1, <1>2, <1>3, <1>4 DEF Messages, Interim, Trailers

\* Concatenation of messages is associative.
LEMMA JoinedMessages ==
    ASSUME NEW a \in Seq(Messages), NEW b \in Seq(Messages), NEW c \in Seq(Messages)
    PROVE  (a \o b) \o c = a \o (b \o c)
<1> DEFINE T == Messages
<1>1. a \in Seq(T) /\ b \in Seq(T) /\ c \in Seq(T)
  OBVIOUS
<1> HIDE DEF T
<1> QED BY <1>1, ConcatAssociative

\* Sequences of one element and of two.
LEMMA Pair ==
    ASSUME NEW T, NEW a \in T, NEW b \in T
    PROVE  /\ <<a>> \in Seq(T) /\ <<a, b>> \in Seq(T)
           /\ <<a>> \o <<b>> = <<a, b>> /\ Append(<<a>>, b) = <<a, b>>
<1>1. <<a>> \in Seq(T) /\ Len(<<a>>) = 1
  OBVIOUS
<1>2. <<a, b>> \in Seq(T) /\ Len(<<a, b>>) = 2
  OBVIOUS
<1>3. Append(<<a>>, b) = <<a>> \o <<b>>
  BY <1>1, AppendIsConcat
<1>4. Append(<<a>>, b) = <<a, b>>
  <2> DEFINE t == Append(<<a>>, b)
             v == <<a, b>>
  <2>1. t \in Seq(T) /\ Len(t) = 2 /\ t[1] = a /\ t[2] = b
    BY <1>1, AppendProperties
  <2>2. v \in Seq(T) /\ Len(v) = 2 /\ v[1] = a /\ v[2] = b
    BY <1>2
  <2>3. \A k \in 1 .. Len(t) : k = 1 \/ k = 2
    BY <2>1
  <2> HIDE DEF t, v
  <2>4. t = v
    BY <2>1, <2>2, <2>3, SeqEqual
  <2> QED BY <2>4 DEF t, v
<1> QED BY <1>1, <1>2, <1>3, <1>4

\* An answer that run_app gives for an application that gave none.
Opens == <<StartMessage("none", FALSE), BodyMessage(FALSE, FALSE)>>

\* What run_app still sends, of an exchange that nothing was noted of before it
\* was started.
LEMMA LastWordsAre ==
    ASSUME NEW r \in Exchanges, NEW how \in Endings,
           ~r.started => ~r.announced /\ ~r.bodyEnded
    PROVE  \/ /\ LastWords(r, how) = <<>>
              /\ r.started \/ r.complete
              /\ how # "return" => r.bodyEnded
           \/ /\ LastWords(r, how) = <<Trailers>>
              /\ r.started /\ r.announced /\ ~r.trailersSent
              /\ how # "return" => r.bodyEnded
           \/ /\ LastWords(r, how) = <<BodyMessage(FALSE, FALSE)>>
              /\ r.started /\ ~r.bodyEnded /\ how = "return"
              /\ ~(r.announced /\ ~r.trailersSent)
           \/ /\ LastWords(r, how) = <<AbortedEnd>>
              /\ r.started /\ ~r.bodyEnded /\ how # "return"
           \/ LastWords(r, how) = Whole /\ ~r.started
           \/ LastWords(r, how) = Opens /\ ~r.started /\ how = "return"
<1>1. CASE how = "return" /\ ~r.complete /\ ~r.started
  <2>1. LastWords(r, how) = <<StartMessage("none", FALSE)>> \o <<BodyMessage(FALSE, FALSE)>>
    BY <1>1 DEF LastWords, Closing
  <2>2. LastWords(r, how) = Opens
    <3> DEFINE a == StartMessage("none", FALSE)
               b == BodyMessage(FALSE, FALSE)
    <3>1. <<a>> \o <<b>> = <<a, b>>
      <4> HIDE DEF a, b
      <4>1. a \in {a, b} /\ b \in {a, b}
        OBVIOUS
      <4> QED BY <4>1, Pair
    <3> QED BY <2>1, <3>1 DEF Opens
  <2> QED BY <1>1, <2>2
<1>2. CASE how = "return" /\ (r.complete \/ r.started)
  BY <1>2 DEF LastWords, Closing, Exchanges
<1>3. CASE how = "raise"
  BY <1>3 DEF LastWords, Closing, Exchanges
<1>4. CASE how = "abort"
  BY <1>4 DEF LastWords, Closing, Exchanges
<1> QED BY <1>1, <1>2, <1>3, <1>4 DEF Endings, Exchanges

\* Those messages are all messages.
LEMMA LastWordsAreMessages ==
    ASSUME NEW r \in Exchanges, NEW how \in Endings
    PROVE  LastWords(r, how) \in Seq(Messages)
<1>1. /\ StartMessage("none", FALSE) \in Messages /\ StartMessage("chunked", FALSE) \in Messages
      /\ BodyMessage(FALSE, FALSE) \in Messages /\ BodyMessage(TRUE, FALSE) \in Messages
      /\ AbortedEnd \in Messages /\ Trailers \in Messages
  BY DEF Messages, StartMessage, BodyMessage, AbortedEnd, Trailers, Interim, Framings
<1>2. /\ <<>> \in Seq(Messages) /\ <<Trailers>> \in Seq(Messages)
      /\ <<BodyMessage(FALSE, FALSE)>> \in Seq(Messages) /\ <<AbortedEnd>> \in Seq(Messages)
      /\ Whole \in Seq(Messages) /\ <<StartMessage("none", FALSE)>> \in Seq(Messages)
  BY <1>1, EmptySeq, Pair DEF Whole
<1>3. Closing(r) \in Seq(Messages)
  BY <1>2 DEF Closing
<1>4. <<StartMessage("none", FALSE)>> \o Closing(r) \in Seq(Messages)
  BY <1>2, <1>3, ConcatProperties
<1>5. CASE how = "return"
  BY <1>2, <1>3, <1>4, <1>5 DEF LastWords
<1>6. CASE how = "raise"
  BY <1>2, <1>3, <1>6 DEF LastWords
<1>7. CASE how = "abort"
  BY <1>2, <1>7 DEF LastWords
<1> QED BY <1>5, <1>6, <1>7 DEF Endings

\* run_app notes that it started an answer, and that it sent the trailers.
LEMMA EndedActs ==
    ASSUME NEW r \in Exchanges, NEW how
    PROVE  /\ Ended(r, how) \in Exchanges /\ SameState(r, Ended(r, how))
           /\ Ended(r, how).send = r.send /\ Ended(r, how).recv = r.recv
           /\ Ended(r, how).sendSpace = r.sendSpace
           /\ Ended(r, how).started = (r.started \/ LastWords(r, how) # <<>>)
           /\ Ended(r, how).announced = r.announced
           /\ Ended(r, how).bodyEnded = r.bodyEnded
<1> DEFINE start == r.started \/ LastWords(r, how) # <<>>
           tail == r.trailersSent \/ LastWords(r, how) = <<Trailers>>
<1>1. start \in BOOLEAN /\ tail \in BOOLEAN
  BY DEF Exchanges
<1>2. Ended(r, how) = [r EXCEPT !.started = start, !.trailersSent = tail]
  BY DEF Ended
<1>3. (r.started \/ LastWords(r, how) # <<>>) = start
  OBVIOUS
<1> HIDE DEF start, tail
<1> QED BY <1>1, <1>2, <1>3 DEF Exchanges, SameState

\* _enqueue: nothing of an exchange that is over is queued; of another one the
\* messages are queued in order as far as there is room, and the rest waits with
\* the queue full and the event of its room cleared.
LEMMA EnqueuedActs ==
    ASSUME NEW r \in Exchanges, NEW todo \in Seq(Messages), Len(r.send) <= SendMax
    PROVE  LET e == Enqueued(r, todo)
               u == Unsent(r, todo)
           IN  /\ e \in Exchanges /\ SameFlags(r, e) /\ SameState(r, e)
               /\ e.recv = r.recv /\ u \in Seq(Messages) /\ Len(e.send) <= SendMax
               /\ r.finished => e.send = r.send /\ u = <<>>
               /\ ~r.finished => e.send \o u = r.send \o todo
               /\ u = <<>> => e.sendSpace = r.sendSpace
               /\ u # <<>> => ~e.sendSpace /\ Len(e.send) = SendMax /\ ~r.finished
<1> DEFINE e == Enqueued(r, todo)
           u == Unsent(r, todo)
           n == Fits(r, todo)
           front == SubSeq(todo, 1, n)
           space == IF u = <<>> THEN r.sendSpace ELSE FALSE
<1>1. /\ r.send \in Seq(Messages) /\ Len(r.send) \in Nat /\ Len(todo) \in Nat
      /\ SendMax \in Nat /\ r.finished \in BOOLEAN /\ r.sendSpace \in BOOLEAN
  BY QueueAssumption, LenProperties DEF Exchanges
<1>2. n \in 0 .. Len(todo) /\ n <= Room(r) /\ (r.finished => n = 0)
      /\ (~r.finished /\ n < Len(todo) => n = Room(r)) /\ Room(r) = SendMax - Len(r.send)
  <2>1. Room(r) = SendMax - Len(r.send) /\ Room(r) \in Nat
    BY <1>1 DEF Room
  <2>2. n = IF r.finished THEN 0 ELSE IF Len(todo) <= Room(r) THEN Len(todo) ELSE Room(r)
    BY DEF Fits
  <2> HIDE DEF n
  <2>3. CASE r.finished
    BY <1>1, <2>1, <2>2, <2>3
  <2>4. CASE ~r.finished
    <3>1. n = IF Len(todo) <= Room(r) THEN Len(todo) ELSE Room(r)
      BY <2>2, <2>4
    <3>2. /\ n \in 0 .. Len(todo) /\ n <= Room(r)
          /\ n < Len(todo) => n = Room(r)
      <4> DEFINE a == Len(todo)
                 b == Room(r)
      <4>1. a \in Nat /\ b \in Nat /\ n = IF a <= b THEN a ELSE b
        BY <1>1, <2>1, <3>1
      <4> HIDE DEF a, b
      <4>2. n \in 0 .. a /\ n <= b /\ (n < a => n = b)
        BY <4>1
      <4> QED BY <4>2 DEF a, b
    <3> QED BY <2>1, <2>4, <3>2
  <2> QED BY <2>3, <2>4
<1>3. front \in Seq(Messages) /\ Len(front) = n
  <2>1. \A k \in 1 .. n : todo[k] \in Messages
    BY <1>1, <1>2, ElementOfSeq
  <2> QED BY <1>2, <2>1, SubSeqProperties
<1>4. u \in Seq(Messages) /\ Len(u) = IF r.finished THEN 0 ELSE Len(todo) - n
  <2>1. CASE r.finished
    BY <2>1, EmptySeq DEF Unsent
  <2>2. CASE ~r.finished
    <3>1. u = SubSeq(todo, n + 1, Len(todo))
      BY <2>2 DEF Unsent
    <3>2. \A k \in n + 1 .. Len(todo) : todo[k] \in Messages
      BY <1>1, <1>2, ElementOfSeq
    <3>3. /\ n + 1 \in Int /\ Len(todo) \in Int
          /\ IF n + 1 <= Len(todo) THEN Len(todo) - (n + 1) + 1 = Len(todo) - n
                                   ELSE 0 = Len(todo) - n
      BY <1>1, <1>2
    <3> HIDE DEF u, n
    <3> QED BY <2>2, <3>1, <3>2, <3>3, SubSeqProperties
  <2> QED BY <2>1, <2>2
<1>5. ~r.finished => front \o u = todo
  <2> SUFFICES ASSUME ~r.finished PROVE front \o u = todo
    OBVIOUS
  <2>1. u = SubSeq(todo, n + 1, Len(todo))
    BY DEF Unsent
  <2>2. SubSeq(todo, 1, n) \o SubSeq(todo, n + 1, Len(todo)) = SubSeq(todo, 1, Len(todo))
    <3>1. /\ 1 \in 1 .. Len(todo) + 1 /\ n \in 1 - 1 .. Len(todo)
          /\ Len(todo) \in n .. Len(todo)
      BY <1>1, <1>2
    <3> HIDE DEF n
    <3> QED BY <3>1, ConcatAdjacentSubSeq
  <2>3. SubSeq(todo, 1, Len(todo)) = todo
    BY SubSeqFull
  <2> QED BY <2>1, <2>2, <2>3
<1>6. space \in BOOLEAN /\ e = [r EXCEPT !.send = r.send \o front, !.sendSpace = space]
  BY <1>1 DEF Enqueued
<1>7. /\ r.send \o front \in Seq(Messages)
      /\ Len(r.send \o front) = Len(r.send) + n
  BY <1>1, <1>3, ConcatProperties
<1>8. ~r.finished => (r.send \o front) \o u = r.send \o todo
  <2>1. (r.send \o front) \o u = r.send \o (front \o u)
    <3> DEFINE s == r.send
    <3>1. s \in Seq(Messages) /\ front \in Seq(Messages) /\ u \in Seq(Messages)
      BY <1>1, <1>3, <1>4
    <3> HIDE DEF front, u, n
    <3>2. (s \o front) \o u = s \o (front \o u)
      <4> HIDE DEF s
      <4> QED BY <3>1, JoinedMessages
    <3> QED BY <3>2
  <2> QED BY <1>5, <2>1
<1>9. r.finished => r.send \o front = r.send /\ u = <<>>
  <2>1. r.finished => front = <<>> /\ u = <<>>
    BY <1>2, <1>3, EmptySeq DEF Unsent
  <2> QED BY <1>1, <2>1, ConcatEmptySeq
<1>10. u # <<>> => ~r.finished /\ Len(r.send) + n = SendMax
  <2>1. u # <<>> => Len(u) # 0
    BY <1>4, EmptySeq
  <2> QED BY <1>1, <1>2, <1>4, <2>1
<1>11. /\ space = IF u = <<>> THEN r.sendSpace ELSE FALSE
       /\ Len(r.send) + n <= SendMax
  BY <1>1, <1>2
<1> HIDE DEF u, n, front, space, e
<1>12. /\ e \in Exchanges /\ SameFlags(r, e) /\ SameState(r, e) /\ e.recv = r.recv
       /\ e.send = r.send \o front /\ e.sendSpace = space
  BY <1>6, <1>7 DEF Exchanges, SameFlags, SameState
<1>13. /\ e \in Exchanges /\ SameFlags(r, e) /\ SameState(r, e)
       /\ e.recv = r.recv /\ u \in Seq(Messages) /\ Len(e.send) <= SendMax
       /\ r.finished => e.send = r.send /\ u = <<>>
       /\ ~r.finished => e.send \o u = r.send \o todo
       /\ u = <<>> => e.sendSpace = r.sendSpace
       /\ u # <<>> => ~e.sendSpace /\ Len(e.send) = SendMax /\ ~r.finished
  BY <1>4, <1>7, <1>8, <1>9, <1>10, <1>11, <1>12
<1> QED BY <1>13 DEF e, u

-----------------------------------------------------------------------------
\* The application tasks.
Apps ==
    [pc : {"none", "run", "recv", "put", "done"},
     todo : Seq(Messages), over : BOOLEAN, sends : Nat,
     got : Nat, whole : BOOLEAN, gaveUp : BOOLEAN]

\* An application queues messages, and is then as a says.
Queueing(i, r, todo, a) ==
    /\ ex'[i] = Enqueued(r, todo)
    /\ app'[i] = [a EXCEPT !.todo = Unsent(r, todo),
                    !.pc = IF Unsent(r, todo) # <<>> THEN "put"
                           ELSE IF a.over THEN "done" ELSE "run"]

\* An application waits with what did not fit, and is asked no more when over.
Waits(a) ==
    /\ a.todo # <<>> => a.pc = "put"
    /\ a.over => a.pc \in {"put", "done"}

\* What Queue does to the exchange and the application of one request.
LEMMA QueueActs ==
    ASSUME ex \in [Requests -> Exchanges], app \in [Requests -> Apps],
           NEW i \in Requests, NEW r, NEW todo, NEW a, Queue(i, r, todo, a)
    PROVE  /\ Queueing(i, r, todo, a)
           /\ ex' = [j \in Requests |-> ex'[j]] /\ app' = [j \in Requests |-> app'[j]]
           /\ \A j \in Requests \ {i} : ex'[j] = ex[j] /\ app'[j] = app[j]
BY DEF Queue, Queueing

\* What an application queues.
LEMMA QueueingTyped ==
    ASSUME NEW i \in Requests, NEW r \in Exchanges, Len(r.send) <= SendMax,
           NEW todo \in Seq(Messages), NEW a \in Apps, Queueing(i, r, todo, a)
    PROVE  ex'[i] \in Exchanges /\ Len(ex'[i].send) <= SendMax /\ app'[i] \in Apps
<1>1. /\ Enqueued(r, todo) \in Exchanges /\ Len(Enqueued(r, todo).send) <= SendMax
      /\ Unsent(r, todo) \in Seq(Messages)
  BY EnqueuedActs
<1>2. [a EXCEPT !.todo = Unsent(r, todo),
                !.pc = IF Unsent(r, todo) # <<>> THEN "put"
                       ELSE IF a.over THEN "done" ELSE "run"] \in Apps
  BY <1>1 DEF Apps
<1> QED BY <1>1, <1>2 DEF Queueing

-----------------------------------------------------------------------------
\* The messages that the writer will still see, in order.
Line(i) == ex[i].send \o app[i].todo
Has(L, S) == \E k \in DOMAIN L : L[k] \in S

\* The messages of each kind.
LEMMA KindsOfMessages ==
    ASSUME NEW m \in Messages
    PROVE  /\ m.kind \in {"start", "body", "trailers", "interim"}
           /\ m.kind = "start" => m.trailers \in BOOLEAN /\ m # Trailers
           /\ m.kind = "body" <=> m \in Body
           /\ m.kind = "body" => /\ m \in Final <=> ~m.more /\ ~m.aborted
                                 /\ m \in Loaded <=> m.data
                                 /\ m.data \in BOOLEAN /\ m.more \in BOOLEAN
                                 /\ m # Trailers
           /\ m.kind = "trailers" <=> m = Trailers
           /\ m.kind = "interim" <=> m = Interim
           /\ Final \subseteq Body /\ Loaded \subseteq Body
<1>1. Final \subseteq Body /\ Loaded \subseteq Body
  BY DEF Final, Body, Loaded
<1>2. CASE m \in [kind : {"start"}, framing : Framings, trailers : BOOLEAN]
  BY <1>1, <1>2 DEF Trailers, Interim, Body
<1>3. CASE m \in [kind : {"body"}, data : BOOLEAN, more : BOOLEAN, aborted : BOOLEAN]
  <2>1. /\ m.kind = "body" /\ m \in Body /\ m.data \in BOOLEAN /\ m.more \in BOOLEAN
        /\ m # Trailers /\ m # Interim
    BY <1>3 DEF Trailers, Interim, Body
  <2>2. m \in Final <=> ~m.more /\ ~m.aborted
    BY <1>3 DEF Final
  <2>3. m \in Loaded <=> m.data
    BY <1>3 DEF Loaded
  <2> QED BY <1>1, <2>1, <2>2, <2>3
<1>4. CASE m \in {Interim, Trailers}
  BY <1>1, <1>4 DEF Trailers, Interim, Body
<1> QED BY <1>2, <1>3, <1>4 DEF Messages

\* What send notes of each message.
LEMMA NotedFlags ==
    ASSUME NEW r \in Exchanges, NEW m \in Messages
    PROVE  /\ m.kind = "start" =>
                Noted(r, m).started /\ Noted(r, m).announced = m.trailers
                /\ Noted(r, m).bodyEnded = r.bodyEnded
           /\ m.kind \in {"body", "trailers"} =>
                Noted(r, m).started = r.started /\ Noted(r, m).announced = r.announced
           /\ m.kind = "body" => (Noted(r, m).bodyEnded <=> r.bodyEnded \/ m \in Final)
           /\ m.kind = "trailers" => Noted(r, m).bodyEnded
<1>1. CASE m.kind = "start"
  BY <1>1 DEF Noted, Exchanges
<1>2. CASE m.kind = "body"
  <2> DEFINE ended == r.bodyEnded \/ (~m.more /\ ~m.aborted)
  <2>1. m \in Final <=> ~m.more /\ ~m.aborted
    BY <1>2, KindsOfMessages
  <2>2. Noted(r, m) = [r EXCEPT !.bodyEnded = ended]
    BY <1>2 DEF Noted
  <2>3. ended <=> r.bodyEnded \/ m \in Final
    BY <2>1
  <2> HIDE DEF ended
  <2>4. /\ Noted(r, m).started = r.started /\ Noted(r, m).announced = r.announced
        /\ Noted(r, m).bodyEnded = ended
    BY <2>2 DEF Exchanges
  <2> QED BY <1>2, <2>3, <2>4
<1>3. CASE m.kind = "trailers"
  BY <1>3 DEF Noted, Exchanges
<1>4. CASE m.kind \notin {"start", "body", "trailers"}
  BY <1>4
<1> QED BY <1>1, <1>2, <1>3, <1>4

\* What the line holds with one message more.
LEMMA MoreOnLine ==
    ASSUME NEW L \in Seq(Messages), NEW m \in Messages
    PROVE  LET R == Append(L, m)
           IN  /\ R \in Seq(Messages) /\ R # <<>> /\ R[1] = (IF L = <<>> THEN m ELSE L[1])
               /\ Len(L) \in Nat /\ DOMAIN L = 1 .. Len(L) /\ DOMAIN R = 1 .. Len(L) + 1
               /\ R[Len(L) + 1] = m /\ \A k \in DOMAIN L : R[k] = L[k]
               /\ L = <<>> <=> Len(L) = 0
               /\ \A S : Has(R, S) <=> Has(L, S) \/ m \in S
<1> DEFINE R == Append(L, m)
           n == Len(L) + 1
<1>1. /\ Len(L) \in Nat /\ DOMAIN L = 1 .. Len(L) /\ R \in Seq(Messages) /\ DOMAIN R = 1 .. n
      /\ R[n] = m /\ \A k \in 1 .. Len(L) : R[k] = L[k]
  BY AppendPoints
<1>2. L = <<>> <=> Len(L) = 0
  BY EmptySeq
<1>3. R # <<>>
  BY AppendProperties
<1>4. n \in DOMAIN R /\ \A k \in DOMAIN R : k = n \/ k \in DOMAIN L
  BY <1>1
<1>5. \A k \in DOMAIN L : k \in DOMAIN R
  BY <1>1
<1> HIDE DEF R
<1>6. ASSUME NEW S PROVE Has(R, S) <=> Has(L, S) \/ m \in S
  BY <1>1, <1>4, <1>5 DEF Has
<1>7. R[1] = (IF L = <<>> THEN m ELSE L[1])
  BY <1>1, <1>2
<1> QED BY <1>1, <1>2, <1>3, <1>6, <1>7 DEF R

\* What is taken from two sequences in a row is taken from the first.
LEMMA HeadOfBoth ==
    ASSUME NEW T, NEW s \in Seq(T), s # <<>>, NEW t \in Seq(T)
    PROVE  s \o t # <<>> /\ Head(s \o t) = Head(s) /\ Tail(s \o t) = Tail(s) \o t
<1> DEFINE c == s \o t
           p == Tail(s)
           l == Tail(c)
           q == p \o t
<1>1. /\ Len(s) \in Nat \ {0} /\ Head(s) = s[1] /\ p \in Seq(T) /\ DOMAIN p = 1 .. Len(s) - 1
      /\ \A k \in 1 .. Len(s) - 1 : p[k] = s[k + 1]
  BY TailPoints
<1>2. Len(t) \in Nat /\ Len(p) = Len(s) - 1
  BY HeadTailProperties, LenProperties
<1>3. /\ c \in Seq(T) /\ Len(c) = Len(s) + Len(t)
      /\ \A k \in 1 .. Len(s) + Len(t) : c[k] = IF k <= Len(s) THEN s[k] ELSE t[k - Len(s)]
  BY ConcatProperties
<1>4. /\ q \in Seq(T) /\ Len(q) = Len(p) + Len(t)
      /\ \A k \in 1 .. Len(p) + Len(t) : q[k] = IF k <= Len(p) THEN p[k] ELSE t[k - Len(p)]
  BY <1>1, ConcatProperties
<1>5. c # <<>>
  BY <1>1, <1>2, <1>3, EmptySeq
<1>6. /\ Head(c) = c[1] /\ l \in Seq(T) /\ Len(l) = Len(c) - 1
      /\ \A k \in 1 .. Len(c) - 1 : l[k] = c[k + 1]
  BY <1>3, <1>5, TailPoints, HeadTailProperties
<1> HIDE DEF c, p, l, q
<1>7. \A k \in 1 .. Len(l) : l[k] = q[k]
  <2> SUFFICES ASSUME NEW k \in 1 .. Len(s) + Len(t) - 1 PROVE l[k] = q[k]
    BY <1>1, <1>2, <1>3, <1>6
  <2>1. l[k] = c[k + 1] /\ k + 1 \in 1 .. Len(s) + Len(t)
    BY <1>1, <1>2, <1>3, <1>6
  <2>2. CASE k <= Len(p)
    <3>1. k + 1 <= Len(s) /\ k \in 1 .. Len(s) - 1 /\ k \in 1 .. Len(p) + Len(t)
      BY <1>1, <1>2, <2>2
    <3> QED BY <1>1, <1>3, <1>4, <2>1, <2>2, <3>1
  <2>3. CASE ~(k <= Len(p))
    <3>1. ~(k + 1 <= Len(s)) /\ k \in 1 .. Len(p) + Len(t) /\ (k + 1) - Len(s) = k - Len(p)
      BY <1>1, <1>2, <2>3
    <3> QED BY <1>3, <1>4, <2>1, <2>3, <3>1
  <2> QED BY <2>2, <2>3
<1>8. Len(l) = Len(q)
  BY <1>1, <1>2, <1>3, <1>4, <1>6
<1>9. l = q
  BY <1>4, <1>6, <1>7, <1>8, SeqEqual
<1>10. Head(c) = Head(s)
  BY <1>1, <1>2, <1>3, <1>6
<1> QED BY <1>5, <1>9, <1>10 DEF c, p, l, q

\* An application queues behind the line, as long as its answer is not over.
LEMMA QueuedLine ==
    ASSUME NEW i \in Requests, NEW r \in Exchanges, NEW todo \in Seq(Messages),
           NEW a \in Apps, Queueing(i, r, todo, a),
           ~r.finished, r.send = ex[i].send, Len(r.send) <= SendMax
    PROVE  /\ Line(i)' = ex[i].send \o todo /\ SameFlags(r, ex'[i])
           /\ app'[i].over = a.over /\ app'[i].gaveUp = a.gaveUp /\ Waits(app'[i])
<1>1. Len(r.send) <= SendMax
  OBVIOUS
<1>2. /\ SameFlags(r, Enqueued(r, todo)) /\ Unsent(r, todo) \in Seq(Messages)
      /\ Enqueued(r, todo).send \o Unsent(r, todo) = r.send \o todo
  BY <1>1, EnqueuedActs
<1>3. /\ ex'[i] = Enqueued(r, todo)
      /\ app'[i].todo = Unsent(r, todo) /\ app'[i].over = a.over /\ app'[i].gaveUp = a.gaveUp
      /\ app'[i].pc = IF Unsent(r, todo) # <<>> THEN "put" ELSE IF a.over THEN "done" ELSE "run"
  BY DEF Queueing, Apps
<1>4. Waits(app'[i])
  BY <1>3 DEF Waits
<1> QED BY <1>2, <1>3, <1>4 DEF Line
=============================================================================
