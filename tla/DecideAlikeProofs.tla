------------------------- MODULE DecideAlikeProofs -------------------------
(***************************************************************************)
(* What DecideAlike guarantees for any clients, allowance, peak, window    *)
(* and lockouts: its types, and that each of the two implementations of    *)
(* the window is a Limiter.  The argument has three parts: what is left of *)
(* the requests of a client (a deque, or a ring read from its oldest       *)
(* stamp) as time passes; what a decision makes of one client, which is    *)
(* the same for both (Outcome); and that Consume and Decide do just that.  *)
(***************************************************************************)
EXTENDS DecideAlike, TLAPS, WellFoundedInduction, FiniteSetTheorems

----------------------------------------------------------------------------
\* Numbers.

\* A non-empty set of naturals has a least element.
LEMMA LeastNatural ==
    ASSUME NEW S, S \subseteq Nat, S # {}
    PROVE  \E x \in S : \A y \in S : x <= y
<1> DEFINE R == OpToRel(<, Nat)
<1>1. IsWellFoundedOn(R, Nat)
  BY NatLessThanWellFounded
<1>2. \A x, y \in Nat : <<x, y>> \in R <=> x < y
  BY DEF OpToRel
<1> HIDE DEF R
<1>3. PICK x \in S : \A y \in S : ~ (<<y, x>> \in R)
  BY <1>1, WFMin
<1>4. \A y \in S : ~ (y < x)
  BY <1>2, <1>3
<1>5. \A y \in S : x <= y
  BY <1>4, SMT
<1> QED BY <1>5

\* The peak is at least the allowance, and the ring is one longer.
LEMMA PeakType ==
    /\ Requests \in Nat \ {0} /\ Window \in Nat \ {0}
    /\ Win!EffectivePeak \in Nat /\ Requests <= Win!EffectivePeak
    /\ Win!Ring \in Nat \ {0} /\ Win!Ring = Win!EffectivePeak + 1
  BY DecideAlikeAssumption DEF Win!EffectivePeak, Win!Ring

----------------------------------------------------------------------------
\* What is left of a sequence of stamps.

\* Where the stamps of h that have expired at `edge` end.
Gone(h, edge, n) ==
    /\ n \in 0 .. Len(h)
    /\ \A i \in 1 .. n : h[i] <= edge
    /\ n < Len(h) => h[n + 1] > edge

\* They end in one place.
LEMMA GoneOnce ==
    ASSUME NEW h \in Seq(Nat), NEW edge \in Int, NEW n, Gone(h, edge, n), NEW k, Gone(h, edge, k)
    PROVE  n = k
<1>1. /\ n \in 0 .. Len(h) /\ k \in 0 .. Len(h) /\ Len(h) \in Nat
      /\ \A i \in 1 .. Len(h) : h[i] \in Nat
  BY DEF Gone
<1>2. ASSUME n < k PROVE FALSE
  <2>1. n + 1 \in 1 .. k /\ n < Len(h) /\ n + 1 \in 1 .. Len(h)
    BY <1>1, <1>2
  <2>2. h[n + 1] <= edge /\ h[n + 1] > edge
    BY <2>1 DEF Gone
  <2> QED BY <1>1, <2>1, <2>2
<1>3. ASSUME k < n PROVE FALSE
  <2>1. k + 1 \in 1 .. n /\ k < Len(h) /\ k + 1 \in 1 .. Len(h)
    BY <1>1, <1>3
  <2>2. h[k + 1] <= edge /\ h[k + 1] > edge
    BY <2>1 DEF Gone
  <2> QED BY <1>1, <2>1, <2>2
<1> QED BY <1>1, <1>2, <1>3

\* What DropAged leaves are the stamps behind that place,
LEMMA DropAgedIs ==
    ASSUME NEW h \in Seq(Nat), NEW edge \in Int
    PROVE  \E n : Gone(h, edge, n) /\ Win!DropAged(h, edge) = SubSeq(h, n + 1, Len(h))
<1> DEFINE fresh == {i \in DOMAIN h : h[i] > edge}
           k == Win!DropAged(h, edge)
<1>0. Len(h) \in Nat /\ DOMAIN h = 1 .. Len(h) /\ \A i \in 1 .. Len(h) : h[i] \in Nat
  OBVIOUS
<1>1. CASE fresh = {}
  <2>1. k = <<>>
    BY <1>1 DEF Win!DropAged
  <2>2. SubSeq(h, Len(h) + 1, Len(h)) = <<>>
    BY <1>0
  <2>3. \A i \in 1 .. Len(h) : h[i] <= edge
    BY <1>0, <1>1
  <2>4. Gone(h, edge, Len(h))
    BY <1>0, <2>3 DEF Gone
  <2> QED BY <2>1, <2>2, <2>4
<1>2. CASE fresh # {}
  <2> DEFINE m == Win!Min(fresh)
  <2>1. fresh \subseteq Nat
    BY <1>0
  <2>2. PICK x \in fresh : \A y \in fresh : x <= y
    BY <1>2, <2>1, LeastNatural
  <2>3. m \in fresh /\ \A y \in fresh : m <= y
    <3> HIDE DEF fresh
    <3>1. m = CHOOSE z \in fresh : \A y \in fresh : z <= y
      BY DEF Win!Min
    <3> QED BY <2>2, <3>1
  <2>4. k = SubSeq(h, m, Len(h))
    BY <1>2 DEF Win!DropAged
  <2>5. m \in 1 .. Len(h) /\ h[m] > edge
    BY <1>0, <2>3
  <2> HIDE DEF m
  <2>6. ASSUME NEW i \in 1 .. m - 1 PROVE h[i] <= edge
    <3>1. i \in 1 .. Len(h) /\ ~(m <= i)
      BY <1>0, <2>5
    <3>2. i \notin fresh
      BY <2>3, <3>1
    <3> QED BY <1>0, <3>1, <3>2
  <2>7. Gone(h, edge, m - 1)
    BY <1>0, <2>5, <2>6 DEF Gone
  <2>8. (m - 1) + 1 = m
    BY <2>5
  <2> QED BY <2>4, <2>7, <2>8
<1> QED BY <1>1, <1>2

\* and so are those that Unexpired leaves.
LEMMA UnexpiredIs ==
    ASSUME NEW h \in Seq(Nat), NEW edge \in Int
    PROVE  /\ OfLocal!Unexpired(h, edge) = Win!DropAged(h, edge)
           /\ OfShared!Unexpired(h, edge) = Win!DropAged(h, edge)
<1> DEFINE Ok(n) == /\ \A i \in 1 .. n : h[i] <= edge
                    /\ n < Len(h) => h[n + 1] > edge
<1>1. PICK n : Gone(h, edge, n) /\ Win!DropAged(h, edge) = SubSeq(h, n + 1, Len(h))
  BY DropAgedIs
<1>2. \A k : Gone(h, edge, k) <=> k \in 0 .. Len(h) /\ Ok(k)
  BY DEF Gone
<1>3. /\ OfLocal!Unexpired(h, edge)
            = SubSeq(h, (CHOOSE k \in 0 .. Len(h) : Ok(k)) + 1, Len(h))
      /\ OfShared!Unexpired(h, edge)
            = SubSeq(h, (CHOOSE k \in 0 .. Len(h) : Ok(k)) + 1, Len(h))
  BY DEF OfLocal!Unexpired, OfShared!Unexpired
<1> HIDE DEF Ok
<1>4. \E k \in 0 .. Len(h) : Ok(k)
  BY <1>1, <1>2
<1>5. Gone(h, edge, CHOOSE k \in 0 .. Len(h) : Ok(k))
  BY <1>2, <1>4
<1>6. (CHOOSE k \in 0 .. Len(h) : Ok(k)) = n
  BY <1>1, <1>5, GoneOnce
<1> QED BY <1>1, <1>3, <1>6

\* The stamps behind that place are those of h, in their order.
LEMMA RestIs ==
    ASSUME NEW h \in Seq(Nat), NEW edge \in Int, NEW n, Gone(h, edge, n)
    PROVE  /\ Win!DropAged(h, edge) = SubSeq(h, n + 1, Len(h))
           /\ Win!DropAged(h, edge) \in Seq(Nat)
           /\ n \in 0 .. Len(h) /\ Len(Win!DropAged(h, edge)) = Len(h) - n
           /\ \A i \in 1 .. Len(h) - n : Win!DropAged(h, edge)[i] = h[n + i]
           /\ n < Len(h) => Win!DropAged(h, edge)[1] > edge
<1> DEFINE g == Win!DropAged(h, edge)
<1>1. PICK k : Gone(h, edge, k) /\ g = SubSeq(h, k + 1, Len(h))
  BY DropAgedIs
<1>2. k = n
  BY <1>1, GoneOnce
<1>3. /\ g = SubSeq(h, n + 1, Len(h)) /\ n \in 0 .. Len(h)
      /\ n < Len(h) => h[n + 1] > edge
  BY <1>1, <1>2 DEF Gone
<1>4. Len(h) \in Nat
  OBVIOUS
<1> HIDE DEF g
<1>5. /\ g \in Seq(Nat) /\ Len(g) = Len(h) - n
      /\ \A i \in 1 .. Len(h) - n : g[i] = h[n + i]
  BY <1>3, <1>4
<1>6. n < Len(h) => g[1] > edge
  <2>1. n < Len(h) => 1 \in 1 .. Len(h) - n
    BY <1>3, <1>4
  <2> QED BY <1>3, <1>5, <2>1
<1> QED BY <1>3, <1>5, <1>6 DEF g

\* There is such a place.
LEMMA SomeGone ==
    ASSUME NEW h \in Seq(Nat), NEW edge \in Int
    PROVE  \E n : Gone(h, edge, n)
  BY DropAgedIs

\* What has lost nothing stays as it is,
LEMMA RestWhole ==
    ASSUME NEW h \in Seq(Nat), NEW edge \in Int, h # <<>> => h[1] > edge
    PROVE  Win!DropAged(h, edge) = h
<1>1. Len(h) \in Nat /\ (h # <<>> <=> 0 < Len(h))
  OBVIOUS
<1>2. Gone(h, edge, 0)
  BY <1>1 DEF Gone
<1>3. SubSeq(h, 0 + 1, Len(h)) = h
  BY <1>1
<1> QED BY <1>2, <1>3, RestIs

\* what has lost everything is empty,
LEMMA RestNone ==
    ASSUME NEW h \in Seq(Nat), NEW edge \in Int, \A i \in 1 .. Len(h) : h[i] <= edge
    PROVE  Win!DropAged(h, edge) = <<>>
<1>1. Len(h) \in Nat
  OBVIOUS
<1>2. Gone(h, edge, Len(h))
  BY <1>1 DEF Gone
<1>3. SubSeq(h, Len(h) + 1, Len(h)) = <<>>
  BY <1>1
<1> QED BY <1>2, <1>3, RestIs

\* and what is left later is the rest of what is left now.
LEMMA RestAgain ==
    ASSUME NEW h \in Seq(Nat), NEW e \in Int, NEW f \in Int, e <= f
    PROVE  Win!DropAged(Win!DropAged(h, e), f) = Win!DropAged(h, f)
<1> DEFINE g == Win!DropAged(h, e)
<1>1. PICK n : Gone(h, e, n)
  BY SomeGone
<1>2. /\ g \in Seq(Nat) /\ n \in 0 .. Len(h) /\ Len(g) = Len(h) - n
      /\ \A i \in 1 .. Len(h) - n : g[i] = h[n + i]
      /\ g = SubSeq(h, n + 1, Len(h))
  BY <1>1, RestIs
<1> HIDE DEF g
<1>3. PICK k : Gone(g, f, k)
  BY <1>2, SomeGone
<1>4. Win!DropAged(g, f) = SubSeq(g, k + 1, Len(g)) /\ k \in 0 .. Len(g)
  BY <1>2, <1>3, RestIs
<1>5. Len(h) \in Nat /\ Len(g) \in Nat /\ n + k \in 0 .. Len(h)
  BY <1>2, <1>4
<1>6. ASSUME NEW i \in 1 .. n + k PROVE h[i] <= f
  <2>0. i \in 1 .. Len(h) /\ h[i] \in Nat
    BY <1>5
  <2>1. CASE i <= n
    <3>1. i \in 1 .. n
      BY <2>0, <2>1, <1>2
    <3>2. h[i] <= e
      BY <1>1, <3>1 DEF Gone
    <3> QED BY <2>0, <3>2
  <2>2. CASE ~(i <= n)
    <3>1. i - n \in 1 .. k /\ i - n \in 1 .. Len(h) - n /\ n + (i - n) = i
      BY <1>2, <1>4, <1>5, <2>0, <2>2
    <3>2. g[i - n] <= f
      BY <1>3, <3>1 DEF Gone
    <3>3. g[i - n] = h[n + (i - n)]
      BY <1>2, <3>1
    <3> QED BY <3>1, <3>2, <3>3
  <2> QED BY <2>1, <2>2
<1>7. n + k < Len(h) => h[n + k + 1] > f
  <2> SUFFICES ASSUME n + k < Len(h) PROVE h[n + k + 1] > f
    OBVIOUS
  <2>1. k < Len(g) /\ k + 1 \in 1 .. Len(h) - n /\ n + (k + 1) = n + k + 1
    BY <1>2, <1>4, <1>5
  <2>2. g[k + 1] > f
    BY <1>3, <2>1 DEF Gone
  <2>3. g[k + 1] = h[n + (k + 1)]
    BY <1>2, <2>1
  <2> QED BY <2>1, <2>2, <2>3
<1>8. Gone(h, f, n + k)
  BY <1>5, <1>6, <1>7 DEF Gone
<1>9. Win!DropAged(h, f) = SubSeq(h, n + k + 1, Len(h))
  BY <1>8, RestIs
<1>10. SubSeq(SubSeq(h, n + 1, Len(h)), k + 1, Len(h) - n) = SubSeq(h, n + k + 1, Len(h))
  BY <1>2, <1>4, <1>5
<1> QED BY <1>2, <1>4, <1>9, <1>10 DEF g

----------------------------------------------------------------------------
\* What one client leaves behind: its stamps h, its burst b and its lockout l.

\* The stamps of a client, in order and not ahead of the clock.
Dated(h, now) ==
    /\ h \in Seq(Nat) /\ Len(h) <= Win!Ring
    /\ \A i \in 1 .. Len(h) : h[i] <= now
    /\ \A i, j \in 1 .. Len(h) : i <= j => h[i] <= h[j]

Kept(h, b, l, now, ban) == Dated(h, now) /\ b \in 0 .. now /\ l \in 0 .. now + ban

\* What is left of dated stamps is dated.
LEMMA DatedRest ==
    ASSUME NEW now \in Nat, NEW h, Dated(h, now), NEW edge \in Int
    PROVE  Dated(Win!DropAged(h, edge), now)
<1> DEFINE g == Win!DropAged(h, edge)
<1>1. h \in Seq(Nat) /\ Len(h) \in Nat
  BY DEF Dated
<1>2. PICK n : Gone(h, edge, n)
  BY <1>1, SomeGone
<1>3. /\ g \in Seq(Nat) /\ n \in 0 .. Len(h) /\ Len(g) = Len(h) - n
      /\ \A i \in 1 .. Len(h) - n : g[i] = h[n + i]
  BY <1>1, <1>2, RestIs
<1> HIDE DEF g
<1>4. Len(g) <= Win!Ring /\ \A i \in 1 .. Len(g) : n + i \in 1 .. Len(h) /\ g[i] = h[n + i]
  BY <1>1, <1>3, PeakType DEF Dated
<1>5. \A i \in 1 .. Len(g) : g[i] <= now
  BY <1>4 DEF Dated
<1>6. ASSUME NEW i \in 1 .. Len(g), NEW j \in 1 .. Len(g), i <= j PROVE g[i] <= g[j]
  <2>1. n + i \in 1 .. Len(h) /\ n + j \in 1 .. Len(h) /\ n + i <= n + j
    BY <1>3, <1>4, <1>6
  <2> QED BY <1>4, <2>1 DEF Dated
<1>7. Dated(g, now)
  BY <1>3, <1>4, <1>5, <1>6 DEF Dated
<1> QED BY <1>7 DEF g

\* The first of them has not expired.
LEMMA RestFirst ==
    ASSUME NEW h \in Seq(Nat), NEW edge \in Int, Win!DropAged(h, edge) # <<>>
    PROVE  Win!DropAged(h, edge)[1] > edge
<1>1. PICK n : Gone(h, edge, n)
  BY SomeGone
<1> DEFINE g == Win!DropAged(h, edge)
<1>2. /\ g \in Seq(Nat) /\ n \in 0 .. Len(h) /\ Len(g) = Len(h) - n
      /\ n < Len(h) => g[1] > edge
  BY <1>1, RestIs
<1> HIDE DEF g
<1>3. g # <<>> => n < Len(h)
  BY <1>2
<1> QED BY <1>2, <1>3 DEF g

\* What a sweep at now may make of it: it forgets what has expired.
Swept(h, b, l, h2, b2, l2, now) ==
    /\ h2 = h \/ (h2 = <<>> /\ (h = <<>> \/ h[Len(h)] <= now - Window))
    /\ b2 = b \/ (b2 = 0 /\ now - b >= Window)
    /\ l2 = l \/ (l2 = 0 /\ now >= l)

\* A sweep forgets nothing that counts.
LEMMA SweptSame ==
    ASSUME NEW now \in Nat, NEW ban \in Nat, NEW h, NEW b, NEW l, Kept(h, b, l, now, ban),
           NEW h2, NEW b2, NEW l2, Swept(h, b, l, h2, b2, l2, now)
    PROVE  /\ Kept(h2, b2, l2, now, ban)
           /\ Win!DropAged(h2, now - Window) = Win!DropAged(h, now - Window)
           /\ InForce(b2, now - Window) = InForce(b, now - Window)
           /\ InForce(l2, now) = InForce(l, now)
<1>1. Window \in Nat \ {0} /\ Win!Ring \in Nat \ {0} /\ now - Window \in Int
  BY PeakType
<1>2. b \in 0 .. now /\ l \in 0 .. now + ban /\ h \in Seq(Nat) /\ Len(h) \in Nat
  BY DEF Kept, Dated
<1>3. b2 \in 0 .. now /\ InForce(b2, now - Window) = InForce(b, now - Window)
  BY <1>1, <1>2 DEF Swept, InForce
<1>4. l2 \in 0 .. now + ban /\ InForce(l2, now) = InForce(l, now)
  BY <1>1, <1>2 DEF Swept, InForce
<1>5. /\ Dated(h2, now)
      /\ Win!DropAged(h2, now - Window) = Win!DropAged(h, now - Window)
  <2>1. CASE h2 = h
    BY <2>1 DEF Kept
  <2>2. CASE h2 = <<>> /\ (h = <<>> \/ h[Len(h)] <= now - Window)
    <3>1. \A i \in 1 .. Len(h) : h[i] <= now - Window
      <4> SUFFICES ASSUME NEW i \in 1 .. Len(h) PROVE h[i] <= now - Window
        OBVIOUS
      <4>1. Len(h) \in 1 .. Len(h) /\ i <= Len(h) /\ h # <<>> /\ h[i] \in Nat /\ h[Len(h)] \in Nat
        BY <1>2
      <4>2. h[i] <= h[Len(h)]
        BY <4>1 DEF Kept, Dated
      <4> QED BY <1>1, <2>2, <4>1, <4>2
    <3>2. Win!DropAged(h, now - Window) = <<>>
      BY <1>1, <1>2, <3>1, RestNone
    <3>3. h2 \in Seq(Nat) /\ Len(h2) = 0
      BY <2>2
    <3>4. \A i \in 1 .. Len(h2) : h2[i] <= now - Window
      BY <3>3
    <3>5. Win!DropAged(h2, now - Window) = <<>>
      BY <1>1, <3>3, <3>4, RestNone
    <3>6. Dated(h2, now)
      BY <1>1, <3>3 DEF Dated
    <3> QED BY <3>2, <3>5, <3>6
  <2> QED BY <2>1, <2>2 DEF Swept
<1> QED BY <1>3, <1>4, <1>5 DEF Kept

\* Time alone keeps it,
LEMMA KeptLater ==
    ASSUME NEW now \in Nat, NEW ban \in Nat, NEW h, NEW b, NEW l, Kept(h, b, l, now, ban)
    PROVE  Kept(h, b, l, now + 1, ban)
<1>1. /\ h \in Seq(Nat) /\ \A i \in 1 .. Len(h) : h[i] \in Nat /\ h[i] <= now
  BY DEF Kept, Dated
<1>2. \A i \in 1 .. Len(h) : h[i] <= now + 1
  BY <1>1
<1>3. Dated(h, now + 1)
  BY <1>2 DEF Kept, Dated
<1>4. b \in 0 .. now + 1 /\ l \in 0 .. now + 1 + ban
  BY DEF Kept
<1> QED BY <1>3, <1>4 DEF Kept

\* and what counts a tick later is what the abstract limiter has kept till then.
LEMMA TickSame ==
    ASSUME NEW now \in Nat, NEW ban \in Nat, NEW h, NEW b, NEW l, Kept(h, b, l, now, ban),
           NEW next \in Nat, next = now + 1
    PROVE  /\ Win!DropAged(Win!DropAged(h, now - Window), next - Window)
                = Win!DropAged(h, next - Window)
           /\ InForce(b, next - Window)
                = IF next - InForce(b, now - Window) >= Window THEN 0 ELSE InForce(b, now - Window)
           /\ InForce(l, next) = IF next >= InForce(l, now) THEN 0 ELSE InForce(l, now)
<1>1. Window \in Nat \ {0} /\ now - Window \in Int /\ next - Window \in Int
      /\ now - Window <= next - Window
  BY PeakType
<1>2. b \in 0 .. now /\ l \in 0 .. now + ban /\ h \in Seq(Nat)
  BY DEF Kept, Dated
<1>3. Win!DropAged(Win!DropAged(h, now - Window), next - Window)
        = Win!DropAged(h, next - Window)
  BY <1>1, <1>2, RestAgain
<1>4. InForce(b, next - Window)
        = IF next - InForce(b, now - Window) >= Window THEN 0 ELSE InForce(b, now - Window)
  BY <1>1, <1>2 DEF InForce
<1>5. InForce(l, next) = IF next >= InForce(l, now) THEN 0 ELSE InForce(l, now)
  BY <1>2 DEF InForce
<1> QED BY <1>3, <1>4, <1>5

----------------------------------------------------------------------------
\* One decision about one client.

\* What both implementations make of the stamps g that still count and the burst b
\* of a client without a lockout, and what they answer.
Outcome(g, b, now, ban, h2, b2, l2, a) ==
    /\ h2 = IF Len(g) < Win!Ring THEN Append(g, now) ELSE g
    /\ LET spike == Len(h2) <= Win!EffectivePeak /\ (b = 0 \/ now - b >= Window)
       IN  \/ Len(h2) <= Requests /\ b2 = b /\ l2 = 0 /\ a = Win!Allow
           \/ Len(h2) > Requests /\ spike /\ b2 = now /\ l2 = 0 /\ a = Win!Allow
           \/ /\ Len(h2) > Requests /\ ~spike /\ ban > 0 /\ b2 = b /\ l2 = now + ban
              /\ a = Win!Refuse(ban)
           \/ /\ Len(h2) > Requests /\ ~spike /\ ~(ban > 0) /\ b2 = b /\ l2 = 0
              /\ a = Win!Refuse(Win!Latest(0, h2[1] + Window - now))

\* What the abstract limiter makes of a request of c: of the stamps r, the burst b
\* and the lockout l that count.
Serves(r, b, l, r2, b2, l2, c, now, ban, a) ==
    \/ l # 0 /\ r2 = r /\ b2 = b /\ l2 = l /\ a = [client |-> c, ok |-> FALSE, wait |-> l - now]
    \/ /\ l = 0
       /\ r2 = IF Len(r) > Win!EffectivePeak THEN r ELSE Append(r, now)
       /\ LET within == Len(r2) <= Requests
              spike  == ~within /\ Len(r2) <= Win!EffectivePeak /\ b = 0
          IN  \/ within /\ b2 = b /\ l2 = l /\ a = [client |-> c, ok |-> TRUE, wait |-> 0]
              \/ spike /\ b2 = now /\ l2 = l /\ a = [client |-> c, ok |-> TRUE, wait |-> 0]
              \/ /\ ~within /\ ~spike /\ ban > 0 /\ b2 = b /\ l2 = now + ban
                 /\ a = [client |-> c, ok |-> FALSE, wait |-> ban]
              \/ /\ ~within /\ ~spike /\ ban = 0 /\ b2 = b /\ l2 = l
                 /\ a = [client |-> c, ok |-> FALSE, wait |-> r2[1] + Window - now]

\* The stamps after a decision are dated, and none of them has expired.
LEMMA OutcomeDated ==
    ASSUME NEW now \in Nat, NEW g, Dated(g, now), g # <<>> => g[1] > now - Window,
           NEW h2, h2 = IF Len(g) < Win!Ring THEN Append(g, now) ELSE g
    PROVE  Dated(h2, now) /\ h2 # <<>> /\ h2[1] > now - Window
<1>1. /\ g \in Seq(Nat) /\ Len(g) \in Nat /\ Len(g) <= Win!Ring
      /\ \A i \in 1 .. Len(g) : g[i] \in Nat /\ g[i] <= now
      /\ Window \in Nat \ {0} /\ Win!Ring \in Nat \ {0}
  BY PeakType DEF Dated
<1>2. CASE ~(Len(g) < Win!Ring)
  BY <1>1, <1>2
<1>3. CASE Len(g) < Win!Ring
  <2>1. h2 = Append(g, now)
    BY <1>3
  <2>2. /\ h2 \in Seq(Nat) /\ Len(h2) = Len(g) + 1 /\ h2[Len(g) + 1] = now
        /\ \A i \in 1 .. Len(g) : h2[i] = g[i]
    BY <1>1, <2>1
  <2>3. Len(h2) <= Win!Ring /\ \A i \in 1 .. Len(h2) : h2[i] <= now
    BY <1>1, <1>3, <2>2
  <2>4. ASSUME NEW i \in 1 .. Len(h2), NEW j \in 1 .. Len(h2), i <= j PROVE h2[i] <= h2[j]
    <3>1. CASE j = Len(g) + 1
      BY <2>2, <2>3, <3>1
    <3>2. CASE j # Len(g) + 1
      <4>1. i \in 1 .. Len(g) /\ j \in 1 .. Len(g)
        BY <1>1, <2>2, <2>4, <3>2
      <4>2. g[i] <= g[j]
        BY <2>4, <4>1 DEF Dated
      <4> QED BY <2>2, <4>1, <4>2
    <3> QED BY <3>1, <3>2
  <2>5. h2 # <<>> /\ h2[1] > now - Window
    <3>1. CASE g = <<>>
      BY <1>1, <2>2, <3>1
    <3>2. CASE g # <<>>
      <4>1. 1 \in 1 .. Len(g) /\ g[1] > now - Window
        BY <1>1, <3>2
      <4> QED BY <2>2, <4>1
    <3> QED BY <3>1, <3>2
  <2> QED BY <2>2, <2>3, <2>4, <2>5 DEF Dated
<1> QED BY <1>2, <1>3

\* The Serves of what is in force is the Outcome of what is kept.
LEMMA OutcomeServes ==
    ASSUME NEW now \in Nat \ {0}, NEW ban \in Nat, NEW c,
           NEW g, Dated(g, now), g # <<>> => g[1] > now - Window, NEW b \in 0 .. now,
           NEW h2, NEW b2, NEW l2, NEW a, Outcome(g, b, now, ban, h2, b2, l2, a)
    PROVE  /\ Kept(h2, b2, l2, now, ban)
           /\ Serves(g, InForce(b, now - Window), 0,
                     Win!DropAged(h2, now - Window), InForce(b2, now - Window), InForce(l2, now),
                     c, now, ban, Told(c, a))
<1> DEFINE edge == now - Window
<1>1. /\ Window \in Nat \ {0} /\ Requests \in Nat \ {0} /\ Win!EffectivePeak \in Nat
      /\ Requests <= Win!EffectivePeak /\ Win!Ring = Win!EffectivePeak + 1
      /\ edge \in Int /\ edge < now
  BY PeakType
<1>2. g \in Seq(Nat) /\ Len(g) \in Nat
  BY DEF Dated
<1>3. h2 = IF Len(g) < Win!Ring THEN Append(g, now) ELSE g
  BY DEF Outcome
<1>4. Dated(h2, now) /\ h2 # <<>> /\ h2[1] > edge
  <2> HIDE DEF Dated
  <2> QED BY <1>3, OutcomeDated
<1>5. h2 \in Seq(Nat) /\ Len(h2) \in Nat /\ 1 \in 1 .. Len(h2) /\ h2[1] \in Nat
  BY <1>4 DEF Dated
<1>6. Win!DropAged(h2, edge) = h2
  BY <1>1, <1>4, <1>5, RestWhole
<1>7. h2 = IF Len(g) > Win!EffectivePeak THEN g ELSE Append(g, now)
  BY <1>1, <1>2, <1>3
<1>8. Win!Latest(0, h2[1] + Window - now) = h2[1] + Window - now
  BY <1>1, <1>4, <1>5 DEF Win!Latest
<1>9. /\ InForce(now, edge) = now
      /\ InForce(b, edge) = 0 <=> b = 0 \/ now - b >= Window
      /\ InForce(0, now) = 0 /\ (ban > 0 => InForce(now + ban, now) = now + ban)
  BY <1>1 DEF InForce
<1> DEFINE count == Len(h2)
           spike == count <= Win!EffectivePeak /\ (b = 0 \/ now - b >= Window)
           y == InForce(b, edge)
<1>10. /\ Told(c, Win!Allow) = [client |-> c, ok |-> TRUE, wait |-> 0]
       /\ \A w : Told(c, Win!Refuse(w)) = [client |-> c, ok |-> FALSE, wait |-> w]
  BY DEF Told, Win!Allow, Win!Refuse
<1>11. \/ count <= Requests /\ b2 = b /\ l2 = 0 /\ a = Win!Allow
       \/ count > Requests /\ spike /\ b2 = now /\ l2 = 0 /\ a = Win!Allow
       \/ /\ count > Requests /\ ~spike /\ ban > 0 /\ b2 = b /\ l2 = now + ban
          /\ a = Win!Refuse(ban)
       \/ /\ count > Requests /\ ~spike /\ ~(ban > 0) /\ b2 = b /\ l2 = 0
          /\ a = Win!Refuse(h2[1] + Window - now)
  BY <1>8 DEF Outcome
<1>12. b2 \in 0 .. now /\ l2 \in 0 .. now + ban
  <2> HIDE DEF spike, count
  <2> QED BY <1>11
<1>13. count > Requests <=> ~(count <= Requests)
  BY <1>1, <1>5
<1>14. spike <=> count <= Win!EffectivePeak /\ y = 0
  BY <1>9
<1> HIDE DEF count, spike, y, edge
<1>15. LET within == count <= Requests
           one == ~within /\ count <= Win!EffectivePeak /\ y = 0
           b3 == InForce(b2, edge)
           l3 == InForce(l2, now)
           s == Told(c, a)
       IN  \/ within /\ b3 = y /\ l3 = 0 /\ s = [client |-> c, ok |-> TRUE, wait |-> 0]
           \/ one /\ b3 = now /\ l3 = 0 /\ s = [client |-> c, ok |-> TRUE, wait |-> 0]
           \/ /\ ~within /\ ~one /\ ban > 0 /\ b3 = y /\ l3 = now + ban
              /\ s = [client |-> c, ok |-> FALSE, wait |-> ban]
           \/ /\ ~within /\ ~one /\ ban = 0 /\ b3 = y /\ l3 = 0
              /\ s = [client |-> c, ok |-> FALSE, wait |-> h2[1] + Window - now]
  <2>1. ~(ban > 0) => ban = 0
    OBVIOUS
  <2>2. CASE count <= Requests /\ b2 = b /\ l2 = 0 /\ a = Win!Allow
    BY <1>9, <1>10, <2>2 DEF y
  <2>3. CASE count > Requests /\ spike /\ b2 = now /\ l2 = 0 /\ a = Win!Allow
    BY <1>9, <1>10, <1>13, <1>14, <2>3 DEF y
  <2>4. CASE /\ count > Requests /\ ~spike /\ ban > 0 /\ b2 = b /\ l2 = now + ban
             /\ a = Win!Refuse(ban)
    BY <1>9, <1>10, <1>13, <1>14, <2>4 DEF y
  <2>5. CASE /\ count > Requests /\ ~spike /\ ~(ban > 0) /\ b2 = b /\ l2 = 0
             /\ a = Win!Refuse(h2[1] + Window - now)
    BY <1>9, <1>10, <1>13, <1>14, <2>1, <2>5 DEF y
  <2> QED BY <1>11, <2>2, <2>3, <2>4, <2>5
<1>16. Serves(g, y, 0, h2, InForce(b2, edge), InForce(l2, now), c, now, ban, Told(c, a))
  BY <1>7, <1>15 DEF Serves, count
<1>17. Kept(h2, b2, l2, now, ban)
  BY <1>4, <1>12 DEF Kept
<1> QED BY <1>6, <1>16, <1>17 DEF y, edge

\* A client in a lockout is refused by both, and nothing of it changes.
LEMMA RefusalServes ==
    ASSUME NEW now \in Nat, NEW ban \in Nat, NEW c, NEW r, NEW b, NEW l \in Nat, l # 0, now < l
    PROVE  Serves(r, b, InForce(l, now), r, b, InForce(l, now), c, now, ban,
                  Told(c, Win!Refuse(l - now)))
<1>1. InForce(l, now) = l
  BY DEF InForce
<1>2. Told(c, Win!Refuse(l - now)) = [client |-> c, ok |-> FALSE, wait |-> l - now]
  BY DEF Told, Win!Refuse
<1> QED BY <1>1, <1>2 DEF Serves

\* A lockout that is over counts no more.
LEMMA NotInForce ==
    ASSUME NEW now \in Nat, NEW l \in Nat, ~(l # 0 /\ now < l)
    PROVE  InForce(l, now) = 0
  BY DEF InForce

----------------------------------------------------------------------------
\* A step of either implementation that serves c and leaves what counts of the
\* others is a step of its Limiter.

\* The functions of a step of the limiter, client by client.
LEMMA OneClient ==
    ASSUME NEW f, NEW g, f = [y \in Clients |-> f[y]], g = [y \in Clients |-> g[y]],
           NEW c \in Clients, \A y \in Clients \ {c} : g[y] = f[y], NEW v, g[c] = v
    PROVE  g = [f EXCEPT ![c] = v] /\ (v = f[c] => g = f)
<1> DEFINE e == [f EXCEPT ![c] = v]
<1>1. DOMAIN f = Clients /\ DOMAIN g = Clients
  OBVIOUS
<1>2. e = [y \in Clients |-> e[y]] /\ \A y \in Clients : g[y] = e[y]
  BY <1>1
<1>3. g = e
  <2> HIDE DEF e
  <2> QED BY <1>2
<1>4. v = f[c] => g = f
  <2> SUFFICES ASSUME v = f[c] PROVE g = f
    OBVIOUS
  <2>1. \A y \in Clients : g[y] = f[y]
    OBVIOUS
  <2> QED BY <2>1
<1> QED BY <1>3, <1>4

\* Each process serves its clients like that,
LEMMA LocalStep ==
    ASSUME NEW c \in Clients, UNCHANGED <<clock, lockFor>>,
           Serves(LocalRecent[c], LocalBurst[c], LocalLockout[c],
                  LocalRecent'[c], LocalBurst'[c], LocalLockout'[c], c, clock, lockFor, local'),
           \A y \in Clients \ {c} : /\ LocalRecent'[y] = LocalRecent[y]
                                    /\ LocalBurst'[y] = LocalBurst[y]
                                    /\ LocalLockout'[y] = LocalLockout[y]
    PROVE  OfLocal!Request(c)
<1>1. /\ LocalRecent = [y \in Clients |-> LocalRecent[y]]
      /\ LocalBurst = [y \in Clients |-> LocalBurst[y]]
      /\ LocalLockout = [y \in Clients |-> LocalLockout[y]]
      /\ LocalRecent' = [y \in Clients |-> LocalRecent'[y]]
      /\ LocalBurst' = [y \in Clients |-> LocalBurst'[y]]
      /\ LocalLockout' = [y \in Clients |-> LocalLockout'[y]]
  BY DEF LocalRecent, LocalBurst, LocalLockout
<1> HIDE DEF LocalRecent, LocalBurst, LocalLockout
<1>2. OfLocal!Spike = Win!EffectivePeak
  BY DEF OfLocal!Spike, Win!EffectivePeak
<1>3. /\ \A v : LocalRecent'[c] = v =>
                   /\ LocalRecent' = [LocalRecent EXCEPT ![c] = v]
                   /\ (v = LocalRecent[c] => LocalRecent' = LocalRecent)
      /\ \A v : LocalBurst'[c] = v =>
                   /\ LocalBurst' = [LocalBurst EXCEPT ![c] = v]
                   /\ (v = LocalBurst[c] => LocalBurst' = LocalBurst)
      /\ \A v : LocalLockout'[c] = v =>
                   /\ LocalLockout' = [LocalLockout EXCEPT ![c] = v]
                   /\ (v = LocalLockout[c] => LocalLockout' = LocalLockout)
  BY <1>1, OneClient
<1>4. OfLocal!RefusedInLockout(c) \/ OfLocal!Counted(c)
  <2>1. CASE /\ LocalLockout[c] # 0 /\ LocalRecent'[c] = LocalRecent[c]
             /\ LocalBurst'[c] = LocalBurst[c] /\ LocalLockout'[c] = LocalLockout[c]
             /\ local' = [client |-> c, ok |-> FALSE, wait |-> LocalLockout[c] - clock]
    BY <1>3, <2>1 DEF OfLocal!RefusedInLockout, OfLocal!No
  <2>2. CASE ~(LocalLockout[c] # 0)
    <3>1. LocalLockout[c] = 0
      BY <2>2
    <3> DEFINE r2 == LocalRecent'[c]
    <3>2. /\ r2 = IF Len(LocalRecent[c]) > Win!EffectivePeak
                  THEN LocalRecent[c] ELSE Append(LocalRecent[c], clock)
          /\ LET within == Len(r2) <= Requests
                 spike  == ~within /\ Len(r2) <= Win!EffectivePeak /\ LocalBurst[c] = 0
             IN  \/ /\ within /\ LocalBurst'[c] = LocalBurst[c]
                    /\ LocalLockout'[c] = LocalLockout[c]
                    /\ local' = [client |-> c, ok |-> TRUE, wait |-> 0]
                 \/ /\ spike /\ LocalBurst'[c] = clock /\ LocalLockout'[c] = LocalLockout[c]
                    /\ local' = [client |-> c, ok |-> TRUE, wait |-> 0]
                 \/ /\ ~within /\ ~spike /\ lockFor > 0 /\ LocalBurst'[c] = LocalBurst[c]
                    /\ LocalLockout'[c] = clock + lockFor
                    /\ local' = [client |-> c, ok |-> FALSE, wait |-> lockFor]
                 \/ /\ ~within /\ ~spike /\ lockFor = 0 /\ LocalBurst'[c] = LocalBurst[c]
                    /\ LocalLockout'[c] = LocalLockout[c]
                    /\ local' = [client |-> c, ok |-> FALSE, wait |-> r2[1] + Window - clock]
      BY <3>1 DEF Serves
    <3> QED BY <1>2, <1>3, <3>1, <3>2 DEF OfLocal!Counted, OfLocal!Yes, OfLocal!No
  <2> QED BY <2>1, <2>2 DEF Serves
<1> QED BY <1>4 DEF OfLocal!Request

\* and so does the table.
LEMMA SharedStep ==
    ASSUME NEW c \in Clients, UNCHANGED <<clock, lockFor>>,
           Serves(SharedRecent[c], SharedBurst[c], SharedLockout[c],
                  SharedRecent'[c], SharedBurst'[c], SharedLockout'[c], c, clock, lockFor, shared'),
           \A y \in Clients \ {c} : /\ SharedRecent'[y] = SharedRecent[y]
                                    /\ SharedBurst'[y] = SharedBurst[y]
                                    /\ SharedLockout'[y] = SharedLockout[y]
    PROVE  OfShared!Request(c)
<1>1. /\ SharedRecent = [y \in Clients |-> SharedRecent[y]]
      /\ SharedBurst = [y \in Clients |-> SharedBurst[y]]
      /\ SharedLockout = [y \in Clients |-> SharedLockout[y]]
      /\ SharedRecent' = [y \in Clients |-> SharedRecent'[y]]
      /\ SharedBurst' = [y \in Clients |-> SharedBurst'[y]]
      /\ SharedLockout' = [y \in Clients |-> SharedLockout'[y]]
  BY DEF SharedRecent, SharedBurst, SharedLockout
<1> HIDE DEF SharedRecent, SharedBurst, SharedLockout
<1>2. OfShared!Spike = Win!EffectivePeak
  BY DEF OfShared!Spike, Win!EffectivePeak
<1>3. /\ \A v : SharedRecent'[c] = v =>
                   /\ SharedRecent' = [SharedRecent EXCEPT ![c] = v]
                   /\ (v = SharedRecent[c] => SharedRecent' = SharedRecent)
      /\ \A v : SharedBurst'[c] = v =>
                   /\ SharedBurst' = [SharedBurst EXCEPT ![c] = v]
                   /\ (v = SharedBurst[c] => SharedBurst' = SharedBurst)
      /\ \A v : SharedLockout'[c] = v =>
                   /\ SharedLockout' = [SharedLockout EXCEPT ![c] = v]
                   /\ (v = SharedLockout[c] => SharedLockout' = SharedLockout)
  BY <1>1, OneClient
<1>4. OfShared!RefusedInLockout(c) \/ OfShared!Counted(c)
  <2>1. CASE /\ SharedLockout[c] # 0 /\ SharedRecent'[c] = SharedRecent[c]
             /\ SharedBurst'[c] = SharedBurst[c] /\ SharedLockout'[c] = SharedLockout[c]
             /\ shared' = [client |-> c, ok |-> FALSE, wait |-> SharedLockout[c] - clock]
    BY <1>3, <2>1 DEF OfShared!RefusedInLockout, OfShared!No
  <2>2. CASE ~(SharedLockout[c] # 0)
    <3>1. SharedLockout[c] = 0
      BY <2>2
    <3> DEFINE r2 == SharedRecent'[c]
    <3>2. /\ r2 = IF Len(SharedRecent[c]) > Win!EffectivePeak
                  THEN SharedRecent[c] ELSE Append(SharedRecent[c], clock)
          /\ LET within == Len(r2) <= Requests
                 spike  == ~within /\ Len(r2) <= Win!EffectivePeak /\ SharedBurst[c] = 0
             IN  \/ /\ within /\ SharedBurst'[c] = SharedBurst[c]
                    /\ SharedLockout'[c] = SharedLockout[c]
                    /\ shared' = [client |-> c, ok |-> TRUE, wait |-> 0]
                 \/ /\ spike /\ SharedBurst'[c] = clock /\ SharedLockout'[c] = SharedLockout[c]
                    /\ shared' = [client |-> c, ok |-> TRUE, wait |-> 0]
                 \/ /\ ~within /\ ~spike /\ lockFor > 0 /\ SharedBurst'[c] = SharedBurst[c]
                    /\ SharedLockout'[c] = clock + lockFor
                    /\ shared' = [client |-> c, ok |-> FALSE, wait |-> lockFor]
                 \/ /\ ~within /\ ~spike /\ lockFor = 0 /\ SharedBurst'[c] = SharedBurst[c]
                    /\ SharedLockout'[c] = SharedLockout[c]
                    /\ shared' = [client |-> c, ok |-> FALSE, wait |-> r2[1] + Window - clock]
      BY <3>1 DEF Serves
    <3> QED BY <1>2, <1>3, <3>1, <3>2 DEF OfShared!Counted, OfShared!Yes, OfShared!No
  <2> QED BY <2>1, <2>2 DEF Serves
<1> QED BY <1>4 DEF OfShared!Request

----------------------------------------------------------------------------
\* The dictionaries of a process.

\* The dictionaries together, and their types.
IsCounters(d) ==
    d = [hits |-> d.hits, order |-> d.order, bursts |-> d.bursts,
         bans |-> d.bans, next |-> d.next]
CountersType(d) ==
    /\ IsCounters(d)
    /\ d.hits \in [Clients -> Seq(Nat)]
    /\ d.bursts \in [Clients -> Nat]
    /\ d.bans \in [Clients -> Nat]

\* The dictionaries after a request of c: with its burst, its lockout, its stamps.
WithBurst(d, c, b) == [d EXCEPT !.bursts[c] = b]
WithBan(d, c, l) == [d EXCEPT !.bans[c] = l]
WithHits(d, c, h, o) == [d EXCEPT !.hits[c] = h, !.order = o]

\* A burst of one client leaves the other entries of the dictionaries,
LEMMA WithBurstIs ==
    ASSUME NEW d, IsCounters(d), NEW c, NEW v, NEW e,
           e = WithBurst(d, c, v)
    PROVE  IsCounters(e) /\ e.hits = d.hits /\ e.bursts = [d.bursts EXCEPT ![c] = v]
           /\ e.bans = d.bans
<1>1. d = [hits |-> d.hits, order |-> d.order, bursts |-> d.bursts,
           bans |-> d.bans, next |-> d.next]
  BY DEF IsCounters
<1>2. e = [hits |-> d.hits, order |-> d.order, bursts |-> [d.bursts EXCEPT ![c] = v],
           bans |-> d.bans, next |-> d.next]
  BY <1>1 DEF WithBurst
<1>3. e.hits = d.hits /\ e.bursts = [d.bursts EXCEPT ![c] = v] /\ e.bans = d.bans
  BY <1>2
<1>4. IsCounters(e)
  BY <1>2 DEF IsCounters
<1> QED BY <1>3, <1>4

\* so does a lockout,
LEMMA WithBanIs ==
    ASSUME NEW d, IsCounters(d), NEW c, NEW v, NEW e,
           e = WithBan(d, c, v)
    PROVE  IsCounters(e) /\ e.hits = d.hits /\ e.bursts = d.bursts
           /\ e.bans = [d.bans EXCEPT ![c] = v]
<1>1. d = [hits |-> d.hits, order |-> d.order, bursts |-> d.bursts,
           bans |-> d.bans, next |-> d.next]
  BY DEF IsCounters
<1>2. e = [hits |-> d.hits, order |-> d.order, bursts |-> d.bursts,
           bans |-> [d.bans EXCEPT ![c] = v], next |-> d.next]
  BY <1>1 DEF WithBan
<1>3. e.hits = d.hits /\ e.bursts = d.bursts /\ e.bans = [d.bans EXCEPT ![c] = v]
  BY <1>2
<1>4. IsCounters(e)
  BY <1>2 DEF IsCounters
<1> QED BY <1>3, <1>4

\* and so do its requests.
LEMMA WithHitsIs ==
    ASSUME NEW d, IsCounters(d), NEW c, NEW v, NEW w, NEW e,
           e = WithHits(d, c, v, w)
    PROVE  IsCounters(e) /\ e.hits = [d.hits EXCEPT ![c] = v] /\ e.bursts = d.bursts
           /\ e.bans = d.bans
<1>1. d = [hits |-> d.hits, order |-> d.order, bursts |-> d.bursts,
           bans |-> d.bans, next |-> d.next]
  BY DEF IsCounters
<1>2. e = [hits |-> [d.hits EXCEPT ![c] = v], order |-> w, bursts |-> d.bursts,
           bans |-> d.bans, next |-> d.next]
  BY <1>1 DEF WithHits
<1>3. e.hits = [d.hits EXCEPT ![c] = v] /\ e.bursts = d.bursts /\ e.bans = d.bans
  BY <1>2
<1>4. IsCounters(e)
  BY <1>2 DEF IsCounters
<1> QED BY <1>3, <1>4

\* Forgetting the requests of some clients leaves those of the others,
LEMMA ForgetHitsIs ==
    ASSUME NEW d, CountersType(d), NEW gone
    PROVE  /\ CountersType(Win!ForgetHits(d, gone))
           /\ Win!ForgetHits(d, gone).bursts = d.bursts /\ Win!ForgetHits(d, gone).bans = d.bans
           /\ Win!ForgetHits(d, gone).hits
                = [c \in Clients |-> IF c \in gone THEN <<>> ELSE d.hits[c]]
<1> DEFINE f == Win!ForgetHits(d, gone)
           hits == [c \in Clients |-> IF c \in gone THEN <<>> ELSE d.hits[c]]
           order == {p \in d.order : p[1] \notin gone /\ p[2] \notin gone}
<1>1. f = [d EXCEPT !.hits = hits, !.order = order]
  BY DEF Win!ForgetHits
<1>2. hits \in [Clients -> Seq(Nat)]
  <2>1. <<>> \in Seq(Nat) /\ \A c \in Clients : d.hits[c] \in Seq(Nat)
    BY DEF CountersType, IsCounters
  <2> QED BY <2>1
<1> HIDE DEF f, hits, order
<1>3. f = [hits |-> hits, order |-> order, bursts |-> d.bursts, bans |-> d.bans, next |-> d.next]
  BY <1>1 DEF CountersType, IsCounters
<1>4. d.bursts \in [Clients -> Nat] /\ d.bans \in [Clients -> Nat]
  BY DEF CountersType, IsCounters
<1>5. CountersType(f) /\ f.bursts = d.bursts /\ f.bans = d.bans /\ f.hits = hits
  <2>1. /\ f.hits = hits /\ f.order = order /\ f.bursts = d.bursts /\ f.bans = d.bans
        /\ f.next = d.next
    BY <1>3
  <2> QED BY <1>2, <1>3, <1>4, <2>1 DEF CountersType, IsCounters
<1> QED BY <1>5 DEF f, hits

\* a sweep at now makes of those of each client what a sweep may,
LEMMA MaybeSweepIs ==
    ASSUME NEW d, CountersType(d), NEW now \in Nat
    PROVE  /\ CountersType(Win!MaybeSweep(d, now))
           /\ \A y \in Clients : Swept(d.hits[y], d.bursts[y], d.bans[y],
                    Win!MaybeSweep(d, now).hits[y], Win!MaybeSweep(d, now).bursts[y],
                    Win!MaybeSweep(d, now).bans[y], now)
<1> DEFINE aged(c) == d.hits[c] = <<>> \/ d.hits[c][Len(d.hits[c])] <= now - Window
           gone == {c \in Clients : aged(c)}
           f == Win!ForgetHits(d, gone)
           bans == [c \in Clients |-> IF now >= f.bans[c] THEN 0 ELSE f.bans[c]]
           bursts == [c \in Clients |-> IF now - f.bursts[c] >= Window THEN 0 ELSE f.bursts[c]]
           next == now + Win!Latest(Window, 1)
           e == [f EXCEPT !.next = next, !.bursts = bursts, !.bans = bans]
           m == Win!MaybeSweep(d, now)
<1>1. m = IF now < d.next THEN d ELSE e
  BY DEF Win!MaybeSweep
<1>2. /\ CountersType(f) /\ f.bursts = d.bursts /\ f.bans = d.bans
      /\ f.hits = [c \in Clients |-> IF c \in gone THEN <<>> ELSE d.hits[c]]
  BY ForgetHitsIs
<1>3. \A y \in Clients : y \in gone => d.hits[y] = <<>> \/ d.hits[y][Len(d.hits[y])] <= now - Window
  OBVIOUS
<1> HIDE DEF f, gone, m
<1>4. /\ bursts \in [Clients -> Nat] /\ bans \in [Clients -> Nat]
      /\ \A y \in Clients :
            bursts[y] = d.bursts[y] \/ (bursts[y] = 0 /\ now - d.bursts[y] >= Window)
      /\ \A y \in Clients : bans[y] = d.bans[y] \/ (bans[y] = 0 /\ now >= d.bans[y])
  <2>1. \A y \in Clients : /\ f.bursts[y] = d.bursts[y] /\ f.bursts[y] \in Nat
                           /\ f.bans[y] = d.bans[y] /\ f.bans[y] \in Nat
    BY <1>2 DEF CountersType, IsCounters
  <2> QED BY <2>1
<1> HIDE DEF bans, bursts, next
<1>5. CountersType(e) /\ e.hits = f.hits /\ e.bursts = bursts /\ e.bans = bans
  <2>1. e = [hits |-> f.hits, order |-> f.order, bursts |-> bursts, bans |-> bans, next |-> next]
    <3>1. DOMAIN f = {"hits", "order", "bursts", "bans", "next"}
      BY <1>2 DEF CountersType, IsCounters
    <3>2. /\ DOMAIN e = {"hits", "order", "bursts", "bans", "next"}
          /\ e = [x \in DOMAIN e |-> e[x]]
          /\ e.hits = f.hits /\ e.order = f.order /\ e.bursts = bursts /\ e.bans = bans
          /\ e.next = next
      BY <3>1
    <3> HIDE DEF e
    <3> QED BY <3>2
  <2>2. f.hits \in [Clients -> Seq(Nat)]
    BY <1>2 DEF CountersType, IsCounters
  <2> HIDE DEF e
  <2>3. /\ e.hits = f.hits /\ e.order = f.order /\ e.bursts = bursts /\ e.bans = bans
        /\ e.next = next
    BY <2>1
  <2> QED BY <1>4, <2>1, <2>2, <2>3 DEF CountersType, IsCounters
<1> HIDE DEF e
<1>6. CASE now < d.next
  BY <1>1, <1>6 DEF Swept, m
<1>7. CASE ~(now < d.next)
  <2>1. m = e
    BY <1>1, <1>7
  <2>2. ASSUME NEW y \in Clients
        PROVE  Swept(d.hits[y], d.bursts[y], d.bans[y], e.hits[y], e.bursts[y], e.bans[y], now)
    <3>1. e.hits[y] = d.hits[y]
          \/ (e.hits[y] = <<>> /\ (d.hits[y] = <<>> \/ d.hits[y][Len(d.hits[y])] <= now - Window))
      BY <1>2, <1>3, <1>5
    <3>2. /\ e.bursts[y] = d.bursts[y] \/ (e.bursts[y] = 0 /\ now - d.bursts[y] >= Window)
          /\ e.bans[y] = d.bans[y] \/ (e.bans[y] = 0 /\ now >= d.bans[y])
      BY <1>4, <1>5
    <3> QED BY <3>1, <3>2 DEF Swept
  <2> QED BY <1>5, <2>1, <2>2 DEF m
<1> QED BY <1>6, <1>7

\* and with room for every client none is evicted for another.
LEMMA RoomForAll ==
    ASSUME NEW c \in Clients, NEW d, c \notin Win!Known(d)
    PROVE  ~(Win!Cardinality(Win!Known(d)) >= Capacity)
<1>1. IsFiniteSet(Clients) /\ Capacity \in Nat /\ Capacity >= Cardinality(Clients)
  BY DecideAlikeAssumption
<1>2. IsFiniteSet(Clients \ {c}) /\ Cardinality(Clients \ {c}) = Cardinality(Clients) - 1
  BY <1>1, FS_RemoveElement
<1>3. Win!Known(d) \in SUBSET (Clients \ {c})
  BY DEF Win!Known
<1>4. Cardinality(Win!Known(d)) <= Cardinality(Clients \ {c})
  BY <1>2, <1>3, FS_Subset
<1>5. /\ Cardinality(Win!Known(d)) \in Nat /\ Cardinality(Clients) \in Nat
  BY <1>1, <1>2, <1>3, FS_Subset, FS_CardinalityType
<1>6. ASSUME NEW S PROVE Win!Cardinality(S) = Cardinality(S)
  BY DEF Win!Cardinality, Cardinality
<1> QED BY <1>1, <1>2, <1>4, <1>5, <1>6

\* A request that meets no lockout is counted after a sweep.
Counts(m, e, c, now, ban, a) ==
    /\ Outcome(Win!DropAged(m.hits[c], now - Window), m.bursts[c], now, ban,
               e.hits[c], e.bursts[c], e.bans[c], a)
    /\ \A y \in Clients \ {c} :
          e.hits[y] = m.hits[y] /\ e.bursts[y] = m.bursts[y] /\ e.bans[y] = m.bans[y]

\* Consume is such a sweep, and then the decision about c.
LEMMA ConsumeIs ==
    ASSUME lockFor \in Nat, NEW d, CountersType(d), NEW c \in Clients, NEW now \in Nat,
           ~(d.bans[c] # 0 /\ now < d.bans[c])
    PROVE  \E m :
              /\ CountersType(m) /\ CountersType(Win!Consume(d, c, now).counters)
              /\ \A y \in Clients : Swept(d.hits[y], d.bursts[y], d.bans[y],
                                          m.hits[y], m.bursts[y], m.bans[y], now)
              /\ Counts(m, Win!Consume(d, c, now).counters, c, now, lockFor,
                        Win!Consume(d, c, now).answer)
<1> DEFINE r == Win!Consume(d, c, now)
           free == [d EXCEPT !.bans[c] = 0]
           m == Win!MaybeSweep(free, now)
           kept == Win!DropAged(m.hits[c], now - Window)
           hits == IF Len(kept) < Win!Ring THEN Append(kept, now) ELSE kept
           count == Len(hits)
           order == IF c \in Win!Known(m) THEN m.order
                    ELSE m.order \cup (Win!Known(m) \cup {c}) \X {c}
           g == [m EXCEPT !.hits[c] = hits, !.order = order]
           spike == count <= Win!EffectivePeak /\ (g.bursts[c] = 0 \/ now - g.bursts[c] >= Window)
           wait == Win!Latest(0, hits[1] + Window - now)
           burst == [g EXCEPT !.bursts[c] = now]
           locked == [g EXCEPT !.bans[c] = now + lockFor]
<1>1. CountersType(free) /\ free.hits = d.hits /\ free.bursts = d.bursts
      /\ free.bans = [d.bans EXCEPT ![c] = 0]
  <2>1. /\ IsCounters(d) /\ d.hits \in [Clients -> Seq(Nat)] /\ d.bursts \in [Clients -> Nat]
        /\ d.bans \in [Clients -> Nat]
    BY DEF CountersType
  <2>2. /\ IsCounters(free) /\ free.hits = d.hits /\ free.bursts = d.bursts
        /\ free.bans = [d.bans EXCEPT ![c] = 0]
    <3>1. free = WithBan(d, c, 0)
      BY DEF WithBan
    <3> HIDE DEF free
    <3> QED BY <2>1, <3>1, WithBanIs
  <2> HIDE DEF free
  <2>3. free.bans \in [Clients -> Nat]
    BY <2>1, <2>2
  <2> QED BY <2>1, <2>2, <2>3 DEF CountersType
<1>2. /\ CountersType(m) /\ m.bans[c] = 0
      /\ \A y \in Clients : Swept(d.hits[y], d.bursts[y], d.bans[y],
                                  m.hits[y], m.bursts[y], m.bans[y], now)
  <2> HIDE DEF free
  <2>1. /\ CountersType(m)
        /\ \A y \in Clients : Swept(free.hits[y], free.bursts[y], free.bans[y],
                                    m.hits[y], m.bursts[y], m.bans[y], now)
    BY <1>1, MaybeSweepIs
  <2> HIDE DEF m
  <2>2. \A y \in Clients : d.bans[y] \in Nat /\ free.bans[y] = IF y = c THEN 0 ELSE d.bans[y]
    BY <1>1 DEF CountersType
  <2>3. m.bans[c] = 0
    BY <2>1, <2>2 DEF Swept
  <2>4. ASSUME NEW y \in Clients
        PROVE  Swept(d.hits[y], d.bursts[y], d.bans[y], m.hits[y], m.bursts[y], m.bans[y], now)
    <3>1. Swept(d.hits[y], d.bursts[y], free.bans[y], m.hits[y], m.bursts[y], m.bans[y], now)
      BY <1>1, <2>1
    <3>2. m.bans[y] = d.bans[y] \/ (m.bans[y] = 0 /\ now >= d.bans[y])
      <4>1. CASE y = c
        BY <2>2, <2>3, <4>1
      <4>2. CASE y # c
        BY <2>2, <3>1, <4>2 DEF Swept
      <4> QED BY <4>1, <4>2
    <3> QED BY <3>1, <3>2 DEF Swept
  <2> QED BY <2>1, <2>3, <2>4
<1>3. c \in Win!Known(m) \/ ~(Win!Cardinality(Win!Known(m)) >= Capacity)
  <2> HIDE DEF m
  <2> QED BY RoomForAll
<1>4. r = (CASE count <= Requests -> [counters |-> g, answer |-> Win!Allow]
             [] count > Requests /\ spike -> [counters |-> burst, answer |-> Win!Allow]
             [] count > Requests /\ ~spike /\ lockFor > 0 ->
                   [counters |-> locked, answer |-> Win!Refuse(lockFor)]
             [] OTHER -> [counters |-> g, answer |-> Win!Refuse(wait)])
  <2> DEFINE room == IF c \notin Win!Known(m) /\ Win!Cardinality(Win!Known(m)) >= Capacity
                     THEN Win!EvictOldest(m) ELSE m
  <2>1. room = m
    BY <1>3
  <2> QED BY <2>1, ZenonT(60) DEF Win!Consume
<1>5. hits \in Seq(Nat) /\ count \in Nat /\ Requests \in Nat
  <2>1. m.hits[c] \in Seq(Nat) /\ now - Window \in Int
    <3> HIDE DEF m
    <3> QED BY <1>2, PeakType DEF CountersType
  <2>2. kept \in Seq(Nat)
    <3> HIDE DEF m
    <3>1. PICK n : Gone(m.hits[c], now - Window, n)
      BY <2>1, SomeGone
    <3> QED BY <2>1, <3>1, RestIs
  <2> HIDE DEF kept
  <2> QED BY <2>2, PeakType
<1>6. /\ g.hits = [m.hits EXCEPT ![c] = hits] /\ g.bursts = m.bursts /\ g.bans = m.bans
      /\ IsCounters(g)
  <2> HIDE DEF m, hits, order
  <2>1. g = WithHits(m, c, hits, order)
    BY DEF WithHits
  <2> HIDE DEF g
  <2>2. IsCounters(m)
    BY <1>2 DEF CountersType
  <2> QED BY <2>1, <2>2, WithHitsIs
<1>7. spike <=> count <= Win!EffectivePeak /\ (m.bursts[c] = 0 \/ now - m.bursts[c] >= Window)
  <2> HIDE DEF m, hits, order, g
  <2> QED BY <1>6
<1> HIDE DEF r, m, order, g
<1>8. /\ IsCounters(burst) /\ burst.hits = g.hits /\ burst.bans = m.bans
      /\ burst.bursts = [m.bursts EXCEPT ![c] = now]
      /\ IsCounters(locked) /\ locked.hits = g.hits /\ locked.bursts = m.bursts
      /\ locked.bans = [m.bans EXCEPT ![c] = now + lockFor]
  <2>0. IsCounters(g)
    BY <1>6
  <2>1. /\ IsCounters(burst) /\ burst.hits = g.hits /\ burst.bans = g.bans
        /\ burst.bursts = [g.bursts EXCEPT ![c] = now]
    <3>1. burst = WithBurst(g, c, now)
      BY DEF WithBurst
    <3> HIDE DEF burst
    <3> QED BY <2>0, <3>1, WithBurstIs
  <2>2. /\ IsCounters(locked) /\ locked.hits = g.hits /\ locked.bursts = g.bursts
        /\ locked.bans = [g.bans EXCEPT ![c] = now + lockFor]
    <3>1. locked = WithBan(g, c, now + lockFor)
      BY DEF WithBan
    <3> HIDE DEF locked
    <3> QED BY <2>0, <3>1, WithBanIs
  <2> HIDE DEF burst, locked
  <2> QED BY <1>6, <2>1, <2>2
<1> HIDE DEF burst, locked, kept, hits, count, spike
<1>9. \/ /\ count <= Requests /\ r = [counters |-> g, answer |-> Win!Allow]
      \/ /\ count > Requests /\ spike /\ r = [counters |-> burst, answer |-> Win!Allow]
      \/ /\ count > Requests /\ ~spike /\ lockFor > 0
         /\ r = [counters |-> locked, answer |-> Win!Refuse(lockFor)]
      \/ /\ count > Requests /\ ~spike /\ ~(lockFor > 0)
         /\ r = [counters |-> g, answer |-> Win!Refuse(wait)]
  <2>1. count <= Requests \/ (count > Requests /\ ~(count <= Requests))
    BY <1>5
  <2> HIDE DEF wait
  <2> QED BY <1>4, <2>1
<1> DEFINE e == r.counters
           a == r.answer
<1>10. /\ IsCounters(e)
       /\ e.hits = [m.hits EXCEPT ![c] = hits]
       /\ \/ count <= Requests /\ e.bursts = m.bursts /\ e.bans = m.bans /\ a = Win!Allow
          \/ /\ count > Requests /\ spike /\ e.bursts = [m.bursts EXCEPT ![c] = now]
             /\ e.bans = m.bans /\ a = Win!Allow
          \/ /\ count > Requests /\ ~spike /\ lockFor > 0 /\ e.bursts = m.bursts
             /\ e.bans = [m.bans EXCEPT ![c] = now + lockFor] /\ a = Win!Refuse(lockFor)
          \/ /\ count > Requests /\ ~spike /\ ~(lockFor > 0) /\ e.bursts = m.bursts
             /\ e.bans = m.bans /\ a = Win!Refuse(wait)
  <2> HIDE DEF wait
  <2>3. ASSUME NEW x, NEW y, r = [counters |-> x, answer |-> y] PROVE e = x /\ a = y
    BY <2>3
  <2> HIDE DEF e, a
  <2>4. CASE count <= Requests /\ r = [counters |-> g, answer |-> Win!Allow]
    <3>1. e = g /\ a = Win!Allow
      BY <2>3, <2>4
    <3> QED BY <1>6, <2>4, <3>1
  <2>5. CASE count > Requests /\ spike /\ r = [counters |-> burst, answer |-> Win!Allow]
    <3>1. e = burst /\ a = Win!Allow
      BY <2>3, <2>5
    <3> QED BY <1>6, <1>8, <2>5, <3>1
  <2>6. CASE /\ count > Requests /\ ~spike /\ lockFor > 0
             /\ r = [counters |-> locked, answer |-> Win!Refuse(lockFor)]
    <3>1. e = locked /\ a = Win!Refuse(lockFor)
      BY <2>3, <2>6
    <3> QED BY <1>6, <1>8, <2>6, <3>1
  <2>7. CASE /\ count > Requests /\ ~spike /\ ~(lockFor > 0)
             /\ r = [counters |-> g, answer |-> Win!Refuse(wait)]
    <3>1. e = g /\ a = Win!Refuse(wait)
      BY <2>3, <2>7
    <3> QED BY <1>6, <2>7, <3>1
  <2> QED BY <1>9, <2>4, <2>5, <2>6, <2>7
<1> HIDE DEF e, a
<1>11. /\ m.hits \in [Clients -> Seq(Nat)]
       /\ m.bursts \in [Clients -> Nat] /\ m.bans \in [Clients -> Nat]
  BY <1>2 DEF CountersType
<1>12. CountersType(e)
  <2>1. e.hits \in [Clients -> Seq(Nat)]
    BY <1>5, <1>10, <1>11
  <2>2. e.bursts = m.bursts \/ e.bursts = [m.bursts EXCEPT ![c] = now]
    BY <1>10
  <2>3. e.bursts \in [Clients -> Nat]
    BY <1>11, <2>2
  <2>4. e.bans = m.bans \/ e.bans = [m.bans EXCEPT ![c] = now + lockFor]
    BY <1>10
  <2>5. e.bans \in [Clients -> Nat]
    <3>1. now + lockFor \in Nat
      OBVIOUS
    <3> QED BY <1>11, <2>4, <3>1
  <2> QED BY <1>10, <2>1, <2>3, <2>5 DEF CountersType
<1>13. /\ e.hits[c] = hits
       /\ [m.bursts EXCEPT ![c] = now][c] = now
       /\ [m.bans EXCEPT ![c] = now + lockFor][c] = now + lockFor
       /\ \A y \in Clients \ {c} :
            e.hits[y] = m.hits[y] /\ e.bursts[y] = m.bursts[y] /\ e.bans[y] = m.bans[y]
  <2>1. e.hits[c] = hits /\ \A y \in Clients \ {c} : e.hits[y] = m.hits[y]
    BY <1>10, <1>11
  <2>2. e.bursts = m.bursts \/ e.bursts = [m.bursts EXCEPT ![c] = now]
    BY <1>10
  <2>3. e.bans = m.bans \/ e.bans = [m.bans EXCEPT ![c] = now + lockFor]
    BY <1>10
  <2>4. \A y \in Clients \ {c} : e.bursts[y] = m.bursts[y]
    BY <1>11, <2>2
  <2>5. \A y \in Clients \ {c} : e.bans[y] = m.bans[y]
    BY <1>11, <2>3
  <2>6. /\ [m.bursts EXCEPT ![c] = now][c] = now
        /\ [m.bans EXCEPT ![c] = now + lockFor][c] = now + lockFor
    BY <1>11
  <2> QED BY <2>1, <2>4, <2>5, <2>6
<1>14. Outcome(kept, m.bursts[c], now, lockFor, e.hits[c], e.bursts[c], e.bans[c], a)
  <2>1. e.hits[c] = IF Len(kept) < Win!Ring THEN Append(kept, now) ELSE kept
    BY <1>13 DEF hits
  <2>2. \/ count <= Requests /\ e.bursts[c] = m.bursts[c] /\ e.bans[c] = 0 /\ a = Win!Allow
        \/ count > Requests /\ spike /\ e.bursts[c] = now /\ e.bans[c] = 0 /\ a = Win!Allow
        \/ /\ count > Requests /\ ~spike /\ lockFor > 0 /\ e.bursts[c] = m.bursts[c]
           /\ e.bans[c] = now + lockFor /\ a = Win!Refuse(lockFor)
        \/ /\ count > Requests /\ ~spike /\ ~(lockFor > 0) /\ e.bursts[c] = m.bursts[c]
           /\ e.bans[c] = 0 /\ a = Win!Refuse(wait)
    <3> HIDE DEF wait
    <3> QED BY <1>2, <1>10, <1>13
  <2>3. count = Len(e.hits[c]) /\ wait = Win!Latest(0, e.hits[c][1] + Window - now)
    BY <1>13 DEF count
  <2> HIDE DEF wait
  <2> QED BY <1>7, <2>1, <2>2, <2>3 DEF Outcome
<1>15. Counts(m, e, c, now, lockFor, a)
  BY <1>13, <1>14 DEF Counts, kept
<1> QED BY <1>2, <1>12, <1>15 DEF e, a, r

\* What a request, a refusal or a sweep makes of what is kept of a client, as far as
\* it counts at now.
ServesKept(h, b, l, h2, b2, l2, c, now, ban, a) ==
    Serves(Win!DropAged(h, now - Window), InForce(b, now - Window), InForce(l, now),
           Win!DropAged(h2, now - Window), InForce(b2, now - Window), InForce(l2, now),
           c, now, ban, Told(c, a))
Alike(h, b, l, h2, b2, l2, now) ==
    /\ Win!DropAged(h2, now - Window) = Win!DropAged(h, now - Window)
    /\ InForce(b2, now - Window) = InForce(b, now - Window)
    /\ InForce(l2, now) = InForce(l, now)

\* A decision after a sweep serves what was kept before it.
LEMMA OutcomeServesKept ==
    ASSUME NEW now \in Nat \ {0}, NEW ban \in Nat, NEW c,
           NEW h, NEW b, NEW l \in Nat, ~(l # 0 /\ now < l),
           NEW hm, NEW bm, NEW lm, Kept(hm, bm, lm, now, ban), Alike(h, b, l, hm, bm, lm, now),
           NEW h2, NEW b2, NEW l2, NEW a,
           Outcome(Win!DropAged(hm, now - Window), bm, now, ban, h2, b2, l2, a)
    PROVE  Kept(h2, b2, l2, now, ban) /\ ServesKept(h, b, l, h2, b2, l2, c, now, ban, a)
<1> DEFINE g == Win!DropAged(hm, now - Window)
<1>1. Dated(hm, now) /\ bm \in 0 .. now /\ now - Window \in Int
  BY PeakType DEF Kept
<1>2. hm \in Seq(Nat)
  BY <1>1 DEF Dated
<1>3. Dated(g, now) /\ (g # <<>> => g[1] > now - Window)
  <2>1. Dated(g, now)
    BY <1>1, DatedRest
  <2>2. g # <<>> => g[1] > now - Window
    BY <1>1, <1>2, RestFirst
  <2> QED BY <2>1, <2>2
<1>4. Outcome(g, bm, now, ban, h2, b2, l2, a)
  OBVIOUS
<1> HIDE DEF g
<1>5. /\ Kept(h2, b2, l2, now, ban)
      /\ Serves(g, InForce(bm, now - Window), 0,
                Win!DropAged(h2, now - Window), InForce(b2, now - Window), InForce(l2, now),
                c, now, ban, Told(c, a))
  BY <1>1, <1>3, <1>4, OutcomeServes
<1>6. /\ g = Win!DropAged(h, now - Window)
      /\ InForce(bm, now - Window) = InForce(b, now - Window)
  BY DEF g, Alike
<1>7. InForce(l, now) = 0
  BY NotInForce
<1> QED BY <1>5, <1>6, <1>7 DEF ServesKept

\* What is kept of every client by the dictionaries of a process.
AllKept(d, now, ban) ==
    \A y \in Clients : Kept(d.hits[y], d.bursts[y], d.bans[y], now, ban)

\* A request of c is served by its limiter, and nothing that counts is lost of others.
LEMMA ConsumeServes ==
    ASSUME lockFor \in Nat, NEW d, CountersType(d), NEW now \in Nat \ {0},
           AllKept(d, now, lockFor), NEW c \in Clients, NEW e, NEW a,
           e = Win!Consume(d, c, now).counters, a = Win!Consume(d, c, now).answer
    PROVE  /\ CountersType(e) /\ AllKept(e, now, lockFor)
           /\ ServesKept(d.hits[c], d.bursts[c], d.bans[c], e.hits[c], e.bursts[c], e.bans[c],
                         c, now, lockFor, a)
           /\ \A y \in Clients \ {c} :
                Alike(d.hits[y], d.bursts[y], d.bans[y], e.hits[y], e.bursts[y], e.bans[y], now)
<1>0. d.bans[c] \in Nat /\ \A y \in Clients : Kept(d.hits[y], d.bursts[y], d.bans[y], now, lockFor)
  BY DEF CountersType, AllKept
<1>1. CASE d.bans[c] # 0 /\ now < d.bans[c]
  <2>1. Win!Consume(d, c, now) = [counters |-> d, answer |-> Win!Refuse(d.bans[c] - now)]
    BY <1>1 DEF Win!Consume
  <2>2. e = d /\ a = Win!Refuse(d.bans[c] - now)
    BY <2>1
  <2>3. ServesKept(d.hits[c], d.bursts[c], d.bans[c], e.hits[c], e.bursts[c], e.bans[c],
                   c, now, lockFor, a)
    BY <1>0, <1>1, <2>2, RefusalServes DEF ServesKept
  <2> QED BY <2>2, <2>3 DEF Alike
<1>2. CASE ~(d.bans[c] # 0 /\ now < d.bans[c])
  <2>1. PICK m : /\ CountersType(m) /\ CountersType(e)
                 /\ \A y \in Clients : Swept(d.hits[y], d.bursts[y], d.bans[y],
                                             m.hits[y], m.bursts[y], m.bans[y], now)
                 /\ Counts(m, e, c, now, lockFor, a)
    BY <1>2, ConsumeIs
  <2>2. ASSUME NEW y \in Clients
        PROVE  /\ Kept(m.hits[y], m.bursts[y], m.bans[y], now, lockFor)
               /\ Alike(d.hits[y], d.bursts[y], d.bans[y], m.hits[y], m.bursts[y], m.bans[y], now)
    <3>1. /\ Kept(d.hits[y], d.bursts[y], d.bans[y], now, lockFor)
          /\ Swept(d.hits[y], d.bursts[y], d.bans[y], m.hits[y], m.bursts[y], m.bans[y], now)
      BY <1>0, <2>1
    <3> QED BY <3>1, SweptSame DEF Alike
  <2>3. Outcome(Win!DropAged(m.hits[c], now - Window), m.bursts[c], now, lockFor,
                e.hits[c], e.bursts[c], e.bans[c], a)
    BY <2>1 DEF Counts
  <2>4. /\ Kept(e.hits[c], e.bursts[c], e.bans[c], now, lockFor)
        /\ ServesKept(d.hits[c], d.bursts[c], d.bans[c], e.hits[c], e.bursts[c], e.bans[c],
                      c, now, lockFor, a)
    BY <1>0, <1>2, <2>2, <2>3, OutcomeServesKept
  <2>5. ASSUME NEW y \in Clients \ {c}
        PROVE  /\ Kept(e.hits[y], e.bursts[y], e.bans[y], now, lockFor)
               /\ Alike(d.hits[y], d.bursts[y], d.bans[y], e.hits[y], e.bursts[y], e.bans[y], now)
    <3>1. e.hits[y] = m.hits[y] /\ e.bursts[y] = m.bursts[y] /\ e.bans[y] = m.bans[y]
      BY <2>1 DEF Counts
    <3> QED BY <2>2, <3>1
  <2> QED BY <2>1, <2>4, <2>5 DEF AllKept
<1> QED BY <1>1, <1>2

----------------------------------------------------------------------------
\* The ring of a slot.

\* A sum of two indices runs at most once over the end of a ring.
LEMMA ModSum ==
    ASSUME NEW n \in Nat \ {0}, NEW a \in 0 .. n - 1, NEW b \in 0 .. n
    PROVE  (a + b) % n = IF a + b < n THEN a + b ELSE a + b - n
  BY SMTT(60)

\* A place of the ring is one of its indices.
LEMMA Place ==
    ASSUME NEW o \in 0 .. Win!Ring - 1, NEW j \in 0 .. Win!Ring
    PROVE  /\ (o + j) % Win!Ring = IF o + j < Win!Ring THEN o + j ELSE o + j - Win!Ring
           /\ (o + j) % Win!Ring \in 0 .. Win!Ring - 1
<1>1. Win!Ring \in Nat \ {0}
  BY PeakType
<1>2. (o + j) % Win!Ring = IF o + j < Win!Ring THEN o + j ELSE o + j - Win!Ring
  BY <1>1, ModSum
<1> QED BY <1>1, <1>2

\* No two stamps are in one place,
LEMMA PlacesDiffer ==
    ASSUME NEW o \in 0 .. Win!Ring - 1, NEW i \in 0 .. Win!Ring - 1, NEW j \in 0 .. Win!Ring - 1,
           i # j
    PROVE  (o + i) % Win!Ring # (o + j) % Win!Ring
<1>1. Win!Ring \in Nat \ {0}
  BY PeakType
<1>2. i \in 0 .. Win!Ring /\ j \in 0 .. Win!Ring
  BY <1>1
<1>3. (o + i) % Win!Ring = IF o + i < Win!Ring THEN o + i ELSE o + i - Win!Ring
  BY <1>2, Place
<1>4. (o + j) % Win!Ring = IF o + j < Win!Ring THEN o + j ELSE o + j - Win!Ring
  BY <1>2, Place
<1>5. (IF o + i < Win!Ring THEN o + i ELSE o + i - Win!Ring)
        # (IF o + j < Win!Ring THEN o + j ELSE o + j - Win!Ring)
  BY <1>1
<1> QED BY <1>3, <1>4, <1>5

\* and a front that moves on leaves the others where they are.
LEMMA PlaceOn ==
    ASSUME NEW o \in 0 .. Win!Ring - 1, NEW g \in 0 .. Win!Ring, NEW j \in 0 .. Win!Ring,
           g + j <= Win!Ring
    PROVE  /\ (o + g) % Win!Ring \in 0 .. Win!Ring - 1
           /\ (((o + g) % Win!Ring) + j) % Win!Ring = (o + (g + j)) % Win!Ring
<1>1. Win!Ring \in Nat \ {0}
  BY PeakType
<1> DEFINE q == (o + g) % Win!Ring
<1>2. q = IF o + g < Win!Ring THEN o + g ELSE o + g - Win!Ring
  BY Place
<1>3. q \in 0 .. Win!Ring - 1
  BY <1>1, <1>2
<1>4. g + j \in 0 .. Win!Ring
  BY <1>1
<1>5. (o + (g + j)) % Win!Ring
        = IF o + (g + j) < Win!Ring THEN o + (g + j) ELSE o + (g + j) - Win!Ring
  BY <1>4, Place
<1> HIDE DEF q
<1>6. (q + j) % Win!Ring = IF q + j < Win!Ring THEN q + j ELSE q + j - Win!Ring
  BY <1>3, Place
<1>7. (IF q + j < Win!Ring THEN q + j ELSE q + j - Win!Ring)
        = (IF o + (g + j) < Win!Ring THEN o + (g + j) ELSE o + (g + j) - Win!Ring)
  <2>1. CASE o + g < Win!Ring
    <3>1. q = o + g
      BY <1>2, <2>1
    <3> QED BY <1>1, <3>1
  <2>2. CASE ~(o + g < Win!Ring)
    <3>1. q = o + g - Win!Ring
      BY <1>2, <2>2
    <3>2. q + j < Win!Ring
      BY <1>1, <3>1
    <3>3. ~(o + (g + j) < Win!Ring)
      BY <1>1, <2>2
    <3> QED BY <1>1, <3>1, <3>2, <3>3
  <2> QED BY <2>1, <2>2
<1> QED BY <1>3, <1>5, <1>6, <1>7 DEF q

\* The types of the slot of c when no stamp is ahead of now.
SlotType(c, now) ==
    [client : {c, NoClient}, ban : Nat, burst : Nat, count : 0 .. Win!Ring,
     oldest : 0 .. Win!Ring - 1, ring : [0 .. Win!Ring - 1 -> 0 .. now]]

\* The stamps of a slot are a sequence.
LEMMA OfSlotIs ==
    ASSUME NEW c, NEW now \in Nat, NEW s \in SlotType(c, now)
    PROVE  /\ OfSlot(s) \in Seq(Nat) /\ s.count \in 0 .. Win!Ring /\ Len(OfSlot(s)) = s.count
           /\ \A i \in 1 .. s.count : OfSlot(s)[i] = Win!Stamp(s, i - 1) /\ OfSlot(s)[i] <= now
           /\ \A j \in 0 .. s.count - 1 : Win!Stamp(s, j) = OfSlot(s)[j + 1]
<1>1. /\ s.count \in 0 .. Win!Ring /\ s.oldest \in 0 .. Win!Ring - 1 /\ Win!Ring \in Nat \ {0}
      /\ s.ring \in [0 .. Win!Ring - 1 -> 0 .. now]
  BY PeakType DEF SlotType
<1>2. ASSUME NEW i \in 1 .. s.count PROVE Win!Stamp(s, i - 1) \in 0 .. now
  <2>1. i - 1 \in 0 .. Win!Ring
    BY <1>1
  <2>2. (s.oldest + (i - 1)) % Win!Ring \in 0 .. Win!Ring - 1
    BY <1>1, <2>1, Place
  <2> QED BY <1>1, <2>2 DEF Win!Stamp
<1>3. /\ OfSlot(s) = [i \in 1 .. s.count |-> Win!Stamp(s, i - 1)]
      /\ s.count \in Nat
  BY <1>1 DEF OfSlot
<1> HIDE DEF OfSlot
<1>4. OfSlot(s) \in Seq(Nat) /\ Len(OfSlot(s)) = s.count
  BY <1>2, <1>3
<1>5. \A i \in 1 .. s.count : OfSlot(s)[i] = Win!Stamp(s, i - 1) /\ OfSlot(s)[i] <= now
  BY <1>2, <1>3
<1>6. ASSUME NEW j \in 0 .. s.count - 1 PROVE Win!Stamp(s, j) = OfSlot(s)[j + 1]
  <2>1. j + 1 \in 1 .. s.count /\ (j + 1) - 1 = j
    BY <1>3
  <2> QED BY <1>5, <2>1
<1> QED BY <1>1, <1>4, <1>5, <1>6

\* A decision finds where those that have expired end.
LEMMA AgedOutIs ==
    ASSUME NEW c, NEW now \in Nat, NEW s \in SlotType(c, now), NEW edge \in Int
    PROVE  Gone(OfSlot(s), edge, Win!AgedOut(s, edge))
<1> DEFINE h == OfSlot(s)
           Ok(k) == /\ \A j \in 0 .. k - 1 : Win!Stamp(s, j) <= edge
                    /\ k = s.count \/ Win!Stamp(s, k) > edge
<1>1. /\ h \in Seq(Nat) /\ s.count \in Nat /\ Len(h) = s.count
      /\ \A j \in 0 .. s.count - 1 : Win!Stamp(s, j) = h[j + 1]
  BY OfSlotIs
<1>2. PICK n : Gone(h, edge, n)
  BY <1>1, SomeGone
<1> HIDE DEF h
<1>3. n \in 0 .. s.count /\ Ok(n)
  <2>1. n \in 0 .. s.count
    BY <1>1, <1>2 DEF Gone
  <2>2. ASSUME NEW j \in 0 .. n - 1 PROVE Win!Stamp(s, j) <= edge
    <3>1. j \in 0 .. s.count - 1 /\ j + 1 \in 1 .. n
      BY <1>1, <2>1
    <3> QED BY <1>1, <1>2, <3>1 DEF Gone
  <2>3. n = s.count \/ Win!Stamp(s, n) > edge
    <3>1. n # s.count => n \in 0 .. s.count - 1 /\ n < Len(h)
      BY <1>1, <2>1
    <3> QED BY <1>1, <1>2, <3>1 DEF Gone
  <2> QED BY <2>1, <2>2, <2>3
<1>4. Win!AgedOut(s, edge) = CHOOSE k \in 0 .. s.count : Ok(k)
  BY DEF Win!AgedOut
<1> DEFINE k == Win!AgedOut(s, edge)
<1>5. k \in 0 .. s.count /\ Ok(k)
  <2> HIDE DEF Ok, k
  <2>1. (CHOOSE x \in 0 .. s.count : Ok(x)) \in 0 .. s.count
        /\ Ok(CHOOSE x \in 0 .. s.count : Ok(x))
    BY <1>3
  <2> QED BY <1>4, <2>1 DEF k
<1> HIDE DEF k
<1>6. ASSUME NEW i \in 1 .. k PROVE h[i] <= edge
  <2>1. i - 1 \in 0 .. k - 1 /\ i - 1 \in 0 .. s.count - 1 /\ (i - 1) + 1 = i
    BY <1>1, <1>5
  <2>2. Win!Stamp(s, i - 1) <= edge
    BY <1>5, <2>1
  <2>3. Win!Stamp(s, i - 1) = h[(i - 1) + 1]
    BY <1>1, <2>1
  <2> QED BY <2>1, <2>2, <2>3
<1>7. k < Len(h) => h[k + 1] > edge
  <2>1. k < Len(h) => k \in 0 .. s.count - 1 /\ k # s.count
    BY <1>1, <1>5
  <2> QED BY <1>1, <1>5, <2>1
<1>8. Gone(h, edge, k)
  BY <1>1, <1>5, <1>6, <1>7 DEF Gone
<1> QED BY <1>8 DEF h, k

\* What a decision writes: its front moved on, and now behind its last stamp if there
\* is room for one.
Written(s, now, o, k, ring, count) ==
    /\ o = (s.oldest + Win!AgedOut(s, now - Window)) % Win!Ring
    /\ k = s.count - Win!AgedOut(s, now - Window)
    /\ ring = IF k >= Win!Ring THEN s.ring ELSE [s.ring EXCEPT ![(o + k) % Win!Ring] = now]
    /\ count = IF k >= Win!Ring THEN k ELSE k + 1

\* The stamps of the slot are then what is left of them, and now behind it.
LEMMA WrittenIs ==
    ASSUME NEW c, NEW now \in Nat, NEW s \in SlotType(c, now), NEW o, NEW k, NEW ring, NEW count,
           Written(s, now, o, k, ring, count),
           NEW t, t.oldest = o, t.ring = ring, t.count = count
    PROVE  LET g == Win!DropAged(OfSlot(s), now - Window)
           IN  /\ OfSlot(t) = IF Len(g) < Win!Ring THEN Append(g, now) ELSE g
               /\ o \in 0 .. Win!Ring - 1 /\ count \in 1 .. Win!Ring /\ Len(OfSlot(t)) = count
               /\ ring \in [0 .. Win!Ring - 1 -> 0 .. now]
               /\ ring[o] = OfSlot(t)[1]
<1> DEFINE h == OfSlot(s)
           n == Win!AgedOut(s, now - Window)
           g == Win!DropAged(h, now - Window)
           q == (o + k) % Win!Ring
<1>1. /\ h \in Seq(Nat) /\ s.count \in 0 .. Win!Ring /\ Len(h) = s.count
      /\ \A j \in 0 .. s.count - 1 : Win!Stamp(s, j) = h[j + 1]
  BY OfSlotIs
<1>2. Win!Ring \in Nat \ {0} /\ now - Window \in Int
  BY PeakType
<1>3. Gone(h, now - Window, n)
  BY <1>2, AgedOutIs
<1> HIDE DEF h, n
<1>4. /\ g \in Seq(Nat) /\ n \in 0 .. Len(h) /\ Len(g) = Len(h) - n
      /\ \A i \in 1 .. Len(h) - n : g[i] = h[n + i]
  <2>1. h \in Seq(Nat)
    BY <1>1
  <2> QED BY <1>2, <1>3, <2>1, RestIs
<1>5. /\ s.oldest \in 0 .. Win!Ring - 1 /\ s.ring \in [0 .. Win!Ring - 1 -> 0 .. now]
  BY DEF SlotType
<1>6. /\ o = (s.oldest + n) % Win!Ring /\ k = s.count - n
      /\ ring = IF k >= Win!Ring THEN s.ring ELSE [s.ring EXCEPT ![q] = now]
      /\ count = IF k >= Win!Ring THEN k ELSE k + 1
  BY DEF Written, n
<1> HIDE DEF g, q
<1>s. g \in Seq(Nat)
  BY <1>4
<1>7. /\ k \in 0 .. Win!Ring /\ n \in 0 .. Win!Ring /\ n + k = s.count /\ Len(g) = k
      /\ count \in 1 .. Win!Ring
  <2>1. n \in 0 .. s.count /\ Len(g) = s.count - n /\ s.count \in 0 .. Win!Ring
    BY <1>1, <1>4
  <2>2. k = s.count - n /\ count = IF k >= Win!Ring THEN k ELSE k + 1
    BY <1>6
  <2> QED BY <1>2, <2>1, <2>2
<1>8. o \in 0 .. Win!Ring - 1
  BY <1>5, <1>6, <1>7, Place
<1>9. q \in 0 .. Win!Ring - 1
  BY <1>7, <1>8, Place DEF q
<1>10. ASSUME NEW j \in 0 .. k - 1 PROVE s.ring[(o + j) % Win!Ring] = g[j + 1]
  <2>1. j \in 0 .. Win!Ring /\ n + j <= Win!Ring /\ n + j \in 0 .. s.count - 1
        /\ j + 1 \in 1 .. Len(h) - n
    <3>1. Len(h) = n + k /\ s.count = n + k
      BY <1>1, <1>7
    <3>2. k \in 0 .. Win!Ring /\ n \in 0 .. Win!Ring /\ n + k <= Win!Ring
      BY <1>1, <1>7
    <3> QED BY <1>2, <3>1, <3>2
  <2>2. (o + j) % Win!Ring = (s.oldest + (n + j)) % Win!Ring
    <3>1. (((s.oldest + n) % Win!Ring) + j) % Win!Ring = (s.oldest + (n + j)) % Win!Ring
      BY <1>5, <1>7, <2>1, PlaceOn
    <3>2. o = (s.oldest + n) % Win!Ring
      BY <1>6
    <3> QED BY <3>1, <3>2, Zenon
  <2>3. Win!Stamp(s, n + j) = s.ring[(o + j) % Win!Ring]
    BY <2>2 DEF Win!Stamp
  <2>4. Win!Stamp(s, n + j) = h[n + j + 1] /\ g[j + 1] = h[n + (j + 1)]
    BY <1>1, <1>4, <2>1
  <2>5. n + j + 1 = n + (j + 1)
    BY <1>7
  <2> QED BY <2>3, <2>4, <2>5
<1>11. /\ ring \in [0 .. Win!Ring - 1 -> 0 .. now]
       /\ \A j \in 0 .. k - 1 : ring[(o + j) % Win!Ring] = g[j + 1]
       /\ ~(k >= Win!Ring) => ring[q] = now
  <2>1. CASE k >= Win!Ring
    BY <1>5, <1>6, <1>10, <2>1
  <2>2. CASE ~(k >= Win!Ring)
    <3>1. ring = [s.ring EXCEPT ![q] = now]
      BY <1>6, <2>2
    <3>2. ring \in [0 .. Win!Ring - 1 -> 0 .. now] /\ ring[q] = now
      <4>1. now \in 0 .. now
        OBVIOUS
      <4> QED BY <1>5, <1>9, <3>1, <4>1
    <3>3. ASSUME NEW j \in 0 .. k - 1 PROVE ring[(o + j) % Win!Ring] = g[j + 1]
      <4>1. j \in 0 .. Win!Ring - 1 /\ k \in 0 .. Win!Ring - 1 /\ j # k /\ j \in 0 .. Win!Ring
        BY <1>2, <1>7, <2>2
      <4>2. (o + j) % Win!Ring # q
        BY <1>8, <4>1, PlacesDiffer DEF q
      <4>3. (o + j) % Win!Ring \in 0 .. Win!Ring - 1
        BY <1>8, <4>1, Place
      <4>4. ring[(o + j) % Win!Ring] = s.ring[(o + j) % Win!Ring]
        BY <1>5, <3>1, <4>2, <4>3
      <4> QED BY <1>10, <4>4
    <3> QED BY <3>2, <3>3
  <2> QED BY <2>1, <2>2
<1> DEFINE x == OfSlot(t)
<1>12. x = [i \in 1 .. count |-> ring[(o + (i - 1)) % Win!Ring]]
  BY DEF OfSlot, Win!Stamp
<1> HIDE DEF x
<1>13. \A i \in 1 .. k : x[i] = g[i]
  <2> SUFFICES ASSUME NEW i \in 1 .. k PROVE x[i] = g[i]
    OBVIOUS
  <2>1. i - 1 \in 0 .. k - 1 /\ (i - 1) + 1 = i /\ i \in 1 .. count
    BY <1>6, <1>7
  <2>2. ring[(o + (i - 1)) % Win!Ring] = g[(i - 1) + 1]
    BY <1>11, <2>1
  <2> QED BY <1>12, <2>1, <2>2
<1>14. x = IF Len(g) < Win!Ring THEN Append(g, now) ELSE g
  <2>1. CASE k >= Win!Ring
    <3>1. count = k /\ ~(Len(g) < Win!Ring)
      BY <1>2, <1>6, <1>7, <2>1
    <3>2. g = [i \in 1 .. k |-> g[i]]
      BY <1>4, <1>7
    <3>3. x = [i \in 1 .. k |-> x[i]]
      BY <1>12, <3>1
    <3>4. x = g
      BY <1>13, <3>2, <3>3
    <3> QED BY <3>1, <3>4
  <2>2. CASE ~(k >= Win!Ring)
    <3>1. count = k + 1 /\ Len(g) < Win!Ring /\ (k + 1) - 1 = k /\ k + 1 \in 1 .. count
      BY <1>2, <1>6, <1>7, <2>2
    <3>2. x[k + 1] = now
      BY <1>11, <1>12, <2>2, <3>1 DEF q
    <3> DEFINE f == Append(g, now)
    <3>3. f = [i \in 1 .. k + 1 |-> f[i]] /\ f[k + 1] = now /\ \A i \in 1 .. k : f[i] = g[i]
      <4>1. Len(g) = k /\ k \in Nat
        BY <1>7
      <4>2. f \in Seq(Nat) /\ Len(f) = Len(g) + 1 /\ f[Len(g) + 1] = now
            /\ \A i \in 1 .. Len(g) : f[i] = g[i]
        BY <1>s
      <4> HIDE DEF f
      <4>3. f = [i \in 1 .. Len(f) |-> f[i]]
        BY <4>2
      <4> QED BY <4>1, <4>2, <4>3
    <3>4. x = [i \in 1 .. k + 1 |-> x[i]]
      BY <1>12, <3>1
    <3>5. ASSUME NEW i \in 1 .. k + 1 PROVE x[i] = f[i]
      <4>1. i \in 1 .. k \/ i = k + 1
        BY <1>7
      <4> HIDE DEF f
      <4> QED BY <1>13, <3>2, <3>3, <4>1
    <3> HIDE DEF f
    <3>6. x = f
      BY <3>3, <3>4, <3>5
    <3> QED BY <3>1, <3>6 DEF f
  <2> QED BY <2>1, <2>2
<1>15. Len(x) = count
  <2>1. Len(Append(g, now)) = Len(g) + 1
    BY <1>s
  <2>2. count = IF k >= Win!Ring THEN k ELSE k + 1
    BY <1>6
  <2> QED BY <1>2, <1>7, <1>14, <2>1, <2>2
<1>16. ring[o] = x[1]
  <2>1. 1 \in 1 .. count /\ 0 \in 0 .. Win!Ring /\ o + 0 < Win!Ring /\ o + 0 = o /\ 1 - 1 = 0
    BY <1>2, <1>7, <1>8
  <2>2. (o + (1 - 1)) % Win!Ring = o
    BY <1>8, <2>1, Place
  <2> QED BY <1>12, <2>1, <2>2
<1> QED BY <1>7, <1>8, <1>11, <1>14, <1>15, <1>16 DEF x, g, h

\* A request that meets no lockout is decided by what is left of the stamps.
LEMMA DecideIs ==
    ASSUME lockFor \in Nat, NEW c \in Clients, NEW now \in Nat, NEW s \in SlotType(c, now),
           ~(s.ban # 0 /\ now < s.ban), NEW r, NEW a,
           r = Win!Decide(s, c, now).slot, a = Win!Decide(s, c, now).answer
    PROVE  /\ r \in SlotType(c, now) /\ r.client = c
           /\ Outcome(Win!DropAged(OfSlot(s), now - Window), s.burst, now, lockFor,
                      OfSlot(r), r.burst, r.ban, a)
<1> DEFINE gone   == Win!AgedOut(s, now - Window)
           oldest == (s.oldest + gone) % Win!Ring
           kept   == s.count - gone
           full   == Win!RingFull(kept)
           ring   == IF full THEN s.ring ELSE [s.ring EXCEPT ![(oldest + kept) % Win!Ring] = now]
           count  == IF full THEN kept ELSE kept + 1
           t      == [client |-> c, ban |-> 0, burst |-> s.burst, count |-> count,
                      oldest |-> oldest, ring |-> ring]
           spike  == count <= Win!EffectivePeak /\ (s.burst = 0 \/ now - s.burst >= Window)
           wait   == Win!Latest(0, ring[oldest] + Window - now)
           d      == Win!Decide(s, c, now)
           g      == Win!DropAged(OfSlot(s), now - Window)
<1>1. d = (CASE count <= Requests -> [slot |-> t, answer |-> Win!Allow]
             [] count > Requests /\ spike ->
                   [slot |-> [t EXCEPT !.burst = now], answer |-> Win!Allow]
             [] count > Requests /\ ~spike /\ lockFor > 0 ->
                   [slot |-> [t EXCEPT !.ban = now + lockFor], answer |-> Win!Refuse(lockFor)]
             [] OTHER -> [slot |-> t, answer |-> Win!Refuse(wait)])
  BY ZenonT(60) DEF Win!Decide
<1>2. Written(s, now, oldest, kept, ring, count)
  <2> HIDE DEF gone
  <2> QED BY DEF Written, gone, Win!RingFull
<1>3. t.oldest = oldest /\ t.ring = ring /\ t.count = count
  OBVIOUS
<1>4. s.burst \in Nat /\ Requests \in Nat
  BY PeakType DEF SlotType
<1> HIDE DEF d, oldest, kept, full, ring, count
<1>5. ASSUME NEW x, x.oldest = oldest, x.ring = ring, x.count = count
      PROVE  /\ OfSlot(x) = IF Len(g) < Win!Ring THEN Append(g, now) ELSE g
             /\ Len(OfSlot(x)) = count /\ OfSlot(x)[1] = ring[oldest]
             /\ oldest \in 0 .. Win!Ring - 1 /\ count \in 1 .. Win!Ring
             /\ ring \in [0 .. Win!Ring - 1 -> 0 .. now]
  <2> HIDE DEF g
  <2> QED BY <1>2, <1>5, WrittenIs DEF g
<1>6. /\ oldest \in 0 .. Win!Ring - 1 /\ count \in 1 .. Win!Ring
      /\ ring \in [0 .. Win!Ring - 1 -> 0 .. now]
  <2> HIDE DEF t, g
  <2> QED BY <1>3, <1>5
<1> HIDE DEF spike, wait, g
<1>7. \/ count <= Requests /\ r = t /\ a = Win!Allow
      \/ count > Requests /\ spike /\ r = [t EXCEPT !.burst = now] /\ a = Win!Allow
      \/ /\ count > Requests /\ ~spike /\ lockFor > 0 /\ r = [t EXCEPT !.ban = now + lockFor]
         /\ a = Win!Refuse(lockFor)
      \/ count > Requests /\ ~spike /\ ~(lockFor > 0) /\ r = t /\ a = Win!Refuse(wait)
  <2>1. count <= Requests \/ (count > Requests /\ ~(count <= Requests))
    BY <1>4, <1>6
  <2>2. r = d.slot /\ a = d.answer
    BY DEF d
  <2> HIDE DEF t
  <2> QED BY <1>1, <2>1, <2>2
<1>8. /\ r.client = c /\ r.oldest = oldest /\ r.ring = ring /\ r.count = count
      /\ r = [client |-> r.client, ban |-> r.ban, burst |-> r.burst, count |-> r.count,
              oldest |-> r.oldest, ring |-> r.ring]
      /\ \/ count <= Requests /\ r.burst = s.burst /\ r.ban = 0 /\ a = Win!Allow
         \/ count > Requests /\ spike /\ r.burst = now /\ r.ban = 0 /\ a = Win!Allow
         \/ /\ count > Requests /\ ~spike /\ lockFor > 0 /\ r.burst = s.burst
            /\ r.ban = now + lockFor /\ a = Win!Refuse(lockFor)
         \/ /\ count > Requests /\ ~spike /\ ~(lockFor > 0) /\ r.burst = s.burst /\ r.ban = 0
            /\ a = Win!Refuse(wait)
  BY <1>7
<1>9. r \in SlotType(c, now)
  <2>1. r.burst \in Nat /\ r.ban \in Nat
    BY <1>4, <1>8
  <2>2. r.count \in 0 .. Win!Ring
    BY <1>6, <1>8
  <2>3. r.client \in {c, NoClient}
    BY <1>8
  <2>4. r.oldest \in 0 .. Win!Ring - 1 /\ r.ring \in [0 .. Win!Ring - 1 -> 0 .. now]
    BY <1>6, <1>8
  <2>5. r = [client |-> r.client, ban |-> r.ban, burst |-> r.burst, count |-> r.count,
             oldest |-> r.oldest, ring |-> r.ring]
    BY <1>8
  <2> QED BY <2>1, <2>2, <2>3, <2>4, <2>5 DEF SlotType
<1>10. /\ OfSlot(r) = IF Len(g) < Win!Ring THEN Append(g, now) ELSE g
       /\ Len(OfSlot(r)) = count /\ OfSlot(r)[1] = ring[oldest]
  BY <1>5, <1>8
<1>11. Outcome(g, s.burst, now, lockFor, OfSlot(r), r.burst, r.ban, a)
  <2> DEFINE h2 == OfSlot(r)
  <2>1. h2 = IF Len(g) < Win!Ring THEN Append(g, now) ELSE g
    BY <1>10
  <2>2. Len(h2) = count /\ wait = Win!Latest(0, h2[1] + Window - now)
    BY <1>10 DEF wait
  <2>3. spike <=> Len(h2) <= Win!EffectivePeak /\ (s.burst = 0 \/ now - s.burst >= Window)
    BY <2>2 DEF spike
  <2>4. \/ Len(h2) <= Requests /\ r.burst = s.burst /\ r.ban = 0 /\ a = Win!Allow
        \/ Len(h2) > Requests /\ spike /\ r.burst = now /\ r.ban = 0 /\ a = Win!Allow
        \/ /\ Len(h2) > Requests /\ ~spike /\ lockFor > 0 /\ r.burst = s.burst
           /\ r.ban = now + lockFor /\ a = Win!Refuse(lockFor)
        \/ /\ Len(h2) > Requests /\ ~spike /\ ~(lockFor > 0) /\ r.burst = s.burst /\ r.ban = 0
           /\ a = Win!Refuse(Win!Latest(0, h2[1] + Window - now))
    <3> HIDE DEF h2
    <3> QED BY <1>8, <2>2
  <2> HIDE DEF h2
  <2>5. Outcome(g, s.burst, now, lockFor, h2, r.burst, r.ban, a)
    BY <2>1, <2>3, <2>4 DEF Outcome
  <2> QED BY <2>5 DEF h2
<1> QED BY <1>8, <1>9, <1>11 DEF g

\* A burst is no younger than the last stamp of its client.
BurstSeen(h, b) == b # 0 => h # <<>> /\ b <= h[Len(h)]

\* A decision keeps that.
LEMMA OutcomeBurst ==
    ASSUME NEW now \in Nat, NEW ban \in Nat, NEW h, NEW b, NEW l, Kept(h, b, l, now, ban),
           BurstSeen(h, b), NEW h2, NEW b2, NEW l2, NEW a,
           Outcome(Win!DropAged(h, now - Window), b, now, ban, h2, b2, l2, a)
    PROVE  BurstSeen(h2, b2)
<1> DEFINE g == Win!DropAged(h, now - Window)
<1>1. /\ h \in Seq(Nat) /\ Len(h) <= Win!Ring /\ b \in 0 .. now /\ Len(h) \in Nat
      /\ Win!Ring \in Nat /\ Win!Ring = Win!EffectivePeak + 1 /\ Win!EffectivePeak \in Nat
      /\ now - Window \in Int
  BY PeakType DEF Kept, Dated
<1>2. PICK n : Gone(h, now - Window, n)
  BY <1>1, SomeGone
<1>3. /\ g = SubSeq(h, n + 1, Len(h)) /\ g \in Seq(Nat)
      /\ n \in 0 .. Len(h) /\ Len(g) = Len(h) - n
  BY <1>1, <1>2, RestIs
<1>4. h2 = IF Len(g) < Win!Ring THEN Append(g, now) ELSE g
  BY DEF Outcome
<1>5. b2 = b \/ (b2 = now /\ Len(h2) <= Win!EffectivePeak)
  BY DEF Outcome
<1> HIDE DEF g
<1>6. CASE Len(g) < Win!Ring
  <2>1. h2 = Append(g, now)
    BY <1>4, <1>6
  <2>2. h2 # <<>> /\ h2[Len(h2)] = now
    <3>1. g \in Seq(Nat)
      BY <1>3
    <3>2. Len(h2) = Len(g) + 1 /\ h2[Len(g) + 1] = now /\ Len(g) \in Nat
      BY <2>1, <3>1
    <3> QED BY <3>2
  <2>3. b2 \in 0 .. now
    BY <1>1, <1>5
  <2> QED BY <2>2, <2>3 DEF BurstSeen
<1>7. CASE ~(Len(g) < Win!Ring)
  <2>1. n = 0 /\ h2 = g /\ ~(Len(h2) <= Win!EffectivePeak)
    BY <1>1, <1>3, <1>4, <1>7
  <2>2. SubSeq(h, 0 + 1, Len(h)) = h
    BY <1>1
  <2>3. h2 = h /\ b2 = b
    BY <1>3, <1>5, <2>1, <2>2
  <2> QED BY <2>3
<1> QED BY <1>6, <1>7

\* What holds of the slot of c.
SlotInv(s, c, now, ban) ==
    /\ s \in SlotType(c, now)
    /\ Kept(OfSlot(s), s.burst, s.ban, now, ban)
    /\ BurstSeen(OfSlot(s), s.burst)
    /\ s.client = NoClient => s.count = 0 /\ s.ban = 0 /\ s.burst = 0

\* A slot that is given up is free and empty,
LEMMA FreshSlotIs ==
    ASSUME NEW c, NEW now \in Nat, NEW ban \in Nat, NEW s \in SlotType(c, now)
    PROVE  /\ SlotInv(Win!FreshSlot(s), c, now, ban) /\ OfSlot(Win!FreshSlot(s)) = <<>>
           /\ Win!FreshSlot(s).burst = 0 /\ Win!FreshSlot(s).ban = 0
<1> DEFINE f == Win!FreshSlot(s)
<1>1. s.ring \in [0 .. Win!Ring - 1 -> 0 .. now] /\ Win!Ring \in Nat \ {0}
  BY PeakType DEF SlotType
<1>2. f = [client |-> NoClient, ban |-> 0, burst |-> 0, count |-> 0,
           oldest |-> 0, ring |-> s.ring]
  BY DEF Win!FreshSlot, Win!EmptySlot
<1> HIDE DEF f
<1>3. f.client = NoClient /\ f.ban = 0 /\ f.burst = 0 /\ f.count = 0
  BY <1>2
<1>4. f \in SlotType(c, now)
  BY <1>1, <1>2 DEF SlotType
<1>5. OfSlot(f) = <<>>
  <2>1. OfSlot(f) \in Seq(Nat) /\ Len(OfSlot(f)) = 0
    BY <1>3, <1>4, OfSlotIs
  <2> QED BY <2>1
<1>6. Kept(OfSlot(f), f.burst, f.ban, now, ban)
  <2>1. OfSlot(f) \in Seq(Nat) /\ Len(OfSlot(f)) = 0
    BY <1>5
  <2>2. Dated(OfSlot(f), now)
    BY <1>1, <2>1 DEF Dated
  <2> QED BY <1>3, <2>2 DEF Kept
<1>7. SlotInv(f, c, now, ban)
  BY <1>3, <1>4, <1>6 DEF SlotInv, BurstSeen
<1> QED BY <1>3, <1>5, <1>7 DEF f

\* and nothing that counts is lost when a sweep gives one up.
LEMMA SweepableIs ==
    ASSUME NEW c, NEW now \in Nat, NEW ban \in Nat, NEW s, SlotInv(s, c, now, ban),
           Win!Sweepable(s, now)
    PROVE  Alike(OfSlot(s), s.burst, s.ban, <<>>, 0, 0, now)
<1> DEFINE h == OfSlot(s)
<1>1. s \in SlotType(c, now) /\ Kept(h, s.burst, s.ban, now, ban) /\ BurstSeen(h, s.burst)
  BY DEF SlotInv
<1>2. /\ h \in Seq(Nat) /\ s.count \in Nat /\ Len(h) = s.count
      /\ \A j \in 0 .. s.count - 1 : Win!Stamp(s, j) = h[j + 1]
  BY <1>1, PeakType, OfSlotIs
<1>3. s.burst \in Nat /\ s.ban \in Nat /\ Window \in Nat
  BY <1>1, PeakType DEF SlotType
<1> HIDE DEF h
<1>4. h = <<>> \/ h[Len(h)] <= now - Window
  <2>1. CASE s.count = 0
    BY <1>2, <2>1
  <2>2. CASE s.count # 0
    <3>1. s.count - 1 \in 0 .. s.count - 1 /\ (s.count - 1) + 1 = s.count
      BY <1>2, <2>2
    <3>2. Win!Stamp(s, s.count - 1) <= now - Window
      BY <2>2 DEF Win!Sweepable
    <3> QED BY <1>2, <3>1, <3>2
  <2> QED BY <2>1, <2>2
<1>5. s.burst = 0 \/ now - s.burst >= Window
  <2>1. h # <<>> => h[Len(h)] \in Nat
    BY <1>2
  <2> QED BY <1>1, <1>3, <1>4, <2>1 DEF BurstSeen
<1>6. s.ban = 0 \/ now >= s.ban
  BY <1>3 DEF Win!Sweepable
<1>7. Swept(h, s.burst, s.ban, <<>>, 0, 0, now)
  BY <1>4, <1>5, <1>6 DEF Swept
<1> QED BY <1>1, <1>7, SweptSame DEF Alike, h

\* A request of c is served by its limiter.
LEMMA DecideServes ==
    ASSUME lockFor \in Nat, NEW c \in Clients, NEW now \in Nat \ {0}, NEW s,
           SlotInv(s, c, now, lockFor), NEW r, NEW a,
           r = Win!Decide(IF s.client = c THEN s ELSE Win!FreshSlot(s), c, now).slot,
           a = Win!Decide(IF s.client = c THEN s ELSE Win!FreshSlot(s), c, now).answer
    PROVE  /\ SlotInv(r, c, now, lockFor)
           /\ ServesKept(OfSlot(s), s.burst, s.ban, OfSlot(r), r.burst, r.ban, c, now, lockFor, a)
<1> DEFINE z == IF s.client = c THEN s ELSE Win!FreshSlot(s)
<1>1. /\ SlotInv(z, c, now, lockFor) /\ OfSlot(z) = OfSlot(s)
      /\ z.burst = s.burst /\ z.ban = s.ban
  <2>1. s \in SlotType(c, now)
    BY DEF SlotInv
  <2>2. CASE s.client = c
    BY <2>2
  <2>3. CASE s.client # c
    <3>1. s.client = NoClient /\ s.count = 0 /\ s.ban = 0 /\ s.burst = 0
      <4>1. s.client \in {c, NoClient}
        BY <2>1 DEF SlotType
      <4> QED BY <2>3, <4>1 DEF SlotInv
    <3>2. OfSlot(s) \in Seq(Nat) /\ Len(OfSlot(s)) = s.count
      BY <2>1, OfSlotIs
    <3>3. OfSlot(s) = <<>>
      BY <3>1, <3>2
    <3>4. z = Win!FreshSlot(s)
      BY <2>3
    <3> HIDE DEF z
    <3> QED BY <2>1, <3>1, <3>3, <3>4, FreshSlotIs
  <2> QED BY <2>2, <2>3
<1>2. r = Win!Decide(z, c, now).slot /\ a = Win!Decide(z, c, now).answer
  OBVIOUS
<1> HIDE DEF z
<1>3. /\ z \in SlotType(c, now) /\ Kept(OfSlot(z), z.burst, z.ban, now, lockFor)
      /\ BurstSeen(OfSlot(z), z.burst)
  BY <1>1 DEF SlotInv
<1>4. z.ban \in Nat
  BY <1>3 DEF SlotType
<1>5. CASE z.ban # 0 /\ now < z.ban
  <2>1. Win!Decide(z, c, now) = [slot |-> z, answer |-> Win!Refuse(z.ban - now)]
    BY <1>5 DEF Win!Decide
  <2>2. r = z /\ a = Win!Refuse(z.ban - now)
    BY <1>2, <2>1
  <2>3. ServesKept(OfSlot(z), z.burst, z.ban, OfSlot(r), r.burst, r.ban, c, now, lockFor, a)
    BY <1>4, <1>5, <2>2, RefusalServes DEF ServesKept
  <2> QED BY <1>1, <2>2, <2>3
<1>6. CASE ~(z.ban # 0 /\ now < z.ban)
  <2>1. /\ r \in SlotType(c, now) /\ r.client = c
        /\ Outcome(Win!DropAged(OfSlot(z), now - Window), z.burst, now, lockFor,
                   OfSlot(r), r.burst, r.ban, a)
    BY <1>2, <1>3, <1>6, DecideIs
  <2>2. Alike(OfSlot(z), z.burst, z.ban, OfSlot(z), z.burst, z.ban, now)
    BY DEF Alike
  <2>3. /\ Kept(OfSlot(r), r.burst, r.ban, now, lockFor)
        /\ ServesKept(OfSlot(z), z.burst, z.ban, OfSlot(r), r.burst, r.ban, c, now, lockFor, a)
    BY <1>3, <1>4, <1>6, <2>1, <2>2, OutcomeServesKept
  <2>4. BurstSeen(OfSlot(r), r.burst)
    BY <1>3, <2>1, OutcomeBurst
  <2>5. r.client # NoClient
    BY <2>1, DecideAlikeAssumption
  <2> QED BY <1>1, <2>1, <2>3, <2>4, <2>5 DEF SlotInv
<1> QED BY <1>5, <1>6

----------------------------------------------------------------------------
\* The system.

\* The inductive invariant: the types, and that what each implementation keeps of a
\* client is in order, not ahead of the clock and no more than its ring has room for.
Inv ==
    /\ clock \in FirstTime .. MaxTime /\ lockFor \in LockFors
    /\ CountersType(counters) /\ AllKept(counters, clock, lockFor)
    /\ slots = [c \in Clients |-> slots[c]]
    /\ \A c \in Clients : SlotInv(slots[c], c, clock, lockFor)

\* The clock and the lockout are numbers.
LEMMA InvTypes ==
    ASSUME Inv
    PROVE  /\ clock \in Nat \ {0} /\ lockFor \in Nat
           /\ clock \in FirstTime .. MaxTime /\ lockFor \in LockFors
  BY DecideAlikeAssumption DEF Inv

\* Nothing has been kept when the program starts.
LEMMA InitInv == Init => Inv
<1> SUFFICES ASSUME Init PROVE Inv
  OBVIOUS
<1>1. /\ clock = FirstTime /\ lockFor \in LockFors /\ clock \in FirstTime .. MaxTime
      /\ clock \in Nat /\ lockFor \in Nat /\ Win!Ring \in Nat \ {0}
  BY DecideAlikeAssumption, PeakType DEF Init
<1>2. /\ counters = [hits |-> [c \in Clients |-> <<>>], order |-> {},
                     bursts |-> [c \in Clients |-> 0], bans |-> [c \in Clients |-> 0], next |-> 0]
      /\ slots = [c \in Clients |-> Win!EmptySlot]
  BY DEF Init, Win!NoCounters
<1>3. /\ counters.hits = [c \in Clients |-> <<>>] /\ counters.bursts = [c \in Clients |-> 0]
      /\ counters.bans = [c \in Clients |-> 0] /\ IsCounters(counters)
  BY <1>2 DEF IsCounters
<1>4. CountersType(counters)
  <2>1. [c \in Clients |-> <<>>] \in [Clients -> Seq(Nat)]
    OBVIOUS
  <2> QED BY <1>3, <2>1 DEF CountersType
<1>5. AllKept(counters, clock, lockFor)
  <2>1. <<>> \in Seq(Nat) /\ Len(<<>>) = 0
    OBVIOUS
  <2>2. Dated(<<>>, clock)
    BY <1>1, <2>1 DEF Dated
  <2>3. Kept(<<>>, 0, 0, clock, lockFor)
    BY <1>1, <2>2 DEF Kept
  <2> QED BY <1>3, <2>3 DEF AllKept
<1>6. ASSUME NEW c \in Clients PROVE SlotInv(slots[c], c, clock, lockFor)
  <2>1. slots[c] = Win!EmptySlot
    BY <1>2
  <2>2. Win!EmptySlot = [client |-> NoClient, ban |-> 0, burst |-> 0, count |-> 0,
                         oldest |-> 0, ring |-> [i \in 0 .. Win!Ring - 1 |-> 0]]
    BY DEF Win!EmptySlot
  <2>3. [i \in 0 .. Win!Ring - 1 |-> 0] \in [0 .. Win!Ring - 1 -> 0 .. clock]
    BY <1>1
  <2>4. Win!EmptySlot \in SlotType(c, clock)
    BY <1>1, <2>2, <2>3 DEF SlotType
  <2>5. Win!FreshSlot(Win!EmptySlot) = Win!EmptySlot
    BY <2>2 DEF Win!FreshSlot
  <2> QED BY <1>1, <2>1, <2>4, <2>5, FreshSlotIs
<1>7. slots = [c \in Clients |-> slots[c]]
  BY <1>2
<1> QED BY <1>1, <1>4, <1>5, <1>6, <1>7 DEF Inv

\* What counts of a client at this instant, and a step later.
LEMMA Views ==
    ASSUME NEW c \in Clients
    PROVE  /\ LocalRecent[c] = Win!DropAged(counters.hits[c], clock - Window)
           /\ LocalBurst[c] = InForce(counters.bursts[c], clock - Window)
           /\ LocalLockout[c] = InForce(counters.bans[c], clock)
           /\ SharedRecent[c] = Win!DropAged(OfSlot(slots[c]), clock - Window)
           /\ SharedBurst[c] = InForce(slots[c].burst, clock - Window)
           /\ SharedLockout[c] = InForce(slots[c].ban, clock)
  BY DEF LocalRecent, LocalBurst, LocalLockout, SharedRecent, SharedBurst, SharedLockout, Newer
\* (A step later, by the clock it leaves.)
LEMMA ViewsLater ==
    ASSUME NEW c \in Clients
    PROVE  /\ LocalRecent'[c] = Win!DropAged(counters'.hits[c], clock' - Window)
           /\ LocalBurst'[c] = InForce(counters'.bursts[c], clock' - Window)
           /\ LocalLockout'[c] = InForce(counters'.bans[c], clock')
           /\ SharedRecent'[c] = Win!DropAged(OfSlot(slots'[c]), clock' - Window)
           /\ SharedBurst'[c] = InForce(slots'[c].burst, clock' - Window)
           /\ SharedLockout'[c] = InForce(slots'[c].ban, clock')
  BY DEF LocalRecent, LocalBurst, LocalLockout, SharedRecent, SharedBurst, SharedLockout, Newer

\* The views are functions of the clients.
LEMMA ViewsAre ==
    /\ LocalRecent = [c \in Clients |-> LocalRecent[c]]
    /\ LocalBurst = [c \in Clients |-> LocalBurst[c]]
    /\ LocalLockout = [c \in Clients |-> LocalLockout[c]]
    /\ SharedRecent = [c \in Clients |-> SharedRecent[c]]
    /\ SharedBurst = [c \in Clients |-> SharedBurst[c]]
    /\ SharedLockout = [c \in Clients |-> SharedLockout[c]]
    /\ LocalRecent' = [c \in Clients |-> LocalRecent'[c]]
    /\ LocalBurst' = [c \in Clients |-> LocalBurst'[c]]
    /\ LocalLockout' = [c \in Clients |-> LocalLockout'[c]]
    /\ SharedRecent' = [c \in Clients |-> SharedRecent'[c]]
    /\ SharedBurst' = [c \in Clients |-> SharedBurst'[c]]
    /\ SharedLockout' = [c \in Clients |-> SharedLockout'[c]]
  BY DEF LocalRecent, LocalBurst, LocalLockout, SharedRecent, SharedBurst, SharedLockout

\* A request is one for both limiters,
LEMMA RequestSteps ==
    ASSUME Inv, NEW c \in Clients, Request(c)
    PROVE  Inv' /\ OfLocal!Request(c) /\ OfShared!Request(c)
<1>1. /\ clock \in Nat \ {0} /\ lockFor \in Nat
      /\ clock \in FirstTime .. MaxTime /\ lockFor \in LockFors
  BY InvTypes
<1>2. /\ CountersType(counters) /\ AllKept(counters, clock, lockFor)
      /\ SlotInv(slots[c], c, clock, lockFor)
      /\ \A y \in Clients : SlotInv(slots[y], y, clock, lockFor)
      /\ slots = [y \in Clients |-> slots[y]]
  BY DEF Inv
<1> DEFINE inDict == Win!Consume(counters, c, clock)
           z == IF slots[c].client = c THEN slots[c] ELSE Win!FreshSlot(slots[c])
           inSlot == Win!Decide(z, c, clock)
<1>3. /\ counters' = inDict.counters /\ local' = Told(c, inDict.answer)
      /\ slots' = [slots EXCEPT ![c] = inSlot.slot] /\ shared' = Told(c, inSlot.answer)
      /\ clock' = clock /\ lockFor' = lockFor
  BY DEF Request
<1>4. PICK a : a = inDict.answer
  OBVIOUS
<1>5. PICK b : b = inSlot.answer
  OBVIOUS
<1>6. PICK r : r = inSlot.slot
  OBVIOUS
<1>7. /\ CountersType(counters') /\ AllKept(counters', clock, lockFor)
      /\ ServesKept(counters.hits[c], counters.bursts[c], counters.bans[c],
                    counters'.hits[c], counters'.bursts[c], counters'.bans[c],
                    c, clock, lockFor, a)
      /\ \A y \in Clients \ {c} :
           Alike(counters.hits[y], counters.bursts[y], counters.bans[y],
                 counters'.hits[y], counters'.bursts[y], counters'.bans[y], clock)
  BY <1>1, <1>2, <1>3, <1>4, ConsumeServes
<1>8. /\ SlotInv(r, c, clock, lockFor)
      /\ ServesKept(OfSlot(slots[c]), slots[c].burst, slots[c].ban,
                    OfSlot(r), r.burst, r.ban, c, clock, lockFor, b)
  BY <1>1, <1>2, <1>5, <1>6, DecideServes
<1>9. slots' = [y \in Clients |-> slots'[y]] /\ slots'[c] = r
      /\ \A y \in Clients \ {c} : slots'[y] = slots[y]
  <2>1. slots' = [slots EXCEPT ![c] = r]
    BY <1>3, <1>6
  <2> QED BY <1>2, <2>1
<1>10. local' = Told(c, a) /\ shared' = Told(c, b)
  BY <1>3, <1>4, <1>5
<1> HIDE DEF inDict, inSlot, z
<1>11. Inv'
  <2>1. ASSUME NEW y \in Clients PROVE SlotInv(slots'[y], y, clock, lockFor)
    BY <1>2, <1>8, <1>9
  <2> QED BY <1>1, <1>3, <1>7, <1>9, <2>1 DEF Inv
<1>12. OfLocal!Request(c)
  <2>1. Serves(LocalRecent[c], LocalBurst[c], LocalLockout[c],
               LocalRecent'[c], LocalBurst'[c], LocalLockout'[c], c, clock, lockFor, local')
    BY <1>3, <1>7, <1>10, Views, ViewsLater DEF ServesKept
  <2>2. ASSUME NEW y \in Clients \ {c}
        PROVE  /\ LocalRecent'[y] = LocalRecent[y] /\ LocalBurst'[y] = LocalBurst[y]
               /\ LocalLockout'[y] = LocalLockout[y]
    BY <1>3, <1>7, Views, ViewsLater DEF Alike
  <2> QED BY <1>3, <2>1, <2>2, LocalStep
<1>13. OfShared!Request(c)
  <2>1. Serves(SharedRecent[c], SharedBurst[c], SharedLockout[c],
               SharedRecent'[c], SharedBurst'[c], SharedLockout'[c], c, clock, lockFor, shared')
    BY <1>3, <1>8, <1>9, <1>10, Views, ViewsLater DEF ServesKept
  <2>2. ASSUME NEW y \in Clients \ {c}
        PROVE  /\ SharedRecent'[y] = SharedRecent[y] /\ SharedBurst'[y] = SharedBurst[y]
               /\ SharedLockout'[y] = SharedLockout[y]
    BY <1>3, <1>9, Views, ViewsLater
  <2> QED BY <1>3, <2>1, <2>2, SharedStep
<1> QED BY <1>11, <1>12, <1>13

\* a sweep of a slot is nothing to either of them,
LEMMA SweepSteps ==
    ASSUME Inv, NEW c \in Clients, Sweep(c)
    PROVE  Inv' /\ UNCHANGED OfLocal!vars /\ UNCHANGED OfShared!vars
<1>1. /\ clock \in Nat \ {0} /\ lockFor \in Nat
      /\ clock \in FirstTime .. MaxTime /\ lockFor \in LockFors
  BY InvTypes
<1>2. /\ CountersType(counters) /\ AllKept(counters, clock, lockFor)
      /\ SlotInv(slots[c], c, clock, lockFor)
      /\ \A y \in Clients : SlotInv(slots[y], y, clock, lockFor)
      /\ slots = [y \in Clients |-> slots[y]]
  BY DEF Inv
<1>3. /\ Win!Sweepable(slots[c], clock)
      /\ slots' = [slots EXCEPT ![c] = Win!FreshSlot(slots[c])]
      /\ clock' = clock /\ lockFor' = lockFor /\ counters' = counters
      /\ local' = local /\ shared' = shared
  BY DEF Sweep
<1>4. PICK r : r = Win!FreshSlot(slots[c])
  OBVIOUS
<1>5. SlotInv(r, c, clock, lockFor) /\ OfSlot(r) = <<>> /\ r.burst = 0 /\ r.ban = 0
  <2>1. slots[c] \in SlotType(c, clock)
    BY <1>2 DEF SlotInv
  <2> QED BY <1>1, <1>4, <2>1, FreshSlotIs
<1>6. Alike(OfSlot(slots[c]), slots[c].burst, slots[c].ban, OfSlot(r), r.burst, r.ban, clock)
  BY <1>1, <1>2, <1>3, <1>5, SweepableIs
<1>7. slots' = [y \in Clients |-> slots'[y]] /\ slots'[c] = r
      /\ \A y \in Clients \ {c} : slots'[y] = slots[y]
  <2>1. slots' = [slots EXCEPT ![c] = r]
    BY <1>3, <1>4
  <2> QED BY <1>2, <2>1
<1>8. Inv'
  <2>1. ASSUME NEW y \in Clients PROVE SlotInv(slots'[y], y, clock, lockFor)
    BY <1>2, <1>5, <1>7
  <2> QED BY <1>1, <1>2, <1>3, <1>7, <2>1 DEF Inv
<1>9. ASSUME NEW y \in Clients
      PROVE  /\ LocalRecent'[y] = LocalRecent[y] /\ LocalBurst'[y] = LocalBurst[y]
             /\ LocalLockout'[y] = LocalLockout[y]
             /\ SharedRecent'[y] = SharedRecent[y] /\ SharedBurst'[y] = SharedBurst[y]
             /\ SharedLockout'[y] = SharedLockout[y]
  <2>1. /\ LocalRecent'[y] = LocalRecent[y] /\ LocalBurst'[y] = LocalBurst[y]
        /\ LocalLockout'[y] = LocalLockout[y]
    BY <1>3, Views, ViewsLater
  <2>2. CASE y = c
    BY <1>3, <1>6, <1>7, <2>1, <2>2, Views, ViewsLater DEF Alike
  <2>3. CASE y # c
    BY <1>3, <1>7, <2>1, <2>3, Views, ViewsLater
  <2> QED BY <2>2, <2>3
<1>10. /\ LocalRecent' = LocalRecent /\ LocalBurst' = LocalBurst /\ LocalLockout' = LocalLockout
       /\ SharedRecent' = SharedRecent /\ SharedBurst' = SharedBurst
       /\ SharedLockout' = SharedLockout
  BY <1>9, ViewsAre
<1> QED BY <1>3, <1>8, <1>10 DEF OfLocal!vars, OfShared!vars

\* and time passes for all three.
LEMMA TickSteps ==
    ASSUME Inv, Tick
    PROVE  Inv' /\ OfLocal!Tick /\ OfShared!Tick
<1>1. /\ clock \in Nat \ {0} /\ clock \in Nat /\ lockFor \in Nat
      /\ clock \in FirstTime .. MaxTime /\ lockFor \in LockFors
      /\ FirstTime \in Nat /\ MaxTime \in Nat
  BY InvTypes, DecideAlikeAssumption
<1>2. /\ CountersType(counters) /\ AllKept(counters, clock, lockFor)
      /\ \A y \in Clients : SlotInv(slots[y], y, clock, lockFor)
      /\ slots = [y \in Clients |-> slots[y]]
  BY DEF Inv
<1>3. /\ clock < MaxTime /\ clock' = clock + 1 /\ lockFor' = lockFor /\ counters' = counters
      /\ slots' = slots /\ local' = local /\ shared' = shared
  BY DEF Tick
<1>4. ASSUME NEW y \in Clients
      PROVE  /\ Kept(counters.hits[y], counters.bursts[y], counters.bans[y], clock, lockFor)
             /\ Kept(OfSlot(slots[y]), slots[y].burst, slots[y].ban, clock, lockFor)
             /\ slots[y] \in SlotType(y, clock)
  BY <1>2 DEF AllKept, SlotInv
<1>5. Inv'
  <2>1. AllKept(counters, clock + 1, lockFor)
    BY <1>1, <1>4, KeptLater DEF AllKept
  <2>2. ASSUME NEW y \in Clients PROVE SlotInv(slots[y], y, clock + 1, lockFor)
    <3>1. Kept(OfSlot(slots[y]), slots[y].burst, slots[y].ban, clock + 1, lockFor)
      BY <1>1, <1>4, KeptLater
    <3>2. slots[y] \in SlotType(y, clock + 1)
      <4>1. 0 .. clock \subseteq 0 .. clock + 1
        BY <1>1
      <4>2. [0 .. Win!Ring - 1 -> 0 .. clock] \subseteq [0 .. Win!Ring - 1 -> 0 .. clock + 1]
        BY <4>1
      <4> QED BY <1>4, <4>2 DEF SlotType
    <3> QED BY <1>2, <3>1, <3>2 DEF SlotInv
  <2>3. clock + 1 \in FirstTime .. MaxTime
    BY <1>1, <1>3
  <2> QED BY <1>1, <1>2, <1>3, <2>1, <2>2, <2>3 DEF Inv
<1>k. PICK k \in Nat : k = clock + 1 /\ clock' = k
  BY <1>1, <1>3
<1>6. ASSUME NEW y \in Clients
      PROVE  /\ LocalRecent'[y] = Win!DropAged(LocalRecent[y], k - Window)
             /\ LocalBurst'[y] = IF k - LocalBurst[y] >= Window THEN 0 ELSE LocalBurst[y]
             /\ LocalLockout'[y] = IF k >= LocalLockout[y] THEN 0 ELSE LocalLockout[y]
             /\ LocalRecent[y] \in Seq(Nat)
  <2>1. Kept(counters.hits[y], counters.bursts[y], counters.bans[y], clock, lockFor)
    BY <1>4
  <2>2. Dated(counters.hits[y], clock) /\ clock - Window \in Int
    BY <1>1, <2>1, PeakType DEF Kept
  <2>3. Win!DropAged(counters.hits[y], clock - Window) \in Seq(Nat)
    BY <1>1, <2>2, DatedRest DEF Dated
  <2>4. /\ Win!DropAged(Win!DropAged(counters.hits[y], clock - Window), k - Window)
             = Win!DropAged(counters.hits[y], k - Window)
        /\ InForce(counters.bursts[y], k - Window)
             = IF k - InForce(counters.bursts[y], clock - Window) >= Window
               THEN 0 ELSE InForce(counters.bursts[y], clock - Window)
        /\ InForce(counters.bans[y], k)
             = IF k >= InForce(counters.bans[y], clock)
               THEN 0 ELSE InForce(counters.bans[y], clock)
    BY <1>1, <1>k, <2>1, TickSame
  <2>5. /\ LocalRecent[y] = Win!DropAged(counters.hits[y], clock - Window)
        /\ LocalBurst[y] = InForce(counters.bursts[y], clock - Window)
        /\ LocalLockout[y] = InForce(counters.bans[y], clock)
    BY Views
  <2>6. /\ LocalRecent'[y] = Win!DropAged(counters.hits[y], k - Window)
        /\ LocalBurst'[y] = InForce(counters.bursts[y], k - Window)
        /\ LocalLockout'[y] = InForce(counters.bans[y], k)
    BY <1>3, <1>k, ViewsLater
  <2> QED BY <2>3, <2>4, <2>5, <2>6
<1>7. ASSUME NEW y \in Clients
      PROVE  /\ SharedRecent'[y] = Win!DropAged(SharedRecent[y], k - Window)
             /\ SharedBurst'[y] = IF k - SharedBurst[y] >= Window THEN 0 ELSE SharedBurst[y]
             /\ SharedLockout'[y] = IF k >= SharedLockout[y] THEN 0 ELSE SharedLockout[y]
             /\ SharedRecent[y] \in Seq(Nat)
  <2>1. Kept(OfSlot(slots[y]), slots[y].burst, slots[y].ban, clock, lockFor)
    BY <1>4
  <2>2. Dated(OfSlot(slots[y]), clock) /\ clock - Window \in Int
    BY <1>1, <2>1, PeakType DEF Kept
  <2>3. Win!DropAged(OfSlot(slots[y]), clock - Window) \in Seq(Nat)
    BY <1>1, <2>2, DatedRest DEF Dated
  <2>4. /\ Win!DropAged(Win!DropAged(OfSlot(slots[y]), clock - Window), k - Window)
             = Win!DropAged(OfSlot(slots[y]), k - Window)
        /\ InForce(slots[y].burst, k - Window)
             = IF k - InForce(slots[y].burst, clock - Window) >= Window
               THEN 0 ELSE InForce(slots[y].burst, clock - Window)
        /\ InForce(slots[y].ban, k)
             = IF k >= InForce(slots[y].ban, clock)
               THEN 0 ELSE InForce(slots[y].ban, clock)
    BY <1>1, <1>k, <2>1, TickSame
  <2>5. /\ SharedRecent[y] = Win!DropAged(OfSlot(slots[y]), clock - Window)
        /\ SharedBurst[y] = InForce(slots[y].burst, clock - Window)
        /\ SharedLockout[y] = InForce(slots[y].ban, clock)
    BY Views
  <2>6. /\ SharedRecent'[y] = Win!DropAged(OfSlot(slots[y]), k - Window)
        /\ SharedBurst'[y] = InForce(slots[y].burst, k - Window)
        /\ SharedLockout'[y] = InForce(slots[y].ban, k)
    BY <1>3, <1>k, ViewsLater
  <2> QED BY <2>3, <2>4, <2>5, <2>6
<1>8. k - Window \in Int
  BY PeakType
<1>9. /\ LocalRecent' = [y \in Clients |-> OfLocal!Unexpired(LocalRecent[y], k - Window)]
      /\ LocalBurst' = [y \in Clients |->
            IF k - LocalBurst[y] >= Window THEN 0 ELSE LocalBurst[y]]
      /\ LocalLockout' = [y \in Clients |->
            IF k >= LocalLockout[y] THEN 0 ELSE LocalLockout[y]]
  <2>1. ASSUME NEW y \in Clients
        PROVE  LocalRecent'[y] = OfLocal!Unexpired(LocalRecent[y], k - Window)
    BY <1>6, <1>8, UnexpiredIs
  <2> QED BY <1>6, <2>1, ViewsAre
<1>10. /\ SharedRecent' = [y \in Clients |-> OfShared!Unexpired(SharedRecent[y], k - Window)]
       /\ SharedBurst' = [y \in Clients |->
             IF k - SharedBurst[y] >= Window THEN 0 ELSE SharedBurst[y]]
       /\ SharedLockout' = [y \in Clients |->
             IF k >= SharedLockout[y] THEN 0 ELSE SharedLockout[y]]
  <2>1. ASSUME NEW y \in Clients
        PROVE  SharedRecent'[y] = OfShared!Unexpired(SharedRecent[y], k - Window)
    BY <1>7, <1>8, UnexpiredIs
  <2> QED BY <1>7, <2>1, ViewsAre
<1>11. OfLocal!Tick
  BY <1>3, <1>9, <1>k DEF OfLocal!Tick
<1>12. OfShared!Tick
  BY <1>3, <1>10, <1>k DEF OfShared!Tick
<1> QED BY <1>5, <1>11, <1>12

\* Every step keeps the invariant and is one of both limiters or none of theirs.
LEMMA NextSteps ==
    Inv /\ [Next]_vars
        => Inv' /\ [OfLocal!Next]_(OfLocal!vars) /\ [OfShared!Next]_(OfShared!vars)
<1> SUFFICES ASSUME Inv, [Next]_vars
             PROVE  Inv' /\ [OfLocal!Next]_(OfLocal!vars) /\ [OfShared!Next]_(OfShared!vars)
  OBVIOUS
<1>1. CASE Tick
  BY <1>1, TickSteps DEF OfLocal!Next, OfShared!Next
<1>2. ASSUME NEW c \in Clients, Request(c)
      PROVE  Inv' /\ OfLocal!Next /\ OfShared!Next
  BY <1>2, RequestSteps DEF OfLocal!Next, OfShared!Next
<1>3. ASSUME NEW c \in Clients, Sweep(c)
      PROVE  Inv' /\ UNCHANGED OfLocal!vars /\ UNCHANGED OfShared!vars
  BY <1>3, SweepSteps
<1>4. CASE UNCHANGED vars
  <2>1. /\ clock' = clock /\ lockFor' = lockFor /\ counters' = counters
        /\ slots' = slots /\ local' = local /\ shared' = shared
    BY <1>4 DEF vars
  <2>2. Inv'
    BY <2>1 DEF Inv
  <2>3. ASSUME NEW c \in Clients
        PROVE  /\ LocalRecent'[c] = LocalRecent[c] /\ LocalBurst'[c] = LocalBurst[c]
               /\ LocalLockout'[c] = LocalLockout[c]
               /\ SharedRecent'[c] = SharedRecent[c] /\ SharedBurst'[c] = SharedBurst[c]
               /\ SharedLockout'[c] = SharedLockout[c]
    BY <2>1, Views, ViewsLater
  <2>4. /\ LocalRecent' = LocalRecent /\ LocalBurst' = LocalBurst /\ LocalLockout' = LocalLockout
        /\ SharedRecent' = SharedRecent /\ SharedBurst' = SharedBurst
        /\ SharedLockout' = SharedLockout
    BY <2>3, ViewsAre
  <2> QED BY <2>1, <2>2, <2>4 DEF OfLocal!vars, OfShared!vars
<1> QED BY <1>1, <1>2, <1>3, <1>4 DEF Next

\* Nothing counts when the program starts.
LEMMA InitLimiters == Init => OfLocal!Init /\ OfShared!Init
<1> SUFFICES ASSUME Init PROVE OfLocal!Init /\ OfShared!Init
  OBVIOUS
<1>1. clock \in Nat \ {0} /\ lockFor \in Nat
  BY InitInv, InvTypes
<1>2. local = OfLocal!Nobody /\ shared = OfShared!Nobody
  BY DEF Init, Nobody, OfLocal!Nobody, OfShared!Nobody
<1>3. ASSUME NEW c \in Clients
      PROVE  /\ LocalRecent[c] = <<>> /\ LocalBurst[c] = 0 /\ LocalLockout[c] = 0
             /\ SharedRecent[c] = <<>> /\ SharedBurst[c] = 0 /\ SharedLockout[c] = 0
  <2>1. /\ counters.hits[c] = <<>> /\ counters.bursts[c] = 0 /\ counters.bans[c] = 0
        /\ slots[c] = Win!EmptySlot
    BY DEF Init, Win!NoCounters
  <2>2. slots[c].burst = 0 /\ slots[c].ban = 0 /\ slots[c].count = 0
    BY <2>1 DEF Win!EmptySlot
  <2>3. OfSlot(slots[c]) = <<>>
    BY <2>2 DEF OfSlot
  <2>4. clock - Window \in Int
    BY <1>1, PeakType
  <2>5. <<>> \in Seq(Nat)
    OBVIOUS
  <2>6. Win!DropAged(<<>>, clock - Window) = <<>>
    BY <2>4, <2>5, RestWhole
  <2>7. InForce(0, clock - Window) = 0 /\ InForce(0, clock) = 0
    BY DEF InForce
  <2> QED BY <2>1, <2>2, <2>3, <2>6, <2>7, Views
<1>4. /\ LocalRecent = [c \in Clients |-> <<>>] /\ LocalBurst = [c \in Clients |-> 0]
      /\ LocalLockout = [c \in Clients |-> 0]
      /\ SharedRecent = [c \in Clients |-> <<>>] /\ SharedBurst = [c \in Clients |-> 0]
      /\ SharedLockout = [c \in Clients |-> 0]
  BY <1>3, ViewsAre
<1> QED BY <1>1, <1>2, <1>4 DEF OfLocal!Init, OfShared!Init

\* The invariant holds in every run.
LEMMA Invariance == Spec => []Inv
<1>1. Inv /\ [Next]_vars => Inv'
  BY NextSteps
<1> QED BY <1>1, InitInv, PTL DEF Spec

\* Rings and deques never hold more than one request past the peak, the oldest first,
\* and every stamp, burst and lockout is one the clock can have given.
THEOREM TypeCorrect == Spec => []TypeOK
<1>1. Inv => TypeOK
  <2> SUFFICES ASSUME Inv PROVE TypeOK
    OBVIOUS
  <2>1. clock \in FirstTime .. MaxTime /\ lockFor \in LockFors /\ clock \in Nat /\ lockFor \in Nat
    BY InvTypes
  <2>2. ASSUME NEW c \in Clients
        PROVE  /\ Len(counters.hits[c]) <= Win!Ring /\ InOrder(counters.hits[c])
               /\ counters.bursts[c] \in 0 .. clock /\ counters.bans[c] \in 0 .. clock + lockFor
    <3>1. Kept(counters.hits[c], counters.bursts[c], counters.bans[c], clock, lockFor)
      BY DEF Inv, AllKept
    <3> QED BY <3>1 DEF Kept, Dated, InOrder
  <2>3. ASSUME NEW c \in Clients
        PROVE  /\ slots[c].client \in {c, NoClient} /\ slots[c].count \in 0 .. Win!Ring
               /\ slots[c].oldest \in 0 .. Win!Ring - 1
               /\ slots[c].ring \in [0 .. Win!Ring - 1 -> 0 .. clock]
               /\ InOrder(OfSlot(slots[c]))
    <3>1. slots[c] \in SlotType(c, clock) /\ Dated(OfSlot(slots[c]), clock)
      BY DEF Inv, SlotInv, Kept
    <3> QED BY <3>1 DEF SlotType, Dated, InOrder
  <2> QED BY <2>1, <2>2, <2>3 DEF TypeOK
<1> QED BY <1>1, Invariance, PTL

\* The dictionaries of a process answer every request, and remember what they need for
\* the next one, exactly as the abstract limiter does, whatever their sweep forgets.
THEOREM DictionariesLimit == Spec => LocalIsLimiter
<1>1. Init => OfLocal!Init
  BY InitLimiters
<1>2. Inv /\ [Next]_vars => [OfLocal!Next]_(OfLocal!vars)
  BY NextSteps
<1> QED BY <1>1, <1>2, Invariance, PTL DEF Spec, LocalIsLimiter, OfLocal!Spec

\* So does a slot of the table, its ring wrapped around, or freed by a sweep and taken
\* again: the two implementations answer the same requests alike.
THEOREM SlotsLimit == Spec => SharedIsLimiter
<1>1. Init => OfShared!Init
  BY InitLimiters
<1>2. Inv /\ [Next]_vars => [OfShared!Next]_(OfShared!vars)
  BY NextSteps
<1> QED BY <1>1, <1>2, Invariance, PTL DEF Spec, SharedIsLimiter, OfShared!Spec
============================================================================
