--------------------------- MODULE SlidingWindow ---------------------------
(***************************************************************************)
(* The two implementations of the rate limiter's sliding window, as pure   *)
(* operators (src/echocorn/ratelimit.py):                                  *)
(*                                                                         *)
(*   - LocalCounters: dictionaries of one process (lines 188-320);         *)
(*   - the slot of SharedCounters: a head and a ring of timestamps         *)
(*     (lines 515-604).                                                    *)
(*                                                                         *)
(* A time is a natural number of clock units and is never 0: the code uses *)
(* 0.0 for "no burst" and "no lockout" in a slot, and the monotonic clock  *)
(* is far from 0 when a request arrives.                                   *)
(***************************************************************************)
EXTENDS Integers, Sequences, FiniteSets, FiniteSetsExt

CONSTANTS
    Clients,    \* the addresses that send requests
    NoClient,   \* the empty address of a free slot
    Requests,   \* the allowance per window
    Peak,       \* the configured peak, 0 for "no burst"
    Window,     \* length of the window
    Ban,        \* length of a lockout, 0 for none
    Capacity,   \* how many clients LocalCounters remembers
    EvictScan   \* how many of them an eviction looks at (256 in the code)

ASSUME WindowAssumption ==
    /\ IsFiniteSet(Clients) /\ NoClient \notin Clients
    /\ Requests \in Nat \ {0}
    /\ Peak \in Nat
    /\ Window \in Nat \ {0}
    /\ Capacity \in Nat \ {0}
    /\ EvictScan \in Nat \ {0}

\* effective_peak: a spike, never below the limit.
EffectivePeak == IF Peak < Requests THEN Requests ELSE Peak

\* How many timestamps of a client can matter to a decision.
Ring == EffectivePeak + 1

\* What a decision answers: None in the code is ok, anything else the wait.
Allow == [ok |-> TRUE, wait |-> 0]
Refuse(wait) == [ok |-> FALSE, wait |-> wait]
Answers == {Allow} \cup {Refuse(w) : w \in Nat}

Latest(a, b) == IF a < b THEN b ELSE a

----------------------------------------------------------------------------
(***************************************************************************)
(* LocalCounters.  A client without an entry has an empty deque, and 0 for *)
(* a burst or a lockout it does not have; `order` is the insertion order   *)
(* of the hits dictionary, which is what an eviction walks: the pairs of   *)
(* clients with an entry, the second of which was inserted no earlier.     *)
(***************************************************************************)

NoCounters == [hits   |-> [c \in Clients |-> <<>>],
               order  |-> {},
               bursts |-> [c \in Clients |-> 0],
               bans   |-> [c \in Clients |-> 0],
               next   |-> 0]

\* The clients with an entry.
Known(d) == {c \in Clients : <<c, c>> \in d.order}

ForgetHits(d, gone) ==
    [d EXCEPT !.hits  = [c \in Clients |-> IF c \in gone THEN <<>> ELSE d.hits[c]],
              !.order = {p \in d.order : p[1] \notin gone /\ p[2] \notin gone}]

\* Mutant: forgets a client as soon as its oldest request has aged out.
MaybeSweepByOldest(d, now) ==
    IF now < d.next
    THEN d
    ELSE LET aged(c) == d.hits[c] = <<>> \/ d.hits[c][1] <= now - Window
         IN  [ForgetHits(d, {c \in Clients : aged(c)}) EXCEPT
                !.next   = now + Latest(Window, 1),
                !.bursts = [c \in Clients |-> IF now - @[c] >= Window THEN 0 ELSE @[c]],
                !.bans   = [c \in Clients |-> IF now >= @[c] THEN 0 ELSE @[c]]]

\* _maybe_sweep: at most once per window, forget what has expired.
MaybeSweep(d, now) ==
    IF now < d.next
    THEN d
    ELSE LET aged(c) == d.hits[c] = <<>> \/ d.hits[c][Len(d.hits[c])] <= now - Window
         IN  [ForgetHits(d, {c \in Clients : aged(c)}) EXCEPT
                !.next   = now + Latest(Window, 1),
                !.bursts = [c \in Clients |-> IF now - @[c] >= Window THEN 0 ELSE @[c]],
                !.bans   = [c \in Clients |-> IF now >= @[c] THEN 0 ELSE @[c]]]

\* _evict_oldest: the client known for the longest, lockouts skipped while
\* there is anything else among the first EvictScan entries.
EvictOldest(d) ==
    LET place(c) == Cardinality({b \in Clients : <<b, c>> \in d.order})
        loose    == {c \in Known(d) : place(c) <= EvictScan /\ d.bans[c] = 0}
    IN  IF loose = {}
        THEN d
        ELSE LET chosen == CHOOSE c \in loose : \A b \in loose : <<c, b>> \in d.order
             IN  [ForgetHits(d, {chosen}) EXCEPT !.bursts[chosen] = 0]

\* The deque without the entries its front has lost at `edge`.
DropAged(h, edge) ==
    LET fresh == {i \in DOMAIN h : h[i] > edge}
    IN  IF fresh = {} THEN <<>> ELSE SubSeq(h, Min(fresh), Len(h))

\* LocalCounters.consume: the counters after one request of c, and the answer.
Consume(d, c, now) ==
    IF d.bans[c] # 0 /\ now < d.bans[c]
    THEN [counters |-> d, answer |-> Refuse(d.bans[c] - now)]
    ELSE
    LET clean == MaybeSweep([d EXCEPT !.bans[c] = 0], now)
        known == c \in Known(clean)
        room  == IF ~known /\ Cardinality(Known(clean)) >= Capacity
                 THEN EvictOldest(clean) ELSE clean
        kept  == DropAged(room.hits[c], now - Window)
        hits  == IF Len(kept) < Ring THEN Append(kept, now) ELSE kept
        count == Len(hits)
        e     == [room EXCEPT !.hits[c] = hits,
                              !.order = IF known THEN @ ELSE @ \cup (Known(room) \cup {c}) \X {c}]
        spike == /\ count <= EffectivePeak
                 /\ e.bursts[c] = 0 \/ now - e.bursts[c] >= Window
    IN  CASE count <= Requests -> [counters |-> e, answer |-> Allow]
          [] count > Requests /\ spike ->
                [counters |-> [e EXCEPT !.bursts[c] = now], answer |-> Allow]
          [] count > Requests /\ ~spike /\ Ban > 0 ->
                [counters |-> [e EXCEPT !.bans[c] = now + Ban], answer |-> Refuse(Ban)]
          [] OTHER ->
                [counters |-> e, answer |-> Refuse(Latest(0, hits[1] + Window - now))]

----------------------------------------------------------------------------
(***************************************************************************)
(* A slot of the shared table: the client it belongs to, when its lockout  *)
(* ends, the one burst of its window, how many timestamps count and where  *)
(* the oldest of them sits in the ring.  Clearing a slot writes its head   *)
(* and leaves the ring's bytes.                                            *)
(***************************************************************************)

EmptySlot == [client |-> NoClient, ban |-> 0, burst |-> 0, count |-> 0,
              oldest |-> 0, ring |-> [i \in 0 .. Ring - 1 |-> 0]]

\* The timestamp `i` places behind the oldest one.
Stamp(s, i) == s.ring[(s.oldest + i) % Ring]

\* Mutant: a timestamp exactly one window old still counts.
AgedOutLate(s, edge) ==
    CHOOSE k \in 0 .. s.count :
        /\ \A j \in 0 .. k - 1 : Stamp(s, j) < edge
        /\ k = s.count \/ Stamp(s, k) >= edge

\* How many timestamps the front of the ring loses at `edge`.
AgedOut(s, edge) ==
    CHOOSE k \in 0 .. s.count :
        /\ \A j \in 0 .. k - 1 : Stamp(s, j) <= edge
        /\ k = s.count \/ Stamp(s, k) > edge

\* Mutant: the ring takes one timestamp more than it has room for.
RingFullLate(count) == count > Ring

\* A full ring is left as it is: its client is over its allowance anyway.
RingFull(count) == count >= Ring

\* _decide: the slot after one request of c, and the answer.
Decide(s, c, now) ==
    IF s.ban # 0 /\ now < s.ban
    THEN [slot |-> s, answer |-> Refuse(s.ban - now)]
    ELSE
    LET gone   == AgedOut(s, now - Window)
        oldest == (s.oldest + gone) % Ring
        kept   == s.count - gone
        full   == RingFull(kept)
        ring   == IF full THEN s.ring ELSE [s.ring EXCEPT ![(oldest + kept) % Ring] = now]
        count  == IF full THEN kept ELSE kept + 1
        t      == [client |-> c, ban |-> 0, burst |-> s.burst, count |-> count,
                   oldest |-> oldest, ring |-> ring]
        spike  == count <= EffectivePeak /\ (s.burst = 0 \/ now - s.burst >= Window)
    IN  CASE count <= Requests -> [slot |-> t, answer |-> Allow]
          [] count > Requests /\ spike -> [slot |-> [t EXCEPT !.burst = now], answer |-> Allow]
          [] count > Requests /\ ~spike /\ Ban > 0 ->
                [slot |-> [t EXCEPT !.ban = now + Ban], answer |-> Refuse(Ban)]
          [] OTHER -> [slot |-> t, answer |-> Refuse(Latest(0, ring[oldest] + Window - now))]

\* A free slot is decided as a window that starts here, whatever its ring holds.
FreshSlot(s) == [EmptySlot EXCEPT !.ring = s.ring]

\* Mutant: a slot is cleared although its lockout is in force.
SweepableInLockout(s, now) ==
    /\ s.client # NoClient
    /\ s.count = 0 \/ Stamp(s, s.count - 1) <= now - Window

\* Mutant: a slot is cleared although its window is not over.
SweepableInWindow(s, now) ==
    /\ s.client # NoClient
    /\ ~(s.ban # 0 /\ s.ban > now)

\* The guards of _sweep: a slot somebody is in, without a lockout in force and
\* whose newest timestamp has aged out.
Sweepable(s, now) ==
    /\ s.client # NoClient
    /\ ~(s.ban # 0 /\ s.ban > now)
    /\ s.count = 0 \/ Stamp(s, s.count - 1) <= now - Window

============================================================================
