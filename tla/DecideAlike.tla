---------------------------- MODULE DecideAlike ----------------------------
(***************************************************************************)
(* One stream of requests through both implementations of the window, with *)
(* the same clock: "the two implementations must not drift apart"          *)
(* (src/echocorn/ratelimit.py:526).  Each client has a slot of its own, as *)
(* when no two addresses share a probe run; SharedCounters models the      *)
(* probing, the mutexes and the workers.                                   *)
(***************************************************************************)
EXTENDS Integers, Sequences, FiniteSets

CONSTANTS Clients, NoClient, Requests, Peak, Window, Capacity, EvictScan,
          LockFors,     \* the lockout lengths a configuration may have
          FirstTime,    \* where the monotonic clock starts
          MaxTime       \* bound on the clock

VARIABLES
    clock,      \* time.monotonic()
    lockFor,    \* self.ban of both limiters
    counters,   \* the dictionaries of LocalCounters
    slots,      \* client -> its slot of the table
    local,      \* the last answer of LocalCounters.consume
    shared      \* the last answer of SharedCounters.consume

vars == <<clock, lockFor, counters, slots, local, shared>>

Win == INSTANCE SlidingWindow WITH Ban <- lockFor

ASSUME DecideAlikeAssumption ==
    /\ IsFiniteSet(Clients) /\ NoClient \notin Clients
    /\ Requests \in Nat \ {0} /\ Peak \in Nat /\ Window \in Nat \ {0}
    /\ LockFors \subseteq Nat
    /\ FirstTime \in Nat \ {0} /\ MaxTime \in Nat /\ FirstTime <= MaxTime
    /\ Capacity \in Nat /\ Capacity >= Cardinality(Clients)

Nobody == [client |-> "nobody", ok |-> TRUE, wait |-> 0]
Told(c, a) == [client |-> c, ok |-> a.ok, wait |-> a.wait]

Init ==
    /\ clock = FirstTime
    /\ lockFor \in LockFors
    /\ counters = Win!NoCounters
    /\ slots = [c \in Clients |-> Win!EmptySlot]
    /\ local = Nobody
    /\ shared = Nobody

Request(c) ==
    LET inDict == Win!Consume(counters, c, clock)
        inSlot == Win!Decide(IF slots[c].client = c THEN slots[c] ELSE Win!FreshSlot(slots[c]),
                             c, clock)
    IN  /\ counters' = inDict.counters
        /\ local' = Told(c, inDict.answer)
        /\ slots' = [slots EXCEPT ![c] = inSlot.slot]
        /\ shared' = Told(c, inSlot.answer)
        /\ UNCHANGED <<clock, lockFor>>

\* The sweep of the table reaches the slot of c.
Sweep(c) ==
    /\ Win!Sweepable(slots[c], clock)
    /\ slots' = [slots EXCEPT ![c] = Win!FreshSlot(slots[c])]
    /\ UNCHANGED <<clock, lockFor, counters, local, shared>>

Tick ==
    /\ clock < MaxTime
    /\ clock' = clock + 1
    /\ UNCHANGED <<lockFor, counters, slots, local, shared>>

Next == Tick \/ \E c \in Clients : Request(c) \/ Sweep(c)

Spec == Init /\ [][Next]_vars

----------------------------------------------------------------------------
\* What each implementation still remembers that counts at this instant.
InForce(t, since) == IF t # 0 /\ since < t THEN t ELSE 0
Newer(h) == Win!DropAged(h, clock - Window)
OfSlot(s) == [i \in 1 .. s.count |-> Win!Stamp(s, i - 1)]

LocalRecent  == [c \in Clients |-> Newer(counters.hits[c])]
LocalBurst   == [c \in Clients |-> InForce(counters.bursts[c], clock - Window)]
LocalLockout == [c \in Clients |-> InForce(counters.bans[c], clock)]

SharedRecent  == [c \in Clients |-> Newer(OfSlot(slots[c]))]
SharedBurst   == [c \in Clients |-> InForce(slots[c].burst, clock - Window)]
SharedLockout == [c \in Clients |-> InForce(slots[c].ban, clock)]

OfLocal == INSTANCE Limiter WITH
    recent <- LocalRecent, burst <- LocalBurst, lockout <- LocalLockout, answer <- local

OfShared == INSTANCE Limiter WITH
    recent <- SharedRecent, burst <- SharedBurst, lockout <- SharedLockout, answer <- shared

InOrder(h) == \A i, j \in 1 .. Len(h) : i <= j => h[i] <= h[j]

\* Both implementations hold what they must: the rings and deques never hold
\* more than one request past the peak, and their stamps are in order.
TypeOK ==
    /\ clock \in FirstTime .. MaxTime
    /\ lockFor \in LockFors
    /\ \A c \in Clients :
        /\ Len(counters.hits[c]) <= Win!Ring /\ InOrder(counters.hits[c])
        /\ counters.bursts[c] \in 0 .. clock
        /\ counters.bans[c] \in 0 .. clock + lockFor
        /\ slots[c].client \in {c, NoClient}
        /\ slots[c].count \in 0 .. Win!Ring /\ InOrder(OfSlot(slots[c]))
        /\ slots[c].oldest \in 0 .. Win!Ring - 1
        /\ slots[c].ring \in [0 .. Win!Ring - 1 -> 0 .. clock]

\* The dictionaries of LocalCounters answer every request, and remember what
\* they need for the next one, exactly as a Limiter does: whatever the sweep
\* forgets and however late it comes.
LocalIsLimiter == OfLocal!Spec

\* So does a slot of the table, its ring wrapped around or freed by a sweep and
\* taken again: with LocalIsLimiter, both answer the same requests alike.
SharedIsLimiter == OfShared!Spec
============================================================================
