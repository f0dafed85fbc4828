--------------------------- MODULE SharedCounters ---------------------------
(***************************************************************************)
(* The rate limit counters of every worker, in one table of shared memory  *)
(* (src/echocorn/ratelimit.py:323-617).  A worker handles one request at a *)
(* time: it reads the clock, walks the probe run of the client, takes the  *)
(* mutex of each slot's shard in turn, and decides on the slot it finds.   *)
(* What it reads under a mutex and what it writes back are separate steps; *)
(* a worker can be killed between any two of them, its mutex never         *)
(* released, and the clock can move while it waits.                        *)
(***************************************************************************)
EXTENDS SlidingWindow

CONSTANTS
    Workers,    \* the worker processes that attached to the table
    Free,       \* a mutex nobody holds
    Slots,      \* self.slots
    Shards,     \* self.shards
    Probes,     \* PROBES
    SweepEvery, \* self.sweep_every
    SweepStep,  \* self.sweep_step
    MaxLag,     \* bound: units the clock moves while a request is decided
    MaxDeaths,  \* bound: workers that are killed
    MaxTime,    \* bound: units the clock runs for
    MaxRequests \* bound: requests that arrive

ASSUME SharedAssumption ==
    /\ Free \notin Workers
    /\ Slots \in Nat \ {0}
    /\ Shards \in Nat \ {0}
    /\ Probes \in 1 .. Slots
    /\ SweepEvery \in Nat \ {0}
    /\ SweepStep \in Nat \ {0}
    /\ MaxLag \in Nat /\ MaxDeaths \in Nat /\ MaxTime \in Nat \ {0}
    /\ MaxRequests \in Nat
    /\ Ban \in Nat

VARIABLES
    clock,      \* time.monotonic(), one clock for every process
    home,       \* client -> zlib.crc32(packed) % slots
    table,      \* the slots
    lock,       \* shard -> the worker that holds its mutex
    pc,         \* where each worker is
    req,        \* worker -> the request it is deciding
    at,         \* worker -> the slot whose mutex it holds
    seen,       \* worker -> what it read of that slot
    since,      \* worker -> _since_sweep
    cursor,     \* worker -> _sweep_cursor
    left,       \* worker -> slots its sweep has still to visit
    swept,      \* worker -> whether stats["swept"] is above 0
    mapped,     \* worker -> whether self.buf is mapped
    local,      \* worker -> self.local
    arrived,    \* how many requests have arrived, to bound them
    served      \* who counted it -> client -> time -> requests it allowed

vars == <<clock, home, table, lock, pc, req, at, seen, since, cursor, left,
          swept, mapped, local, arrived, served>>

Indices == 0 .. Slots - 1
Times == 1 .. MaxTime
Shard(i) == i % Shards
NoRequest == [client |-> NoClient, now |-> 0, step |-> 0]

\* The slot a client is looked for at its step-th probe.
Probe(c, step) == (home[c] + step) % Slots

\* Who may have counted a request: the table, or a worker on its own.
Table == Free
Counters == Workers \cup {Table}

Init ==
    /\ clock = 1
    /\ home \in [Clients -> Indices]
    /\ table = [i \in Indices |-> EmptySlot]
    /\ lock = [k \in 0 .. Shards - 1 |-> Free]
    /\ pc = [w \in Workers |-> "idle"]
    /\ req = [w \in Workers |-> NoRequest]
    /\ at = [w \in Workers |-> 0]
    /\ seen = [w \in Workers |-> EmptySlot]
    /\ since = [w \in Workers |-> 0]
    /\ cursor = [w \in Workers |-> 0]
    /\ left = [w \in Workers |-> 0]
    /\ swept = [w \in Workers |-> FALSE]
    /\ mapped = [w \in Workers |-> TRUE]
    /\ local = [w \in Workers |-> NoCounters]
    /\ arrived = 0
    /\ served = [k \in Counters |-> [c \in Clients |-> [t \in Times |-> 0]]]

----------------------------------------------------------------------------
Answer(k, c, now, ok) ==
    served' = IF ok THEN [served EXCEPT ![k][c][now] = @ + 1] ELSE served

\* One more request arrives, within the bound.
Count == arrived < MaxRequests /\ arrived' = arrived + 1

\* The request is over: the worker returns to its event loop.
Done(w) ==
    /\ pc' = [pc EXCEPT ![w] = "idle"]
    /\ req' = [req EXCEPT ![w] = NoRequest]

\* Mutant: the fallback answers without keeping what it counted.
CountAloneAndForget(w, c, now) ==
    /\ Answer(w, c, now, Consume(local[w], c, now).answer.ok)
    /\ UNCHANGED local

\* self.local.consume: this worker counts on its own.
CountAlone(w, c, now) ==
    LET r == Consume(local[w], c, now)
    IN  /\ local' = [local EXCEPT ![w] = r.counters]
        /\ Answer(w, c, now, r.answer.ok)

\* Mutant: the slot is read without its mutex.
HoldAnyway(w, i) ==
    /\ lock' = [lock EXCEPT ![Shard(i)] = w]
    /\ at' = [at EXCEPT ![w] = i]
    /\ seen' = [seen EXCEPT ![w] = table[i]]

\* The mutex of slot i is taken, and the slot read.
Hold(w, i) ==
    /\ lock[Shard(i)] = Free
    /\ lock' = [lock EXCEPT ![Shard(i)] = w]
    /\ at' = [at EXCEPT ![w] = i]
    /\ seen' = [seen EXCEPT ![w] = table[i]]

Release(w) ==
    /\ lock' = [lock EXCEPT ![Shard(at[w])] = Free]
    /\ at' = [at EXCEPT ![w] = 0]
    /\ seen' = [seen EXCEPT ![w] = EmptySlot]

----------------------------------------------------------------------------
\* RateLimiter.check reads the clock and hands the request to the table.
Arrive(w, c) ==
    /\ pc[w] = "idle"
    /\ mapped[w]
    /\ Count
    /\ pc' = [pc EXCEPT ![w] = "probe"]
    /\ req' = [req EXCEPT ![w] = [client |-> c, now |-> clock, step |-> 0]]
    /\ UNCHANGED <<clock, home, table, lock, at, seen, since, cursor, left,
                   swept, mapped, local, served>>

\* ... or, once the table is unmapped, to the counters of the process.
ArriveUnmapped(w, c) ==
    /\ pc[w] = "idle"
    /\ ~mapped[w]
    /\ Count
    /\ CountAlone(w, c, clock)
    /\ UNCHANGED <<clock, home, table, lock, pc, req, at, seen, since, cursor,
                   left, swept, mapped>>

\* lock.acquire succeeds and the head of the slot is read.
Acquire(w) ==
    /\ pc[w] = "probe"
    /\ Hold(w, Probe(req[w].client, req[w].step))
    /\ pc' = [pc EXCEPT ![w] = "inspect"]
    /\ UNCHANGED <<clock, home, table, req, since, cursor, left, swept, mapped,
                   local, served, arrived>>

\* Mutant: an acquire without a timeout.
TimeOutNever(w) == pc[w] = "nowhere" /\ UNCHANGED vars

\* Mutant: a slot whose mutex is held is passed by.
TimeOutToNextProbe(w) ==
    /\ pc[w] = "probe"
    /\ lock[Shard(Probe(req[w].client, req[w].step))] # Free
    /\ req[w].step + 1 < Probes
    /\ req' = [req EXCEPT ![w].step = @ + 1]
    /\ UNCHANGED <<clock, home, table, lock, pc, at, seen, since, cursor, left,
                   swept, mapped, local, arrived, served>>

\* lock.acquire times out: the request is counted in this worker alone.
TimeOut(w) ==
    /\ pc[w] = "probe"
    /\ lock[Shard(Probe(req[w].client, req[w].step))] # Free
    /\ CountAlone(w, req[w].client, req[w].now)
    /\ Done(w)
    /\ UNCHANGED <<clock, home, table, lock, at, seen, since, cursor, left,
                   swept, mapped, arrived>>

\* The request is decided: every SweepEvery-th one goes on to sweep.
AfterDecision(w) ==
    IF since[w] + 1 >= SweepEvery
    THEN /\ since' = [since EXCEPT ![w] = 0]
         /\ left' = [left EXCEPT ![w] = SweepStep]
         /\ pc' = [pc EXCEPT ![w] = "sweep"]
         /\ UNCHANGED req
    ELSE /\ since' = [since EXCEPT ![w] = @ + 1]
         /\ Done(w)
         /\ UNCHANGED left

\* The slot is free or the client's own: apply the window, write it back and
\* release the mutex.
TakeSlot(w) ==
    LET c == req[w].client
        s == IF seen[w].client = NoClient THEN FreshSlot(seen[w]) ELSE seen[w]
        r == Decide(s, c, req[w].now)
    IN  /\ pc[w] = "inspect"
        /\ seen[w].client \in {NoClient, c}
        /\ table' = [table EXCEPT ![at[w]] = r.slot]
        /\ Answer(Table, c, req[w].now, r.answer.ok)
        /\ Release(w)
        /\ AfterDecision(w)
        /\ UNCHANGED <<clock, home, cursor, swept, mapped, local, arrived>>

\* The slot is somebody else's: release its mutex and try the next one.
NextProbe(w) ==
    /\ pc[w] = "inspect"
    /\ seen[w].client \notin {NoClient, req[w].client}
    /\ req[w].step + 1 < Probes
    /\ Release(w)
    /\ pc' = [pc EXCEPT ![w] = "probe"]
    /\ req' = [req EXCEPT ![w].step = @ + 1]
    /\ UNCHANGED <<clock, home, table, since, cursor, left, swept, mapped,
                   local, served, arrived>>

\* Every slot of the run is somebody else's: count in this worker alone.
Overflow(w) ==
    /\ pc[w] = "inspect"
    /\ seen[w].client \notin {NoClient, req[w].client}
    /\ req[w].step + 1 = Probes
    /\ Release(w)
    /\ CountAlone(w, req[w].client, req[w].now)
    /\ Done(w)
    /\ UNCHANGED <<clock, home, table, since, cursor, left, swept, mapped, arrived>>

\* Mutant: the sweep visits one slot more.
SweepOnAndOn(w) ==
    /\ left' = [left EXCEPT ![w] = @ - 1]
    /\ IF left[w] = 0
       THEN Done(w)
       ELSE pc' = [pc EXCEPT ![w] = "sweep"] /\ UNCHANGED req

\* The sweep goes on to its next slot, or is over.
SweepOn(w) ==
    /\ left' = [left EXCEPT ![w] = @ - 1]
    /\ IF left[w] = 1
       THEN Done(w)
       ELSE pc' = [pc EXCEPT ![w] = "sweep"] /\ UNCHANGED req

\* The sweep takes the mutex of the slot under the cursor ...
SweepVisit(w) ==
    /\ pc[w] = "sweep"
    /\ Hold(w, cursor[w])
    /\ cursor' = [cursor EXCEPT ![w] = (@ + 1) % Slots]
    /\ pc' = [pc EXCEPT ![w] = "clear"]
    /\ UNCHANGED <<clock, home, table, req, since, left, swept, mapped, local,
                   served, arrived>>

\* ... or passes it by when somebody else has it.
SweepSkip(w) ==
    /\ pc[w] = "sweep"
    /\ lock[Shard(cursor[w])] # Free
    /\ cursor' = [cursor EXCEPT ![w] = (@ + 1) % Slots]
    /\ SweepOn(w)
    /\ UNCHANGED <<clock, home, table, lock, at, seen, since, swept, mapped,
                   local, served, arrived>>

\* The slot is cleared when it has aged out; the mutex is released either way.
SweepClear(w) ==
    /\ pc[w] = "clear"
    /\ IF Sweepable(seen[w], req[w].now)
       THEN /\ table' = [table EXCEPT ![at[w]] = FreshSlot(seen[w])]
            /\ swept' = [swept EXCEPT ![w] = TRUE]
       ELSE UNCHANGED <<table, swept>>
    /\ Release(w)
    /\ SweepOn(w)
    /\ UNCHANGED <<clock, home, since, cursor, mapped, local, served, arrived>>

\* A worker is killed; a mutex it holds is never released.  (One killed in its
\* event loop is one to which no further request arrives.)
Die(w) ==
    /\ pc[w] \notin {"idle", "dead"}
    /\ Cardinality({v \in Workers : pc[v] = "dead"}) < MaxDeaths
    /\ pc' = [pc EXCEPT ![w] = "dead"]
    /\ UNCHANGED <<clock, home, table, lock, req, at, seen, since, cursor, left,
                   swept, mapped, local, served, arrived>>

\* close(): the worker shuts down and unmaps the table.
Close(w) ==
    /\ pc[w] = "idle"
    /\ mapped[w]
    /\ mapped' = [mapped EXCEPT ![w] = FALSE]
    /\ UNCHANGED <<clock, home, table, lock, pc, req, at, seen, since, cursor,
                   left, swept, local, served, arrived>>

\* The clock moves, no further than MaxLag past a request being decided.
Tick ==
    /\ clock < MaxTime
    /\ \A w \in Workers : pc[w] \in {"idle", "dead"} \/ clock - req[w].now < MaxLag
    /\ clock' = clock + 1
    /\ UNCHANGED <<home, table, lock, pc, req, at, seen, since, cursor, left,
                   swept, mapped, local, served, arrived>>

----------------------------------------------------------------------------
\* What a worker does by itself, once a request has arrived.
Step(w) ==
    \/ Acquire(w) \/ TimeOut(w) \/ TakeSlot(w) \/ NextProbe(w) \/ Overflow(w)
    \/ SweepVisit(w) \/ SweepSkip(w) \/ SweepClear(w)

Next ==
    \/ Tick
    \/ \E w \in Workers :
        \/ Step(w) \/ Die(w) \/ Close(w)
        \/ \E c \in Clients : Arrive(w, c) \/ ArriveUnmapped(w, c)

\* consume() runs to its end without giving the processor back to the event
\* loop: a worker that is not killed takes its next step.
Fairness == \A w \in Workers : WF_vars(Step(w))

Spec == Init /\ [][Next]_vars
FairSpec == Spec /\ Fairness

----------------------------------------------------------------------------
SlotType == [client : Clients \cup {NoClient}, ban : Nat, burst : Nat,
             count : 0 .. Ring, oldest : 0 .. Ring - 1,
             ring : [0 .. Ring - 1 -> Nat]]

TypeOK ==
    /\ clock \in Nat
    /\ home \in [Clients -> Indices]
    /\ table \in [Indices -> SlotType]
    /\ lock \in [0 .. Shards - 1 -> Workers \cup {Free}]
    /\ pc \in [Workers -> {"idle", "probe", "inspect", "sweep", "clear", "dead"}]
    /\ req \in [Workers -> [client : Clients \cup {NoClient}, now : Nat, step : 0 .. Probes - 1]]
    /\ at \in [Workers -> Indices]
    /\ seen \in [Workers -> SlotType]
    /\ since \in [Workers -> 0 .. SweepEvery - 1]
    /\ cursor \in [Workers -> Indices]
    /\ left \in [Workers -> 0 .. SweepStep]
    /\ swept \in [Workers -> BOOLEAN]
    /\ mapped \in [Workers -> BOOLEAN]

\* Between reading a slot and writing it back a worker holds the mutex of the
\* slot's shard, and the slot is still what it read: no decision and no sweep
\* of another worker is lost, wherever a worker is killed.
NoLostUpdate ==
    \A w \in Workers :
        pc[w] \in {"inspect", "clear"} =>
            /\ lock[Shard(at[w])] = w
            /\ table[at[w]] = seen[w]

\* As long as no slot was swept, a client has one slot, however its probe run
\* meets those of others and however many workers look for it at once.
OneSlotPerClient ==
    (\A w \in Workers : ~swept[w]) =>
        \A i, j \in Indices :
            (table[i].client = table[j].client /\ table[i].client # NoClient) => i = j

----------------------------------------------------------------------------
\* The requests a window really admits: the allowance and one burst.
Allowance == IF EffectivePeak > Requests THEN Requests + 1 ELSE Requests

\* What f counts from one time to another, one by one.
Counted(f, from, to) == UNION {{t} \X (1 .. f[t]) : t \in from .. to}

ServedIn(k, c, from, to) == Cardinality(Counted(served[k][c], from, to))

\* No other client is ever looked for in the slots of c.
Alone(c) ==
    \A d \in Clients \ {c}, i, j \in 0 .. Probes - 1 : Probe(c, i) # Probe(d, j)

(***************************************************************************)
(* The workers together never serve a client more than one allowance (and  *)
(* its one burst) in a window, less twice what the clock may move during a *)
(* decision: a stamp can reach the ring after younger ones, and a sweep    *)
(* takes the last of them for the newest.  It is stated for a client whose *)
(* slots nobody else uses, and for every client while nothing was swept.   *)
(***************************************************************************)
AllowanceHeld ==
    \A c \in Clients, t \in Times :
        (Alone(c) \/ \A w \in Workers : ~swept[w]) =>
            ServedIn(Table, c, t, Min({MaxTime, t + Window - 2 * MaxLag - 1})) <= Allowance

\* A worker that counts alone still holds a client to one allowance, as long as
\* its dictionary has room for every client.
AloneAllowanceHeld ==
    Capacity >= Cardinality(Clients) =>
        \A w \in Workers, c \in Clients, t \in Times :
            ServedIn(w, c, t, Min({MaxTime, t + Window - 1})) <= Allowance

\* A lockout ends when its time is over and not before: no sweep, eviction or
\* concurrent decision forgets it, in the table or in a worker.
LockoutKept ==
    [][ /\ \A i \in Indices : table[i].ban > clock => table'[i].ban = table[i].ban
        /\ \A w \in Workers, c \in Clients :
              local[w].bans[c] > clock => local'[w].bans[c] = local[w].bans[c] ]_vars

\* A request that reached the limiter is answered, a dead worker's mutex or not.
Answered ==
    \A w \in Workers : (pc[w] = "probe") ~> (pc[w] \in {"idle", "dead"})

(***************************************************************************)
(* "That is what makes the decision exact no matter how many workers the   *)
(* server runs: the counters are one set" (ratelimit.py:30-31): the table  *)
(* never serves a client one of whose slots has a lockout in force.        *)
(***************************************************************************)
LockoutEnforced ==
    [][ \A c \in Clients, t \in Times :
          served'[Table][c][t] > served[Table][c][t] =>
              \A i \in Indices : table[i].client = c => table[i].ban <= t ]_vars

============================================================================
