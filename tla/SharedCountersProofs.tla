----------------------- MODULE SharedCountersProofs -----------------------
(***************************************************************************)
(* What SharedCounters guarantees for any number of workers, clients,      *)
(* slots and shards, and any sweep and window: its types, that no update   *)
(* of a slot is lost, that a client has one slot until a sweep, that no    *)
(* lockout is forgotten, and that no client is served more than it is      *)
(* allowed, by the table or by a worker that counts alone.                 *)
(***************************************************************************)
EXTENDS SharedCounters, TLAPS, WellFoundedInduction, FiniteSetTheorems

----------------------------------------------------------------------------
\* Arithmetic the slots rest on.

\* A non-empty set of naturals has a least element.
LEMMA LeastNatural ==
    ASSUME NEW S, S \subseteq Nat, S # {}
    PROVE  \E x \in S : \A y \in S : x <= y
<1> DEFINE R == OpToRel(<, Nat)
<1>1. IsWellFoundedOn(R, Nat)
  BY NatLessThanWellFounded
<1>2. \A x, y \in Nat : <<x, y>> \in R <=> x < y
  BY DEF OpToRel
<1> HIDE DEF R
<1>3. PICK x \in S : \A y \in S : ~ (<<y, x>> \in R)
  BY <1>1, WFMin
<1>4. \A y \in S : ~ (y < x)
  BY <1>2, <1>3
<1>5. \A y \in S : x <= y
  BY <1>4, SMT
<1> QED BY <1>5

\* A remainder is an index of what it is the remainder of.
LEMMA ModIndex ==
    ASSUME NEW a \in Nat, NEW n \in Nat \ {0}
    PROVE  a % n \in 0 .. n - 1
  BY SMT

\* The peak is at least the allowance, and the ring is never empty.
LEMMA PeakType ==
    /\ EffectivePeak \in Nat
    /\ EffectivePeak >= Requests
    /\ Ring \in Nat \ {0}
  BY WindowAssumption DEF EffectivePeak, Ring

\* A sum of two indices runs at most once over the end.
LEMMA ModSum ==
    ASSUME NEW n \in Nat \ {0}, NEW a \in 0 .. n - 1, NEW b \in 0 .. n
    PROVE  (a + b) % n = IF a + b < n THEN a + b ELSE a + b - n
  BY SMTT(60)

\* The least of two numbers.
LEMMA MinOfTwo ==
    ASSUME NEW a \in Int, NEW b \in Int
    PROVE  Min({a, b}) \in Int /\ Min({a, b}) <= a /\ Min({a, b}) <= b
<1> DEFINE m == IF a <= b THEN a ELSE b
           Least(x) == x \in {a, b} /\ \A y \in {a, b} : x <= y
<1>1. Least(m)
  OBVIOUS
<1>2. \E x : Least(x)
  BY <1>1
<1>3. Min({a, b}) = CHOOSE x \in {a, b} : \A y \in {a, b} : x <= y
  BY DEF Min
<1>4. Least(CHOOSE x : Least(x))
  BY <1>2
<1>5. (CHOOSE x \in {a, b} : \A y \in {a, b} : x <= y) \in {a, b}
      /\ \A y \in {a, b} : (CHOOSE x \in {a, b} : \A z \in {a, b} : x <= z) <= y
  BY <1>1
<1> QED BY <1>3, <1>5

\* A probe is the index of a slot.
LEMMA ProbeType ==
    ASSUME home \in [Clients -> Indices], NEW c \in Clients, NEW step \in Nat
    PROVE  Probe(c, step) \in Indices
<1>1. home[c] + step \in Nat
  BY DEF Indices
<1>2. Slots \in Nat \ {0}
  BY SharedAssumption
<1> QED BY <1>1, <1>2, ModIndex DEF Probe, Indices

\* A slot belongs to one of the shards.
LEMMA ShardType ==
    ASSUME NEW i \in Indices
    PROVE  Shard(i) \in 0 .. Shards - 1
<1>1. i \in Nat /\ Shards \in Nat \ {0}
  BY SharedAssumption DEF Indices
<1> QED BY <1>1, ModIndex DEF Shard

----------------------------------------------------------------------------
\* The slot: its types, and whose it is after a decision.

\* A stamp that is read from the ring is a time.
LEMMA StampType ==
    ASSUME NEW s \in SlotType, NEW i \in Nat
    PROVE  Stamp(s, i) \in Nat
<1>1. s.oldest + i \in Nat /\ s.ring \in [0 .. Ring - 1 -> Nat]
  BY PeakType DEF SlotType
<1>2. (s.oldest + i) % Ring \in 0 .. Ring - 1
  BY <1>1, PeakType, ModIndex
<1> QED BY <1>1, <1>2 DEF Stamp

\* The front of a ring loses no more than it holds, and nothing that is young.
LEMMA AgedOutType ==
    ASSUME NEW s \in SlotType, NEW edge \in Int
    PROVE  /\ AgedOut(s, edge) \in 0 .. s.count
           /\ \A j \in 0 .. AgedOut(s, edge) - 1 : Stamp(s, j) <= edge
<1> DEFINE S == {k \in 0 .. s.count : k = s.count \/ Stamp(s, k) > edge}
           Ok(k) == /\ \A j \in 0 .. k - 1 : Stamp(s, j) <= edge
                    /\ k = s.count \/ Stamp(s, k) > edge
<1>1. s.count \in Nat
  BY PeakType DEF SlotType
<1>2. S \subseteq Nat /\ S # {}
  <2>1. s.count \in S
    BY <1>1
  <2> QED BY <1>1, <2>1
<1>3. PICK x \in S : \A y \in S : x <= y
  BY <1>2, LeastNatural
<1>4. x \in 0 .. s.count
  BY <1>3
<1>5. ASSUME NEW j \in 0 .. x - 1
      PROVE  Stamp(s, j) <= edge
  <2>1. j \in 0 .. s.count /\ j \in Nat /\ j < x
    BY <1>1, <1>4
  <2>2. j \notin S
    BY <1>3, <2>1
  <2>3. ~ (Stamp(s, j) > edge)
    BY <2>1, <2>2
  <2> QED BY <2>1, <2>3, StampType
<1>6. \E k \in 0 .. s.count : Ok(k)
  BY <1>3, <1>4, <1>5
<1>7. AgedOut(s, edge) = CHOOSE k \in 0 .. s.count : Ok(k)
  BY DEF AgedOut
<1> HIDE DEF Ok
<1>8. AgedOut(s, edge) \in 0 .. s.count /\ Ok(AgedOut(s, edge))
  BY <1>6, <1>7
<1> QED BY <1>8 DEF Ok

\* A slot that nobody has is a slot,
LEMMA EmptySlotType == EmptySlot \in SlotType
  BY PeakType DEF EmptySlot, SlotType

\* and so is one that is given up, which keeps neither its client nor its ban.
LEMMA FreshSlotType ==
    ASSUME NEW s \in SlotType
    PROVE  FreshSlot(s) \in SlotType /\ FreshSlot(s).client = NoClient /\ FreshSlot(s).ban = 0
<1>1. s.ring \in [0 .. Ring - 1 -> Nat] /\ Ring \in Nat \ {0}
  BY PeakType DEF SlotType
<1>2. FreshSlot(s) = [client |-> NoClient, ban |-> 0, burst |-> 0, count |-> 0,
                      oldest |-> 0, ring |-> s.ring]
  BY DEF FreshSlot, EmptySlot
<1> QED BY <1>1, <1>2 DEF SlotType

\* A decision leaves a well-formed slot, and the slot of the client it was for.
LEMMA DecideType ==
    ASSUME NEW s \in SlotType, NEW c \in Clients, NEW now \in Nat,
           s.client = c \/ s.ban = 0
    PROVE  /\ Decide(s, c, now).slot \in SlotType
           /\ Decide(s, c, now).slot.client = c
<1> DEFINE gone   == AgedOut(s, now - Window)
           oldest == (s.oldest + gone) % Ring
           kept   == s.count - gone
           full   == RingFull(kept)
           ring   == IF full THEN s.ring ELSE [s.ring EXCEPT ![(oldest + kept) % Ring] = now]
           count  == IF full THEN kept ELSE kept + 1
           t      == [client |-> c, ban |-> 0, burst |-> s.burst, count |-> count,
                      oldest |-> oldest, ring |-> ring]
           d      == Decide(s, c, now).slot
<1>1. CASE s.ban # 0 /\ now < s.ban
  BY <1>1 DEF Decide
<1>2. CASE ~ (s.ban # 0 /\ now < s.ban)
  <2>1. gone \in 0 .. s.count /\ s.count \in 0 .. Ring /\ Ring \in Nat \ {0}
    <3>1. now - Window \in Int
      BY WindowAssumption
    <3>2. gone \in 0 .. s.count
      BY <3>1, AgedOutType
    <3> QED BY <3>2, PeakType DEF SlotType
  <2>2. s.oldest + gone \in Nat /\ kept \in 0 .. Ring
    BY <2>1 DEF SlotType
  <2>3. oldest \in 0 .. Ring - 1
    BY <2>1, <2>2, ModIndex
  <2>4. oldest + kept \in Nat
    BY <2>2, <2>3
  <2>5. (oldest + kept) % Ring \in 0 .. Ring - 1
    BY <2>1, <2>4, ModIndex
  <2>6. s.ring \in [0 .. Ring - 1 -> Nat] /\ s.burst \in Nat
    BY DEF SlotType
  <2> HIDE DEF oldest, kept
  <2>7. ring \in [0 .. Ring - 1 -> Nat]
    BY <2>5, <2>6
  <2>8. count \in 0 .. Ring
    BY <2>1, <2>2 DEF RingFull
  <2> HIDE DEF ring, count, full
  <2>9. t \in SlotType /\ t.client = c
    BY <2>3, <2>6, <2>7, <2>8 DEF SlotType
  <2> HIDE DEF t
  <2>10. /\ [t EXCEPT !.burst = now] \in SlotType
         /\ [t EXCEPT !.burst = now].client = c
    BY <2>9 DEF SlotType
  <2>11. /\ [t EXCEPT !.ban = now + Ban] \in SlotType
         /\ [t EXCEPT !.ban = now + Ban].client = c
    <3>1. now + Ban \in Nat
      BY SharedAssumption
    <3> QED BY <3>1, <2>9 DEF SlotType
  <2>12. d \in {t, [t EXCEPT !.burst = now], [t EXCEPT !.ban = now + Ban]}
    <3> DEFINE spike == count <= EffectivePeak /\ (s.burst = 0 \/ now - s.burst >= Window)
    <3>1. CASE count <= Requests
      BY <1>2, <3>1 DEF Decide, t, count, ring, full, oldest, kept
    <3>2. CASE count > Requests
      <4>1. ~ (count <= Requests)
        BY <3>2, <2>8, PeakType, WindowAssumption
      <4>2. d = (CASE spike -> [t EXCEPT !.burst = now]
                  [] ~spike /\ Ban > 0 -> [t EXCEPT !.ban = now + Ban]
                  [] OTHER -> t)
        BY <1>2, <3>2, <4>1 DEF Decide, t, count, ring, full, oldest, kept
      <4> QED BY <4>2
    <3>3. count <= Requests \/ count > Requests
      BY <2>8, PeakType, WindowAssumption
    <3> QED BY <3>1, <3>2, <3>3
  <2> QED BY <2>9, <2>10, <2>11, <2>12
<1> QED BY <1>1, <1>2

----------------------------------------------------------------------------
\* Types.

\* A worker past its arrival has a client, and a sweep that goes on has slots
\* left to visit.
Busy ==
    \A w \in Workers :
        /\ pc[w] \in {"probe", "inspect", "sweep", "clear"} => req[w].client \in Clients
        /\ pc[w] \in {"sweep", "clear"} => left[w] \in 1 .. SweepStep

TypeInv == TypeOK /\ Busy

\* The types hold at the start,
LEMMA InitTypeInv == Init => TypeInv
  BY EmptySlotType, SharedAssumption DEF Init, TypeInv, TypeOK, Busy, Indices, NoRequest

\* every step of a worker or of the clock keeps them,
LEMMA NextTypeInv == TypeInv /\ [Next]_vars => TypeInv'
<1> SUFFICES ASSUME TypeInv, [Next]_vars PROVE TypeInv'
  OBVIOUS
<1> USE DEF TypeInv, TypeOK, Busy
<1>0. /\ Slots \in Nat \ {0} /\ Probes \in Nat \ {0} /\ Probes <= Slots
      /\ SweepEvery \in Nat \ {0} /\ SweepStep \in Nat \ {0} /\ Free \notin Workers
      /\ 0 \in Indices
  BY SharedAssumption DEF Indices
<1>r. NoRequest \in [client : Clients \cup {NoClient}, now : Nat, step : 0 .. Probes - 1]
  BY <1>0 DEF NoRequest
<1>1. CASE UNCHANGED vars
  BY <1>1 DEF vars
<1>2. CASE Tick
  BY <1>2 DEF Tick
<1>3. ASSUME NEW w \in Workers, NEW c \in Clients, Arrive(w, c)
      PROVE  TypeInv'
  <2>1. [client |-> c, now |-> clock, step |-> 0]
          \in [client : Clients \cup {NoClient}, now : Nat, step : 0 .. Probes - 1]
    BY <1>0
  <2> QED BY <1>3, <2>1 DEF Arrive
<1>4. ASSUME NEW w \in Workers, NEW c \in Clients, ArriveUnmapped(w, c)
      PROVE  TypeInv'
  BY <1>4 DEF ArriveUnmapped
<1>5. ASSUME NEW w \in Workers, Acquire(w)
      PROVE  TypeInv'
  <2>1. Probe(req[w].client, req[w].step) \in Indices
    BY <1>0, <1>5, ProbeType DEF Acquire
  <2>2. Shard(Probe(req[w].client, req[w].step)) \in 0 .. Shards - 1
    BY <2>1, ShardType
  <2> QED BY <1>5, <2>1, <2>2 DEF Acquire, Hold
<1>6. ASSUME NEW w \in Workers, TimeOut(w)
      PROVE  TypeInv'
  BY <1>6, <1>r DEF TimeOut, Done
<1>7. ASSUME NEW w \in Workers, TakeSlot(w)
      PROVE  TypeInv'
  <2> DEFINE c == req[w].client
             s == IF seen[w].client = NoClient THEN FreshSlot(seen[w]) ELSE seen[w]
             r == Decide(s, c, req[w].now)
  <2>1. c \in Clients /\ req[w].now \in Nat /\ at[w] \in Indices
    BY <1>7 DEF TakeSlot
  <2>2. s \in SlotType /\ (s.client = c \/ s.ban = 0)
    BY <1>7, FreshSlotType DEF TakeSlot
  <2>3. r.slot \in SlotType
    BY <2>1, <2>2, DecideType
  <2>4. table' \in [Indices -> SlotType]
    BY <1>7, <2>1, <2>3 DEF TakeSlot
  <2>5. /\ lock' \in [0 .. Shards - 1 -> Workers \cup {Free}]
        /\ at' \in [Workers -> Indices]
        /\ seen' \in [Workers -> SlotType]
    BY <1>0, <1>7, <2>1, EmptySlotType, ShardType DEF TakeSlot, Release
  <2>6. /\ pc' \in [Workers -> {"idle", "probe", "inspect", "sweep", "clear", "dead"}]
        /\ req' \in [Workers -> [client : Clients \cup {NoClient}, now : Nat, step : 0 .. Probes - 1]]
        /\ since' \in [Workers -> 0 .. SweepEvery - 1]
        /\ left' \in [Workers -> 0 .. SweepStep]
        /\ pc[w] = "inspect" /\ pc'[w] # "inspect" /\ pc'[w] # "probe"
        /\ pc'[w] # "idle" => pc'[w] = "sweep" /\ req' = req /\ left'[w] = SweepStep
        /\ \A v \in Workers \ {w} : pc'[v] = pc[v] /\ req'[v] = req[v] /\ left'[v] = left[v]
    <3>1. CASE since[w] + 1 >= SweepEvery
      <4>1. /\ since' = [since EXCEPT ![w] = 0]
            /\ left' = [left EXCEPT ![w] = SweepStep]
            /\ pc' = [pc EXCEPT ![w] = "sweep"]
            /\ req' = req /\ pc[w] = "inspect"
        BY <1>7, <3>1 DEF TakeSlot, AfterDecision
      <4> QED BY <1>0, <4>1
    <3>2. CASE ~ (since[w] + 1 >= SweepEvery)
      <4>1. /\ since' = [since EXCEPT ![w] = @ + 1]
            /\ left' = left /\ pc[w] = "inspect"
            /\ pc' = [pc EXCEPT ![w] = "idle"]
            /\ req' = [req EXCEPT ![w] = NoRequest]
        BY <1>7, <3>2 DEF TakeSlot, AfterDecision, Done
      <4>2. since[w] + 1 \in 0 .. SweepEvery - 1
        BY <1>0, <3>2
      <4> QED BY <1>r, <4>1, <4>2
    <3> QED BY <3>1, <3>2
  <2>7. Busy'
    <3>1. ASSUME NEW v \in Workers \ {w}
          PROVE  /\ pc'[v] \in {"probe", "inspect", "sweep", "clear"} => req'[v].client \in Clients
                 /\ pc'[v] \in {"sweep", "clear"} => left'[v] \in 1 .. SweepStep
      <4>1. pc'[v] = pc[v] /\ req'[v] = req[v] /\ left'[v] = left[v]
        BY <2>6
      <4> QED BY <4>1
    <3>2. /\ pc'[w] \in {"probe", "inspect", "sweep", "clear"} => req'[w].client \in Clients
          /\ pc'[w] \in {"sweep", "clear"} => left'[w] \in 1 .. SweepStep
      <4>1. CASE pc'[w] = "idle"
        BY <4>1
      <4>2. CASE pc'[w] # "idle"
        BY <1>0, <2>1, <2>6, <4>2
      <4> QED BY <4>1, <4>2
    <3> QED BY <3>1, <3>2
  <2> QED BY <1>7, <2>4, <2>5, <2>6, <2>7 DEF TakeSlot
<1>8. ASSUME NEW w \in Workers, NextProbe(w)
      PROVE  TypeInv'
  <2>1. req[w].step + 1 \in 0 .. Probes - 1
    BY <1>0, <1>8 DEF NextProbe
  <2>2. /\ lock' \in [0 .. Shards - 1 -> Workers \cup {Free}]
        /\ at' \in [Workers -> Indices]
        /\ seen' \in [Workers -> SlotType]
    BY <1>0, <1>8, EmptySlotType, ShardType DEF NextProbe, Release
  <2>3. req' \in [Workers -> [client : Clients \cup {NoClient}, now : Nat, step : 0 .. Probes - 1]]
    <3>0. req[w] \in [client : Clients \cup {NoClient}, now : Nat, step : 0 .. Probes - 1]
      OBVIOUS
    <3>1. [req[w] EXCEPT !.step = @ + 1]
            \in [client : Clients \cup {NoClient}, now : Nat, step : 0 .. Probes - 1]
      BY ONLY <2>1, <3>0
    <3>2. req' = [req EXCEPT ![w] = [req[w] EXCEPT !.step = @ + 1]]
      BY <1>8 DEF NextProbe
    <3> QED BY <3>1, <3>2
  <2> QED BY <1>8, <2>2, <2>3 DEF NextProbe
<1>9. ASSUME NEW w \in Workers, Overflow(w)
      PROVE  TypeInv'
  <2>1. /\ lock' \in [0 .. Shards - 1 -> Workers \cup {Free}]
        /\ at' \in [Workers -> Indices]
        /\ seen' \in [Workers -> SlotType]
    BY <1>0, <1>9, EmptySlotType, ShardType DEF Overflow, Release
  <2> QED BY <1>9, <1>r, <2>1 DEF Overflow, Done
<1>10. ASSUME NEW w \in Workers, SweepVisit(w)
       PROVE  TypeInv'
  <2>1. cursor[w] \in Indices /\ (cursor[w] + 1) % Slots \in Indices
    <3>1. cursor[w] \in Indices /\ cursor[w] + 1 \in Nat
      BY DEF Indices
    <3> QED BY <1>0, <3>1, ModIndex DEF Indices
  <2> QED BY <1>10, <2>1, ShardType DEF SweepVisit, Hold
<1>11. ASSUME NEW w \in Workers, SweepOn(w), left[w] \in 1 .. SweepStep,
              pc[w] \in {"sweep", "clear"}
       PROVE  /\ pc' \in [Workers -> {"idle", "probe", "inspect", "sweep", "clear", "dead"}]
              /\ req' \in [Workers -> [client : Clients \cup {NoClient}, now : Nat, step : 0 .. Probes - 1]]
              /\ left' \in [Workers -> 0 .. SweepStep]
              /\ Busy'
  <2>1. left' = [left EXCEPT ![w] = left[w] - 1] /\ left[w] - 1 \in 0 .. SweepStep
    BY <1>0, <1>11 DEF SweepOn
  <2>2. left' \in [Workers -> 0 .. SweepStep]
    BY <2>1
  <2>3. CASE left[w] = 1
    <3>1. pc' = [pc EXCEPT ![w] = "idle"] /\ req' = [req EXCEPT ![w] = NoRequest]
      BY <1>11, <2>3 DEF SweepOn, Done
    <3>2. Busy'
      BY <2>1, <3>1
    <3> QED BY <1>r, <2>2, <3>1, <3>2
  <2>4. CASE left[w] # 1
    <3>1. pc' = [pc EXCEPT ![w] = "sweep"] /\ req' = req
      BY <1>11, <2>4 DEF SweepOn
    <3>2. left[w] - 1 \in 1 .. SweepStep
      BY <1>0, <1>11, <2>4
    <3>3. Busy'
      BY <1>11, <2>1, <3>1, <3>2
    <3> QED BY <2>2, <3>1, <3>3
  <2> QED BY <2>3, <2>4
<1>12. ASSUME NEW w \in Workers, SweepSkip(w)
       PROVE  TypeInv'
  <2>1. (cursor[w] + 1) % Slots \in Indices
    <3>1. cursor[w] \in Indices /\ cursor[w] + 1 \in Nat
      BY DEF Indices
    <3> QED BY <1>0, <3>1, ModIndex DEF Indices
  <2> QED BY <1>11, <1>12, <2>1 DEF SweepSkip
<1>13. ASSUME NEW w \in Workers, SweepClear(w)
       PROVE  TypeInv'
  <2>1. /\ lock' \in [0 .. Shards - 1 -> Workers \cup {Free}]
        /\ at' \in [Workers -> Indices]
        /\ seen' \in [Workers -> SlotType]
    BY <1>0, <1>13, EmptySlotType, ShardType DEF SweepClear, Release
  <2>2. FreshSlot(seen[w]) \in SlotType
    BY FreshSlotType
  <2>3. table' \in [Indices -> SlotType] /\ swept' \in [Workers -> BOOLEAN]
    BY <1>13, <2>2 DEF SweepClear
  <2> QED BY <1>11, <1>13, <2>1, <2>3 DEF SweepClear
<1>14. ASSUME NEW w \in Workers, Die(w) \/ Close(w)
       PROVE  TypeInv'
  BY <1>14 DEF Die, Close
<1> QED BY <1>1, <1>2, <1>3, <1>4, <1>5, <1>6, <1>7, <1>8, <1>9, <1>10, <1>12,
           <1>13, <1>14 DEF Next, Step

\* and so they always hold.
LEMMA TypeInvariance == Spec => []TypeInv
  BY InitTypeInv, NextTypeInv, PTL DEF Spec

\* Every variable keeps its type, whatever the workers do and wherever one is
\* killed: a probe never leaves its run, a sweep never visits a slot that does
\* not exist, and a ring never holds more than it has room for.
THEOREM TypeCorrect == Spec => []TypeOK
<1>1. TypeInv => TypeOK
  BY DEF TypeInv
<1> QED BY <1>1, TypeInvariance, PTL

----------------------------------------------------------------------------
\* No lost update.

Holding(w) == pc[w] \in {"inspect", "clear"}

\* Two workers never hold slots of the same shard.
LEMMA OneHolder ==
    ASSUME NoLostUpdate, NEW v \in Workers, NEW w \in Workers, v # w,
           Holding(v), Holding(w)
    PROVE  Shard(at[v]) # Shard(at[w]) /\ at[v] # at[w]
  BY DEF NoLostUpdate, Holding

\* A worker that takes a free mutex takes it from nobody.
LEMMA HoldKeeps ==
    ASSUME TypeInv, NoLostUpdate, NEW w \in Workers, NEW i \in Indices, Hold(w, i),
           table' = table, \A v \in Workers \ {w} : pc'[v] = pc[v]
    PROVE  NoLostUpdate'
<1>1. Free \notin Workers
  BY SharedAssumption
<1>2. lock \in [0 .. Shards - 1 -> Workers \cup {Free}]
      /\ at \in [Workers -> Indices] /\ seen \in [Workers -> SlotType]
  BY DEF TypeInv, TypeOK
<1>3. lock'[Shard(i)] = w /\ at'[w] = i /\ seen'[w] = table[i] /\ lock[Shard(i)] = Free
  BY <1>2, ShardType DEF Hold
<1>4. ASSUME NEW v \in Workers \ {w}, pc'[v] \in {"inspect", "clear"}
      PROVE  lock'[Shard(at'[v])] = v /\ table'[at'[v]] = seen'[v]
  <2>1. pc[v] \in {"inspect", "clear"} /\ at'[v] = at[v] /\ seen'[v] = seen[v]
    BY <1>2, <1>4 DEF Hold
  <2>2. lock[Shard(at[v])] = v /\ table[at[v]] = seen[v]
    BY <2>1 DEF NoLostUpdate
  <2>3. Shard(at[v]) # Shard(i)
    BY <1>1, <1>3, <2>2
  <2> QED BY <1>2, <2>1, <2>2, <2>3 DEF Hold
<1> QED BY <1>3, <1>4 DEF NoLostUpdate, Shard

\* A worker that releases its mutex, having written its own slot or none,
\* disturbs nobody else's.
LEMMA ReleaseKeeps ==
    ASSUME TypeInv, NoLostUpdate, NEW w \in Workers, Holding(w), Release(w),
           \A i \in Indices \ {at[w]} : table'[i] = table[i],
           ~ Holding(w)', \A v \in Workers \ {w} : pc'[v] = pc[v]
    PROVE  NoLostUpdate'
<1>1. lock \in [0 .. Shards - 1 -> Workers \cup {Free}]
      /\ at \in [Workers -> Indices] /\ seen \in [Workers -> SlotType]
  BY DEF TypeInv, TypeOK
<1>2. ASSUME NEW v \in Workers \ {w}, pc'[v] \in {"inspect", "clear"}
      PROVE  lock'[Shard(at'[v])] = v /\ table'[at'[v]] = seen'[v]
  <2>1. Holding(v) /\ at'[v] = at[v] /\ seen'[v] = seen[v]
    BY <1>1, <1>2 DEF Release, Holding
  <2>2. lock[Shard(at[v])] = v /\ table[at[v]] = seen[v]
    BY <2>1 DEF NoLostUpdate, Holding
  <2>3. Shard(at[v]) # Shard(at[w]) /\ at[v] # at[w]
    BY <2>1, OneHolder
  <2>4. lock'[Shard(at[v])] = lock[Shard(at[v])]
    BY <1>1, <2>3 DEF Release
  <2>5. table'[at[v]] = table[at[v]]
    BY <1>1, <2>3
  <2> QED BY <2>1, <2>2, <2>4, <2>5
<1> QED BY <1>2 DEF NoLostUpdate, Holding

\* No step of another worker changes the slot that a worker decided on.
LEMMA NextNoLostUpdate == TypeInv /\ NoLostUpdate /\ [Next]_vars => NoLostUpdate'
<1> SUFFICES ASSUME TypeInv, NoLostUpdate, [Next]_vars PROVE NoLostUpdate'
  OBVIOUS
<1>0. /\ pc \in [Workers -> {"idle", "probe", "inspect", "sweep", "clear", "dead"}]
      /\ table \in [Indices -> SlotType] /\ at \in [Workers -> Indices]
      /\ cursor \in [Workers -> Indices]
  BY DEF TypeInv, TypeOK
<1>1. CASE UNCHANGED vars
  BY <1>1 DEF vars, NoLostUpdate
<1>2. CASE Tick
  BY <1>2 DEF Tick, NoLostUpdate
<1>3. ASSUME NEW w \in Workers, NEW c \in Clients, Arrive(w, c) \/ ArriveUnmapped(w, c)
      PROVE  NoLostUpdate'
  BY <1>0, <1>3 DEF Arrive, ArriveUnmapped, NoLostUpdate
<1>4. ASSUME NEW w \in Workers, Acquire(w)
      PROVE  NoLostUpdate'
  <2>1. Probe(req[w].client, req[w].step) \in Indices
    BY <1>4, ProbeType, SharedAssumption DEF Acquire, TypeInv, TypeOK, Busy
  <2> QED BY <1>0, <1>4, <2>1, HoldKeeps DEF Acquire
<1>5. ASSUME NEW w \in Workers, TimeOut(w)
      PROVE  NoLostUpdate'
  BY <1>0, <1>5 DEF TimeOut, Done, NoLostUpdate
<1>6. ASSUME NEW w \in Workers, TakeSlot(w)
      PROVE  NoLostUpdate'
  <2>1. Holding(w) /\ Release(w)
    BY <1>6 DEF TakeSlot, Holding
  <2>2. \A i \in Indices \ {at[w]} : table'[i] = table[i]
    BY <1>0, <1>6 DEF TakeSlot
  <2>3. ~ Holding(w)' /\ \A v \in Workers \ {w} : pc'[v] = pc[v]
    BY <1>0, <1>6 DEF TakeSlot, AfterDecision, Done, Holding
  <2> QED BY <2>1, <2>2, <2>3, ReleaseKeeps
<1>7. ASSUME NEW w \in Workers, NextProbe(w) \/ Overflow(w)
      PROVE  NoLostUpdate'
  <2>1. Holding(w) /\ Release(w) /\ table' = table
    BY <1>7 DEF NextProbe, Overflow, Holding
  <2>2. ~ Holding(w)' /\ \A v \in Workers \ {w} : pc'[v] = pc[v]
    BY <1>0, <1>7 DEF NextProbe, Overflow, Done, Holding
  <2> QED BY <2>1, <2>2, ReleaseKeeps
<1>8. ASSUME NEW w \in Workers, SweepVisit(w)
      PROVE  NoLostUpdate'
  BY <1>0, <1>8, HoldKeeps DEF SweepVisit
<1>9. ASSUME NEW w \in Workers, SweepSkip(w)
      PROVE  NoLostUpdate'
  BY <1>0, <1>9 DEF SweepSkip, SweepOn, Done, NoLostUpdate
<1>10. ASSUME NEW w \in Workers, SweepClear(w)
       PROVE  NoLostUpdate'
  <2>1. Holding(w) /\ Release(w)
    BY <1>10 DEF SweepClear, Holding
  <2>2. \A i \in Indices \ {at[w]} : table'[i] = table[i]
    BY <1>0, <1>10 DEF SweepClear
  <2>3. ~ Holding(w)' /\ \A v \in Workers \ {w} : pc'[v] = pc[v]
    BY <1>0, <1>10 DEF SweepClear, SweepOn, Done, Holding
  <2> QED BY <2>1, <2>2, <2>3, ReleaseKeeps
<1>11. ASSUME NEW w \in Workers, Die(w) \/ Close(w)
       PROVE  NoLostUpdate'
  BY <1>0, <1>11 DEF Die, Close, NoLostUpdate
<1> QED BY <1>1, <1>2, <1>3, <1>4, <1>5, <1>6, <1>7, <1>8, <1>9, <1>10, <1>11
        DEF Next, Step

\* At the start nobody has decided on anything.
LEMMA InitNoLostUpdate == Init => NoLostUpdate
  BY DEF Init, NoLostUpdate

\* What a worker decided on is what it writes over: between the two nobody else
\* wrote the slot, for any number of workers and mutexes.
THEOREM NoUpdateLost == Spec => []NoLostUpdate
  BY InitNoLostUpdate, NextNoLostUpdate, TypeInvariance, PTL DEF Spec

----------------------------------------------------------------------------
\* One slot per client.

Unswept == \A w \in Workers : ~ swept[w]

\* The j-th slot of the run of c is somebody else's.
Passed(c, j) == table[Probe(c, j)].client \notin {NoClient, c}

\* A client sits in its run, behind slots that were all taken; a worker that is
\* at its step-th probe passed as many slots that were all taken.
Placed ==
    /\ \A i \in Indices : table[i].client # NoClient =>
          \E k \in 0 .. Probes - 1 :
              /\ i = Probe(table[i].client, k)
              /\ \A j \in 0 .. k - 1 : Passed(table[i].client, j)
    /\ \A w \in Workers : pc[w] \in {"probe", "inspect"} =>
          \A j \in 0 .. req[w].step - 1 : Passed(req[w].client, j)
    /\ \A w \in Workers : pc[w] = "inspect" =>
          at[w] = Probe(req[w].client, req[w].step)

PlacedInv == Unswept => Placed

\* At the start no client has a slot.
LEMMA InitPlacedInv == Init => PlacedInv
  BY DEF Init, PlacedInv, Placed, EmptySlot

\* Being placed says that a client has one slot: the earlier of two would have
\* been passed on the way to the later one.
LEMMA PlacedOneSlot == TypeInv /\ PlacedInv => OneSlotPerClient
<1> SUFFICES ASSUME TypeInv, Placed,
                    NEW i \in Indices, NEW i2 \in Indices,
                    table[i].client = table[i2].client, table[i].client # NoClient
             PROVE  i = i2
  BY DEF PlacedInv, Unswept, OneSlotPerClient
<1> DEFINE c == table[i].client
<1>1. PICK k \in 0 .. Probes - 1 :
          i = Probe(c, k) /\ \A j \in 0 .. k - 1 : Passed(c, j)
  BY DEF Placed
<1>2. PICK m \in 0 .. Probes - 1 :
          i2 = Probe(c, m) /\ \A j \in 0 .. m - 1 : Passed(c, j)
  BY DEF Placed
<1>3. ~ Passed(c, k) /\ ~ Passed(c, m)
  BY <1>1, <1>2 DEF Passed
<1>4. ~ (k < m) /\ ~ (m < k)
  BY <1>1, <1>2, <1>3
<1>5. k = m
  BY <1>4
<1> QED BY <1>1, <1>2, <1>5

\* While the table and the homes stay, so does what was passed.
LEMMA PlacedStays ==
    ASSUME Placed, table' = table, home' = home,
           \A w \in Workers : pc'[w] \in {"probe", "inspect"} =>
               /\ pc[w] \in {"probe", "inspect"} /\ req'[w] = req[w]
               /\ pc'[w] = "inspect" => pc[w] = "inspect" /\ at'[w] = at[w]
    PROVE  Placed'
<1>1. ASSUME NEW c, NEW j PROVE Probe(c, j)' = Probe(c, j) /\ (Passed(c, j)' <=> Passed(c, j))
  BY DEF Probe, Passed
<1>2. \A i \in Indices : table'[i].client # NoClient =>
          \E k \in 0 .. Probes - 1 :
              /\ i = Probe(table'[i].client, k)
              /\ \A j \in 0 .. k - 1 : Passed(table'[i].client, j)
  BY DEF Placed
<1>3. \A w \in Workers : pc'[w] \in {"probe", "inspect"} =>
          \A j \in 0 .. req'[w].step - 1 : Passed(req'[w].client, j)
  BY DEF Placed
<1>4. \A w \in Workers : pc'[w] = "inspect" =>
          at'[w] = Probe(req'[w].client, req'[w].step)
  BY DEF Placed
<1> QED BY <1>2, <1>3, <1>4 DEF Placed, Passed, Probe

\* A client is only ever put in a slot on its way, with none before that it could have had.
LEMMA NextPlacedInv ==
    TypeInv /\ NoLostUpdate /\ PlacedInv /\ [Next]_vars => PlacedInv'
<1> SUFFICES ASSUME TypeInv, NoLostUpdate, Placed, [Next]_vars, Unswept, Unswept'
             PROVE  Placed'
  <2>1. ASSUME TypeInv, [Next]_vars, Unswept' PROVE Unswept
    <3>1. swept \in [Workers -> BOOLEAN]
      BY <2>1 DEF TypeInv, TypeOK
    <3>2. \A w \in Workers : swept[w] => swept'[w]
      BY <2>1, <3>1 DEF Next, vars, Step, Tick, Arrive, ArriveUnmapped, Acquire, TimeOut,
         TakeSlot, NextProbe, Overflow, SweepVisit, SweepSkip, SweepClear, Die, Close
    <3> QED BY <2>1, <3>2 DEF Unswept
  <2> QED BY <2>1 DEF PlacedInv
<1>0. /\ pc \in [Workers -> {"idle", "probe", "inspect", "sweep", "clear", "dead"}]
      /\ table \in [Indices -> SlotType] /\ at \in [Workers -> Indices]
      /\ req \in [Workers -> [client : Clients \cup {NoClient}, now : Nat, step : 0 .. Probes - 1]]
      /\ swept \in [Workers -> BOOLEAN]
  BY DEF TypeInv, TypeOK
<1>1. CASE UNCHANGED vars
  BY <1>1, PlacedStays DEF vars
<1>2. CASE Tick
  BY <1>2, PlacedStays DEF Tick
<1>3. ASSUME NEW w \in Workers, NEW c \in Clients, Arrive(w, c)
      PROVE  Placed'
  <2>1. \A v \in Workers \ {w} : pc'[v] = pc[v] /\ req'[v] = req[v]
    BY <1>0, <1>3 DEF Arrive
  <2>2. pc'[w] = "probe" /\ req'[w].step = 0
    BY <1>0, <1>3 DEF Arrive
  <2>3. \A v \in Workers : pc'[v] \in {"probe", "inspect"} =>
          \A j \in 0 .. req'[v].step - 1 : Passed(req'[v].client, j)
    BY <2>1, <2>2 DEF Placed
  <2>4. \A v \in Workers : pc'[v] = "inspect" => at[v] = Probe(req'[v].client, req'[v].step)
    BY <2>1, <2>2 DEF Placed
  <2>5. table' = table /\ home' = home /\ at' = at
    BY <1>3 DEF Arrive
  <2> QED BY <2>3, <2>4, <2>5 DEF Placed, Passed, Probe
<1>4. ASSUME NEW w \in Workers, NEW c \in Clients, ArriveUnmapped(w, c)
      PROVE  Placed'
  BY <1>4, PlacedStays DEF ArriveUnmapped
<1>5. ASSUME NEW w \in Workers, Acquire(w)
      PROVE  Placed'
  <2>1. /\ \A v \in Workers \ {w} : pc'[v] = pc[v] /\ at'[v] = at[v]
        /\ pc[w] = "probe" /\ pc'[w] = "inspect" /\ at'[w] = Probe(req[w].client, req[w].step)
        /\ table' = table /\ home' = home /\ req' = req
    BY <1>0, <1>5 DEF Acquire, Hold
  <2>2. \A v \in Workers : pc'[v] \in {"probe", "inspect"} =>
          \A j \in 0 .. req[v].step - 1 : Passed(req[v].client, j)
    BY <2>1 DEF Placed
  <2>3. \A v \in Workers : pc'[v] = "inspect" => at'[v] = Probe(req[v].client, req[v].step)
    BY <2>1 DEF Placed
  <2> QED BY <2>1, <2>2, <2>3 DEF Placed, Passed, Probe
<1>6. ASSUME NEW w \in Workers, TimeOut(w)
      PROVE  Placed'
  BY <1>0, <1>6, PlacedStays DEF TimeOut, Done
<1>7. ASSUME NEW w \in Workers, TakeSlot(w)
      PROVE  Placed'
  <2> DEFINE c == req[w].client
             k == req[w].step
             s == IF seen[w].client = NoClient THEN FreshSlot(seen[w]) ELSE seen[w]
  <2>1. c \in Clients /\ c # NoClient /\ k \in 0 .. Probes - 1 /\ req[w].now \in Nat
    BY <1>0, <1>7, WindowAssumption DEF TakeSlot, TypeInv, Busy
  <2>2. seen[w] \in SlotType /\ s \in SlotType /\ (s.client = c \/ s.ban = 0)
    BY <1>7, FreshSlotType DEF TakeSlot, TypeInv, TypeOK
  <2>3. Decide(s, c, req[w].now).slot.client = c
    BY <2>1, <2>2, DecideType
  <2>4. at[w] = Probe(c, k) /\ at[w] \in Indices
    BY <1>0, <1>7 DEF TakeSlot, Placed
  <2>5. table[at[w]].client \in {NoClient, c}
    BY <1>7 DEF TakeSlot, NoLostUpdate
  <2>6. table'[at[w]].client = c /\ \A i \in Indices \ {at[w]} : table'[i] = table[i]
    BY <1>0, <1>7, <2>3, <2>4 DEF TakeSlot
  <2>7. home' = home
    BY <1>7 DEF TakeSlot
  <2> DEFINE StillPassed(d, j) == table'[Probe(d, j)].client \notin {NoClient, d}
  <2>8. ASSUME NEW d \in Clients, NEW j \in Nat, Passed(d, j)
        PROVE  StillPassed(d, j)
    <3>1. Probe(d, j) \in Indices
      BY ProbeType DEF TypeInv, TypeOK
    <3>2. CASE Probe(d, j) = at[w]
      BY <2>1, <2>5, <2>6, <2>8, <3>1, <3>2 DEF Passed
    <3>3. CASE Probe(d, j) # at[w]
      BY <2>6, <2>8, <3>1, <3>3 DEF Passed
    <3> QED BY <3>2, <3>3
  <2> HIDE DEF StillPassed
  <2>9. ASSUME NEW i \in Indices, table'[i].client # NoClient
        PROVE  \E m \in 0 .. Probes - 1 :
                  /\ i = Probe(table'[i].client, m)
                  /\ \A j \in 0 .. m - 1 : StillPassed(table'[i].client, j)
    <3>1. CASE i = at[w]
      <4>1. \A j \in 0 .. k - 1 : Passed(c, j)
        BY <1>7 DEF TakeSlot, Placed
      <4>2. \A j \in 0 .. k - 1 : StillPassed(c, j)
        BY <2>1, <2>8, <4>1
      <4> QED BY <2>1, <2>4, <2>6, <3>1, <4>2
    <3>2. CASE i # at[w]
      <4> DEFINE d == table[i].client
      <4>1. table'[i].client = d /\ d \in Clients
        BY <1>0, <2>6, <2>9, <3>2 DEF SlotType
      <4>2. PICK m \in 0 .. Probes - 1 : i = Probe(d, m) /\ \A j \in 0 .. m - 1 : Passed(d, j)
        BY <2>9, <4>1 DEF Placed
      <4>3. \A j \in 0 .. m - 1 : StillPassed(d, j)
        BY <2>8, <4>1, <4>2
      <4> QED BY <4>1, <4>2, <4>3
    <3> QED BY <3>1, <3>2
  <2>10. ASSUME NEW v \in Workers, pc'[v] \in {"probe", "inspect"}
         PROVE  /\ v # w /\ pc[v] = pc'[v] /\ req'[v] = req[v] /\ at'[v] = at[v]
                /\ req[v].client \in Clients
    <3>1. pc'[w] \notin {"probe", "inspect"}
      BY <1>0, <1>7 DEF TakeSlot, AfterDecision, Done
    <3>2. \A u \in Workers \ {w} : pc[u] = pc'[u] /\ req'[u] = req[u] /\ at'[u] = at[u]
      BY <1>0, <1>7 DEF TakeSlot, AfterDecision, Done, Release
    <3>3. v # w
      BY <2>10, <3>1
    <3> QED BY <2>10, <3>2, <3>3 DEF TypeInv, Busy
  <2>11. ASSUME NEW v \in Workers, pc'[v] \in {"probe", "inspect"},
                NEW j \in 0 .. req'[v].step - 1
         PROVE  StillPassed(req'[v].client, j)
    <3>1. req'[v] = req[v] /\ Passed(req[v].client, j) /\ req[v].client \in Clients
      BY <2>10, <2>11 DEF Placed
    <3> QED BY <2>8, <3>1
  <2>12. ASSUME NEW v \in Workers, pc'[v] = "inspect"
         PROVE  at'[v] = Probe(req'[v].client, req'[v].step)
    BY <2>10, <2>12 DEF Placed
  <2> QED BY <2>7, <2>9, <2>11, <2>12 DEF Placed, Passed, Probe, StillPassed
<1>8. ASSUME NEW w \in Workers, NextProbe(w)
      PROVE  Placed'
  <2>1. /\ \A v \in Workers \ {w} : pc'[v] = pc[v] /\ req'[v] = req[v] /\ at'[v] = at[v]
        /\ pc'[w] = "probe" /\ req'[w].client = req[w].client /\ req'[w].step = req[w].step + 1
        /\ table' = table /\ home' = home
    BY <1>0, <1>8 DEF NextProbe, Release
  <2>2. Passed(req[w].client, req[w].step)
    BY <1>8 DEF NextProbe, Placed, Passed, NoLostUpdate
  <2>3. \A j \in 0 .. req[w].step : Passed(req[w].client, j)
    <3>1. req[w].step \in Nat /\ \A j \in 0 .. req[w].step - 1 : Passed(req[w].client, j)
      BY <1>0, <1>8 DEF NextProbe, Placed
    <3> QED BY <2>2, <3>1
  <2>4. \A v \in Workers : pc'[v] \in {"probe", "inspect"} =>
          \A j \in 0 .. req'[v].step - 1 : Passed(req'[v].client, j)
    <3>1. ASSUME NEW j \in 0 .. req'[w].step - 1 PROVE Passed(req'[w].client, j)
      BY <1>0, <2>1, <2>3
    <3> QED BY <2>1, <3>1 DEF Placed
  <2>5. \A v \in Workers : pc'[v] = "inspect" => at'[v] = Probe(req'[v].client, req'[v].step)
    BY <2>1 DEF Placed
  <2> QED BY <2>1, <2>4, <2>5 DEF Placed, Passed, Probe
<1>9. ASSUME NEW w \in Workers, Overflow(w)
      PROVE  Placed'
  BY <1>0, <1>9, PlacedStays DEF Overflow, Done, Release
<1>10. ASSUME NEW w \in Workers, SweepVisit(w)
       PROVE  Placed'
  BY <1>0, <1>10, PlacedStays DEF SweepVisit, Hold
<1>11. ASSUME NEW w \in Workers, SweepSkip(w)
       PROVE  Placed'
  BY <1>0, <1>11, PlacedStays DEF SweepSkip, SweepOn, Done
<1>12. ASSUME NEW w \in Workers, SweepClear(w)
       PROVE  Placed'
  <2>1. table' = table
    BY <1>0, <1>12 DEF SweepClear, Unswept
  <2> QED BY <1>0, <1>12, <2>1, PlacedStays DEF SweepClear, SweepOn, Done, Release
<1>13. ASSUME NEW w \in Workers, Die(w) \/ Close(w)
       PROVE  Placed'
  BY <1>0, <1>13, PlacedStays DEF Die, Close
<1> QED BY <1>1, <1>2, <1>3, <1>4, <1>5, <1>6, <1>7, <1>8, <1>9, <1>10, <1>11, <1>12,
           <1>13 DEF Next, Step

\* The sweep is the only way for a client to be in two slots: before the first
\* slot is cleared, probing without a lock over the whole run is enough.
THEOREM OneSlot == Spec => []OneSlotPerClient
<1>1. Spec => [](TypeInv /\ NoLostUpdate /\ PlacedInv)
  BY InitTypeInv, NextTypeInv, InitNoLostUpdate, NextNoLostUpdate, InitPlacedInv,
     NextPlacedInv, PTL DEF Spec
<1> QED BY <1>1, PlacedOneSlot, PTL

----------------------------------------------------------------------------
\* Lockouts.

\* The dictionaries of a process, as far as its lockouts depend on them.
IsCounters(d) ==
    /\ d = [hits |-> d.hits, order |-> d.order, bursts |-> d.bursts,
            bans |-> d.bans, next |-> d.next]
    /\ d.bans \in [Clients -> Nat]

\* Between d and e no lockout that is in force at now was changed.
KeepsBans(d, e, now) ==
    \A c \in Clients : d.bans[c] > now => e.bans[c] = d.bans[c]

\* Forgetting the requests of some clients leaves all lockouts,
LEMMA ForgetHitsBans ==
    ASSUME NEW d, IsCounters(d), NEW gone
    PROVE  IsCounters(ForgetHits(d, gone)) /\ ForgetHits(d, gone).bans = d.bans
<1> DEFINE f == ForgetHits(d, gone)
<1>1. \E hits, order : f = [d EXCEPT !.hits = hits, !.order = order]
  BY DEF ForgetHits
<1> HIDE DEF f
<1>2. PICK hits, order : f = [d EXCEPT !.hits = hits, !.order = order]
  BY <1>1
<1>3. f = [hits |-> hits, order |-> order, bursts |-> d.bursts, bans |-> d.bans, next |-> d.next]
  BY <1>2 DEF IsCounters
<1>4. IsCounters(f) /\ f.bans = d.bans
  BY <1>3 DEF IsCounters
<1> QED BY <1>4 DEF f

\* a sweep those that are in force,
LEMMA MaybeSweepBans ==
    ASSUME NEW d, IsCounters(d), NEW now \in Nat
    PROVE  IsCounters(MaybeSweep(d, now)) /\ KeepsBans(d, MaybeSweep(d, now), now)
<1> DEFINE aged(c) == d.hits[c] = <<>> \/ d.hits[c][Len(d.hits[c])] <= now - Window
           f == ForgetHits(d, {c \in Clients : aged(c)})
           bans == [c \in Clients |-> IF now >= f.bans[c] THEN 0 ELSE f.bans[c]]
           bursts == [c \in Clients |-> IF now - f.bursts[c] >= Window THEN 0 ELSE f.bursts[c]]
           next == now + Latest(Window, 1)
           e == [f EXCEPT !.next = next, !.bursts = bursts, !.bans = bans]
<1>1. MaybeSweep(d, now) = IF now < d.next THEN d ELSE e
  BY DEF MaybeSweep
<1>2. IsCounters(f) /\ f.bans = d.bans
  BY ForgetHitsBans
<1> HIDE DEF f
<1>3. bans \in [Clients -> Nat] /\ \A c \in Clients : d.bans[c] > now => bans[c] = d.bans[c]
  <2>1. f.bans \in [Clients -> Nat] /\ f.bans = d.bans
    BY <1>2 DEF IsCounters
  <2>2. \A c \in Clients : f.bans[c] \in Nat /\ d.bans[c] = f.bans[c]
    BY <2>1
  <2> QED BY <2>2
<1> HIDE DEF bans, bursts, next
<1>4. e = [hits |-> f.hits, order |-> f.order, bursts |-> bursts, bans |-> bans, next |-> next]
  <2>1. f = [hits |-> f.hits, order |-> f.order, bursts |-> f.bursts,
             bans |-> f.bans, next |-> f.next]
    BY <1>2 DEF IsCounters
  <2>2. DOMAIN f = {"hits", "order", "bursts", "bans", "next"}
    BY <2>1
  <2>3. /\ DOMAIN e = {"hits", "order", "bursts", "bans", "next"}
        /\ e = [x \in DOMAIN e |-> e[x]]
        /\ e.hits = f.hits /\ e.order = f.order /\ e.bursts = bursts /\ e.bans = bans
        /\ e.next = next
    BY <2>2
  <2> HIDE DEF e
  <2> QED BY <2>3
<1> HIDE DEF e
<1>5. IsCounters(e) /\ e.bans = bans
  BY <1>3, <1>4 DEF IsCounters
<1> QED BY <1>1, <1>3, <1>5 DEF KeepsBans

\* and an eviction all of them.
LEMMA EvictOldestBans ==
    ASSUME NEW d, IsCounters(d)
    PROVE  IsCounters(EvictOldest(d)) /\ EvictOldest(d).bans = d.bans
<1>1. ASSUME NEW chosen
      PROVE  LET e == [ForgetHits(d, {chosen}) EXCEPT !.bursts[chosen] = 0]
             IN  IsCounters(e) /\ e.bans = d.bans
  <2> DEFINE f == ForgetHits(d, {chosen})
             bursts == [f.bursts EXCEPT ![chosen] = 0]
             e == [f EXCEPT !.bursts = bursts]
  <2>1. IsCounters(f) /\ f.bans = d.bans
    BY ForgetHitsBans
  <2>2. [f EXCEPT !.bursts[chosen] = 0] = e
    BY <2>1 DEF IsCounters
  <2> HIDE DEF f, bursts
  <2>3. e = [hits |-> f.hits, order |-> f.order, bursts |-> bursts, bans |-> f.bans, next |-> f.next]
    BY <2>1 DEF IsCounters
  <2> HIDE DEF e
  <2>4. IsCounters(e) /\ e.bans = d.bans
    BY <2>1, <2>3 DEF IsCounters
  <2> QED BY <2>2, <2>4 DEF f
<1> QED BY <1>1 DEF EvictOldest

\* What becomes of the counters of a client, its requests and their order apart.
Outcomes(d, c, now, hits, order) ==
    LET g == [d EXCEPT !.hits[c] = hits, !.order = order]
    IN  {g, [g EXCEPT !.bursts[c] = now], [g EXCEPT !.bans[c] = now + Ban]}

\* A request that was decided concerns no lockout but that of its client.
LEMMA OutcomeBans ==
    ASSUME NEW d, IsCounters(d), NEW c \in Clients, NEW now \in Nat, NEW hits, NEW order,
           NEW e \in Outcomes(d, c, now, hits, order)
    PROVE  IsCounters(e) /\ \A y \in Clients \ {c} : e.bans[y] = d.bans[y]
<1> DEFINE h == [d.hits EXCEPT ![c] = hits]
           bursts == [d.bursts EXCEPT ![c] = now]
           locked == [d.bans EXCEPT ![c] = now + Ban]
           b == d.bans
<1>1. \/ e = [hits |-> h, order |-> order, bursts |-> d.bursts, bans |-> b, next |-> d.next]
      \/ e = [hits |-> h, order |-> order, bursts |-> bursts, bans |-> b, next |-> d.next]
      \/ e = [hits |-> h, order |-> order, bursts |-> d.bursts, bans |-> locked, next |-> d.next]
  BY DEF IsCounters, Outcomes
<1>2. /\ b \in [Clients -> Nat] /\ locked \in [Clients -> Nat]
      /\ \A y \in Clients \ {c} : locked[y] = b[y]
  BY SharedAssumption DEF IsCounters
<1> HIDE DEF h, bursts, locked, b
<1>3. IsCounters(e) /\ e.bans \in {b, locked}
  BY <1>1, <1>2 DEF IsCounters
<1> QED BY <1>2, <1>3 DEF b

\* So a request counted in one process leaves every lockout that is in force.
LEMMA ConsumeBans ==
    ASSUME NEW d, IsCounters(d), NEW c \in Clients, NEW now \in Nat
    PROVE  /\ IsCounters(Consume(d, c, now).counters)
           /\ KeepsBans(d, Consume(d, c, now).counters, now)
<1> DEFINE e == Consume(d, c, now).counters
<1>1. CASE d.bans[c] # 0 /\ now < d.bans[c]
  <2>1. e = d
    BY <1>1 DEF Consume
  <2> QED BY <2>1 DEF KeepsBans
<1>2. CASE ~(d.bans[c] # 0 /\ now < d.bans[c])
  <2> DEFINE bans == [d.bans EXCEPT ![c] = 0]
             free == [d EXCEPT !.bans[c] = 0]
             clean == MaybeSweep(free, now)
  <2>1. /\ free = [hits |-> d.hits, order |-> d.order, bursts |-> d.bursts,
                   bans |-> bans, next |-> d.next]
        /\ bans \in [Clients -> Nat]
    BY DEF IsCounters
  <2>2. IsCounters(free) /\ free.bans = bans
    <3> HIDE DEF free, bans
    <3> QED BY <2>1 DEF IsCounters
  <2>3. KeepsBans(d, free, now)
    BY <1>2, <2>2 DEF KeepsBans, IsCounters
  <2> HIDE DEF free
  <2>4. IsCounters(clean) /\ KeepsBans(free, clean, now)
    BY <2>2, MaybeSweepBans
  <2> HIDE DEF clean
  <2>5. ASSUME NEW room, room \in {clean, EvictOldest(clean)}
        PROVE  IsCounters(room) /\ room.bans = clean.bans
    BY <2>4, <2>5, EvictOldestBans
  <2>7. PICK room \in {clean, EvictOldest(clean)} : \E hits, order :
            e \in Outcomes(room, c, now, hits, order)
    BY <1>2, ZenonT(60) DEF Consume, Outcomes, clean, free
  <2> HIDE DEF e
  <2>8. IsCounters(e) /\ \A y \in Clients \ {c} : e.bans[y] = clean.bans[y]
    <3>1. IsCounters(room) /\ room.bans = clean.bans
      BY <2>5, <2>7
    <3>2. PICK hits, order :
            e \in Outcomes(room, c, now, hits, order)
      BY <2>7
    <3>3. IsCounters(e) /\ \A y \in Clients \ {c} : e.bans[y] = room.bans[y]
      BY <3>1, <3>2, OutcomeBans
    <3> QED BY <3>1, <3>3
  <2>9. ASSUME NEW y \in Clients, d.bans[y] > now PROVE e.bans[y] = d.bans[y]
    <3>1. y # c
      BY <1>2, <2>9 DEF IsCounters
    <3>2. free.bans[y] = d.bans[y]
      BY <2>3, <2>9 DEF KeepsBans
    <3>3. clean.bans[y] = free.bans[y]
      BY <2>4, <2>9, <3>2 DEF KeepsBans
    <3> QED BY <2>8, <3>1, <3>2, <3>3
  <2> QED BY <2>8, <2>9 DEF KeepsBans, e
<1> QED BY <1>1, <1>2

\* A slot that is free has no lockout, and no worker decides ahead of the clock.
LockInv ==
    /\ local = [w \in Workers |-> local[w]]
    /\ \A w \in Workers : IsCounters(local[w]) /\ req[w].now <= clock
    /\ \A i \in Indices : table[i].client = NoClient => table[i].ban = 0

\* A lockout stays as it is while it is in force, in the table and in a worker.
LocksStay ==
    /\ \A i \in Indices : table[i].ban > clock => table'[i].ban = table[i].ban
    /\ \A w \in Workers : KeepsBans(local[w], local'[w], clock)

\* At the start there is no lockout,
LEMMA InitLockInv == Init => LockInv
<1> SUFFICES ASSUME Init PROVE LockInv
  OBVIOUS
<1>1. IsCounters(NoCounters)
  BY DEF IsCounters, NoCounters
<1> QED BY <1>1 DEF Init, LockInv, NoRequest, EmptySlot

\* a decision leaves a lockout that is in force, and a slot that belongs to the client,
LEMMA DecideBan ==
    ASSUME NEW s \in SlotType, NEW c, NEW now \in Nat, s.ban > now
    PROVE  Decide(s, c, now).slot = s
<1>1. s.ban # 0 /\ now < s.ban
  BY DEF SlotType
<1> QED BY <1>1 DEF Decide

\* a process that counts alone leaves those in its dictionaries,
LEMMA CountAloneBans ==
    ASSUME TypeInv, LockInv, NEW w \in Workers, NEW c \in Clients, NEW now \in Nat,
           now <= clock, CountAlone(w, c, now)
    PROVE  /\ local' = [v \in Workers |-> local'[v]]
           /\ \A v \in Workers : IsCounters(local'[v]) /\ KeepsBans(local[v], local'[v], clock)
<1> DEFINE e == Consume(local[w], c, now).counters
<1>1. IsCounters(e) /\ KeepsBans(local[w], e, now)
  BY ConsumeBans DEF LockInv
<1>2. local' = [local EXCEPT ![w] = e]
  BY DEF CountAlone
<1> HIDE DEF e
<1>3. /\ local' = [v \in Workers |-> local'[v]]
      /\ local'[w] = e /\ \A v \in Workers \ {w} : local'[v] = local[v]
  BY <1>2 DEF LockInv
<1>4. KeepsBans(local[w], e, clock)
  <2>1. clock \in Nat /\ \A x \in Clients : local[w].bans[x] \in Nat
    BY DEF TypeInv, TypeOK, LockInv, IsCounters
  <2>2. \A x \in Clients : local[w].bans[x] > clock => local[w].bans[x] > now
    BY <2>1
  <2> QED BY <1>1, <2>2 DEF KeepsBans
<1>5. \A v \in Workers : KeepsBans(local[v], local[v], clock)
  BY DEF KeepsBans
<1> QED BY <1>1, <1>3, <1>4, <1>5 DEF LockInv

\* and so does every step, as no request is decided ahead of the clock.
LEMMA NextLockInv ==
    ASSUME TypeInv, NoLostUpdate, LockInv, [Next]_vars
    PROVE  LockInv' /\ LocksStay
<1> DEFINE P == LockInv' /\ LocksStay
<1>0. /\ pc \in [Workers -> {"idle", "probe", "inspect", "sweep", "clear", "dead"}]
      /\ table \in [Indices -> SlotType] /\ at \in [Workers -> Indices] /\ clock \in Nat
      /\ req \in [Workers -> [client : Clients \cup {NoClient}, now : Nat, step : 0 .. Probes - 1]]
      /\ seen \in [Workers -> SlotType]
      /\ \A w \in Workers : req[w].now \in Nat /\ req[w].now <= clock
      /\ NoRequest.now = 0 /\ NoClient \notin Clients
  BY WindowAssumption DEF TypeInv, TypeOK, LockInv, NoRequest
<1>1. ASSUME table' = table, local' = local, clock' \in {clock, clock + 1},
             \A w \in Workers : req'[w].now \in {0, clock, req[w].now}
      PROVE  P
  <2>1. \A w \in Workers : req'[w].now <= clock'
    BY <1>0, <1>1
  <2>2. LocksStay
    BY <1>1 DEF LocksStay, KeepsBans
  <2> QED BY <1>1, <2>1, <2>2 DEF LockInv
<1>2. ASSUME table' = table, clock' = clock, NEW w \in Workers, NEW c \in Clients, NEW now \in Nat,
             now <= clock, CountAlone(w, c, now),
             \A v \in Workers : req'[v].now \in {0, req[v].now}
      PROVE  P
  <2>1. \A v \in Workers : req'[v].now <= clock'
    BY <1>0, <1>2
  <2>2. /\ local' = [v \in Workers |-> local'[v]]
        /\ \A v \in Workers : IsCounters(local'[v]) /\ KeepsBans(local[v], local'[v], clock)
    BY <1>2, CountAloneBans
  <2> QED BY <1>2, <2>1, <2>2 DEF LockInv, LocksStay
<1>3. ASSUME local' = local, clock' = clock, NEW w \in Workers, NEW s \in SlotType,
             table' = [table EXCEPT ![at[w]] = s],
             table[at[w]].ban > clock => s.ban = table[at[w]].ban,
             s.client = NoClient => s.ban = 0,
             \A v \in Workers : req'[v].now \in {0, req[v].now}
      PROVE  P
  <2>1. \A v \in Workers : req'[v].now <= clock'
    BY <1>0, <1>3
  <2>2. table'[at[w]] = s /\ \A i \in Indices \ {at[w]} : table'[i] = table[i]
    BY <1>0, <1>3
  <2>3. \A i \in Indices : table[i].ban > clock => table'[i].ban = table[i].ban
    BY <1>3, <2>2
  <2>4. \A i \in Indices : table'[i].client = NoClient => table'[i].ban = 0
    BY <1>3, <2>2 DEF LockInv
  <2>5. \A v \in Workers : KeepsBans(local[v], local'[v], clock)
    BY <1>3 DEF KeepsBans
  <2> QED BY <1>3, <2>1, <2>3, <2>4, <2>5 DEF LockInv, LocksStay
<1>4. CASE Tick \/ UNCHANGED vars
  BY <1>0, <1>1, <1>4 DEF Tick, vars
<1>5. ASSUME NEW w \in Workers, NEW c \in Clients, Arrive(w, c) PROVE P
  <2>1. table' = table /\ local' = local /\ clock' = clock
        /\ \A v \in Workers : req'[v].now \in {clock, req[v].now}
    BY <1>0, <1>5 DEF Arrive
  <2> QED BY <1>1, <2>1
<1>6. ASSUME NEW w \in Workers, NEW c \in Clients, ArriveUnmapped(w, c) PROVE P
  <2>1. table' = table /\ clock' = clock /\ req' = req /\ CountAlone(w, c, clock)
    BY <1>6 DEF ArriveUnmapped
  <2> QED BY <1>0, <1>2, <2>1
<1>7. ASSUME NEW w \in Workers, Done(w) \/ req' = req
      PROVE  \A v \in Workers : req'[v].now \in {0, req[v].now}
  BY <1>0, <1>7 DEF Done
<1>8. ASSUME NEW w \in Workers, TimeOut(w) \/ Overflow(w) PROVE P
  <2>1. /\ table' = table /\ clock' = clock /\ Done(w) /\ req[w].client \in Clients
        /\ CountAlone(w, req[w].client, req[w].now)
    BY <1>8 DEF TimeOut, Overflow, TypeInv, Busy
  <2> QED BY <1>0, <1>2, <1>7, <2>1
<1>9. ASSUME NEW w \in Workers,
             Acquire(w) \/ NextProbe(w) \/ SweepVisit(w) \/ SweepSkip(w) \/ Die(w) \/ Close(w)
      PROVE  P
  <2>1. /\ table' = table /\ local' = local /\ clock' = clock
        /\ \A v \in Workers : req'[v].now \in {0, req[v].now}
    <3>1. CASE NextProbe(w)
      BY <1>0, <3>1 DEF NextProbe
    <3>2. CASE SweepSkip(w)
      BY <1>7, <3>2 DEF SweepSkip, SweepOn
    <3>3. CASE Acquire(w) \/ SweepVisit(w) \/ Die(w) \/ Close(w)
      BY <3>3 DEF Acquire, SweepVisit, Die, Close
    <3> QED BY <1>9, <3>1, <3>2, <3>3
  <2> QED BY <1>1, <2>1
<1>10. ASSUME NEW w \in Workers, TakeSlot(w) PROVE P
  <2> DEFINE c == req[w].client
             s == IF seen[w].client = NoClient THEN FreshSlot(seen[w]) ELSE seen[w]
             d == Decide(s, c, req[w].now).slot
  <2>1. /\ c \in Clients /\ c # NoClient /\ req[w].now \in Nat /\ req[w].now <= clock
        /\ seen[w] \in SlotType /\ table[at[w]] = seen[w] /\ at[w] \in Indices
    BY <1>0, <1>10 DEF TakeSlot, TypeInv, Busy, NoLostUpdate
  <2>2. s \in SlotType /\ (s.client = c \/ s.ban = 0)
    BY <1>10, <2>1, FreshSlotType DEF TakeSlot
  <2>3. d \in SlotType /\ d.client = c
    BY <2>1, <2>2, DecideType
  <2>4. ASSUME table[at[w]].ban > clock PROVE d.ban = table[at[w]].ban
    <3>1. seen[w].client # NoClient
      BY <1>0, <2>1, <2>4 DEF LockInv
    <3>2. s = seen[w] /\ s.ban > req[w].now
      <4>1. s = seen[w] /\ s.ban \in Nat
        BY <2>1, <3>1 DEF SlotType
      <4> QED BY <1>0, <2>1, <2>4, <4>1
    <3>3. d = s
      BY <2>1, <2>2, <3>2, DecideBan
    <3> QED BY <2>1, <3>2, <3>3
  <2>5. /\ local' = local /\ clock' = clock /\ table' = [table EXCEPT ![at[w]] = d]
    BY <1>10 DEF TakeSlot
  <2>6. \A v \in Workers : req'[v].now \in {0, req[v].now}
    BY <1>7, <1>10 DEF TakeSlot, AfterDecision
  <2> HIDE DEF d
  <2> QED BY <1>3, <2>1, <2>3, <2>4, <2>5, <2>6
<1>11. ASSUME NEW w \in Workers, SweepClear(w) PROVE P
  <2>1. local' = local /\ clock' = clock /\ \A v \in Workers : req'[v].now \in {0, req[v].now}
    BY <1>7, <1>11 DEF SweepClear, SweepOn
  <2>2. CASE Sweepable(seen[w], req[w].now)
    <3>1. /\ seen[w] \in SlotType /\ table[at[w]] = seen[w] /\ req[w].now \in Nat
          /\ req[w].now <= clock
      BY <1>0, <1>11 DEF SweepClear, NoLostUpdate
    <3>2. ~(table[at[w]].ban > clock)
      <4>1. ~(seen[w].ban # 0 /\ seen[w].ban > req[w].now) /\ seen[w].ban \in Nat
        BY <2>2, <3>1 DEF Sweepable, SlotType
      <4> QED BY <1>0, <3>1, <4>1
    <3>3. table' = [table EXCEPT ![at[w]] = FreshSlot(seen[w])]
      BY <1>11, <2>2 DEF SweepClear
    <3>4. FreshSlot(seen[w]) \in SlotType /\ FreshSlot(seen[w]).ban = 0
      BY <3>1, FreshSlotType
    <3> QED BY <1>3, <2>1, <3>2, <3>3, <3>4
  <2>3. CASE ~Sweepable(seen[w], req[w].now)
    <3>1. table' = table
      BY <1>11, <2>3 DEF SweepClear
    <3> QED BY <1>1, <2>1, <3>1
  <2> QED BY <2>2, <2>3
<1> QED BY <1>4, <1>5, <1>6, <1>8, <1>9, <1>10, <1>11 DEF Next, Step

\* A lockout ends when its time is over and not before, in the table and in
\* every worker: no sweep, eviction or late decision forgets it.
THEOREM LockoutsKept == Spec => LockoutKept
<1>1. TypeInv /\ NoLostUpdate /\ LockInv /\ [Next]_vars => LockInv'
  BY NextLockInv
<1>2. Spec => [](TypeInv /\ NoLostUpdate /\ LockInv)
  BY <1>1, InitTypeInv, NextTypeInv, InitNoLostUpdate, NextNoLostUpdate, InitLockInv, PTL DEF Spec
<1>3. TypeInv /\ NoLostUpdate /\ LockInv /\ [Next]_vars =>
        [ /\ \A i \in Indices : table[i].ban > clock => table'[i].ban = table[i].ban
          /\ \A w \in Workers, c \in Clients :
                local[w].bans[c] > clock => local'[w].bans[c] = local[w].bans[c] ]_vars
  <2> SUFFICES ASSUME TypeInv, NoLostUpdate, LockInv, [Next]_vars PROVE LocksStay
    BY DEF LocksStay, KeepsBans
  <2> QED BY NextLockInv
<1> QED BY <1>2, <1>3, PTL DEF Spec, LockoutKept

----------------------------------------------------------------------------
\* Counting.

\* What a count of requests per time counts,
LEMMA CountedIs ==
    ASSUME NEW f, NEW from, NEW to, NEW x
    PROVE  x \in Counted(f, from, to) <=>
               \E t \in from .. to : \E n \in 1 .. f[t] : x = <<t, n>>
  BY DEF Counted

\* is finite,
LEMMA CountedFinite ==
    ASSUME NEW f \in [Times -> Nat], NEW from \in Times, NEW to \in Int, to <= MaxTime
    PROVE  /\ IsFiniteSet(Counted(f, from, to))
           /\ Cardinality(Counted(f, from, to)) \in Nat
<1> DEFINE S == from .. to
           T == {{t} \X (1 .. f[t]) : t \in S}
           g == [t \in S |-> {t} \X (1 .. f[t])]
<1>1. S \subseteq Times /\ IsFiniteSet(S)
  <2>1. from \in Int /\ to \in Int
    BY DEF Times
  <2>2. IsFiniteSet(S)
    BY <2>1, FS_Interval
  <2>3. MaxTime \in Nat
    BY SharedAssumption
  <2> QED BY <2>1, <2>2, <2>3 DEF Times
<1>2. g \in Surjection(S, T)
  BY DEF Surjection
<1>3. IsFiniteSet(T)
  BY <1>1, <1>2, FS_Surjection
<1>4. ASSUME NEW U \in T PROVE IsFiniteSet(U)
  <2>1. PICK t \in S : U = {t} \X (1 .. f[t])
    OBVIOUS
  <2>2. f[t] \in Int /\ 1 \in Int
    BY <1>1
  <2>3. IsFiniteSet({t}) /\ IsFiniteSet(1 .. f[t])
    BY <2>2, FS_Singleton, FS_Interval
  <2> QED BY <2>1, <2>3, FS_Product
<1>5. IsFiniteSet(UNION T)
  BY <1>3, <1>4, FS_UNION
<1> QED BY <1>5, FS_CardinalityType DEF Counted

\* a longer time counts no less,
LEMMA CountedLonger ==
    ASSUME NEW f \in [Times -> Nat], NEW from \in Times, NEW to \in Int, NEW end \in Int,
           to <= end, end <= MaxTime
    PROVE  Cardinality(Counted(f, from, to)) <= Cardinality(Counted(f, from, end))
<1>1. \A t \in from .. to : t \in from .. end
  BY DEF Times
<1>2. Counted(f, from, to) \subseteq Counted(f, from, end)
  BY <1>1, CountedIs
<1> QED BY <1>2, CountedFinite, FS_Subset

\* and one more at some time is one more of every span it lies in.
LEMMA CountedOneMore ==
    ASSUME NEW f \in [Times -> Nat], NEW from \in Times, NEW to \in Int, to <= MaxTime,
           NEW now \in Times, NEW g \in [Times -> Nat], g[now] = f[now] + 1,
           \A t \in Times \ {now} : g[t] = f[t]
    PROVE  /\ now \in from .. to =>
                Cardinality(Counted(g, from, to)) = Cardinality(Counted(f, from, to)) + 1
           /\ now \notin from .. to => Counted(g, from, to) = Counted(f, from, to)
<1> DEFINE n == f[now] + 1
           A == Counted(f, from, to)
<1>1. n \in Nat /\ f[now] \in Nat /\ g[now] = n /\ \A t \in Times \ {now} : g[t] = f[t]
  OBVIOUS
<1>2. from .. to \subseteq Times
  BY SharedAssumption DEF Times
<1>4. ASSUME now \notin from .. to PROVE Counted(g, from, to) = A
  <2>1. \A t \in from .. to : g[t] = f[t]
    BY <1>1, <1>2, <1>4
  <2>2. ASSUME NEW x PROVE x \in Counted(g, from, to) <=> x \in A
    <3>1. (\E t \in from .. to : \E m \in 1 .. g[t] : x = <<t, m>>)
            <=> \E t \in from .. to : \E m \in 1 .. f[t] : x = <<t, m>>
      BY <2>1
    <3>2. x \in Counted(g, from, to) <=> \E t \in from .. to : \E m \in 1 .. g[t] : x = <<t, m>>
      BY CountedIs
    <3>3. x \in A <=> \E t \in from .. to : \E m \in 1 .. f[t] : x = <<t, m>>
      BY CountedIs
    <3> QED BY <3>1, <3>2, <3>3
  <2> QED BY <2>2
<1>5. ASSUME now \in from .. to PROVE Cardinality(Counted(g, from, to)) = Cardinality(A) + 1
  <2>1. ASSUME NEW x PROVE x \in Counted(g, from, to) <=> x \in A \/ x = <<now, n>>
    <3>1. \A m : m \in 1 .. n <=> m \in 1 .. f[now] \/ m = n
      BY <1>1
    <3>2. ASSUME x \in Counted(g, from, to) PROVE x \in A \/ x = <<now, n>>
      <4>0. PICK t \in from .. to : \E k \in 1 .. g[t] : x = <<t, k>>
        BY <3>2, CountedIs
      <4>1. PICK m \in 1 .. g[t] : x = <<t, m>>
        BY <4>0
      <4>2. CASE t = now
        <5>1. m \in 1 .. f[now] \/ m = n
          BY <1>1, <3>1, <4>1, <4>2
        <5> QED BY <1>5, <4>1, <4>2, <5>1, CountedIs
      <4>3. CASE t # now
        <5>1. g[t] = f[t]
          BY <1>1, <1>2, <4>3
        <5> QED BY <4>1, <5>1, CountedIs
      <4> QED BY <4>2, <4>3
    <3>3. ASSUME x \in A PROVE x \in Counted(g, from, to)
      <4>0. PICK t \in from .. to : \E k \in 1 .. f[t] : x = <<t, k>>
        BY <3>3, CountedIs
      <4>1. PICK m \in 1 .. f[t] : x = <<t, m>>
        BY <4>0
      <4>2. m \in 1 .. g[t]
        BY <1>1, <1>2, <3>1, <4>1
      <4> QED BY <4>1, <4>2, CountedIs
    <3>4. ASSUME x = <<now, n>> PROVE x \in Counted(g, from, to)
      BY <1>1, <1>5, <3>1, <3>4, CountedIs
    <3> QED BY <3>2, <3>3, <3>4
  <2>2. <<now, n>> \notin A
    <3>1. ASSUME <<now, n>> \in A PROVE FALSE
      <4>0. PICK t \in from .. to : \E k \in 1 .. f[t] : <<now, n>> = <<t, k>>
        BY <3>1, CountedIs
      <4>1. PICK m \in 1 .. f[t] : <<now, n>> = <<t, m>>
        BY <4>0
      <4>2. n \in 1 .. f[now]
        BY <4>1
      <4> QED BY <1>1, <4>2
    <3> QED BY <3>1
  <2>3. Counted(g, from, to) = A \cup {<<now, n>>}
    BY <2>1
  <2> QED BY <2>2, <2>3, CountedFinite, FS_AddElement, ZenonT(40)
<1> QED BY <1>4, <1>5

----------------------------------------------------------------------------
\* The ring of a slot.

\* A sum of two indices runs once over the end of a ring.
LEMMA Place ==
    ASSUME NEW o \in 0 .. Ring - 1, NEW j \in 0 .. Ring
    PROVE  /\ (o + j) % Ring = IF o + j < Ring THEN o + j ELSE o + j - Ring
           /\ (o + j) % Ring \in 0 .. Ring - 1
<1>1. Ring \in Nat \ {0}
  BY PeakType
<1>2. (o + j) % Ring = IF o + j < Ring THEN o + j ELSE o + j - Ring
  BY <1>1, ModSum
<1> QED BY <1>1, <1>2

\* The places of the stamps that count, and of those that are not older than t.
Live(s) == {(s.oldest + j) % Ring : j \in 0 .. s.count - 1}
Recent(s, t) == {p \in Live(s) : s.ring[p] >= t}

\* There are at most as many as the slot counts.
LEMMA RecentFinite ==
    ASSUME NEW s \in SlotType, NEW t \in Int
    PROVE  /\ IsFiniteSet(Recent(s, t)) /\ Cardinality(Recent(s, t)) \in Nat
           /\ Cardinality(Recent(s, t)) <= s.count
           /\ Live(s) \subseteq 0 .. Ring - 1
<1> DEFINE J == 0 .. s.count - 1
           g == [j \in J |-> (s.oldest + j) % Ring]
<1>1. s.count \in Nat /\ s.oldest \in Nat /\ Ring \in Nat \ {0}
  BY PeakType DEF SlotType
<1>2. IsFiniteSet(J) /\ Cardinality(J) = s.count
  <2>1. 0 \in Int /\ s.count - 1 \in Int
    BY <1>1
  <2>2. IsFiniteSet(J) /\ Cardinality(J) = IF 0 > s.count - 1 THEN 0 ELSE s.count - 1 - 0 + 1
    BY <2>1, FS_Interval
  <2> QED BY <1>1, <2>2
<1>3. g \in Surjection(J, Live(s))
  BY DEF Surjection, Live
<1>4. IsFiniteSet(Live(s)) /\ Cardinality(Live(s)) <= s.count
  BY <1>2, <1>3, FS_Surjection
<1>5. Live(s) \subseteq 0 .. Ring - 1
  <2>1. ASSUME NEW j \in J PROVE (s.oldest + j) % Ring \in 0 .. Ring - 1
    <3>1. s.oldest \in 0 .. Ring - 1 /\ j \in 0 .. Ring
      BY <1>1 DEF SlotType
    <3> QED BY <3>1, Place
  <2> QED BY <2>1 DEF Live
<1>6. Recent(s, t) \in SUBSET Live(s)
  BY DEF Recent
<1>7. /\ IsFiniteSet(Recent(s, t)) /\ Cardinality(Recent(s, t)) <= Cardinality(Live(s))
      /\ Cardinality(Recent(s, t)) \in Nat /\ Cardinality(Live(s)) \in Nat
  BY <1>4, <1>6, FS_Subset, FS_CardinalityType
<1> QED BY <1>1, <1>4, <1>5, <1>7

\* No two of them are in one place,
LEMMA PlacesDiffer ==
    ASSUME NEW o \in 0 .. Ring - 1, NEW i \in 0 .. Ring - 1, NEW j \in 0 .. Ring - 1, i # j
    PROVE  (o + i) % Ring # (o + j) % Ring
<1>1. Ring \in Nat \ {0}
  BY PeakType
<1>2. i \in 0 .. Ring /\ j \in 0 .. Ring
  BY <1>1
<1>3. (o + i) % Ring = IF o + i < Ring THEN o + i ELSE o + i - Ring
  BY <1>2, Place
<1>4. (o + j) % Ring = IF o + j < Ring THEN o + j ELSE o + j - Ring
  BY <1>2, Place
<1>5. (IF o + i < Ring THEN o + i ELSE o + i - Ring) # (IF o + j < Ring THEN o + j ELSE o + j - Ring)
  BY <1>1
<1> QED BY <1>3, <1>4, <1>5

\* and a front that moves on leaves the others where they are.
LEMMA PlaceOn ==
    ASSUME NEW o \in 0 .. Ring - 1, NEW g \in 0 .. Ring, NEW j \in 0 .. Ring, g + j <= Ring
    PROVE  /\ (o + g) % Ring \in 0 .. Ring - 1
           /\ (((o + g) % Ring) + j) % Ring = (o + (g + j)) % Ring
<1>1. Ring \in Nat \ {0}
  BY PeakType
<1> DEFINE q == (o + g) % Ring
<1>2. q = IF o + g < Ring THEN o + g ELSE o + g - Ring
  BY Place
<1>3. q \in 0 .. Ring - 1
  BY <1>1, <1>2
<1>4. g + j \in 0 .. Ring
  BY <1>1
<1>5. (o + (g + j)) % Ring = IF o + (g + j) < Ring THEN o + (g + j) ELSE o + (g + j) - Ring
  BY <1>4, Place
<1> HIDE DEF q
<1>6. (q + j) % Ring = IF q + j < Ring THEN q + j ELSE q + j - Ring
  BY <1>3, Place
<1>7. (IF q + j < Ring THEN q + j ELSE q + j - Ring)
        = (IF o + (g + j) < Ring THEN o + (g + j) ELSE o + (g + j) - Ring)
  <2>1. CASE o + g < Ring
    <3>1. q = o + g
      BY <1>2, <2>1
    <3> QED BY <1>1, <3>1
  <2>2. CASE ~(o + g < Ring)
    <3>1. q = o + g - Ring
      BY <1>2, <2>2
    <3>2. q + j < Ring
      BY <1>1, <3>1
    <3>3. ~(o + (g + j) < Ring)
      BY <1>1, <2>2
    <3> QED BY <1>1, <3>1, <3>2, <3>3
  <2> QED BY <2>1, <2>2
<1> QED BY <1>3, <1>5, <1>6, <1>7 DEF q

\* What a decision makes of a slot that is not locked out, and what it answers.
Decided(s, now, r, ok) ==
    \E gone \in 0 .. s.count :
        /\ \A j \in 0 .. gone - 1 : Stamp(s, j) <= now - Window
        /\ r.oldest = (s.oldest + gone) % Ring
        /\ IF s.count - gone >= Ring
           THEN r.ring = s.ring /\ r.count = s.count - gone
           ELSE /\ r.ring = [s.ring EXCEPT ![(r.oldest + (s.count - gone)) % Ring] = now]
                /\ r.count = s.count - gone + 1
        /\ ok => /\ r.count <= EffectivePeak
                 /\ \/ r.count <= Requests /\ r.burst = s.burst
                    \/ /\ r.count > Requests /\ r.burst = now
                       /\ s.burst = 0 \/ now - s.burst >= Window
        /\ ~ok => r.burst = s.burst

\* It is that which Decide does.
LEMMA DecideIs ==
    ASSUME NEW s \in SlotType, NEW c, NEW now \in Nat
    PROVE  /\ Decide(s, c, now).answer.ok \in BOOLEAN
           /\ \/ Decide(s, c, now).slot = s /\ ~Decide(s, c, now).answer.ok
              \/ Decided(s, now, Decide(s, c, now).slot, Decide(s, c, now).answer.ok)
<1> DEFINE gone   == AgedOut(s, now - Window)
           oldest == (s.oldest + gone) % Ring
           kept   == s.count - gone
           full   == RingFull(kept)
           ring   == IF full THEN s.ring ELSE [s.ring EXCEPT ![(oldest + kept) % Ring] = now]
           count  == IF full THEN kept ELSE kept + 1
           t      == [client |-> c, ban |-> 0, burst |-> s.burst, count |-> count,
                      oldest |-> oldest, ring |-> ring]
           spike  == count <= EffectivePeak /\ (s.burst = 0 \/ now - s.burst >= Window)
           wait   == Latest(0, ring[oldest] + Window - now)
           d      == Decide(s, c, now)
<1>1. CASE s.ban # 0 /\ now < s.ban
  <2>1. d = [slot |-> s, answer |-> Refuse(s.ban - now)]
    BY <1>1 DEF Decide
  <2>2. d.slot = s /\ d.answer.ok = FALSE
    BY <2>1 DEF Refuse
  <2> QED BY <2>2
<1>2. CASE ~ (s.ban # 0 /\ now < s.ban)
  <2>1. /\ gone \in 0 .. s.count /\ s.count \in 0 .. Ring /\ Ring \in Nat \ {0}
        /\ \A j \in 0 .. gone - 1 : Stamp(s, j) <= now - Window
    <3>1. now - Window \in Int
      BY WindowAssumption
    <3>2. gone \in 0 .. s.count /\ \A j \in 0 .. gone - 1 : Stamp(s, j) <= now - Window
      BY <3>1, AgedOutType
    <3> QED BY <3>2, PeakType DEF SlotType
  <2>2. /\ kept \in 0 .. Ring /\ count \in Nat /\ full \in BOOLEAN
        /\ full <=> kept >= Ring
    BY <2>1 DEF RingFull
  <2>3. Requests \in Nat /\ EffectivePeak \in Nat /\ Requests <= EffectivePeak
    BY PeakType, WindowAssumption
  <2>4. \/ count <= Requests /\ d = [slot |-> t, answer |-> Allow]
        \/ count > Requests /\ spike /\ d = [slot |-> [t EXCEPT !.burst = now], answer |-> Allow]
        \/ ~spike /\ d = [slot |-> [t EXCEPT !.ban = now + Ban], answer |-> Refuse(Ban)]
        \/ ~spike /\ d = [slot |-> t, answer |-> Refuse(wait)]
    <3>1. CASE count <= Requests
      BY <1>2, <3>1 DEF Decide
    <3>2. CASE count > Requests
      <4>1. ~ (count <= Requests)
        BY <2>2, <2>3, <3>2
      <4>2. d = (CASE spike -> [slot |-> [t EXCEPT !.burst = now], answer |-> Allow]
                  [] ~spike /\ Ban > 0 ->
                        [slot |-> [t EXCEPT !.ban = now + Ban], answer |-> Refuse(Ban)]
                  [] OTHER -> [slot |-> t, answer |-> Refuse(wait)])
        BY <1>2, <3>2, <4>1 DEF Decide
      <4> QED BY <3>2, <4>2
    <3>3. count <= Requests \/ count > Requests
      BY <2>2, <2>3
    <3> QED BY <3>1, <3>2, <3>3
  <2>5. /\ d.slot.oldest = oldest /\ d.slot.ring = ring /\ d.slot.count = count
        /\ \/ count <= Requests /\ d.answer.ok = TRUE /\ d.slot.burst = s.burst
           \/ count > Requests /\ spike /\ d.answer.ok = TRUE /\ d.slot.burst = now
           \/ d.answer.ok = FALSE /\ d.slot.burst = s.burst
    <3> HIDE DEF count, oldest, ring, full, kept, spike, wait, d
    <3> QED BY <2>4 DEF Allow, Refuse
  <2>6. (d.answer.ok => /\ d.slot.count <= EffectivePeak
                        /\ \/ d.slot.count <= Requests /\ d.slot.burst = s.burst
                           \/ /\ d.slot.count > Requests /\ d.slot.burst = now
                              /\ s.burst = 0 \/ now - s.burst >= Window)
        /\ (~d.answer.ok => d.slot.burst = s.burst)
    <3> HIDE DEF count, oldest, ring, d
    <3> QED BY <2>2, <2>3, <2>5
  <2>7. IF s.count - gone >= Ring
        THEN d.slot.ring = s.ring /\ d.slot.count = s.count - gone
        ELSE /\ d.slot.ring = [s.ring EXCEPT ![(d.slot.oldest + (s.count - gone)) % Ring] = now]
             /\ d.slot.count = s.count - gone + 1
    <3> HIDE DEF d, gone
    <3> QED BY <2>2, <2>5
  <2>8. d.answer.ok \in BOOLEAN
    <3> HIDE DEF count, oldest, ring, d
    <3> QED BY <2>5
  <2>9. d.slot.oldest = (s.oldest + gone) % Ring
    BY <2>5
  <2> HIDE DEF d, gone
  <2>10. Decided(s, now, d.slot, d.answer.ok)
    BY <2>1, <2>6, <2>7, <2>9, ZenonT(60) DEF Decided
  <2> QED BY <2>8, <2>10 DEF d
<1> QED BY <1>1, <1>2

\* A decision takes no stamp that is still in the window, adds the one of a request
\* that it admits, and
LEMMA DecidedRecent ==
    ASSUME NEW s \in SlotType, NEW r \in SlotType, NEW now \in Nat, NEW ok \in BOOLEAN,
           Decided(s, now, r, ok), NEW t \in Int, t > now - Window
    PROVE  /\ Cardinality(Recent(r, t)) >= Cardinality(Recent(s, t))
           /\ ok /\ now >= t => Cardinality(Recent(r, t)) = Cardinality(Recent(s, t)) + 1
<1>1. PICK gone \in 0 .. s.count :
        /\ \A j \in 0 .. gone - 1 : Stamp(s, j) <= now - Window
        /\ r.oldest = (s.oldest + gone) % Ring
        /\ IF s.count - gone >= Ring
           THEN r.ring = s.ring /\ r.count = s.count - gone
           ELSE /\ r.ring = [s.ring EXCEPT ![(r.oldest + (s.count - gone)) % Ring] = now]
                /\ r.count = s.count - gone + 1
        /\ ok => r.count <= EffectivePeak
  BY DEF Decided
<1> DEFINE kept == s.count - gone
           o == s.oldest
           p == (r.oldest + kept) % Ring
<1>2. /\ Ring \in Nat \ {0} /\ Ring = EffectivePeak + 1 /\ EffectivePeak \in Nat
      /\ s.count \in 0 .. Ring /\ kept \in 0 .. Ring /\ gone \in 0 .. Ring /\ kept + gone = s.count
      /\ o \in 0 .. Ring - 1 /\ r.oldest \in 0 .. Ring - 1
      /\ s.ring \in [0 .. Ring - 1 -> Nat] /\ Window \in Nat
  <2>1. Ring \in Nat \ {0} /\ EffectivePeak \in Nat /\ Window \in Nat
    BY PeakType, WindowAssumption
  <2>2. Ring = EffectivePeak + 1
    BY DEF Ring
  <2>3. /\ s.count \in 0 .. Ring /\ s.oldest \in 0 .. Ring - 1 /\ r.oldest \in 0 .. Ring - 1
        /\ s.ring \in [0 .. Ring - 1 -> Nat]
    BY DEF SlotType
  <2>4. kept \in 0 .. Ring /\ gone \in 0 .. Ring /\ kept + gone = s.count
    BY <2>1, <2>3, Z3
  <2> QED BY <2>1, <2>2, <2>3, <2>4
<1>3. ASSUME NEW j \in 0 .. kept
      PROVE  (r.oldest + j) % Ring = (o + (gone + j)) % Ring
  <2>1. j \in 0 .. Ring /\ gone + j <= Ring
    BY <1>2, Z3
  <2>2. (((o + gone) % Ring) + j) % Ring = (o + (gone + j)) % Ring
    BY <1>2, <2>1, PlaceOn, ZenonT(90)
  <2> QED BY <1>1, <2>2, ZenonT(30)
<1> HIDE DEF kept, o
\* What stays is what is not dropped,
<1>4. ASSUME NEW q
      PROVE  q \in Recent(s, t) <=>
               \E j \in 0 .. kept - 1 : q = (r.oldest + j) % Ring /\ s.ring[q] >= t
  <2>1. ASSUME NEW i \in 0 .. s.count - 1, q = (o + i) % Ring, s.ring[q] >= t
        PROVE  \E j \in 0 .. kept - 1 : q = (r.oldest + j) % Ring
    <3>1. i \notin 0 .. gone - 1
      <4>1. Stamp(s, i) = s.ring[q]
        BY <2>1 DEF Stamp, o
      <4>2. s.ring[q] \in Nat
        <5>1. o \in 0 .. Ring - 1 /\ i \in 0 .. Ring
          BY <1>2
        <5>2. q \in 0 .. Ring - 1
          BY <2>1, <5>1, Place
        <5> QED BY <1>2, <5>2
      <4>3. ~(Stamp(s, i) <= now - Window)
        BY <1>2, <2>1, <4>1, <4>2
      <4> QED BY <1>1, <4>3
    <3>2. i - gone \in 0 .. kept - 1 /\ i - gone \in 0 .. kept /\ gone + (i - gone) = i
      BY <1>2, <3>1
    <3>3. (r.oldest + (i - gone)) % Ring = (o + i) % Ring
      BY <1>3, <3>2
    <3> QED BY <2>1, <3>2, <3>3
  <2>2. ASSUME NEW j \in 0 .. kept - 1, q = (r.oldest + j) % Ring
        PROVE  \E i \in 0 .. s.count - 1 : q = (o + i) % Ring
    <3>1. gone + j \in 0 .. s.count - 1 /\ j \in 0 .. kept
      BY <1>2, SMTT(30)
    <3> QED BY <1>3, <2>2, <3>1
  <2>3. q \in Recent(s, t) <=> (\E i \in 0 .. s.count - 1 : q = (o + i) % Ring) /\ s.ring[q] >= t
    BY DEF Recent, Live, o
  <2> QED BY <2>1, <2>2, <2>3
<1>5. ASSUME NEW q
      PROVE  q \in Recent(r, t) <=>
               \E j \in 0 .. r.count - 1 : q = (r.oldest + j) % Ring /\ r.ring[q] >= t
  BY DEF Recent, Live
<1>6. CASE kept >= Ring
  <2>1. r.ring = s.ring /\ r.count = kept
    BY <1>1, <1>6 DEF kept
  <2>2. Recent(r, t) = Recent(s, t)
    BY <1>4, <1>5, <2>1
  <2>3. ~ok
    BY <1>1, <1>2, <1>6, <2>1
  <2> QED BY <2>2, <2>3, RecentFinite
<1>7. CASE ~(kept >= Ring)
  <2>1. r.ring = [s.ring EXCEPT ![p] = now] /\ r.count = kept + 1
    BY <1>1, <1>7 DEF kept
  <2>2. p \in 0 .. Ring - 1
    BY <1>2, Place
  <2>3. ASSUME NEW j \in 0 .. kept - 1 PROVE (r.oldest + j) % Ring # p
    <3>1. j \in 0 .. Ring - 1 /\ kept \in 0 .. Ring - 1 /\ j # kept
      BY <1>2, <1>7
    <3> QED BY <1>2, <3>1, PlacesDiffer
  <2>4. r.ring[p] = now /\ \A q \in 0 .. Ring - 1 : q # p => r.ring[q] = s.ring[q]
    BY <1>2, <2>1, <2>2
  <2>p. p = (r.oldest + kept) % Ring
    OBVIOUS
  <2> HIDE DEF p
  <2>5. p \notin Recent(s, t)
    BY <1>4, <2>3
  <2>6. Recent(s, t) \subseteq 0 .. Ring - 1
    BY RecentFinite DEF Recent
  <2>7. ASSUME NEW q \in Recent(s, t) PROVE q \in Recent(r, t)
    <3>1. PICK j \in 0 .. kept - 1 : q = (r.oldest + j) % Ring /\ s.ring[q] >= t
      BY <1>4
    <3>2. q # p /\ r.ring[q] = s.ring[q]
      BY <2>3, <2>4, <2>6, <3>1
    <3>3. j \in 0 .. r.count - 1
      BY <1>2, <2>1
    <3> QED BY <1>5, <3>1, <3>2, <3>3
  <2>8. p \in Recent(r, t) <=> now >= t
    <3>1. kept \in 0 .. r.count - 1
      BY <1>2, <2>1
    <3> QED BY <1>5, <2>p, <2>4, <3>1
  <2>9. ASSUME NEW q \in Recent(r, t), q # p PROVE q \in Recent(s, t)
    <3>1. PICK j \in 0 .. r.count - 1 : q = (r.oldest + j) % Ring /\ r.ring[q] >= t
      BY <1>5
    <3>2. j \in 0 .. kept - 1
      <4>1. j # kept
        BY <2>9, <2>p, <3>1
      <4> QED BY <1>2, <2>1, <4>1
    <3>3. q \in 0 .. Ring - 1
      BY <2>9, RecentFinite DEF Recent
    <3>4. s.ring[q] >= t
      BY <2>4, <2>9, <3>1, <3>3
    <3> QED BY <1>4, <3>1, <3>2, <3>4
  <2>10. CASE now >= t
    <3>1. Recent(r, t) = Recent(s, t) \cup {p}
      BY <2>7, <2>8, <2>9, <2>10
    <3>2. Cardinality(Recent(r, t)) = Cardinality(Recent(s, t)) + 1
      BY <2>5, <3>1, RecentFinite, FS_AddElement
    <3> QED BY <3>2, RecentFinite
  <2>11. CASE ~(now >= t)
    <3>1. Recent(r, t) = Recent(s, t)
      BY <2>7, <2>8, <2>9, <2>11
    <3> QED BY <2>11, <3>1, RecentFinite
  <2> QED BY <2>10, <2>11
<1> QED BY <1>6, <1>7

\* No stamp of a slot is ahead of the clock, nor far ahead of the last one: it was
\* written before the last one, which was no older than MaxLag then.
Stamped(s, time) ==
    \A p \in Live(s) : s.ring[p] <= time /\ s.ring[p] <= Stamp(s, s.count - 1) + MaxLag

\* keeps the stamps of a slot like that, as long as it is not late.
LEMMA DecidedStamped ==
    ASSUME NEW s \in SlotType, NEW r \in SlotType, NEW now \in Nat, NEW ok,
           Decided(s, now, r, ok), NEW time \in Nat, now <= time, time <= now + MaxLag,
           Stamped(s, time)
    PROVE  Stamped(r, time)
<1>1. PICK gone \in 0 .. s.count :
        /\ r.oldest = (s.oldest + gone) % Ring
        /\ IF s.count - gone >= Ring
           THEN r.ring = s.ring /\ r.count = s.count - gone
           ELSE /\ r.ring = [s.ring EXCEPT ![(r.oldest + (s.count - gone)) % Ring] = now]
                /\ r.count = s.count - gone + 1
  BY DEF Decided
<1> DEFINE kept == s.count - gone
           o == s.oldest
           p == (r.oldest + kept) % Ring
<1>2. /\ Ring \in Nat \ {0} /\ MaxLag \in Nat
      /\ s.count \in 0 .. Ring /\ kept \in 0 .. Ring /\ gone \in 0 .. Ring /\ kept + gone = s.count
      /\ o \in 0 .. Ring - 1 /\ r.oldest \in 0 .. Ring - 1
      /\ s.ring \in [0 .. Ring - 1 -> Nat]
  <2>1. Ring \in Nat \ {0} /\ MaxLag \in Nat
    BY PeakType, SharedAssumption
  <2>2. /\ s.count \in 0 .. Ring /\ s.oldest \in 0 .. Ring - 1 /\ r.oldest \in 0 .. Ring - 1
        /\ s.ring \in [0 .. Ring - 1 -> Nat]
    BY DEF SlotType
  <2>3. kept \in 0 .. Ring /\ gone \in 0 .. Ring /\ kept + gone = s.count
    BY <2>1, <2>2
  <2> QED BY <2>1, <2>2, <2>3
<1>3. ASSUME NEW j \in 0 .. kept
      PROVE  (r.oldest + j) % Ring = (o + (gone + j)) % Ring
  <2>1. j \in 0 .. Ring /\ gone + j <= Ring
    BY <1>2
  <2>2. (((o + gone) % Ring) + j) % Ring = (o + (gone + j)) % Ring
    BY <1>2, <2>1, PlaceOn, ZenonT(30)
  <2> QED BY <1>1, <2>2, ZenonT(30)
<1> HIDE DEF kept, o
<1>4. CASE kept >= Ring
  <2>1. r.ring = s.ring /\ r.count = kept /\ kept = Ring /\ gone = 0 /\ s.count = kept
    BY <1>1, <1>2, <1>4 DEF kept
  <2>2. r.oldest = o
    <3>1. o + 0 < Ring /\ 0 \in 0 .. Ring /\ o + 0 = o
      BY <1>2
    <3>2. (o + 0) % Ring = o
      BY <1>2, <3>1, Place
    <3> QED BY <1>1, <2>1, <3>2 DEF o
  <2> QED BY <2>1, <2>2 DEF Stamped, Live, Stamp, o
<1>5. CASE ~(kept >= Ring)
  <2>1. r.ring = [s.ring EXCEPT ![p] = now] /\ r.count = kept + 1
    BY <1>1, <1>5 DEF kept
  <2>2. p \in 0 .. Ring - 1
    BY <1>2, Place
  <2>3. r.ring[p] = now /\ \A q \in 0 .. Ring - 1 : q # p => r.ring[q] = s.ring[q]
    BY <1>2, <2>1, <2>2
  <2>4. Stamp(r, r.count - 1) = now
    <3>1. r.count - 1 = kept
      BY <1>2, <2>1
    <3> QED BY <2>3, <3>1 DEF Stamp
  <2>5. ASSUME NEW q \in Live(r), q # p PROVE q \in Live(s) /\ q \in 0 .. Ring - 1
    <3>1. PICK j \in 0 .. r.count - 1 : q = (r.oldest + j) % Ring
      BY DEF Live
    <3>2. j # kept
      BY <2>5, <3>1
    <3>3. j \in 0 .. kept /\ gone + j \in 0 .. s.count - 1
      BY <1>2, <2>1, <3>2
    <3>4. q = (o + (gone + j)) % Ring
      BY <1>3, <3>1, <3>3
    <3>5. q \in Live(s)
      BY <3>3, <3>4 DEF Live, o
    <3> QED BY <3>5, RecentFinite
  <2> HIDE DEF p
  <2>6. ASSUME NEW q \in Live(r) PROVE r.ring[q] <= time /\ r.ring[q] <= now + MaxLag
    <3>1. CASE q = p
      BY <1>2, <2>3, <3>1
    <3>2. CASE q # p
      <4>1. q \in Live(s) /\ q \in 0 .. Ring - 1 /\ r.ring[q] = s.ring[q]
        BY <2>3, <2>5, <3>2
      <4>2. s.ring[q] <= time /\ s.ring[q] \in Nat
        BY <1>2, <4>1 DEF Stamped
      <4> QED BY <1>2, <4>1, <4>2
    <3> QED BY <3>1, <3>2
  <2> QED BY <2>4, <2>6 DEF Stamped
<1> QED BY <1>4, <1>5

\* A slot that is free has none.
LEMMA FreshStamped ==
    ASSUME NEW s \in SlotType, NEW time, NEW t
    PROVE  Stamped(FreshSlot(s), time) /\ Recent(FreshSlot(s), t) = {}
<1>1. FreshSlot(s).count = 0
  BY DEF FreshSlot, EmptySlot
<1>2. Live(FreshSlot(s)) = {}
  BY <1>1 DEF Live
<1> QED BY <1>2 DEF Stamped, Recent

\* A sweep takes a slot with no stamp that a window still needs.
LEMMA SweepableIsOver ==
    ASSUME NEW s \in SlotType, NEW time \in Nat, Stamped(s, time), NEW now \in Nat, now <= time,
           Sweepable(s, now), NEW t \in Int, t > time - Window + MaxLag
    PROVE  Recent(s, t) = {}
<1>1. MaxLag \in Nat /\ Window \in Nat /\ s.count \in Nat
  BY WindowAssumption, SharedAssumption, PeakType DEF SlotType
<1>2. CASE s.count = 0
  BY <1>2 DEF Recent, Live
<1>3. CASE s.count # 0
  <2>1. Stamp(s, s.count - 1) <= now - Window /\ Stamp(s, s.count - 1) \in Nat
    <3>1. s.count - 1 \in Nat
      BY <1>1, <1>3
    <3> QED BY <1>3, <3>1, StampType DEF Sweepable
  <2>2. ASSUME NEW p \in Live(s) PROVE ~(s.ring[p] >= t)
    <3>1. p \in 0 .. Ring - 1
      BY RecentFinite
    <3>2. s.ring[p] \in Nat
      BY <3>1 DEF SlotType
    <3>3. s.ring[p] <= Stamp(s, s.count - 1) + MaxLag
      BY DEF Stamped
    <3> QED BY <1>1, <2>1, <3>2, <3>3
  <2> QED BY <2>2 DEF Recent
<1> QED BY <1>2, <1>3

----------------------------------------------------------------------------
\* The allowance.

\* Requests are counted when the clock says, and decided soon after.
Counting ==
    /\ served \in [Counters -> [Clients -> [Times -> Nat]]]
    /\ clock \in Times
    /\ \A w \in Workers : pc[w] \notin {"idle", "dead"} =>
          req[w].now \in Times /\ req[w].now <= clock /\ clock <= req[w].now + MaxLag

\* A client is in its run only, and one whose run is its own in the first slot.
Homes ==
    /\ \A i \in Indices : table[i].client # NoClient =>
          \E k \in 0 .. Probes - 1 : i = Probe(table[i].client, k)
    /\ \A w \in Workers : pc[w] = "inspect" => at[w] = Probe(req[w].client, req[w].step)
    /\ \A w \in Workers : pc[w] \in {"probe", "inspect"} /\ Alone(req[w].client) =>
          req[w].step = 0
    /\ \A i \in Indices : table[i].client # NoClient /\ Alone(table[i].client) =>
          i = Probe(table[i].client, 0)

\* The clients the allowance is promised to.
Promised(c) == Alone(c) \/ Unswept

\* How many requests of c the table allowed since t.
Given(c, t) == ServedIn(Table, c, t, MaxTime)

\* Slot s accounts for n requests since t.
Accounts(s, n, t) ==
    /\ n <= Cardinality(Recent(s, t))
    /\ n <= Requests + (IF s.burst >= t THEN 1 ELSE 0)

\* What was allowed since a time that no decision can age out yet is in the slot of
\* the client; when it has none, nothing was.
Covered(c) ==
    \A t \in Times : t > clock - Window + MaxLag =>
        /\ Given(c, t) <= Allowance
        /\ \A i \in Indices : table[i].client = c => Accounts(table[i], Given(c, t), t)
        /\ (\A i \in Indices : table[i].client # c) => Given(c, t) = 0

AllStamped == \A i \in Indices : Stamped(table[i], clock)
AllowInv ==
    /\ Counting /\ Homes /\ AllStamped
    /\ \A c \in Clients : Promised(c) => Covered(c)
    /\ AllowanceHeld

\* The steps that neither decide on a slot nor clear one.
Calm ==
    /\ table' = table /\ home' = home /\ swept' = swept
    /\ served' \in [Counters -> [Clients -> [Times -> Nat]]] /\ served'[Table] = served[Table]
    /\ clock' \in {clock, clock + 1} /\ clock' \in Times

\* An answer is counted where, for whom and when it is given.
LEMMA AnswerGives ==
    ASSUME Counting, NEW k \in Counters, NEW c \in Clients, NEW now \in Times, NEW ok,
           Answer(k, c, now, ok)
    PROVE  /\ served' \in [Counters -> [Clients -> [Times -> Nat]]]
           /\ \A l \in Counters \ {k} : served'[l] = served[l]
           /\ \A d \in Clients \ {c} : served'[k][d] = served[k][d]
           /\ ok => served'[k][c] = [served[k][c] EXCEPT ![now] = served[k][c][now] + 1]
           /\ ~ok => served' = served
<1>1. CASE ~ok
  BY <1>1 DEF Answer, Counting
<1>2. CASE ok
  <2>1. served[k] \in [Clients -> [Times -> Nat]] /\ served[k][c] \in [Times -> Nat]
        /\ served[k][c][now] + 1 \in Nat
    BY DEF Counting
  <2> DEFINE f == [served[k][c] EXCEPT ![now] = served[k][c][now] + 1]
             g == [served[k] EXCEPT ![c] = f]
  <2>2. served' = [served EXCEPT ![k] = g]
    BY <1>2 DEF Answer
  <2>3. f \in [Times -> Nat]
    BY <2>1
  <2> HIDE DEF f
  <2>4. g \in [Clients -> [Times -> Nat]] /\ g[c] = f
        /\ \A d \in Clients \ {c} : g[d] = served[k][d]
    BY <2>1, <2>3
  <2> HIDE DEF g
  <2>5. /\ served' \in [Counters -> [Clients -> [Times -> Nat]]] /\ served'[k] = g
        /\ \A l \in Counters \ {k} : served'[l] = served[l]
    BY <2>2, <2>4 DEF Counting
  <2> QED BY <1>2, <2>4, <2>5 DEF f
<1> QED BY <1>1, <1>2

\* A worker that counts alone is calm,
LEMMA CountAloneCalm ==
    ASSUME Counting, NEW w \in Workers, NEW c \in Clients, NEW now \in Times, CountAlone(w, c, now)
    PROVE  served' \in [Counters -> [Clients -> [Times -> Nat]]] /\ served'[Table] = served[Table]
<1>1. w # Table /\ w \in Counters /\ Table \in Counters
  BY SharedAssumption DEF Table, Counters
<1>2. Answer(w, c, now, Consume(local[w], c, now).answer.ok)
  BY DEF CountAlone
<1> QED BY <1>1, <1>2, AnswerGives

\* and so is every step but the two.
LEMMA NextCalm ==
    ASSUME TypeInv, Counting, [Next]_vars,
           \A w \in Workers : ~TakeSlot(w) /\ ~SweepClear(w)
    PROVE  Calm
<1>0. /\ pc \in [Workers -> {"idle", "probe", "inspect", "sweep", "clear", "dead"}]
      /\ served \in [Counters -> [Clients -> [Times -> Nat]]] /\ clock \in Times
  BY DEF TypeInv, TypeOK, Counting
<1>1. CASE UNCHANGED vars
  BY <1>0, <1>1 DEF vars, Calm
<1>2. CASE Tick
  <2>1. clock + 1 \in Times
    BY <1>0, <1>2, SharedAssumption DEF Tick, Times
  <2> QED BY <1>0, <1>2, <2>1 DEF Tick, Calm
<1>3. ASSUME NEW w \in Workers, NEW c \in Clients, ArriveUnmapped(w, c) PROVE Calm
  <2>1. served' \in [Counters -> [Clients -> [Times -> Nat]]] /\ served'[Table] = served[Table]
    BY <1>0, <1>3, CountAloneCalm DEF ArriveUnmapped
  <2> QED BY <1>0, <1>3, <2>1 DEF ArriveUnmapped, Calm
<1>4. ASSUME NEW w \in Workers, TimeOut(w) \/ Overflow(w) PROVE Calm
  <2>1. req[w].client \in Clients /\ req[w].now \in Times /\ CountAlone(w, req[w].client, req[w].now)
    BY <1>4 DEF TimeOut, Overflow, TypeInv, Busy, Counting
  <2>2. served' \in [Counters -> [Clients -> [Times -> Nat]]] /\ served'[Table] = served[Table]
    BY <2>1, CountAloneCalm
  <2> QED BY <1>0, <1>4, <2>2 DEF TimeOut, Overflow, Calm
<1>5. ASSUME NEW w \in Workers, NEW c \in Clients, Arrive(w, c) PROVE Calm
  BY <1>0, <1>5 DEF Arrive, Calm
<1>6. ASSUME NEW w \in Workers, Acquire(w) \/ NextProbe(w) \/ SweepVisit(w) \/ SweepSkip(w)
                                \/ Die(w) \/ Close(w)
      PROVE  Calm
  BY <1>0, <1>6 DEF Acquire, NextProbe, SweepVisit, SweepSkip, Die, Close, Calm
<1> QED BY <1>1, <1>2, <1>3, <1>4, <1>5, <1>6 DEF Next, Step

\* A sweep counts nothing, and a decision what it admits.
LEMMA TakeSlotGives ==
    ASSUME TypeInv, NoLostUpdate, Counting, NEW w \in Workers, TakeSlot(w)
    PROVE  \E c \in Clients, now \in Times, s \in SlotType, ok \in BOOLEAN :
             /\ c = req[w].client /\ now = req[w].now
             /\ now <= clock /\ clock <= now + MaxLag
             /\ pc[w] = "inspect" /\ at[w] \in Indices /\ table[at[w]] = seen[w]
             /\ \/ seen[w].client = c /\ s = seen[w]
                \/ seen[w].client = NoClient /\ s = FreshSlot(seen[w])
             /\ Decide(s, c, now).answer.ok = ok /\ Answer(Table, c, now, ok)
             /\ Decide(s, c, now).slot \in SlotType /\ Decide(s, c, now).slot.client = c
             /\ table' = [table EXCEPT ![at[w]] = Decide(s, c, now).slot]
<1> DEFINE c == req[w].client
           now == req[w].now
           s == IF seen[w].client = NoClient THEN FreshSlot(seen[w]) ELSE seen[w]
           d == Decide(s, c, now)
<1>1. /\ pc[w] = "inspect" /\ c \in Clients /\ at[w] \in Indices /\ seen[w] \in SlotType
      /\ now \in Times /\ now <= clock /\ clock <= now + MaxLag /\ table[at[w]] = seen[w]
      /\ seen[w].client \in {NoClient, c} /\ now \in Nat
  BY DEF TakeSlot, TypeInv, TypeOK, Busy, Counting, NoLostUpdate, Times
<1>2. /\ table' = [table EXCEPT ![at[w]] = d.slot]
      /\ Answer(Table, c, now, d.answer.ok)
  BY DEF TakeSlot
<1>3. /\ s \in SlotType
      /\ \/ seen[w].client = c /\ s = seen[w]
         \/ seen[w].client = NoClient /\ s = FreshSlot(seen[w])
      /\ s.client = c \/ s.ban = 0
  BY <1>1, FreshSlotType
<1> HIDE DEF c, now, s
<1>4. d.slot \in SlotType /\ d.slot.client = c /\ d.answer.ok \in BOOLEAN
  BY <1>1, <1>3, DecideType, DecideIs
<1> QED BY <1>1, <1>2, <1>3, <1>4 DEF c, now

\* The requests are decided in time.
LEMMA NextCounting ==
    ASSUME TypeInv, NoLostUpdate, Counting, [Next]_vars
    PROVE  Counting'
<1>0. /\ pc \in [Workers -> {"idle", "probe", "inspect", "sweep", "clear", "dead"}]
      /\ req \in [Workers -> [client : Clients \cup {NoClient}, now : Nat, step : 0 .. Probes - 1]]
      /\ clock \in Times /\ clock \in Nat /\ MaxLag \in Nat
      /\ served \in [Counters -> [Clients -> [Times -> Nat]]]
  BY SharedAssumption DEF TypeInv, TypeOK, Counting
<1> DEFINE InTime(w) == pc'[w] \notin {"idle", "dead"} =>
               req'[w].now \in Times /\ req'[w].now <= clock' /\ clock' <= req'[w].now + MaxLag
           Same(w) == pc'[w] \notin {"idle", "dead"} =>
               pc[w] \notin {"idle", "dead"} /\ req'[w].now = req[w].now
           Typed == served' \in [Counters -> [Clients -> [Times -> Nat]]] /\ clock' \in Times
<1>1. Typed
  <2>1. ASSUME NEW w \in Workers, TakeSlot(w) PROVE Typed
    <3>1. \E c \in Clients, now \in Times, ok \in BOOLEAN : Answer(Table, c, now, ok)
      BY <2>1, TakeSlotGives
    <3>2. served' \in [Counters -> [Clients -> [Times -> Nat]]]
      BY <3>1, AnswerGives DEF Counters
    <3> QED BY <1>0, <2>1, <3>2 DEF TakeSlot
  <2>2. ASSUME NEW w \in Workers, SweepClear(w) PROVE Typed
    BY <1>0, <2>2 DEF SweepClear
  <2>3. ASSUME \A w \in Workers : ~TakeSlot(w) /\ ~SweepClear(w) PROVE Typed
    BY <2>3, NextCalm DEF Calm
  <2> QED BY <2>1, <2>2, <2>3
<1>2. ASSUME clock' = clock, \A w \in Workers : Same(w) PROVE \A w \in Workers : InTime(w)
  BY <1>2 DEF Counting
<1>3. CASE UNCHANGED vars
  <2>1. clock' = clock /\ \A w \in Workers : Same(w)
    BY <1>3 DEF vars
  <2> QED BY <1>1, <1>2, <2>1 DEF Counting
<1>4. CASE Tick
  <2>1. clock' = clock + 1 /\ pc' = pc /\ req' = req
        /\ \A w \in Workers : pc[w] \in {"idle", "dead"} \/ clock - req[w].now < MaxLag
    BY <1>4 DEF Tick
  <2>2. ASSUME NEW w \in Workers, pc[w] \notin {"idle", "dead"}
        PROVE  req[w].now \in Times /\ req[w].now <= clock' /\ clock' <= req[w].now + MaxLag
    <3>1. req[w].now \in Times /\ req[w].now <= clock /\ clock - req[w].now < MaxLag
      BY <2>1, <2>2 DEF Counting
    <3>2. req[w].now \in Nat
      BY <1>0
    <3> QED BY <1>0, <2>1, <3>1, <3>2
  <2> QED BY <1>1, <2>1, <2>2 DEF Counting
<1>5. ASSUME NEW w \in Workers, NEW c \in Clients, Arrive(w, c) PROVE Counting'
  <2>1. /\ clock' = clock /\ req'[w].now = clock
        /\ \A v \in Workers \ {w} : pc'[v] = pc[v] /\ req'[v] = req[v]
    BY <1>0, <1>5 DEF Arrive
  <2>2. InTime(w)
    BY <1>0, <2>1
  <2>3. ASSUME NEW v \in Workers \ {w} PROVE InTime(v)
    BY <2>1 DEF Counting
  <2> QED BY <1>1, <2>2, <2>3 DEF Counting
<1>6. ASSUME NEW w \in Workers, clock' = clock, Same(w),
             \A v \in Workers \ {w} : pc'[v] = pc[v] /\ req'[v] = req[v]
      PROVE  Counting'
  <2>1. \A v \in Workers : Same(v)
    BY <1>6
  <2> QED BY <1>1, <1>2, <1>6, <2>1 DEF Counting
<1>7. ASSUME NEW w \in Workers, Done(w) \/ (pc' = [pc EXCEPT ![w] = "sweep"] /\ req' = req),
             pc[w] \notin {"idle", "dead"}
      PROVE  Same(w) /\ \A v \in Workers \ {w} : pc'[v] = pc[v] /\ req'[v] = req[v]
  BY <1>0, <1>7 DEF Done
<1>8. ASSUME NEW w \in Workers, TimeOut(w) \/ Overflow(w) \/ TakeSlot(w) \/ SweepSkip(w)
                                \/ SweepClear(w)
      PROVE  Counting'
  <2>1. clock' = clock /\ pc[w] \notin {"idle", "dead"}
    BY <1>8 DEF TimeOut, Overflow, TakeSlot, SweepSkip, SweepClear
  <2>2. Done(w) \/ (pc' = [pc EXCEPT ![w] = "sweep"] /\ req' = req)
    BY <1>8 DEF TimeOut, Overflow, TakeSlot, SweepSkip, SweepClear, AfterDecision, SweepOn
  <2> QED BY <1>6, <1>7, <2>1, <2>2
<1>9. ASSUME NEW w \in Workers, NEW c \in Clients, ArriveUnmapped(w, c) PROVE Counting'
  BY <1>6, <1>9 DEF ArriveUnmapped
<1>10. ASSUME NEW w \in Workers, Acquire(w) \/ SweepVisit(w) \/ Die(w) \/ Close(w)
       PROVE  Counting'
  <2>1. /\ clock' = clock /\ req' = req /\ \A v \in Workers \ {w} : pc'[v] = pc[v]
        /\ pc'[w] \notin {"idle", "dead"} => pc[w] \notin {"idle", "dead"}
    BY <1>0, <1>10 DEF Acquire, SweepVisit, Die, Close
  <2> QED BY <1>6, <2>1
<1>11. ASSUME NEW w \in Workers, NextProbe(w) PROVE Counting'
  <2>1. /\ clock' = clock /\ \A v \in Workers \ {w} : pc'[v] = pc[v] /\ req'[v] = req[v]
        /\ pc[w] = "inspect" /\ req'[w].now = req[w].now
    BY <1>0, <1>11 DEF NextProbe
  <2> QED BY <1>6, <2>1
<1> QED BY <1>3, <1>4, <1>5, <1>8, <1>9, <1>10, <1>11 DEF Next, Step

\* A client whose run is its own alone is found at once, and decided there.
LEMMA NextHomes ==
    ASSUME TypeInv, NoLostUpdate, Homes, [Next]_vars, Counting
    PROVE  Homes'
<1>0. /\ pc \in [Workers -> {"idle", "probe", "inspect", "sweep", "clear", "dead"}]
      /\ req \in [Workers -> [client : Clients \cup {NoClient}, now : Nat, step : 0 .. Probes - 1]]
      /\ table \in [Indices -> SlotType] /\ at \in [Workers -> Indices] /\ Probes \in Nat \ {0}
      /\ NoClient \notin Clients
  BY SharedAssumption, WindowAssumption DEF TypeInv, TypeOK
<1> DEFINE AtHome(i) == table'[i].client # NoClient =>
               /\ \E k \in 0 .. Probes - 1 : i = Probe(table'[i].client, k)
               /\ Alone(table'[i].client) => i = Probe(table'[i].client, 0)
           OnItsWay(w) ==
               /\ pc'[w] = "inspect" => at'[w] = Probe(req'[w].client, req'[w].step)
               /\ pc'[w] \in {"probe", "inspect"} /\ Alone(req'[w].client) => req'[w].step = 0
           SameWay(w) == pc'[w] \in {"probe", "inspect"} =>
               /\ pc[w] \in {"probe", "inspect"} /\ req'[w] = req[w]
               /\ pc'[w] = "inspect" => pc[w] = "inspect" /\ at'[w] = at[w]
<1>1. home' = home
  BY DEF Next, Step, vars, Tick, Arrive, ArriveUnmapped, Acquire, TimeOut, TakeSlot, NextProbe,
     Overflow, SweepVisit, SweepSkip, SweepClear, Die, Close
<1>2. ASSUME NEW c, NEW k PROVE Probe(c, k)' = Probe(c, k)
  BY <1>1 DEF Probe
<1>3. ASSUME NEW c PROVE Alone(c)' <=> Alone(c)
  BY <1>1 DEF Alone, Probe
<1>4. ASSUME \A i \in Indices : AtHome(i), \A w \in Workers : OnItsWay(w)
      PROVE  Homes'
  <2>1. ASSUME NEW i \in Indices
        PROVE  (table[i].client # NoClient =>
                  /\ \E k \in 0 .. Probes - 1 : i = Probe(table[i].client, k)
                  /\ Alone(table[i].client) => i = Probe(table[i].client, 0))'
    BY <1>1, <1>4 DEF Alone, Probe
  <2>2. ASSUME NEW w \in Workers
        PROVE  (/\ pc[w] = "inspect" => at[w] = Probe(req[w].client, req[w].step)
                /\ pc[w] \in {"probe", "inspect"} /\ Alone(req[w].client) => req[w].step = 0)'
    BY <1>1, <1>4 DEF Alone, Probe
  <2> QED BY <2>1, <2>2 DEF Homes
<1>5. ASSUME table' = table PROVE \A i \in Indices : AtHome(i)
  BY <1>5 DEF Homes
<1>6. ASSUME NEW w \in Workers, SameWay(w) PROVE OnItsWay(w)
  BY <1>6 DEF Homes
<1>7. ASSUME NEW w \in Workers, table' = table, OnItsWay(w),
             \A v \in Workers \ {w} : SameWay(v)
      PROVE  Homes'
  BY <1>4, <1>5, <1>6, <1>7
<1> HIDE DEF OnItsWay, AtHome
<1>8. CASE Tick \/ UNCHANGED vars
  <2>1. table' = table /\ \A v \in Workers : SameWay(v)
    BY <1>8 DEF Tick, vars
  <2> QED BY <1>4, <1>5, <1>6, <2>1
<1>9. ASSUME NEW w \in Workers, NEW c \in Clients, Arrive(w, c) PROVE Homes'
  <2>1. /\ table' = table /\ \A v \in Workers \ {w} : SameWay(v)
        /\ pc'[w] = "probe" /\ req'[w].step = 0
    BY <1>0, <1>9 DEF Arrive
  <2>2. OnItsWay(w)
    BY <2>1 DEF OnItsWay
  <2> QED BY <1>7, <2>1, <2>2
<1>10. ASSUME NEW w \in Workers, NEW c \in Clients, ArriveUnmapped(w, c) PROVE Homes'
  <2>1. table' = table /\ \A v \in Workers : SameWay(v)
    BY <1>10 DEF ArriveUnmapped
  <2> QED BY <1>4, <1>5, <1>6, <2>1
<1>11. ASSUME NEW w \in Workers, Done(w) \/ (pc' = [pc EXCEPT ![w] = "sweep"] /\ req' = req)
       PROVE  /\ pc'[w] \notin {"probe", "inspect"}
              /\ \A v \in Workers \ {w} : pc'[v] = pc[v] /\ req'[v] = req[v]
  BY <1>0, <1>11 DEF Done
<1>12. ASSUME NEW w \in Workers, TimeOut(w) \/ Overflow(w) \/ SweepSkip(w) PROVE Homes'
  <2>1. /\ table' = table /\ \A v \in Workers \ {w} : at'[v] = at[v]
        /\ Done(w) \/ (pc' = [pc EXCEPT ![w] = "sweep"] /\ req' = req)
    BY <1>0, <1>12 DEF TimeOut, Overflow, SweepSkip, SweepOn, Release
  <2>2. \A v \in Workers : SameWay(v)
    BY <1>11, <2>1
  <2> QED BY <1>4, <1>5, <1>6, <2>1, <2>2
<1>13. ASSUME NEW w \in Workers, SweepVisit(w) \/ Die(w) \/ Close(w) PROVE Homes'
  <2>1. table' = table /\ \A v \in Workers : SameWay(v)
    BY <1>0, <1>13 DEF SweepVisit, Hold, Die, Close
  <2> QED BY <1>4, <1>5, <1>6, <2>1
<1>14. ASSUME NEW w \in Workers, Acquire(w) PROVE Homes'
  <2>1. /\ table' = table /\ \A v \in Workers \ {w} : SameWay(v)
        /\ pc[w] = "probe" /\ req' = req /\ at'[w] = Probe(req[w].client, req[w].step)
    BY <1>0, <1>14 DEF Acquire, Hold
  <2>2. OnItsWay(w)
    BY <2>1 DEF OnItsWay, Homes
  <2> QED BY <1>7, <2>1, <2>2
<1>15. ASSUME NEW w \in Workers, NextProbe(w) PROVE Homes'
  <2>1. /\ table' = table /\ \A v \in Workers \ {w} : SameWay(v)
        /\ pc[w] = "inspect" /\ pc'[w] = "probe" /\ req'[w].client = req[w].client
    BY <1>0, <1>15 DEF NextProbe, Release
  <2> DEFINE c == req[w].client
             d == table[at[w]].client
  <2>2. ~Alone(c)
    <3>1. SUFFICES ASSUME Alone(c) PROVE FALSE
      OBVIOUS
    <3>2. d \in Clients \ {c} /\ at[w] \in Indices
      BY <1>0, <1>15 DEF NextProbe, NoLostUpdate, SlotType
    <3>3. at[w] = Probe(c, 0) /\ req[w].step = 0
      BY <2>1, <3>1 DEF Homes
    <3>4. PICK k \in 0 .. Probes - 1 : at[w] = Probe(d, k)
      BY <1>0, <3>2 DEF Homes
    <3>5. 0 \in 0 .. Probes - 1
      BY <1>0
    <3> QED BY <3>1, <3>2, <3>3, <3>4, <3>5 DEF Alone
  <2>3. OnItsWay(w)
    BY <2>1, <2>2 DEF OnItsWay
  <2> QED BY <1>7, <2>1, <2>3
<1>16. ASSUME NEW w \in Workers, TakeSlot(w) PROVE Homes'
  <2> DEFINE c == req[w].client
  <2>1. PICK r \in SlotType : /\ r.client = c /\ table' = [table EXCEPT ![at[w]] = r]
                              /\ pc[w] = "inspect" /\ at[w] \in Indices /\ c \in Clients
    BY <1>16, TakeSlotGives
  <2>2. \A v \in Workers : SameWay(v)
    <3>1. /\ \A v \in Workers \ {w} : at'[v] = at[v]
          /\ Done(w) \/ (pc' = [pc EXCEPT ![w] = "sweep"] /\ req' = req)
      BY <1>0, <1>16 DEF TakeSlot, AfterDecision, Release
    <3> QED BY <1>11, <3>1
  <2>3. at[w] = Probe(c, req[w].step) /\ (Alone(c) => req[w].step = 0)
        /\ req[w].step \in 0 .. Probes - 1
    BY <1>0, <2>1 DEF Homes
  <2>4. ASSUME NEW i \in Indices PROVE AtHome(i)
    <3>1. CASE i = at[w]
      <4>1. table'[i].client = c
        BY <1>0, <2>1, <3>1
      <4> QED BY <2>3, <3>1, <4>1 DEF AtHome
    <3>2. CASE i # at[w]
      <4>1. table'[i] = table[i]
        BY <1>0, <2>1, <3>2
      <4> QED BY <4>1 DEF AtHome, Homes
    <3> QED BY <3>1, <3>2
  <2> QED BY <1>4, <1>6, <2>2, <2>4
<1>17. ASSUME NEW w \in Workers, SweepClear(w) PROVE Homes'
  <2>1. \A v \in Workers : SameWay(v)
    <3>1. /\ \A v \in Workers \ {w} : at'[v] = at[v]
          /\ Done(w) \/ (pc' = [pc EXCEPT ![w] = "sweep"] /\ req' = req)
      BY <1>0, <1>17 DEF SweepClear, SweepOn, Release
    <3> QED BY <1>11, <3>1
  <2>2. table' = table \/ table' = [table EXCEPT ![at[w]] = FreshSlot(seen[w])]
    BY <1>17 DEF SweepClear
  <2>3. FreshSlot(seen[w]).client = NoClient
    BY FreshSlotType DEF TypeInv, TypeOK
  <2>4. ASSUME NEW i \in Indices, table'[i].client # NoClient PROVE table'[i] = table[i]
    BY <1>0, <2>2, <2>3, <2>4
  <2>5. \A i \in Indices : AtHome(i)
    BY <2>4 DEF AtHome, Homes
  <2> QED BY <1>4, <1>6, <2>1, <2>5
<1> QED BY <1>8, <1>9, <1>10, <1>12, <1>13, <1>14, <1>15, <1>16, <1>17 DEF Next, Step

\* How many requests were allowed since some time is a number.
LEMMA GivenType ==
    ASSUME Counting, NEW c \in Clients, NEW t \in Times, NEW to \in Int, to <= MaxTime
    PROVE  ServedIn(Table, c, t, to) \in Nat
<1>1. served[Table][c] \in [Times -> Nat]
  BY DEF Counting, Counters
<1> QED BY <1>1, CountedFinite DEF ServedIn

\* At the start no request was counted, and every slot is free.
LEMMA InitAllowInv == Init => AllowInv
<1> SUFFICES ASSUME Init PROVE AllowInv
  OBVIOUS
<1>0. MaxTime \in Nat \ {0} /\ MaxLag \in Nat /\ Window \in Nat /\ Requests \in Nat
  BY SharedAssumption, WindowAssumption
<1>1. Counting
  BY <1>0 DEF Init, Counting, Times
<1>2. Homes
  BY DEF Init, Homes, EmptySlot
<1>3. AllStamped
  BY DEF Init, AllStamped, Stamped, Live, EmptySlot
<1>4. ASSUME NEW c \in Clients, NEW t \in Times, NEW to \in Int, to <= MaxTime
      PROVE  ServedIn(Table, c, t, to) = 0
  <2>1. served[Table][c] = [u \in Times |-> 0]
    BY DEF Init, Table, Counters
  <2>2. \A u \in t .. to : served[Table][c][u] = 0
    BY <1>0, <1>4, <2>1 DEF Times
  <2>3. Counted(served[Table][c], t, to) = {}
    BY <2>2 DEF Counted
  <2> QED BY <2>3, FS_EmptySet DEF ServedIn
<1>5. Allowance \in Nat
  BY <1>0 DEF Allowance
<1>6. ASSUME NEW c \in Clients PROVE Covered(c)
  <2>1. \A i \in Indices : table[i].client # c
    BY WindowAssumption DEF Init, EmptySlot
  <2>2. \A t \in Times : Given(c, t) = 0
    BY <1>0, <1>4 DEF Given
  <2> QED BY <1>5, <2>1, <2>2 DEF Covered
<1>7. AllowanceHeld
  <2>1. ASSUME NEW t \in Times
        PROVE  Min({MaxTime, t + Window - 2 * MaxLag - 1}) \in Int
               /\ Min({MaxTime, t + Window - 2 * MaxLag - 1}) <= MaxTime
    BY <1>0, MinOfTwo DEF Times
  <2> QED BY <1>4, <1>5, <2>1 DEF AllowanceHeld
<1> QED BY <1>1, <1>2, <1>3, <1>6, <1>7 DEF AllowInv

\* While slots and counts stay, less and less has to be accounted for.
LEMMA CalmKeeps ==
    ASSUME TypeInv, AllowInv, Calm
    PROVE  /\ AllStamped' /\ AllowanceHeld'
           /\ \A c \in Clients : Promised(c)' => Covered(c)'
<1>0. clock \in Nat /\ clock' \in Nat /\ clock <= clock' /\ Window \in Nat /\ MaxLag \in Nat
  BY SharedAssumption, WindowAssumption DEF Calm, TypeInv, TypeOK
<1>t. table \in [Indices -> SlotType]
  BY DEF TypeInv, TypeOK
<1>1. AllStamped'
  <2>1. ASSUME NEW i \in Indices, NEW p \in Live(table[i]) PROVE table[i].ring[p] <= clock'
    <3>1. table[i].ring[p] <= clock
      BY DEF AllowInv, AllStamped, Stamped
    <3>2. table[i].ring[p] \in Nat
      <4>1. table[i] \in SlotType
        BY <1>t
      <4>2. p \in 0 .. Ring - 1
        BY <4>1, RecentFinite
      <4> QED BY <4>1, <4>2 DEF SlotType
    <3> QED BY <1>0, <3>1, <3>2
  <2>2. \A i \in Indices : Stamped(table[i], clock')
    BY <2>1 DEF AllowInv, AllStamped, Stamped
  <2> QED BY <2>2 DEF AllStamped, Calm
<1>2. ASSUME NEW c PROVE Alone(c)' <=> Alone(c)
  BY DEF Alone, Probe, Calm
<1>3. Unswept' <=> Unswept
  BY DEF Unswept, Calm
<1>4. \A c, t, to : ServedIn(Table, c, t, to)' = ServedIn(Table, c, t, to)
  BY DEF ServedIn, Calm, Table
<1>5. AllowanceHeld'
  BY <1>2, <1>3, <1>4 DEF AllowInv, AllowanceHeld, Unswept
<1>6. ASSUME NEW c \in Clients, Promised(c)' PROVE Covered(c)'
  <2>1. Covered(c)
    BY <1>2, <1>3, <1>6 DEF Promised, AllowInv
  <2>2. ASSUME NEW t \in Times, t > clock' - Window + MaxLag PROVE t > clock - Window + MaxLag
    <3>1. t \in Int
      BY DEF Times
    <3>2. PICK k \in Nat : k = clock'
      BY <1>0
    <3>3. t > k - Window + MaxLag /\ clock <= k
      BY <1>0, <2>2, <3>2
    <3> QED BY <1>0, <3>1, <3>3
  <2>3. \A t \in Times : Given(c, t)' = Given(c, t)
    BY <1>4 DEF Given
  <2> QED BY <2>1, <2>2, <2>3 DEF Covered, Calm
<1> QED BY <1>1, <1>5, <1>6

\* A slot accounts for a request it admits, and for as many as before when it refuses one.
LEMMA DecidedAccounts ==
    ASSUME NEW s \in SlotType, NEW r \in SlotType, NEW now \in Nat, NEW ok \in BOOLEAN,
           Decided(s, now, r, ok), NEW t \in Nat \ {0}, t > now - Window,
           NEW n \in Nat, Accounts(s, n, t), n <= Allowance,
           NEW m \in Nat, m = IF ok /\ now >= t THEN n + 1 ELSE n
    PROVE  Accounts(r, m, t) /\ m <= Allowance
<1>1. /\ Cardinality(Recent(r, t)) >= Cardinality(Recent(s, t))
      /\ ok /\ now >= t => Cardinality(Recent(r, t)) = Cardinality(Recent(s, t)) + 1
  BY DecidedRecent
<1>2. /\ Cardinality(Recent(r, t)) \in Nat /\ Cardinality(Recent(s, t)) \in Nat
      /\ Cardinality(Recent(r, t)) <= r.count /\ r.count \in Nat
      /\ Requests \in Nat /\ EffectivePeak \in Nat /\ Window \in Nat
      /\ s.burst \in Nat /\ r.burst \in Nat
  <2>1. t \in Int
    OBVIOUS
  <2>2. s.burst \in Nat /\ r.burst \in Nat /\ r.count \in 0 .. Ring
    BY DEF SlotType
  <2>3. r.count \in Nat
    BY <2>2, PeakType
  <2> QED BY <2>1, <2>2, <2>3, RecentFinite, PeakType, WindowAssumption
<1>3. m <= Cardinality(Recent(r, t))
  BY <1>1, <1>2 DEF Accounts
<1>4. CASE ~ok
  <2>1. r.burst = s.burst
    BY <1>4 DEF Decided
  <2> QED BY <1>3, <1>4, <2>1 DEF Accounts
<1>5. CASE ok
  <2>1. \/ r.count <= Requests /\ r.burst = s.burst
        \/ /\ r.count > Requests /\ r.burst = now /\ r.count <= EffectivePeak
           /\ (s.burst = 0 \/ now - s.burst >= Window)
    BY <1>5 DEF Decided
  <2>2. CASE r.count <= Requests
    <3>1. m <= Requests
      BY <1>2, <1>3, <2>2
    <3>2. Requests <= Allowance
      BY <1>2 DEF Allowance
    <3>3. m <= Allowance
      BY <1>2, <3>1, <3>2 DEF Allowance
    <3>4. m <= Requests + (IF r.burst >= t THEN 1 ELSE 0)
      BY <1>2, <3>1
    <3> QED BY <1>3, <3>3, <3>4 DEF Accounts
  <2>3. CASE /\ r.count > Requests /\ r.burst = now /\ r.count <= EffectivePeak
             /\ s.burst = 0 \/ now - s.burst >= Window
    <3>1. ~(s.burst >= t)
      BY <1>2, <2>3
    <3>2. n <= Requests
      BY <1>2, <3>1 DEF Accounts
    <3>3. Allowance = Requests + 1
      BY <1>2, <2>3 DEF Allowance
    <3>4. m <= Requests + (IF now >= t THEN 1 ELSE 0)
      BY <1>2, <3>2
    <3> QED BY <1>2, <1>3, <2>3, <3>3, <3>4 DEF Accounts
  <2> QED BY <2>1, <2>2, <2>3
<1> QED BY <1>4, <1>5

\* An empty slot accounts for nothing.
LEMMA NothingToAccount ==
    ASSUME NEW s \in SlotType, NEW t \in Int
    PROVE  Accounts(s, 0, t)
<1>1. Cardinality(Recent(s, t)) \in Nat /\ Requests \in Nat
  BY RecentFinite, WindowAssumption
<1>2. 0 <= Cardinality(Recent(s, t)) /\ 0 <= Requests + (IF s.burst >= t THEN 1 ELSE 0)
  BY <1>1
<1> QED BY <1>2 DEF Accounts

\* A decision on a slot keeps the allowance: the request it admits is accounted for
\* where it can matter, and lies behind every window where it cannot.
LEMMA TakeSlotKeeps ==
    ASSUME TypeInv, NoLostUpdate, AllowInv, NEW w \in Workers, TakeSlot(w),
           OneSlotPerClient', Homes'
    PROVE  /\ AllStamped' /\ AllowanceHeld'
           /\ \A c \in Clients : Promised(c)' => Covered(c)'
<1>1. PICK c \in Clients, now \in Times, s \in SlotType, ok \in BOOLEAN :
             /\ c = req[w].client /\ now = req[w].now
             /\ now <= clock /\ clock <= now + MaxLag
             /\ pc[w] = "inspect" /\ at[w] \in Indices /\ table[at[w]] = seen[w]
             /\ \/ seen[w].client = c /\ s = seen[w]
                \/ seen[w].client = NoClient /\ s = FreshSlot(seen[w])
             /\ Decide(s, c, now).answer.ok = ok /\ Answer(Table, c, now, ok)
             /\ Decide(s, c, now).slot \in SlotType /\ Decide(s, c, now).slot.client = c
             /\ table' = [table EXCEPT ![at[w]] = Decide(s, c, now).slot]
  BY TakeSlotGives DEF AllowInv
<1> DEFINE i == at[w]
           r == Decide(s, c, now).slot
<1>2. /\ clock' = clock /\ home' = home /\ swept' = swept /\ clock \in Nat /\ clock \in Times
      /\ table \in [Indices -> SlotType] /\ seen \in [Workers -> SlotType]
      /\ Window \in Nat /\ MaxLag \in Nat /\ MaxTime \in Nat /\ now \in Nat /\ Requests \in Nat
      /\ NoClient \notin Clients /\ Table \in Counters
  BY SharedAssumption, WindowAssumption
     DEF TakeSlot, TypeInv, TypeOK, AllowInv, Counting, Times, Counters
<1>3. r \in SlotType /\ table'[i] = r /\ r.client = c /\ \A j \in Indices \ {i} : table'[j] = table[j]
  BY <1>1, <1>2
<1>4. (r = s /\ ~ok) \/ Decided(s, now, r, ok)
  BY <1>1, <1>2, DecideIs
<1> HIDE DEF r
<1>5. ASSUME NEW d PROVE Alone(d)' <=> Alone(d)
  BY <1>2 DEF Alone, Probe
<1>6. Unswept' <=> Unswept
  BY <1>2 DEF Unswept
<1>7. Counting
  BY DEF AllowInv
<1>8. /\ served' \in [Counters -> [Clients -> [Times -> Nat]]]
      /\ \A d \in Clients \ {c} : served'[Table][d] = served[Table][d]
      /\ ok => served'[Table][c] = [served[Table][c] EXCEPT ![now] = served[Table][c][now] + 1]
      /\ ~ok => served' = served
  <2>1. Counting /\ Table \in Counters /\ Answer(Table, c, now, ok)
    BY <1>1, <1>2, <1>7
  <2> QED BY <2>1, AnswerGives
\* What was counted of this client, and of others.
<1>9. ASSUME NEW t \in Times, NEW to \in Int, to <= MaxTime
      PROVE  ServedIn(Table, c, t, to)' = IF ok /\ now \in t .. to
                                          THEN ServedIn(Table, c, t, to) + 1
                                          ELSE ServedIn(Table, c, t, to)
  <2>1. CASE ~ok
    BY <1>8, <2>1 DEF ServedIn, Table
  <2>2. CASE ok
    <3>0. served[Table][c] \in [Times -> Nat] /\ served'[Table][c] \in [Times -> Nat]
      BY <1>2, <1>7, <1>8 DEF Counting
    <3>1. /\ served'[Table][c][now] = served[Table][c][now] + 1
          /\ \A u \in Times \ {now} : served'[Table][c][u] = served[Table][c][u]
      BY <1>8, <2>2, <3>0
    <3> DEFINE f == served[Table][c]
               g == served'[Table][c]
    <3>2. /\ now \in t .. to =>
                Cardinality(Counted(g, t, to)) = Cardinality(Counted(f, t, to)) + 1
          /\ now \notin t .. to => Counted(g, t, to) = Counted(f, t, to)
      <4>1. g[now] = f[now] + 1 /\ \A u \in Times \ {now} : g[u] = f[u]
        BY <3>1
      <4>2. f \in [Times -> Nat] /\ g \in [Times -> Nat]
        BY <3>0
      <4> HIDE DEF f, g
      <4> QED BY <1>9, <4>1, <4>2, CountedOneMore
    <3> QED BY <2>2, <3>2 DEF ServedIn, Table
  <2> QED BY <2>1, <2>2
<1>10. ASSUME NEW d \in Clients \ {c}, NEW t, NEW to
       PROVE  ServedIn(Table, d, t, to)' = ServedIn(Table, d, t, to)
  BY <1>8 DEF ServedIn, Table
<1>11. AllStamped'
  <2>1. Stamped(s, clock)
    BY <1>1, <1>2, FreshStamped DEF AllowInv, AllStamped
  <2>2. Stamped(r, clock)
    BY <1>1, <1>2, <1>3, <1>4, <2>1, DecidedStamped
  <2>3. \A j \in Indices : Stamped(table'[j], clock)
    BY <1>3, <2>2 DEF AllowInv, AllStamped
  <2> QED BY <1>2, <2>3 DEF AllStamped
\* A client the allowance is promised to has one slot.
<1>100. ASSUME NEW d \in Clients, Promised(d), NEW x \in Indices, NEW y \in Indices,
              table'[x].client = d, table'[y].client = d
       PROVE  x = y
  <2>1. CASE Alone(d)
    <3>1. ASSUME NEW z \in Indices
          PROVE  (table[z].client # NoClient /\ Alone(table[z].client) =>
                     z = Probe(table[z].client, 0))'
      BY DEF Homes
    <3>2. \A z \in Indices : table'[z].client = d => z = Probe(d, 0)
      BY <1>2, <2>1, <3>1 DEF Alone, Probe
    <3> QED BY <1>100, <3>2
  <2>2. CASE Unswept
    <3>1. \A v \in Workers : ~swept'[v]
      BY <1>2, <2>2 DEF Unswept
    <3> QED BY <1>2, <1>100, <3>1 DEF OneSlotPerClient
  <2> QED BY <1>100, <2>1, <2>2 DEF Promised
<1>12. ASSUME Promised(c), NEW t \in Times, t > clock - Window + MaxLag
       PROVE  /\ Given(c, t)' <= Allowance /\ Accounts(r, Given(c, t)', t)
  <2> DEFINE n == Given(c, t)
  <2>1. t \in Nat \ {0} /\ t > now - Window /\ (now \in t .. MaxTime <=> now >= t)
    BY <1>1, <1>2, <1>12 DEF Times
  <2>2. n \in Nat /\ n <= Allowance
    BY <1>2, <1>7, <1>12, GivenType DEF AllowInv, Covered, Given
  <2>3. Accounts(s, n, t)
    <3>1. CASE seen[w].client = c /\ s = seen[w]
      <4>1. Covered(c)
        BY <1>12 DEF AllowInv
      <4> QED BY <1>1, <1>12, <3>1, <4>1 DEF Covered
    <3>2. CASE seen[w].client = NoClient /\ s = FreshSlot(seen[w])
      <4>1. ASSUME NEW j \in Indices, table[j].client = c PROVE FALSE
        <5>1. j # i
          BY <1>1, <1>2, <3>2, <4>1
        <5>2. table'[j].client = c /\ table'[i].client = c
          BY <1>3, <4>1, <5>1
        <5> QED BY <1>1, <1>100, <1>12, <5>1, <5>2
      <4>2. n = 0
        BY <1>12, <4>1 DEF AllowInv, Covered
      <4> QED BY <2>1, <4>2, NothingToAccount
    <3> QED BY <1>1, <3>1, <3>2
  <2> DEFINE m == IF ok /\ now >= t THEN n + 1 ELSE n
  <2>4. Given(c, t)' = m
    BY <1>2, <1>9, <2>1 DEF Given
  <2>5. m \in Nat
    BY <2>2
  <2>6. CASE r = s /\ ~ok
    BY <2>2, <2>3, <2>4, <2>6
  <2>7. CASE Decided(s, now, r, ok)
    <3> HIDE DEF n
    <3>1. Accounts(r, m, t) /\ m <= Allowance
      BY <1>2, <1>3, <2>1, <2>2, <2>3, <2>5, <2>7, DecidedAccounts
    <3> QED BY <2>4, <3>1
  <2> QED BY <1>4, <2>6, <2>7
<1>13. ASSUME NEW d \in Clients, Promised(d)' PROVE Covered(d)'
  <2>0. Promised(d)
    BY <1>5, <1>6, <1>13 DEF Promised
  <2>1. CASE d = c
    <3>1. \A j \in Indices : table'[j].client = c => j = i
      BY <1>1, <1>3, <1>100, <2>0, <2>1
    <3> QED BY <1>1, <1>2, <1>3, <1>12, <2>0, <2>1, <3>1 DEF Covered
  <2>2. CASE d # c
    <3>1. \A t : Given(d, t)' = Given(d, t)
      BY <1>10, <2>2 DEF Given
    <3>2. table[i].client # d /\ table'[i].client # d
      BY <1>1, <1>2, <1>3, <2>2
    <3>3. \A j \in Indices : table'[j].client = d => table[j].client = d /\ table'[j] = table[j]
      BY <1>3, <3>2
    <3>4. (\A j \in Indices : table'[j].client # d) => \A j \in Indices : table[j].client # d
      BY <1>3, <3>2
    <3>5. Covered(d)
      BY <2>0 DEF AllowInv
    <3> QED BY <1>2, <3>1, <3>3, <3>4, <3>5 DEF Covered
  <2> QED BY <2>1, <2>2
<1>14. ASSUME NEW d \in Clients, NEW t \in Times, Promised(d)'
       PROVE  ServedIn(Table, d, t, Min({MaxTime, t + Window - 2 * MaxLag - 1}))' <= Allowance
  <2> DEFINE to == Min({MaxTime, t + Window - 2 * MaxLag - 1})
  <2>1. to \in Int /\ to <= MaxTime /\ to <= t + Window - 2 * MaxLag - 1 /\ t \in Nat
    <3> DEFINE end == t + Window - 2 * MaxLag - 1
    <3>1. MaxTime \in Int /\ end \in Int /\ t \in Nat
      BY <1>2 DEF Times
    <3> HIDE DEF end
    <3>2. Min({MaxTime, end}) \in Int /\ Min({MaxTime, end}) <= MaxTime /\ Min({MaxTime, end}) <= end
      BY <3>1, MinOfTwo
    <3> QED BY <3>1, <3>2 DEF end
  <2>2. ServedIn(Table, d, t, to) <= Allowance
    BY <1>5, <1>6, <1>14 DEF AllowInv, AllowanceHeld, Promised, Unswept
  <2> HIDE DEF to
  <2>3. CASE d # c
    BY <1>10, <2>2, <2>3 DEF to
  <2>4. CASE d = c /\ t > clock - Window + MaxLag
    <3>1. Promised(c)
      BY <1>5, <1>6, <1>14, <2>4 DEF Promised
    <3>2. Given(c, t)' <= Allowance
      BY <1>12, <2>4, <3>1
    <3>3. ServedIn(Table, c, t, to)' <= Given(c, t)' /\ ServedIn(Table, c, t, to)' \in Nat
      <4>1. served'[Table][c] \in [Times -> Nat] /\ MaxTime \in Int
        BY <1>2, <1>8
      <4>2. Cardinality(Counted(served'[Table][c], t, to))
              <= Cardinality(Counted(served'[Table][c], t, MaxTime))
        BY <1>2, <2>1, <4>1, CountedLonger
      <4>3. Cardinality(Counted(served'[Table][c], t, to)) \in Nat
        BY <2>1, <4>1, CountedFinite
      <4> QED BY <4>2, <4>3 DEF ServedIn, Given, to, Table
    <3>4. Given(c, t)' \in Nat /\ Allowance \in Nat
      <4>1. served'[Table][c] \in [Times -> Nat] /\ MaxTime \in Int
        BY <1>2, <1>8
      <4>2. Cardinality(Counted(served'[Table][c], t, MaxTime)) \in Nat
        BY <1>2, <4>1, CountedFinite
      <4> QED BY <1>2, <4>2 DEF ServedIn, Given, Allowance, Table
    <3> QED BY <2>4, <3>2, <3>3, <3>4 DEF to
  <2>5. CASE d = c /\ ~(t > clock - Window + MaxLag)
    <3>1. now \notin t .. to
      BY <1>1, <1>2, <2>1, <2>5
    <3> QED BY <1>9, <2>1, <2>2, <2>5, <3>1 DEF to
  <2> QED BY <2>3, <2>4, <2>5 DEF to
<1>15. AllowanceHeld'
  BY <1>14 DEF AllowanceHeld, Promised, Unswept
<1> QED BY <1>11, <1>13, <1>15

\* A sweep takes what no window needs any more, of clients that share no slot.
LEMMA SweepClearKeeps ==
    ASSUME TypeInv, NoLostUpdate, AllowInv, NEW w \in Workers, SweepClear(w)
    PROVE  /\ AllStamped' /\ AllowanceHeld'
           /\ \A c \in Clients : Promised(c)' => Covered(c)'
<1>1. CASE ~Sweepable(seen[w], req[w].now)
  <2>1. Calm
    BY <1>1 DEF SweepClear, Calm, AllowInv, Counting
  <2> QED BY <2>1, CalmKeeps
<1>2. CASE Sweepable(seen[w], req[w].now)
  <2> DEFINE i == at[w]
             s == seen[w]
             r == FreshSlot(s)
             now == req[w].now
  <2>1. /\ clock' = clock /\ home' = home /\ served' = served /\ clock \in Nat
        /\ table \in [Indices -> SlotType] /\ s \in SlotType /\ table[i] = s /\ i \in Indices
        /\ now \in Nat /\ now <= clock /\ NoClient \notin Clients /\ MaxTime \in Int
        /\ Window \in Nat /\ MaxLag \in Nat
    <3>1. now \in Nat /\ now <= clock /\ table[i] = s
      BY DEF SweepClear, NoLostUpdate, AllowInv, Counting, Times
    <3> QED BY <3>1, SharedAssumption, WindowAssumption
       DEF SweepClear, TypeInv, TypeOK, NoLostUpdate, AllowInv, Counting, Times
  <2>2. table' = [table EXCEPT ![i] = r] /\ swept'[w]
    BY <1>2 DEF SweepClear, TypeInv, TypeOK
  <2>3. r.client = NoClient /\ \A t : Stamped(r, clock) /\ Recent(r, t) = {}
    BY <2>1, FreshSlotType, FreshStamped
  <2> HIDE DEF r
  <2>4. table'[i] = r /\ \A j \in Indices \ {i} : table'[j] = table[j]
    BY <2>1, <2>2
  <2>5. AllStamped'
    <3>1. \A j \in Indices : Stamped(table'[j], clock)
      BY <2>3, <2>4 DEF AllowInv, AllStamped
    <3> QED BY <2>1, <3>1 DEF AllStamped
  <2>6. ASSUME NEW c PROVE Alone(c)' <=> Alone(c)
    BY <2>1 DEF Alone, Probe
  <2>7. ~Unswept'
    BY <2>2 DEF Unswept
  <2>8. \A c, t, to : ServedIn(Table, c, t, to)' = ServedIn(Table, c, t, to)
    BY <2>1 DEF ServedIn, Table
  <2>9. AllowanceHeld'
    BY <2>6, <2>7, <2>8 DEF AllowInv, AllowanceHeld, Unswept
  <2>10. ASSUME NEW c \in Clients, Promised(c)' PROVE Covered(c)'
    <3>1. Promised(c) /\ Covered(c)
      BY <2>6, <2>7, <2>10 DEF Promised, AllowInv
    <3>2. ASSUME NEW t \in Times, t > clock - Window + MaxLag
          PROVE  /\ \A j \in Indices : table'[j].client = c => Accounts(table'[j], Given(c, t), t)
                 /\ (\A j \in Indices : table'[j].client # c) => Given(c, t) = 0
      <4>1. \A j \in Indices : table'[j].client = c => table'[j] = table[j]
        BY <2>1, <2>3, <2>4
      <4>2. CASE s.client = c
        <5>1. Recent(s, t) = {} /\ Cardinality(Recent(s, t)) = 0
          <6>1. Stamped(s, clock) /\ t \in Int
            BY <2>1 DEF AllowInv, AllStamped, Times
          <6>2. Recent(s, t) = {}
            BY <1>2, <2>1, <3>2, <6>1, SweepableIsOver
          <6> QED BY <6>2, FS_EmptySet
        <5>2. Given(c, t) \in Nat
          BY <2>1, GivenType DEF Given, AllowInv
        <5>3. Given(c, t) <= Cardinality(Recent(s, t))
          BY <2>1, <3>1, <3>2, <4>2 DEF Covered, Accounts
        <5>4. Given(c, t) = 0
          BY <5>1, <5>2, <5>3
        <5> QED BY <3>1, <3>2, <4>1, <5>4 DEF Covered
      <4>3. CASE s.client # c
        <5>1. (\A j \in Indices : table'[j].client # c) => \A j \in Indices : table[j].client # c
          BY <2>1, <2>4, <4>3
        <5> QED BY <3>1, <3>2, <4>1, <5>1 DEF Covered
      <4> QED BY <4>2, <4>3
    <3>3. \A t \in Times : Given(c, t)' = Given(c, t)
      BY <2>8 DEF Given
    <3> QED BY <2>1, <3>1, <3>2, <3>3 DEF Covered
  <2> QED BY <2>5, <2>9, <2>10
<1> QED BY <1>1, <1>2

\* So every step keeps the allowance.
LEMMA NextAllowInv ==
    TypeInv /\ NoLostUpdate /\ AllowInv /\ OneSlotPerClient' /\ [Next]_vars => AllowInv'
<1> SUFFICES ASSUME TypeInv, NoLostUpdate, AllowInv, OneSlotPerClient', [Next]_vars
             PROVE  AllowInv'
  OBVIOUS
<1>2. Counting'
  BY NextCounting DEF AllowInv
<1>3. Homes'
  BY NextHomes DEF AllowInv
<1>4. /\ AllStamped' /\ AllowanceHeld'
      /\ \A c \in Clients : Promised(c)' => Covered(c)'
  <2>1. ASSUME NEW w \in Workers, TakeSlot(w)
        PROVE  /\ AllStamped' /\ AllowanceHeld'
               /\ \A c \in Clients : Promised(c)' => Covered(c)'
    BY <1>3, <2>1, TakeSlotKeeps
  <2>2. ASSUME NEW w \in Workers, SweepClear(w)
        PROVE  /\ AllStamped' /\ AllowanceHeld'
               /\ \A c \in Clients : Promised(c)' => Covered(c)'
    BY <2>2, SweepClearKeeps
  <2>3. ASSUME \A w \in Workers : ~TakeSlot(w) /\ ~SweepClear(w)
        PROVE  /\ AllStamped' /\ AllowanceHeld'
               /\ \A c \in Clients : Promised(c)' => Covered(c)'
    BY <2>3, NextCalm, CalmKeeps DEF AllowInv
  <2> QED BY <2>1, <2>2, <2>3
<1> QED BY <1>2, <1>3, <1>4 DEF AllowInv

\* The workers together never serve a client more than its allowance in a window, as
\* long as nothing was swept, and longer for a client whose slots nobody else uses.
THEOREM TheAllowanceHolds == Spec => []AllowanceHeld
<1>1. Spec => [](TypeInv /\ NoLostUpdate)
  BY TypeInvariance, NoUpdateLost, PTL
<1>2. Spec => []OneSlotPerClient
  BY OneSlot
<1>3. Spec => []AllowInv
  BY <1>1, <1>2, InitAllowInv, NextAllowInv, PTL DEF Spec
<1>4. AllowInv => AllowanceHeld
  BY DEF AllowInv
<1> QED BY <1>3, <1>4, PTL

----------------------------------------------------------------------------
\* The dictionaries of a worker that counts alone.

\* The types of the dictionaries.
CountersType(d) ==
    /\ IsCounters(d)
    /\ d.hits \in [Clients -> Seq(Nat)]
    /\ d.bursts \in [Clients -> Nat]

\* Forgetting the requests of some clients leaves those of the others,
LEMMA ForgetHitsIs ==
    ASSUME NEW d, CountersType(d), NEW gone
    PROVE  /\ CountersType(ForgetHits(d, gone)) /\ ForgetHits(d, gone).bursts = d.bursts
           /\ \A y \in Clients :
                ForgetHits(d, gone).hits[y] = IF y \in gone THEN <<>> ELSE d.hits[y]
<1> DEFINE f == ForgetHits(d, gone)
           hits == [c \in Clients |-> IF c \in gone THEN <<>> ELSE d.hits[c]]
<1>1. PICK order : f = [d EXCEPT !.hits = hits, !.order = order]
  BY DEF ForgetHits
<1>2. IsCounters(f)
  BY ForgetHitsBans DEF CountersType
<1>3. hits \in [Clients -> Seq(Nat)]
  <2>1. <<>> \in Seq(Nat) /\ \A c \in Clients : d.hits[c] \in Seq(Nat)
    BY DEF CountersType
  <2> QED BY <2>1
<1>4. \A y \in Clients : hits[y] = IF y \in gone THEN <<>> ELSE d.hits[y]
  OBVIOUS
<1> HIDE DEF f, hits
<1>5. DOMAIN d = {"hits", "order", "bursts", "bans", "next"}
  BY DEF CountersType, IsCounters
<1>6. f.hits = hits /\ f.bursts = d.bursts
  BY <1>1, <1>5
<1>7. CountersType(f)
  BY <1>2, <1>3, <1>6 DEF CountersType
<1> QED BY <1>4, <1>6, <1>7 DEF f

\* What a sweep at now may have made of the requests and the burst of y.
SweptOf(d, e, y, now) ==
    /\ \/ e.hits[y] = d.hits[y]
       \/ /\ e.hits[y] = <<>>
          /\ d.hits[y] = <<>> \/ d.hits[y][Len(d.hits[y])] <= now - Window
    /\ \/ e.bursts[y] = d.bursts[y]
       \/ e.bursts[y] = 0 /\ now - d.bursts[y] >= Window

\* It makes that of them,
LEMMA MaybeSweepIs ==
    ASSUME NEW d, CountersType(d), NEW now \in Nat
    PROVE  /\ CountersType(MaybeSweep(d, now))
           /\ \A y \in Clients : SweptOf(d, MaybeSweep(d, now), y, now)
<1> DEFINE aged(c) == d.hits[c] = <<>> \/ d.hits[c][Len(d.hits[c])] <= now - Window
           gone == {c \in Clients : aged(c)}
           f == ForgetHits(d, gone)
           bans == [c \in Clients |-> IF now >= f.bans[c] THEN 0 ELSE f.bans[c]]
           bursts == [c \in Clients |-> IF now - f.bursts[c] >= Window THEN 0 ELSE f.bursts[c]]
           next == now + Latest(Window, 1)
           e == [f EXCEPT !.next = next, !.bursts = bursts, !.bans = bans]
<1>1. MaybeSweep(d, now) = IF now < d.next THEN d ELSE e
  BY DEF MaybeSweep
<1>2. /\ CountersType(f) /\ f.bursts = d.bursts
      /\ \A y \in Clients : f.hits[y] = IF y \in gone THEN <<>> ELSE d.hits[y]
  BY ForgetHitsIs
<1>3. IsCounters(MaybeSweep(d, now))
  BY MaybeSweepBans DEF CountersType
<1>4. \A y \in Clients : y \in gone => d.hits[y] = <<>> \/ d.hits[y][Len(d.hits[y])] <= now - Window
  OBVIOUS
<1> HIDE DEF f, gone
<1>5. /\ bursts \in [Clients -> Nat]
      /\ \A y \in Clients : bursts[y] = d.bursts[y] \/ (bursts[y] = 0 /\ now - d.bursts[y] >= Window)
  <2>1. \A y \in Clients : f.bursts[y] = d.bursts[y] /\ f.bursts[y] \in Nat
    BY <1>2 DEF CountersType
  <2> QED BY <2>1
<1> HIDE DEF bans, bursts, next
<1>6. e.hits = f.hits /\ e.bursts = bursts
  <2>1. DOMAIN f = {"hits", "order", "bursts", "bans", "next"}
    BY <1>2 DEF CountersType, IsCounters
  <2> QED BY <2>1
<1> HIDE DEF e
<1>7. CASE now < d.next
  BY <1>1, <1>7 DEF SweptOf
<1>8. CASE ~(now < d.next)
  <2>1. MaybeSweep(d, now) = e
    BY <1>1, <1>8
  <2>2. CountersType(e)
    BY <1>2, <1>3, <1>5, <1>6, <2>1 DEF CountersType
  <2>3. ASSUME NEW y \in Clients PROVE SweptOf(d, e, y, now)
    <3>1. e.hits[y] = d.hits[y]
          \/ (e.hits[y] = <<>> /\ (d.hits[y] = <<>> \/ d.hits[y][Len(d.hits[y])] <= now - Window))
      BY <1>2, <1>4, <1>6
    <3>2. e.bursts[y] = d.bursts[y] \/ (e.bursts[y] = 0 /\ now - d.bursts[y] >= Window)
      BY <1>5, <1>6
    <3> QED BY <3>1, <3>2 DEF SweptOf
  <2> QED BY <2>1, <2>2, <2>3
<1> QED BY <1>7, <1>8

\* the front of a deque loses what has aged out and nothing else,
LEMMA DropAgedIs ==
    ASSUME NEW h \in Seq(Nat), NEW edge \in Int
    PROVE  /\ DropAged(h, edge) \in Seq(Nat) /\ Len(DropAged(h, edge)) <= Len(h)
           /\ \A i \in 1 .. Len(DropAged(h, edge)) :
                DropAged(h, edge)[i] = h[Len(h) - Len(DropAged(h, edge)) + i]
           /\ \A i \in 1 .. Len(h) - Len(DropAged(h, edge)) : h[i] <= edge
<1> DEFINE fresh == {i \in DOMAIN h : h[i] > edge}
           k == DropAged(h, edge)
<1>0. Len(h) \in Nat /\ DOMAIN h = 1 .. Len(h) /\ \A i \in 1 .. Len(h) : h[i] \in Nat
  OBVIOUS
<1>1. CASE fresh = {}
  <2>1. k = <<>>
    BY <1>1 DEF DropAged
  <2>2. k \in Seq(Nat) /\ Len(k) = 0
    BY <2>1
  <2>3. \A i \in 1 .. Len(h) : h[i] <= edge
    BY <1>0, <1>1
  <2> HIDE DEF k
  <2>4. Len(h) - Len(k) = Len(h) /\ Len(k) <= Len(h) /\ ~\E i : i \in 1 .. Len(k)
    BY <1>0, <2>2
  <2> QED BY <2>2, <2>3, <2>4 DEF k
<1>2. CASE fresh # {}
  <2> DEFINE m == Min(fresh)
  <2>1. fresh \subseteq Nat
    BY <1>0
  <2>2. PICK x \in fresh : \A y \in fresh : x <= y
    BY <1>2, <2>1, LeastNatural
  <2>3. m \in fresh /\ \A y \in fresh : m <= y
    <3> HIDE DEF fresh
    <3>1. m = CHOOSE z \in fresh : \A y \in fresh : z <= y
      BY DEF Min
    <3> QED BY <2>2, <3>1
  <2>4. k = SubSeq(h, m, Len(h))
    BY <1>2 DEF DropAged
  <2>5. m \in 1 .. Len(h) /\ \A i \in 1 .. m - 1 : h[i] <= edge
    <3>1. m \in 1 .. Len(h)
      BY <1>0, <2>3
    <3> HIDE DEF m
    <3>2. ASSUME NEW i \in 1 .. m - 1 PROVE h[i] <= edge
      <4>1. i \in 1 .. Len(h) /\ ~(m <= i)
        BY <1>0, <3>1
      <4>2. i \notin fresh
        BY <2>3, <4>1
      <4> QED BY <1>0, <4>1, <4>2
    <3> QED BY <3>1, <3>2
  <2> HIDE DEF m, fresh, k
  <2>6. /\ k \in Seq(Nat) /\ Len(k) = Len(h) - m + 1
        /\ \A i \in 1 .. Len(k) : k[i] = h[m + i - 1]
    BY <1>0, <2>4, <2>5
  <2>7. /\ Len(k) <= Len(h) /\ Len(h) - Len(k) = m - 1
        /\ \A i \in 1 .. Len(k) : m + i - 1 = Len(h) - Len(k) + i
    BY <1>0, <2>5, <2>6
  <2>8. \A i \in 1 .. Len(k) : k[i] = h[Len(h) - Len(k) + i]
    BY <2>6, <2>7
  <2> QED BY <2>5, <2>6, <2>7, <2>8 DEF k
<1> QED BY <1>1, <1>2

\* and with room for every client none is evicted for another.
LEMMA RoomForAll ==
    ASSUME Capacity >= Cardinality(Clients), NEW c \in Clients, NEW d, c \notin Known(d)
    PROVE  ~(Cardinality(Known(d)) >= Capacity)
<1>1. IsFiniteSet(Clients) /\ Capacity \in Nat
  BY WindowAssumption
<1>2. IsFiniteSet(Clients \ {c}) /\ Cardinality(Clients \ {c}) = Cardinality(Clients) - 1
  BY <1>1, FS_RemoveElement
<1>3. Known(d) \in SUBSET (Clients \ {c})
  BY DEF Known
<1>4. Cardinality(Known(d)) <= Cardinality(Clients \ {c})
  BY <1>2, <1>3, FS_Subset
<1>5. /\ Cardinality(Known(d)) \in Nat /\ Cardinality(Clients) \in Nat
  BY <1>1, <1>2, <1>3, FS_Subset, FS_CardinalityType
<1> QED BY <1>1, <1>2, <1>4, <1>5

\* How many requests a decision allows.
OneOrNone == {0, 1}

\* What a decision at now that allows `one` request makes of the requests h and
\* the burst b of its client.
Taken(h, b, g, v, now, one) ==
    LET kept == DropAged(h, now - Window)
    IN  /\ g = IF Len(kept) < Ring THEN Append(kept, now) ELSE kept
        /\ \/ one = 1 /\ Len(g) <= Requests /\ v = b
           \/ /\ one = 1 /\ Len(g) > Requests /\ Len(g) <= EffectivePeak /\ v = now
              /\ b = 0 \/ now - b >= Window
           \/ one = 0 /\ v = b

\* What a request of c at now makes of the counters m that a sweep has left.
Counts(m, e, c, now, one) ==
    /\ Taken(m.hits[c], m.bursts[c], e.hits[c], e.bursts[c], now, one)
    /\ \A y \in Clients \ {c} : e.hits[y] = m.hits[y] /\ e.bursts[y] = m.bursts[y]

\* With room for every client, a request that meets no lockout is counted like that.
LEMMA ConsumeIs ==
    ASSUME Capacity >= Cardinality(Clients), NEW d, CountersType(d), NEW c \in Clients,
           NEW now \in Nat
    PROVE  /\ CountersType(Consume(d, c, now).counters)
           /\ \/ Consume(d, c, now).counters = d /\ Consume(d, c, now).answer.ok = FALSE
              \/ \E m : \E one \in OneOrNone :
                    /\ CountersType(m) /\ \A y \in Clients : SweptOf(d, m, y, now)
                    /\ Counts(m, Consume(d, c, now).counters, c, now, one)
                    /\ (Consume(d, c, now).answer.ok <=> one = 1)
<1> DEFINE e == Consume(d, c, now).counters
           a == Consume(d, c, now).answer
<1>1. CASE d.bans[c] # 0 /\ now < d.bans[c]
  <2>1. Consume(d, c, now) = [counters |-> d, answer |-> Refuse(d.bans[c] - now)]
    BY <1>1 DEF Consume
  <2>2. e = d /\ a.ok = FALSE
    BY <2>1 DEF Refuse
  <2> QED BY <2>2
<1>2. CASE ~(d.bans[c] # 0 /\ now < d.bans[c])
  <2> DEFINE free == [d EXCEPT !.bans[c] = 0]
             m == MaybeSweep(free, now)
             kept == DropAged(m.hits[c], now - Window)
             hits == IF Len(kept) < Ring THEN Append(kept, now) ELSE kept
             count == Len(hits)
             order == IF c \in Known(m) THEN m.order
                      ELSE m.order \cup (Known(m) \cup {c}) \X {c}
             g == [m EXCEPT !.hits[c] = hits, !.order = order]
             spike == count <= EffectivePeak /\ (g.bursts[c] = 0 \/ now - g.bursts[c] >= Window)
             wait == Latest(0, hits[1] + Window - now)
  <2>1. CountersType(free) /\ free.hits = d.hits /\ free.bursts = d.bursts
    <3> DEFINE bans == [d.bans EXCEPT ![c] = 0]
    <3>1. /\ free = [hits |-> d.hits, order |-> d.order, bursts |-> d.bursts,
                     bans |-> bans, next |-> d.next]
          /\ bans \in [Clients -> Nat]
      <4>1. IsCounters(d)
        BY DEF CountersType
      <4> QED BY <4>1 DEF IsCounters
    <3> HIDE DEF free, bans
    <3> QED BY <3>1 DEF CountersType, IsCounters
  <2>2. CountersType(m) /\ \A y \in Clients : SweptOf(d, m, y, now)
    <3> HIDE DEF free
    <3>1. CountersType(m) /\ \A y \in Clients : SweptOf(free, m, y, now)
      BY <2>1, MaybeSweepIs
    <3> HIDE DEF m
    <3> QED BY <2>1, <3>1 DEF SweptOf
  <2>3. c \in Known(m) \/ ~(Cardinality(Known(m)) >= Capacity)
    <3> HIDE DEF m
    <3> QED BY RoomForAll
  <2> DEFINE r == Consume(d, c, now)
             burst == [g EXCEPT !.bursts[c] = now]
             locked == [g EXCEPT !.bans[c] = now + Ban]
  <2>4. r = (CASE count <= Requests -> [counters |-> g, answer |-> Allow]
               [] count > Requests /\ spike -> [counters |-> burst, answer |-> Allow]
               [] count > Requests /\ ~spike /\ Ban > 0 ->
                     [counters |-> locked, answer |-> Refuse(Ban)]
               [] OTHER -> [counters |-> g, answer |-> Refuse(wait)])
    <3> DEFINE room == IF c \notin Known(m) /\ Cardinality(Known(m)) >= Capacity
                       THEN EvictOldest(m) ELSE m
    <3>1. room = m
      BY <2>3
    <3> QED BY <1>2, <3>1, ZenonT(60) DEF Consume
  <2>5. /\ hits \in Seq(Nat) /\ count \in Nat /\ Requests \in Nat /\ EffectivePeak \in Nat
    <3>1. m.hits[c] \in Seq(Nat) /\ now - Window \in Int
      <4> HIDE DEF m
      <4> QED BY <2>2, WindowAssumption DEF CountersType
    <3>2. kept \in Seq(Nat)
      <4> HIDE DEF m
      <4> QED BY <3>1, DropAgedIs
    <3> HIDE DEF kept
    <3> QED BY <3>2, PeakType, WindowAssumption
  <2>6. /\ g.hits = [m.hits EXCEPT ![c] = hits] /\ g.bursts = m.bursts
        /\ DOMAIN g = {"hits", "order", "bursts", "bans", "next"}
    <3> HIDE DEF m, hits, order
    <3>1. DOMAIN m = {"hits", "order", "bursts", "bans", "next"}
      BY <2>2 DEF CountersType, IsCounters
    <3> QED BY <3>1
  <2>s. spike <=> count <= EffectivePeak /\ (m.bursts[c] = 0 \/ now - m.bursts[c] >= Window)
    <3> HIDE DEF m, hits, order, g
    <3> QED BY <2>6
  <2>t. hits = IF Len(kept) < Ring THEN Append(kept, now) ELSE kept
    OBVIOUS
  <2> HIDE DEF m, hits, order, g, wait, spike, kept
  <2>7. \/ count <= Requests /\ r = [counters |-> g, answer |-> Allow]
        \/ count > Requests /\ spike /\ r = [counters |-> burst, answer |-> Allow]
        \/ r = [counters |-> locked, answer |-> Refuse(Ban)]
        \/ r = [counters |-> g, answer |-> Refuse(wait)]
    <3> HIDE DEF r, burst, locked
    <3>1. count <= Requests \/ (count > Requests /\ ~(count <= Requests))
      BY <2>5
    <3> QED BY <2>4, <3>1
  <2>8. /\ burst.hits = g.hits /\ burst.bursts = [g.bursts EXCEPT ![c] = now]
        /\ locked.hits = g.hits /\ locked.bursts = g.bursts
    BY <2>6
  <2> HIDE DEF burst, locked
  <2>9. /\ r.counters.hits = g.hits
        /\ \/ count <= Requests /\ r.answer.ok = TRUE /\ r.counters.bursts = g.bursts
           \/ /\ count > Requests /\ spike /\ r.answer.ok = TRUE
              /\ r.counters.bursts = [g.bursts EXCEPT ![c] = now]
           \/ r.answer.ok = FALSE /\ r.counters.bursts = g.bursts
    <3> HIDE DEF r, count
    <3> QED BY <2>7, <2>8 DEF Allow, Refuse
  <2>10. e = r.counters /\ a = r.answer
    OBVIOUS
  <2>11. IsCounters(e)
    BY ConsumeBans DEF CountersType
  <2> HIDE DEF r, e, a
  <2>12. CountersType(e)
    <3>1. m.hits \in [Clients -> Seq(Nat)] /\ m.bursts \in [Clients -> Nat]
      BY <2>2 DEF CountersType
    <3>2. e.hits \in [Clients -> Seq(Nat)]
      BY <2>5, <2>6, <2>9, <2>10, <3>1
    <3>3. e.bursts = m.bursts \/ e.bursts = [m.bursts EXCEPT ![c] = now]
      BY <2>6, <2>9, <2>10
    <3>4. e.bursts \in [Clients -> Nat]
      BY <3>1, <3>3
    <3> QED BY <2>11, <3>2, <3>4 DEF CountersType
  <2>13. /\ e.hits[c] = hits /\ a.ok \in BOOLEAN
         /\ \/ a.ok = TRUE /\ count <= Requests /\ e.bursts[c] = m.bursts[c]
            \/ a.ok = TRUE /\ count > Requests /\ spike /\ e.bursts[c] = now
            \/ a.ok = FALSE /\ e.bursts[c] = m.bursts[c]
         /\ \A y \in Clients \ {c} : e.hits[y] = m.hits[y] /\ e.bursts[y] = m.bursts[y]
    <3>1. m.hits \in [Clients -> Seq(Nat)] /\ m.bursts \in [Clients -> Nat]
      BY <2>2 DEF CountersType
    <3> HIDE DEF count
    <3>2. e.hits[c] = hits /\ \A y \in Clients \ {c} : e.hits[y] = m.hits[y]
      <4>1. e.hits = [m.hits EXCEPT ![c] = hits]
        BY <2>6, <2>9, <2>10
      <4> QED BY <3>1, <4>1
    <3>3. /\ g.bursts[c] = m.bursts[c] /\ [g.bursts EXCEPT ![c] = now][c] = now
          /\ \A y \in Clients \ {c} : [g.bursts EXCEPT ![c] = now][y] = m.bursts[y]
      BY <2>6, <3>1
    <3>4. \/ a.ok = TRUE /\ count <= Requests /\ e.bursts = g.bursts
          \/ a.ok = TRUE /\ count > Requests /\ spike /\ e.bursts = [g.bursts EXCEPT ![c] = now]
          \/ a.ok = FALSE /\ e.bursts = g.bursts
      BY <2>9, <2>10
    <3> QED BY <2>6, <3>2, <3>3, <3>4
  <2> DEFINE one == IF a.ok THEN 1 ELSE 0
  <2>o. one \in OneOrNone /\ (a.ok <=> one = 1) /\ (a.ok = TRUE => one = 1) /\ (a.ok = FALSE => one = 0)
    BY DEF OneOrNone
  <2>14. Taken(m.hits[c], m.bursts[c], e.hits[c], e.bursts[c], now, one)
    <3> HIDE DEF one
    <3>1. \/ one = 1 /\ Len(hits) <= Requests /\ e.bursts[c] = m.bursts[c]
          \/ /\ one = 1 /\ Len(hits) > Requests /\ Len(hits) <= EffectivePeak /\ e.bursts[c] = now
             /\ m.bursts[c] = 0 \/ now - m.bursts[c] >= Window
          \/ one = 0 /\ e.bursts[c] = m.bursts[c]
      BY <2>13, <2>s, <2>o
    <3> QED BY <2>13, <2>t, <3>1 DEF Taken, kept
  <2> HIDE DEF one
  <2>15. Counts(m, e, c, now, one)
    BY <2>13, <2>14 DEF Counts
  <2>16. \E mm : \E x \in OneOrNone :
            /\ CountersType(mm) /\ \A y \in Clients : SweptOf(d, mm, y, now)
            /\ Counts(mm, e, c, now, x) /\ (a.ok <=> x = 1)
    BY <2>2, <2>o, <2>15
  <2> QED BY <2>12, <2>16 DEF e, a
<1> QED BY <1>1, <1>2

\* How many of the requests in f were since t.
Since(f, t) == Cardinality(Counted(f, t, MaxTime))

\* The requests h and the burst b of a client account for n requests since t.
Holds(h, b, n, t) ==
    /\ n <= Len(h) /\ \A i \in Len(h) - n + 1 .. Len(h) : h[i] >= t
    /\ n <= Requests + (IF b >= t THEN 1 ELSE 0)

\* At now, h and b account for the requests of f that no decision can age out.
Recalls(h, b, f, now) ==
    /\ \A i \in 1 .. Len(h) : h[i] <= now
    /\ \A t \in Times : t > now - Window =>
          Since(f, t) <= Allowance /\ Holds(h, b, Since(f, t), t)

\* At now, d knows of the requests of y that f counts what it has to.
Knows(d, y, f, now) == Recalls(d.hits[y], d.bursts[y], f, now)

\* It does so for ever longer,
LEMMA KnowsLater ==
    ASSUME NEW d, CountersType(d), NEW y \in Clients, NEW f, NEW now \in Nat, NEW later \in Nat,
           Knows(d, y, f, now), now <= later
    PROVE  Knows(d, y, f, later)
<1>1. Window \in Nat /\ Times \subseteq Nat
  BY SharedAssumption, WindowAssumption DEF Times
<1>2. d.hits[y] \in Seq(Nat)
  BY DEF CountersType
<1>3. \A i \in 1 .. Len(d.hits[y]) : d.hits[y][i] <= later
  <2>1. ASSUME NEW i \in 1 .. Len(d.hits[y]) PROVE d.hits[y][i] <= later
    <3>1. d.hits[y][i] \in Nat /\ d.hits[y][i] <= now
      BY <1>2 DEF Knows, Recalls
    <3> QED BY <3>1
  <2> QED BY <2>1
<1>4. \A t \in Times : t > later - Window => t > now - Window
  BY <1>1
<1> QED BY <1>3, <1>4 DEF Knows, Recalls

\* whatever a sweep forgets,
LEMMA SweptKnows ==
    ASSUME NEW d, CountersType(d), NEW e, CountersType(e), NEW y \in Clients, NEW now \in Nat,
           SweptOf(d, e, y, now), NEW f \in [Times -> Nat], Knows(d, y, f, now)
    PROVE  Knows(e, y, f, now)
<1> DEFINE h == d.hits[y]
           g == e.hits[y]
           b == d.bursts[y]
           v == e.bursts[y]
<1>1. /\ h \in Seq(Nat) /\ g \in Seq(Nat) /\ b \in Nat /\ v \in Nat
      /\ Window \in Nat /\ Requests \in Nat
  BY WindowAssumption DEF CountersType
<1>2. /\ g = h \/ (g = <<>> /\ (h = <<>> \/ h[Len(h)] <= now - Window))
      /\ v = b \/ (v = 0 /\ now - b >= Window)
  BY DEF SweptOf
<1>3. /\ \A i \in 1 .. Len(h) : h[i] <= now
      /\ \A t \in Times : t > now - Window =>
            Since(f, t) <= Allowance /\ Holds(h, b, Since(f, t), t)
  BY DEF Knows, Recalls
<1> HIDE DEF h, g, b, v
<1>4. \A i \in 1 .. Len(g) : g[i] <= now
  <2>1. CASE g = h
    BY <1>3, <2>1
  <2>2. CASE g = <<>>
    BY <2>2
  <2> QED BY <1>2, <2>1, <2>2
<1>5. ASSUME NEW t \in Times, t > now - Window PROVE Holds(g, v, Since(f, t), t)
  <2> DEFINE n == Since(f, t)
  <2>1. n \in Nat /\ t \in Nat \ {0}
    <3>1. MaxTime \in Int /\ MaxTime <= MaxTime /\ t \in Nat \ {0}
      BY SharedAssumption DEF Times
    <3> QED BY <3>1, CountedFinite DEF Since
  <2>2. /\ n <= Len(h) /\ \A i \in Len(h) - n + 1 .. Len(h) : h[i] >= t
        /\ n <= Requests + (IF b >= t THEN 1 ELSE 0)
    BY <1>3, <1>5 DEF Holds
  <2> HIDE DEF n
  <2>3. n <= Requests + (IF v >= t THEN 1 ELSE 0)
    <3>1. CASE v = b
      BY <2>2, <3>1
    <3>2. CASE v = 0 /\ now - b >= Window
      <4>1. ~(b >= t) /\ ~(v >= t)
        BY <1>1, <1>5, <2>1, <3>2
      <4> QED BY <2>2, <4>1
    <3> QED BY <1>2, <3>1, <3>2
  <2>4. n <= Len(g) /\ \A i \in Len(g) - n + 1 .. Len(g) : g[i] >= t
    <3>1. CASE g = h
      BY <2>2, <3>1
    <3>2. CASE g = <<>> /\ (h = <<>> \/ h[Len(h)] <= now - Window)
      <4>1. n = 0
        <5>1. CASE h = <<>>
          BY <2>1, <2>2, <5>1
        <5>2. CASE h # <<>> /\ h[Len(h)] <= now - Window
          <6>1. SUFFICES ASSUME n # 0 PROVE FALSE
            OBVIOUS
          <6>2. Len(h) \in Nat /\ Len(h) \in Len(h) - n + 1 .. Len(h) /\ Len(h) \in 1 .. Len(h)
            BY <1>1, <2>1, <2>2, <6>1
          <6>3. h[Len(h)] >= t /\ h[Len(h)] \in Nat
            BY <1>1, <2>2, <6>2
          <6> QED BY <1>1, <1>5, <2>1, <5>2, <6>3
        <5> QED BY <3>2, <5>1, <5>2
      <4>2. Len(g) = 0
        BY <3>2
      <4> QED BY <4>1, <4>2
    <3> QED BY <1>2, <3>1, <3>2
  <2> QED BY <2>3, <2>4 DEF Holds, n
<1> QED BY <1>3, <1>4, <1>5 DEF Knows, Recalls, g, v

\* Nor does it remember one that is still to come.
LEMMA TakenBefore ==
    ASSUME NEW h \in Seq(Nat), NEW g \in Seq(Nat), NEW b, NEW v, NEW now \in Nat,
           NEW one, Taken(h, b, g, v, now, one), \A i \in 1 .. Len(h) : h[i] <= now
    PROVE  \A i \in 1 .. Len(g) : g[i] <= now
<1> DEFINE kept == DropAged(h, now - Window)
<1>1. g = IF Len(kept) < Ring THEN Append(kept, now) ELSE kept
  BY DEF Taken
<1>2. now - Window \in Int
  BY WindowAssumption
<1>3. /\ kept \in Seq(Nat) /\ Len(kept) <= Len(h)
      /\ \A i \in 1 .. Len(kept) : kept[i] = h[Len(h) - Len(kept) + i]
  BY <1>2, DropAgedIs
<1> HIDE DEF kept
<1>4. ASSUME NEW i \in 1 .. Len(kept) PROVE kept[i] <= now
  <2>1. Len(h) - Len(kept) + i \in 1 .. Len(h)
    BY <1>3
  <2> QED BY <1>3, <2>1
<1>5. CASE g = Append(kept, now)
  <2>1. /\ Len(g) = Len(kept) + 1 /\ g[Len(kept) + 1] = now
        /\ \A i \in 1 .. Len(kept) : g[i] = kept[i]
    BY <1>3, <1>5
  <2>2. ASSUME NEW i \in 1 .. Len(g) PROVE g[i] <= now
    <3>1. CASE i = Len(kept) + 1
      BY <2>1, <3>1
    <3>2. CASE i # Len(kept) + 1
      <4>1. i \in 1 .. Len(kept)
        BY <1>3, <2>1, <3>2
      <4> QED BY <1>4, <2>1, <4>1
    <3> QED BY <3>1, <3>2
  <2> QED BY <2>2
<1>6. CASE g = kept
  BY <1>4, <1>6
<1> QED BY <1>1, <1>5, <1>6

\* g counts `one` request at now more than f.
Added(f, g, now, one) ==
    g[now] = f[now] + one /\ \A t \in Times \ {now} : g[t] = f[t]

\* That is as many more since any time up to then.
LEMMA SinceAdded ==
    ASSUME NEW f \in [Times -> Nat], NEW g \in [Times -> Nat], NEW now \in Times,
           NEW one \in OneOrNone, Added(f, g, now, one), NEW t \in Times
    PROVE  Since(g, t) = IF now >= t THEN Since(f, t) + one ELSE Since(f, t)
<1>1. /\ MaxTime \in Int /\ MaxTime <= MaxTime /\ (now \in t .. MaxTime <=> now >= t)
      /\ t \in Nat \ {0}
  BY SharedAssumption DEF Times
<1>2. g[now] = f[now] + one /\ \A u \in Times \ {now} : g[u] = f[u]
  BY DEF Added
<1>3. CASE one = 1
  <2>1. g[now] = f[now] + 1
    BY <1>2, <1>3
  <2>2. /\ now \in t .. MaxTime =>
             Cardinality(Counted(g, t, MaxTime)) = Cardinality(Counted(f, t, MaxTime)) + 1
        /\ now \notin t .. MaxTime => Counted(g, t, MaxTime) = Counted(f, t, MaxTime)
    BY <1>1, <1>2, <2>1, CountedOneMore
  <2> QED BY <1>1, <1>3, <2>2 DEF Since
<1>4. CASE one = 0
  <2>1. \A u \in Times : g[u] = f[u]
    BY <1>2, <1>4
  <2>2. g = f
    BY <2>1
  <2>3. Since(f, t) \in Nat
    BY <1>1, CountedFinite DEF Since
  <2> QED BY <1>4, <2>2, <2>3
<1> QED BY <1>3, <1>4 DEF OneOrNone

\* The types of the requests and the burst of a client.
Dated(h, b) == h \in Seq(Nat) /\ b \in Nat

\* All but the last of the last m of l + 1 places are among the last n of l.
LEMMA LastButOne ==
    ASSUME NEW l \in Nat, NEW n \in Nat, NEW m \in Nat, n <= l, m <= n + 1,
           NEW i \in (l + 1) - m + 1 .. l + 1, i # l + 1
    PROVE  i \in l - n + 1 .. l /\ i \in 1 .. l
OBVIOUS

\* and whatever a decision drops: the request it admits, it remembers.
LEMMA TakenRecalls ==
    ASSUME NEW h, NEW b, Dated(h, b), NEW g, NEW v, Dated(g, v), NEW now \in Times,
           NEW one \in OneOrNone, Taken(h, b, g, v, now, one),
           NEW was \in [Times -> Nat], NEW is \in [Times -> Nat], Added(was, is, now, one),
           Recalls(h, b, was, now)
    PROVE  Recalls(g, v, is, now)
<1>1. now \in Nat /\ MaxTime \in Int /\ MaxTime <= MaxTime /\ Times \subseteq Nat \ {0}
  BY SharedAssumption DEF Times
<1>2. /\ \A i \in 1 .. Len(h) : h[i] <= now
      /\ \A t \in Times : t > now - Window =>
            Since(was, t) <= Allowance /\ Holds(h, b, Since(was, t), t)
  BY DEF Recalls
<1>3. \A i \in 1 .. Len(g) : g[i] <= now
  <2>1. h \in Seq(Nat) /\ g \in Seq(Nat)
    BY DEF Dated
  <2> QED BY <1>1, <1>2, <2>1, TakenBefore
<1>4. ASSUME NEW t \in Times, t > now - Window
      PROVE  Since(is, t) <= Allowance /\ Holds(g, v, Since(is, t), t)
  <2> DEFINE n == Since(was, t)
             m == Since(is, t)
  <2>a. n \in Nat /\ t \in Nat \ {0} /\ n <= Allowance /\ Holds(h, b, n, t)
    <3>1. n \in Nat
      BY <1>1, CountedFinite DEF Since
    <3> QED BY <1>1, <1>2, <1>4, <3>1
  <2>b. m = IF now >= t THEN n + one ELSE n
    BY <1>4, SinceAdded
  <2>c. m \in Nat /\ one \in {0, 1}
    BY <2>a, <2>b DEF OneOrNone
  <2>d. \A i \in 1 .. Len(h) : h[i] <= now
    BY <1>2
  <2> HIDE DEF n, m
  <2>e. h \in Seq(Nat) /\ g \in Seq(Nat) /\ b \in Nat /\ v \in Nat
    BY DEF Dated
  <2> DEFINE kept == DropAged(h, now - Window)
  <2>1. /\ g = IF Len(kept) < Ring THEN Append(kept, now) ELSE kept
        /\ \/ one = 1 /\ Len(g) <= Requests /\ v = b
           \/ /\ one = 1 /\ Len(g) > Requests /\ Len(g) <= EffectivePeak /\ v = now
              /\ b = 0 \/ now - b >= Window
           \/ one = 0 /\ v = b
    BY DEF Taken
  <2>2. /\ Requests \in Nat /\ EffectivePeak \in Nat /\ Requests <= EffectivePeak
        /\ Ring = EffectivePeak + 1 /\ Window \in Nat
    BY PeakType, WindowAssumption DEF Ring
  <2>3. now - Window \in Int
    BY <1>1, <2>2
  <2>4. /\ kept \in Seq(Nat) /\ Len(kept) <= Len(h)
        /\ \A i \in 1 .. Len(kept) : kept[i] = h[Len(h) - Len(kept) + i]
        /\ \A i \in 1 .. Len(h) - Len(kept) : h[i] <= now - Window
    BY <2>3, <2>e, DropAgedIs
  <2> HIDE DEF kept
  <2>5. /\ n <= Len(h) /\ \A i \in Len(h) - n + 1 .. Len(h) : h[i] >= t
        /\ n <= Requests + (IF b >= t THEN 1 ELSE 0)
    BY <2>a DEF Holds
  <2>6. Len(h) \in Nat /\ Len(kept) \in Nat /\ \A i \in 1 .. Len(h) : h[i] \in Nat
    BY <2>4, <2>e
  <2> USE <1>4, <2>a, <2>b, <2>c, <2>d, <2>e
  <2>7. n <= Len(kept)
    <3>1. SUFFICES ASSUME ~(n <= Len(kept)) PROVE FALSE
      OBVIOUS
    <3> DEFINE i == Len(h) - n + 1
    <3>2. i \in 1 .. Len(h) - Len(kept) /\ i \in Len(h) - n + 1 .. Len(h) /\ i \in 1 .. Len(h)
      BY <2>4, <2>5, <2>6, <3>1
    <3>3. h[i] >= t /\ h[i] <= now - Window /\ h[i] \in Nat
      BY <2>4, <2>5, <2>6, <3>2
    <3> HIDE DEF i
    <3> QED BY <2>2, <3>3
  <2>8. \A i \in Len(kept) - n + 1 .. Len(kept) : kept[i] >= t
    <3>1. ASSUME NEW i \in Len(kept) - n + 1 .. Len(kept) PROVE kept[i] >= t
      <4>1. /\ i \in 1 .. Len(kept)
            /\ Len(h) - Len(kept) + i \in Len(h) - n + 1 .. Len(h)
        BY <2>4, <2>5, <2>6, <2>7
      <4> QED BY <2>4, <2>5, <4>1
    <3> QED BY <3>1
  <2>9. n # 0 => now >= t
    <3>1. SUFFICES ASSUME n # 0 PROVE now >= t
      OBVIOUS
    <3>2. Len(h) \in Len(h) - n + 1 .. Len(h) /\ Len(h) \in 1 .. Len(h)
      BY <2>5, <2>6, <3>1
    <3>3. h[Len(h)] >= t /\ h[Len(h)] <= now /\ h[Len(h)] \in Nat
      BY <2>5, <2>6, <3>2
    <3> QED BY <3>3
  <2>10. m <= Len(g) /\ \A i \in Len(g) - m + 1 .. Len(g) : g[i] >= t
    <3>1. CASE Len(kept) < Ring
      <4>1. /\ g = Append(kept, now) /\ Len(g) = Len(kept) + 1 /\ g[Len(kept) + 1] = now
            /\ \A i \in 1 .. Len(kept) : g[i] = kept[i]
        BY <2>1, <2>4, <3>1
      <4>2. m <= Len(g)
        BY <2>6, <2>7, <4>1
      <4>3. ASSUME NEW i \in Len(g) - m + 1 .. Len(g) PROVE g[i] >= t
        <5>1. m # 0 /\ now >= t
          <6>1. m # 0
            BY <2>6, <4>1, <4>3, SMTT(30)
          <6> QED BY <2>9, <6>1
        <5>2. m <= n + 1
          OBVIOUS
        <5>3. CASE i = Len(kept) + 1
          BY <4>1, <5>1, <5>3
        <5>4. CASE i # Len(kept) + 1
          <6>1. i \in Len(kept) - n + 1 .. Len(kept) /\ i \in 1 .. Len(kept)
            <7>1. /\ Len(kept) \in Nat /\ n \in Nat /\ m \in Nat /\ n <= Len(kept) /\ m <= n + 1
                  /\ Len(g) = Len(kept) + 1
              BY <2>6, <2>7, <4>1, <5>2
            <7>2. i \in (Len(kept) + 1) - m + 1 .. Len(kept) + 1 /\ i # Len(kept) + 1
              BY <4>3, <5>4, <7>1
            <7> QED BY <7>1, <7>2, LastButOne
          <6> QED BY <2>8, <4>1, <6>1
        <5> QED BY <5>3, <5>4
      <4> QED BY <4>2, <4>3
    <3>2. CASE ~(Len(kept) < Ring)
      <4>1. g = kept
        BY <2>1, <3>2
      <4>2. one = 0
        BY <2>1, <2>2, <2>6, <3>2, <4>1
      <4>3. m = n
        BY <4>2
      <4> QED BY <2>7, <2>8, <4>1, <4>3
    <3> QED BY <3>1, <3>2
  <2>11. m <= Allowance /\ m <= Requests + (IF v >= t THEN 1 ELSE 0)
    <3>1. CASE one = 0 /\ v = b
      BY <2>5, <3>1
    <3>2. CASE one = 1 /\ Len(g) <= Requests /\ v = b
      <4>1. Len(g) \in Nat
        OBVIOUS
      <4>2. m <= Requests
        BY <2>2, <2>10, <3>2, <4>1
      <4> QED BY <2>2, <4>2 DEF Allowance
    <3>3. CASE /\ one = 1 /\ Len(g) > Requests /\ Len(g) <= EffectivePeak /\ v = now
               /\ b = 0 \/ now - b >= Window
      <4>1. ~(b >= t)
        BY <2>2, <3>3
      <4>2. n <= Requests
        BY <2>2, <2>5, <4>1
      <4>3. Len(g) \in Nat
        OBVIOUS
      <4>4. Allowance = Requests + 1
        BY <2>2, <3>3, <4>3 DEF Allowance
      <4>5. m <= Requests + (IF now >= t THEN 1 ELSE 0)
        BY <2>2, <4>2
      <4> QED BY <2>2, <3>3, <4>4, <4>5
    <3> QED BY <2>1, <3>1, <3>2, <3>3
  <2> QED BY <2>10, <2>11 DEF Holds, m
<1> QED BY <1>3, <1>4 DEF Recalls

\* So a request that is counted leaves every client known.
LEMMA ConsumeKnows ==
    ASSUME Capacity >= Cardinality(Clients), NEW d, CountersType(d), NEW c \in Clients,
           NEW now \in Times,
           NEW f \in [Clients -> [Times -> Nat]], NEW g \in [Clients -> [Times -> Nat]],
           \A y \in Clients \ {c} : g[y] = f[y],
           Consume(d, c, now).answer.ok => Added(f[c], g[c], now, 1),
           ~Consume(d, c, now).answer.ok => g[c] = f[c],
           \A y \in Clients : Knows(d, y, f[y], now)
    PROVE  \A y \in Clients : Knows(Consume(d, c, now).counters, y, g[y], now)
<1> DEFINE e == Consume(d, c, now).counters
           a == Consume(d, c, now).answer
<1>1. /\ now \in Nat /\ MaxTime \in Int /\ Times \subseteq Nat \ {0} /\ Window \in Nat
      /\ f[c] \in [Times -> Nat] /\ g[c] \in [Times -> Nat]
  BY SharedAssumption, WindowAssumption DEF Times
<1>2. /\ CountersType(e)
      /\ \/ e = d /\ a.ok = FALSE
         \/ \E m : \E one \in OneOrNone :
               /\ CountersType(m) /\ \A y \in Clients : SweptOf(d, m, y, now)
               /\ Counts(m, e, c, now, one) /\ (a.ok <=> one = 1)
  BY <1>1, ConsumeIs, ZenonT(30)
<1> HIDE DEF e, a
<1>3. CASE e = d /\ a.ok = FALSE
  <2>1. \A y \in Clients : g[y] = f[y]
    BY <1>3 DEF a
  <2> QED BY <1>3, <2>1 DEF e
<1>4. ASSUME NEW m, NEW one \in OneOrNone, CountersType(m), \A y \in Clients : SweptOf(d, m, y, now),
             Counts(m, e, c, now, one), a.ok <=> one = 1
      PROVE  \A y \in Clients : Knows(e, y, g[y], now)
  <2>1. ASSUME NEW y \in Clients PROVE Knows(m, y, f[y], now)
    <3>1. f[y] \in [Times -> Nat] /\ SweptOf(d, m, y, now) /\ Knows(d, y, f[y], now)
      BY <1>4
    <3> QED BY <1>1, <1>4, <3>1, SweptKnows
  <2>2. ASSUME NEW y \in Clients \ {c} PROVE Knows(e, y, g[y], now)
    <3>1. e.hits[y] = m.hits[y] /\ e.bursts[y] = m.bursts[y] /\ g[y] = f[y]
      BY <1>4 DEF Counts
    <3> QED BY <2>1, <3>1 DEF Knows
  <2> DEFINE h == m.hits[c]
             b == m.bursts[c]
             k == e.hits[c]
             v == e.bursts[c]
  <2>3. Dated(h, b) /\ Dated(k, v) /\ Taken(h, b, k, v, now, one)
    BY <1>2, <1>4 DEF CountersType, Counts, Dated
  <2>4. Added(f[c], g[c], now, one)
    <3>1. CASE one = 1
      BY <1>4, <3>1 DEF a
    <3>2. CASE one = 0
      <4>1. g[c] = f[c]
        BY <1>4, <3>2 DEF a
      <4>2. \A t \in Times : f[c][t] \in Nat
        BY <1>1
      <4> QED BY <3>2, <4>1, <4>2 DEF Added
    <3> QED BY <1>4, <3>1, <3>2 DEF OneOrNone
  <2>5. Recalls(h, b, f[c], now)
    BY <2>1 DEF Knows
  <2>6. Recalls(k, v, g[c], now)
    <3> HIDE DEF h, b, k, v
    <3> QED BY <1>1, <2>3, <2>4, <2>5, TakenRecalls, ZenonT(60)
  <2>7. Knows(e, c, g[c], now)
    BY <2>6 DEF Knows
  <2> QED BY <2>2, <2>7
<1> QED BY <1>2, <1>3, <1>4 DEF e

\* The latest time at which w decided, or can still decide, on a request.
LastTime(w) == IF pc[w] \in {"idle", "dead"} THEN clock ELSE req[w].now

\* f never counts more than one allowance in a window.
Within(f) ==
    \A t \in Times : Cardinality(Counted(f, t, Min({MaxTime, t + Window - 1}))) <= Allowance

\* A worker knows of the requests it allowed, whatever it forgot.
Remembers(w) ==
    /\ CountersType(local[w])
    /\ \A c \in Clients : /\ Knows(local[w], c, served[w][c], LastTime(w))
                          /\ Within(served[w][c])

AloneInv ==
    /\ Counting
    /\ Capacity >= Cardinality(Clients) => \A w \in Workers : Remembers(w)

\* The end of a window is a time.
LEMMA WindowEnd ==
    ASSUME NEW t \in Times
    PROVE  /\ Min({MaxTime, t + Window - 1}) \in Int
           /\ Min({MaxTime, t + Window - 1}) <= MaxTime
           /\ Min({MaxTime, t + Window - 1}) <= t + Window - 1
<1>1. MaxTime \in Int /\ t + Window - 1 \in Int
  BY SharedAssumption, WindowAssumption DEF Times
<1> QED BY <1>1, MinOfTwo

\* At the start there is nothing to know.
LEMMA InitAloneInv == Init => AloneInv
<1> SUFFICES ASSUME Init PROVE AloneInv
  OBVIOUS
<1>0. MaxTime \in Nat \ {0} /\ Window \in Nat /\ Requests \in Nat
  BY SharedAssumption, WindowAssumption
<1>1. Counting
  BY InitAllowInv DEF AllowInv
<1>2. CountersType(NoCounters)
  <2>1. <<>> \in Seq(Nat)
    OBVIOUS
  <2>2. /\ [c \in Clients |-> <<>>] \in [Clients -> Seq(Nat)]
        /\ [c \in Clients |-> 0] \in [Clients -> Nat]
    BY <2>1
  <2> QED BY <2>2 DEF CountersType, IsCounters, NoCounters
<1>3. ASSUME NEW w \in Workers, NEW c \in Clients, NEW t \in Times, NEW to \in Int, to <= MaxTime
      PROVE  Cardinality(Counted(served[w][c], t, to)) = 0
  <2>1. served[w][c] = [u \in Times |-> 0]
    BY DEF Init, Counters
  <2>2. \A u \in t .. to : served[w][c][u] = 0
    BY <1>0, <1>3, <2>1 DEF Times
  <2>3. Counted(served[w][c], t, to) = {}
    BY <2>2 DEF Counted
  <2> QED BY <2>3, FS_EmptySet
<1>4. Allowance \in Nat
  BY <1>0 DEF Allowance
<1>5. ASSUME NEW w \in Workers, NEW c \in Clients
      PROVE  Knows(local[w], c, served[w][c], LastTime(w))
  <2>1. local[w].hits[c] = <<>>
    BY DEF Init, NoCounters
  <2>2. \A t \in Times : Since(served[w][c], t) = 0
    BY <1>0, <1>3 DEF Since
  <2>3. \A t \in Times : Holds(<<>>, local[w].bursts[c], 0, t)
    BY <1>0 DEF Holds
  <2> QED BY <1>4, <2>1, <2>2, <2>3 DEF Knows, Recalls
<1>6. ASSUME NEW w \in Workers, NEW c \in Clients
      PROVE  Within(served[w][c])
  <2>1. \A t \in Times : Cardinality(Counted(served[w][c], t, Min({MaxTime, t + Window - 1}))) = 0
    BY <1>3, WindowEnd
  <2> QED BY <1>4, <2>1 DEF Within
<1>7. \A w \in Workers : CountersType(local[w])
  BY <1>2 DEF Init
<1> QED BY <1>1, <1>5, <1>6, <1>7 DEF AloneInv, Remembers

\* A worker's times only grow.
LEMMA LastTimeGrows ==
    ASSUME TypeInv, Counting, [Next]_vars, NEW v \in Workers
    PROVE  LastTime(v) \in Nat /\ LastTime(v)' \in Nat /\ LastTime(v) <= LastTime(v)'
<1>0. /\ pc \in [Workers -> {"idle", "probe", "inspect", "sweep", "clear", "dead"}]
      /\ req \in [Workers -> [client : Clients \cup {NoClient}, now : Nat, step : 0 .. Probes - 1]]
      /\ clock \in Nat /\ req[v].now \in Nat
      /\ pc[v] \notin {"idle", "dead"} => req[v].now <= clock
  BY DEF TypeInv, TypeOK, Counting
<1> DEFINE Later == \/ pc'[v] \in {"idle", "dead"}
                    \/ pc[v] \notin {"idle", "dead"} /\ req'[v].now = req[v].now
                    \/ pc[v] \in {"idle", "dead"} /\ req'[v].now = clock
<1>1. ASSUME clock' \in {clock, clock + 1}, Later
      PROVE  LastTime(v) \in Nat /\ LastTime(v)' \in Nat /\ LastTime(v) <= LastTime(v)'
  <2>1. PICK now : now = clock'
    OBVIOUS
  <2>2. now \in Nat /\ clock <= now
    BY <1>0, <1>1, <2>1
  <2>3. LastTime(v) = IF pc[v] \in {"idle", "dead"} THEN clock ELSE req[v].now
    BY DEF LastTime
  <2>4. LastTime(v)' = IF pc'[v] \in {"idle", "dead"} THEN now ELSE req'[v].now
    BY <2>1 DEF LastTime
  <2> QED BY <1>0, <1>1, <2>2, <2>3, <2>4
<1>2. CASE UNCHANGED vars \/ Tick
  <2>1. clock' \in {clock, clock + 1} /\ pc' = pc /\ req' = req
    BY <1>2 DEF vars, Tick
  <2> QED BY <1>1, <2>1
<1>3. ASSUME NEW w \in Workers, NEW c \in Clients, Arrive(w, c) \/ ArriveUnmapped(w, c)
      PROVE  Later /\ clock' = clock
  BY <1>0, <1>3 DEF Arrive, ArriveUnmapped
<1>4. ASSUME NEW w \in Workers, Done(w) \/ (pc' = [pc EXCEPT ![w] = "sweep"] /\ req' = req),
             pc[w] \notin {"idle", "dead"}
      PROVE  Later
  BY <1>0, <1>4 DEF Done
<1>5. ASSUME NEW w \in Workers, TimeOut(w) \/ Overflow(w) \/ TakeSlot(w) \/ SweepSkip(w)
                                \/ SweepClear(w)
      PROVE  Later /\ clock' = clock
  <2>1. clock' = clock /\ pc[w] \notin {"idle", "dead"}
    BY <1>5 DEF TimeOut, Overflow, TakeSlot, SweepSkip, SweepClear
  <2>2. Done(w) \/ (pc' = [pc EXCEPT ![w] = "sweep"] /\ req' = req)
    BY <1>5 DEF TimeOut, Overflow, TakeSlot, SweepSkip, SweepClear, AfterDecision, SweepOn
  <2> QED BY <1>4, <2>1, <2>2
<1>6. ASSUME NEW w \in Workers, Acquire(w) \/ SweepVisit(w) \/ Die(w) \/ Close(w)
      PROVE  Later /\ clock' = clock
  BY <1>0, <1>6 DEF Acquire, SweepVisit, Die, Close
<1>7. ASSUME NEW w \in Workers, NextProbe(w) PROVE Later /\ clock' = clock
  BY <1>0, <1>7 DEF NextProbe
<1> HIDE DEF Later
<1> QED BY <1>1, <1>2, <1>3, <1>5, <1>6, <1>7 DEF Next, Step

\* One request more is within the allowance when a time no decision ages out says so.
LEMMA AddedWithin ==
    ASSUME NEW f \in [Times -> Nat], NEW g \in [Times -> Nat], NEW now \in Times, Added(f, g, now, 1),
           Within(f), \A t \in Times : t > now - Window => Since(g, t) <= Allowance
    PROVE  Within(g)
<1>0. now \in Nat /\ Window \in Nat /\ MaxTime \in Int /\ MaxTime <= MaxTime /\ Allowance \in Int
  BY SharedAssumption, WindowAssumption DEF Times, Allowance
<1>1. ASSUME NEW t \in Times
      PROVE  Cardinality(Counted(g, t, Min({MaxTime, t + Window - 1}))) <= Allowance
  <2>1. PICK to \in Int : /\ to = Min({MaxTime, t + Window - 1})
                          /\ to <= MaxTime /\ to <= t + Window - 1
    BY WindowEnd
  <2>2. t \in Nat
    BY DEF Times
  <2>3. CASE t > now - Window
    <3>1. Since(g, t) <= Allowance
      BY <2>3
    <3>2. Cardinality(Counted(g, t, to)) <= Since(g, t)
      BY <1>0, <2>1, CountedLonger DEF Since
    <3>3. Cardinality(Counted(g, t, to)) \in Nat /\ Since(g, t) \in Nat
      BY <1>0, <2>1, CountedFinite DEF Since
    <3> QED BY <1>0, <2>1, <3>1, <3>2, <3>3
  <2>4. CASE ~(t > now - Window)
    <3>1. now \notin t .. to
      BY <1>0, <2>1, <2>2, <2>4
    <3>2. g[now] = f[now] + 1 /\ \A u \in Times \ {now} : g[u] = f[u]
      BY DEF Added
    <3>3. Counted(g, t, to) = Counted(f, t, to)
      BY <2>1, <3>1, <3>2, CountedOneMore
    <3>4. Cardinality(Counted(f, t, to)) <= Allowance
      BY <2>1 DEF Within
    <3> QED BY <2>1, <3>3, <3>4
  <2> QED BY <2>3, <2>4
<1> QED BY <1>1 DEF Within

\* A worker that counts alone knows of the request it just counted, too.
LEMMA CountAloneKnows ==
    ASSUME Counting, LockInv, Capacity >= Cardinality(Clients), NEW w \in Workers,
           NEW c \in Clients, NEW now \in Times, CountAlone(w, c, now), CountersType(local[w]),
           \A y \in Clients : Knows(local[w], y, served[w][y], now) /\ Within(served[w][y])
    PROVE  /\ \A v \in Workers \ {w} : local'[v] = local[v] /\ served'[v] = served[v]
           /\ CountersType(local'[w])
           /\ \A y \in Clients : Knows(local'[w], y, served'[w][y], now) /\ Within(served'[w][y])
<1> DEFINE d == local[w]
           f == served[w]
           g == served'[w]
           e == Consume(d, c, now).counters
           ok == Consume(d, c, now).answer.ok
<1>1. /\ w \in Counters /\ now \in Nat /\ f \in [Clients -> [Times -> Nat]]
      /\ f[c] \in [Times -> Nat] /\ f[c][now] \in Nat
  BY SharedAssumption DEF Counters, Counting, Times
<1>2. local' = [local EXCEPT ![w] = e] /\ Answer(w, c, now, ok)
  BY DEF CountAlone
<1> HIDE DEF e, ok
<1>3. local'[w] = e /\ \A v \in Workers \ {w} : local'[v] = local[v]
  BY <1>2 DEF LockInv
<1>4. /\ served' \in [Counters -> [Clients -> [Times -> Nat]]]
      /\ \A l \in Counters \ {w} : served'[l] = served[l]
      /\ \A y \in Clients \ {c} : g[y] = f[y]
      /\ ok => g[c] = [f[c] EXCEPT ![now] = f[c][now] + 1]
      /\ ~ok => served' = served
  BY <1>1, <1>2, AnswerGives
<1>5. g \in [Clients -> [Times -> Nat]] /\ \A v \in Workers \ {w} : served'[v] = served[v]
  BY <1>1, <1>4 DEF Counters
<1>6. (ok => Added(f[c], g[c], now, 1)) /\ (~ok => g[c] = f[c])
  <2>1. CASE ok
    <3>1. g[c] = [f[c] EXCEPT ![now] = f[c][now] + 1]
      BY <1>4, <2>1
    <3> HIDE DEF f, g
    <3> QED BY <1>1, <2>1, <3>1 DEF Added
  <2>2. CASE ~ok
    BY <1>4, <2>2
  <2> QED BY <2>1, <2>2
<1>7. CountersType(e)
  BY <1>1, ConsumeIs, ZenonT(30) DEF e
<1> HIDE DEF d, f, g
<1>8. CountersType(d) /\ \A y \in Clients : Knows(d, y, f[y], now) /\ Within(f[y])
  BY DEF d, f
<1>9. \A y \in Clients : Knows(e, y, g[y], now)
  BY <1>1, <1>4, <1>5, <1>6, <1>8, ConsumeKnows, ZenonT(60) DEF e, ok
<1>10. ASSUME NEW y \in Clients PROVE Within(g[y])
  <2>1. CASE y = c /\ ok
    <3>1. Added(f[c], g[c], now, 1) /\ Within(f[c]) /\ g[c] \in [Times -> Nat]
      BY <1>5, <1>6, <1>8, <2>1
    <3>2. \A t \in Times : t > now - Window => Since(g[c], t) <= Allowance
      BY <1>9 DEF Knows, Recalls
    <3>3. Within(g[c])
      BY <1>1, <3>1, <3>2, AddedWithin
    <3> QED BY <2>1, <3>3
  <2>2. CASE ~(y = c /\ ok)
    <3>1. g[y] = f[y]
      BY <1>4, <1>6, <2>2
    <3> QED BY <1>8, <3>1
  <2> QED BY <2>1, <2>2
<1> QED BY <1>3, <1>5, <1>7, <1>9, <1>10 DEF g

\* Every step leaves every worker knowing of what it allowed.
LEMMA NextAloneInv ==
    ASSUME TypeInv, NoLostUpdate, LockInv, AloneInv, [Next]_vars
    PROVE  AloneInv'
<1>0. Counting /\ Counting'
  BY NextCounting DEF AloneInv
<1> SUFFICES ASSUME Capacity >= Cardinality(Clients) PROVE \A w \in Workers : Remembers(w)'
  BY <1>0 DEF AloneInv
<1>1. \A w \in Workers : Remembers(w)
  BY DEF AloneInv
<1>2. ASSUME NEW w \in Workers
      PROVE  LastTime(w) \in Nat /\ LastTime(w)' \in Nat /\ LastTime(w) <= LastTime(w)'
  BY <1>0, LastTimeGrows
<1>3. ASSUME NEW w \in Workers, local'[w] = local[w], served'[w] = served[w]
      PROVE  Remembers(w)'
  <2>1. /\ CountersType(local[w])
        /\ \A c \in Clients : Knows(local[w], c, served[w][c], LastTime(w)) /\ Within(served[w][c])
    BY <1>1 DEF Remembers
  <2>2. PICK later \in Nat : later = LastTime(w)' /\ LastTime(w) <= later
    BY <1>2
  <2>3. \A c \in Clients : Knows(local[w], c, served[w][c], later)
    BY <1>2, <2>1, <2>2, KnowsLater
  <2> QED BY <1>3, <2>1, <2>2, <2>3 DEF Remembers
<1>4. ASSUME NEW w \in Workers, NEW c \in Clients, NEW now \in Times, CountAlone(w, c, now),
             now = LastTime(w)
      PROVE  \A v \in Workers : Remembers(v)'
  <2>1. /\ CountersType(local[w])
        /\ \A y \in Clients : Knows(local[w], y, served[w][y], now) /\ Within(served[w][y])
    BY <1>1, <1>4 DEF Remembers
  <2>2. /\ \A v \in Workers \ {w} : local'[v] = local[v] /\ served'[v] = served[v]
        /\ CountersType(local'[w])
        /\ \A y \in Clients : Knows(local'[w], y, served'[w][y], now) /\ Within(served'[w][y])
    BY <1>0, <1>4, <2>1, CountAloneKnows
  <2>3. PICK later \in Nat : later = LastTime(w)' /\ now <= later /\ now \in Nat
    BY <1>2, <1>4
  <2>4. PICK e, g : e = local'[w] /\ g = served'[w]
    OBVIOUS
  <2>5. CountersType(e) /\ \A y \in Clients : Knows(e, y, g[y], now)
    BY <2>2, <2>4
  <2>6. \A y \in Clients : Knows(e, y, g[y], later)
    BY <2>3, <2>5, KnowsLater
  <2>7. Remembers(w)'
    BY <2>2, <2>3, <2>4, <2>6 DEF Remembers
  <2> QED BY <1>3, <2>2, <2>7
<1>5. ASSUME \A w \in Workers : local'[w] = local[w] /\ served'[w] = served[w]
      PROVE  \A w \in Workers : Remembers(w)'
  BY <1>3, <1>5
<1>6. CASE UNCHANGED vars \/ Tick
  BY <1>5, <1>6 DEF vars, Tick
<1>7. ASSUME NEW w \in Workers, NEW c \in Clients, ArriveUnmapped(w, c)
      PROVE  \A v \in Workers : Remembers(v)'
  <2>1. CountAlone(w, c, clock) /\ clock \in Times /\ clock = LastTime(w)
    BY <1>0, <1>7 DEF ArriveUnmapped, LastTime, Counting
  <2> QED BY <1>4, <2>1
<1>8. ASSUME NEW w \in Workers, TimeOut(w) \/ Overflow(w)
      PROVE  \A v \in Workers : Remembers(v)'
  <2>1. /\ req[w].client \in Clients /\ req[w].now \in Times /\ req[w].now = LastTime(w)
        /\ CountAlone(w, req[w].client, req[w].now)
    BY <1>0, <1>8 DEF TimeOut, Overflow, TypeInv, Busy, Counting, LastTime
  <2> QED BY <1>4, <2>1
<1>9. ASSUME NEW w \in Workers, TakeSlot(w) PROVE \A v \in Workers : Remembers(v)'
  <2>1. PICK c \in Clients, now \in Times, ok \in BOOLEAN : Answer(Table, c, now, ok)
    BY <1>0, <1>9, TakeSlotGives
  <2>2. Table \in Counters /\ \A v \in Workers : v \in Counters \ {Table}
    BY SharedAssumption DEF Counters, Table
  <2>3. \A v \in Workers : served'[v] = served[v]
    BY <1>0, <2>1, <2>2, AnswerGives
  <2> QED BY <1>5, <1>9, <2>3 DEF TakeSlot
<1>10. ASSUME NEW w \in Workers, NEW c \in Clients, Arrive(w, c)
       PROVE  \A v \in Workers : Remembers(v)'
  BY <1>5, <1>10 DEF Arrive
<1>11. ASSUME NEW w \in Workers, Acquire(w) \/ NextProbe(w) \/ SweepVisit(w) \/ SweepSkip(w)
                                 \/ SweepClear(w) \/ Die(w) \/ Close(w)
       PROVE  \A v \in Workers : Remembers(v)'
  BY <1>5, <1>11 DEF Acquire, NextProbe, SweepVisit, SweepSkip, SweepClear, Die, Close
<1> QED BY <1>6, <1>7, <1>8, <1>9, <1>10, <1>11 DEF Next, Step

\* A worker that counts alone holds every client to one allowance, as long as its
\* dictionary has room for every client: neither a sweep nor a burst lets more through.
THEOREM TheAloneAllowanceHolds == Spec => []AloneAllowanceHeld
<1>1. Spec => [](TypeInv /\ NoLostUpdate)
  BY TypeInvariance, NoUpdateLost, PTL
<1>2. TypeInv /\ NoLostUpdate /\ LockInv /\ [Next]_vars => LockInv'
  BY NextLockInv
<1>3. Spec => []LockInv
  BY <1>1, <1>2, InitLockInv, PTL DEF Spec
<1>4. Spec => []AloneInv
  BY <1>1, <1>3, InitAloneInv, NextAloneInv, PTL DEF Spec
<1>5. AloneInv => AloneAllowanceHeld
  BY DEF AloneInv, Remembers, Within, AloneAllowanceHeld, ServedIn
<1> QED BY <1>4, <1>5, PTL

=============================================================================
