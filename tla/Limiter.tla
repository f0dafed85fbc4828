------------------------------ MODULE Limiter ------------------------------
(***************************************************************************)
(* What a rate limiter promises, without saying how it counts: the         *)
(* requests of a client that still matter at this instant, the one burst   *)
(* of its window and its lockout, each forgotten the moment it expires.    *)
(* Both implementations of the window (SlidingWindow) refine it; see       *)
(* DecideAlike.                                                            *)
(***************************************************************************)
EXTENDS Integers, Sequences

CONSTANTS Clients, Requests, Peak, Window, MaxTime

VARIABLES
    clock,      \* the monotonic clock
    lockFor,    \* the configured length of a lockout, 0 for none
    recent,     \* client -> stamps of its counted requests inside the window
    burst,      \* client -> when it used its burst of this window, 0 for not
    lockout,    \* client -> when its lockout ends, 0 for none
    answer      \* the last decision

vars == <<clock, lockFor, recent, burst, lockout, answer>>

Spike == IF Peak < Requests THEN Requests ELSE Peak

Yes(c) == [client |-> c, ok |-> TRUE, wait |-> 0]
No(c, w) == [client |-> c, ok |-> FALSE, wait |-> w]
Nobody == [client |-> "nobody", ok |-> TRUE, wait |-> 0]

Init ==
    /\ clock \in Nat \ {0}
    /\ lockFor \in Nat
    /\ recent = [c \in Clients |-> <<>>]
    /\ burst = [c \in Clients |-> 0]
    /\ lockout = [c \in Clients |-> 0]
    /\ answer = Nobody

\* What is left of stamps, the oldest first, when those up to `edge` have expired.
Unexpired(stamps, edge) ==
    LET gone == CHOOSE n \in 0 .. Len(stamps) :
                    /\ \A i \in 1 .. n : stamps[i] <= edge
                    /\ n < Len(stamps) => stamps[n + 1] > edge
    IN  SubSeq(stamps, gone + 1, Len(stamps))

\* A client in a lockout is refused and nothing is remembered of it.
RefusedInLockout(c) ==
    /\ lockout[c] # 0
    /\ answer' = No(c, lockout[c] - clock)
    /\ UNCHANGED <<recent, burst, lockout>>

\* Anybody else is counted, as long as one more than the peak is not counted.
Counted(c) ==
    LET stamps == IF Len(recent[c]) > Spike THEN recent[c] ELSE Append(recent[c], clock)
        within == Len(stamps) <= Requests
        spike  == ~within /\ Len(stamps) <= Spike /\ burst[c] = 0
    IN  /\ lockout[c] = 0
        /\ recent' = [recent EXCEPT ![c] = stamps]
        /\ \/ /\ within
              /\ answer' = Yes(c)
              /\ UNCHANGED <<burst, lockout>>
           \/ /\ spike
              /\ burst' = [burst EXCEPT ![c] = clock]
              /\ answer' = Yes(c)
              /\ UNCHANGED lockout
           \/ /\ ~within /\ ~spike /\ lockFor > 0
              /\ lockout' = [lockout EXCEPT ![c] = clock + lockFor]
              /\ answer' = No(c, lockFor)
              /\ UNCHANGED burst
           \/ /\ ~within /\ ~spike /\ lockFor = 0
              /\ answer' = No(c, stamps[1] + Window - clock)
              /\ UNCHANGED <<burst, lockout>>

Request(c) ==
    /\ RefusedInLockout(c) \/ Counted(c)
    /\ UNCHANGED <<clock, lockFor>>

\* Time passes: what has expired is forgotten.
Tick ==
    /\ clock < MaxTime
    /\ clock' = clock + 1
    /\ recent' = [c \in Clients |-> Unexpired(recent[c], clock' - Window)]
    /\ burst' = [c \in Clients |-> IF clock' - burst[c] >= Window THEN 0 ELSE burst[c]]
    /\ lockout' = [c \in Clients |-> IF clock' >= lockout[c] THEN 0 ELSE lockout[c]]
    /\ UNCHANGED <<lockFor, answer>>

Next == Tick \/ \E c \in Clients : Request(c)

Spec == Init /\ [][Next]_vars

============================================================================
