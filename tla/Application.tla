---------------------------- MODULE Application ----------------------------
(***************************************************************************)
(* The application task of every request of a connection, with its         *)
(* exchange: what an ASGI application may do next, and where receive, send *)
(* and run_app leave its task (src/echocorn/utils.py:815-961).  The        *)
(* protocol handlers extend this module and add what each of these calls   *)
(* means for them.                                                         *)
(***************************************************************************)
EXTENDS ASGIRequest, FiniteSets

CONSTANTS
    Requests,   \* the requests of a connection: 1 .. n
    Says,       \* bound: what the application of each request may send ...
    MaxSends,   \* ... and how many messages of it
    Careful     \* assumption on applications, see MayEnd

ASSUME ApplicationAssumption ==
    /\ IsFiniteSet(Requests) /\ Requests = 1 .. Cardinality(Requests)
    /\ Says \in [Requests -> SUBSET Messages]
    /\ MaxSends \in [Requests -> Nat]
    /\ Careful \in BOOLEAN

VARIABLES
    ex,         \* request -> its ASGIRequest
    app         \* request -> its application task

NoApp == [pc |-> "none", todo |-> <<>>, over |-> FALSE, sends |-> 0,
          got |-> 0, whole |-> FALSE, gaveUp |-> FALSE]
Started(a) == [a EXCEPT !.pc = "run"]
Cancelled(a) == [a EXCEPT !.pc = "done", !.todo = <<>>]

\* receive with a message in the queue, at once or after a sleep.
Took(i, r) ==
    /\ ex' = [ex EXCEPT ![i] = Received(r)]
    /\ app' = [app EXCEPT ![i].pc = "run",
                          ![i].got = IF Head(r.recv) = "data" THEN @ + 1 ELSE @,
                          ![i].whole = @ \/ Head(r.recv) = "end"]

\* receive: on a queue that is empty it sleeps, unless the exchange is over.
Receives(i, r) ==
    /\ app[i].pc = "run"
    /\ IF r.recv # <<>> THEN Took(i, r)
       ELSE /\ ex' = [ex EXCEPT ![i] = r]
            /\ app' = IF ReceiveAnswersAlone(r) THEN app
                      ELSE [app EXCEPT ![i].pc = "recv"]
WakesInReceive(i) ==
    /\ app[i].pc = "recv"
    /\ ex[i].recv # <<>>
    /\ Took(i, ex[i])

\* What is queued at once, and where that leaves the task.
Queue(i, r, todo, a) ==
    LET unsent == Unsent(r, todo)
    IN  /\ ex' = [ex EXCEPT ![i] = Enqueued(r, todo)]
        /\ app' = [app EXCEPT ![i] =
            [a EXCEPT !.todo = unsent,
                      !.pc = IF unsent # <<>> THEN "put"
                             ELSE IF a.over THEN "done" ELSE "run"]]

\* Applications send in turn: interim answers before the final one, nothing of
\* a body after its end, trailers only once and only if they announced them.
\* When Careful holds they also end their body before they send those trailers
\* or return, and abort no response whose body they have ended.
InTurn(r, m) ==
    CASE m.kind = "interim" -> ~r.started
      [] m.kind = "body" -> ~r.bodyEnded
      [] m.kind = "trailers" -> /\ r.announced /\ ~r.trailersSent
                                /\ Careful => r.bodyEnded
      [] OTHER -> TRUE
MayEnd(r, how) ==
    Careful /\ r.announced /\ ~r.trailersSent =>
        CASE how = "return" -> r.bodyEnded
          [] how = "abort" -> ~r.bodyEnded
          [] OTHER -> TRUE

Sends(i, m) ==
    /\ app[i].pc = "run" /\ app[i].sends < MaxSends[i]
    /\ InPlace(ex[i], m) /\ InTurn(ex[i], m)
    /\ Queue(i, Noted(ex[i], m), <<m>>, [app[i] EXCEPT !.sends = @ + 1])
WakesInSend(i) ==
    /\ app[i].pc = "put" /\ ex[i].sendSpace
    /\ Queue(i, ex[i], app[i].todo, app[i])

\* The application ended; what run_app sends for it is queued.
Endings == {"return", "raise", "abort"}
Ends(i, how) ==
    /\ app[i].pc = "run" /\ MayEnd(ex[i], how)
    /\ LET gaveUp == how # "return" /\ ex[i].started /\ ~ex[i].bodyEnded
       IN  Queue(i, Ended(ex[i], how), LastWords(ex[i], how),
                 [app[i] EXCEPT !.over = TRUE, !.gaveUp = gaveUp])

-----------------------------------------------------------------------------
ApplicationTypeOK ==
    /\ ex \in [Requests -> Exchanges]
    /\ app \in [Requests -> [pc : {"none", "run", "recv", "put", "done"},
            todo : Seq(Messages), over : BOOLEAN, sends : Nat,
            got : Nat, whole : BOOLEAN, gaveUp : BOOLEAN]]
    /\ \A i \in Requests : Len(ex[i].recv) <= RecvMax /\ Len(ex[i].send) <= SendMax

\* An application sleeps in receive only while its exchange goes on, and in
\* send only while the queue is full and the writer of its response runs.
AsleepForAReason(i, written) ==
    /\ app[i].pc = "recv" /\ ex[i].recv = <<>> => ~Gone(ex[i])
    /\ app[i].pc = "put" /\ ~ex[i].sendSpace => Room(ex[i]) = 0 /\ written
=============================================================================
