------------------------------- MODULE Server -------------------------------
(***************************************************************************)
(* The processes of one server and the connections they accept             *)
(* (src/echocorn/server.py, src/echocorn/redirect.py): the master binds,   *)
(* starts the other workers, serves, and stops them; every worker drains   *)
(* its connections before it tells its application to stop.  What a        *)
(* connection says is not looked at here: it is quiet, has a request in    *)
(* flight, or is a WebSocket session.  Time only passes where a deadline   *)
(* says what happens when it is reached.                                   *)
(***************************************************************************)
EXTENDS Naturals, FiniteSets

CONSTANTS
    Master,         \* the process that reads the configuration, worker #1
    Children,       \* the workers it starts
    Connections,    \* bound: the connections made in a behaviour
    MaxConnections  \* max_connections, of each worker

ASSUME ServerAssumption ==
    /\ Master \notin Children /\ IsFiniteSet(Children)
    /\ IsFiniteSet(Connections) /\ MaxConnections \in Nat \ {0}

VARIABLES
    phase,      \* worker -> how far it is in its life
    life,       \* worker -> its application, as the lifespan protocol knows it
    stop,       \* the workers whose serve() was asked to stop
    late,       \* the workers whose grace period is over
    hung,       \* the workers whose event loop an application does not give back
    ready,      \* the children that reported in
    stopEvent,  \* the event shared by all workers is set
    redirects,  \* the master serves the redirect to HTTPS, and nothing else
    at,         \* connection -> what it is doing
    home,       \* connection -> the worker that accepted it
    listed      \* the connections in the _connections of their worker

vars == <<phase, life, stop, late, hung, ready, stopEvent, redirects, at, home, listed>>
processes == <<hung, ready, stopEvent, redirects>>
connections == <<at, home, listed>>

Workers == Children \cup {Master}
Phases == {"unborn", "loading", "waiting", "starting", "serving", "draining",
           "forcing", "ending", "reaping", "gone", "killed"}
Served == {"quiet", "busy", "session", "parting"}

Dead(w) == phase[w] \in {"gone", "killed"}
Alive(w) == ~Dead(w) /\ phase[w] # "unborn"
Runs(w) == Alive(w) /\ w \notin hung
\* The event loop runs, with the handlers of the signals in place.
Handles(w) == phase[w] \in {"starting", "serving", "draining", "forcing", "ending"}
Accepts(w) == phase[w] \in {"starting", "serving"} /\ w \notin hung
Listed(w) == {c \in listed : home[c] = w}

Init ==
    /\ phase = [w \in Workers |-> IF w = Master THEN "loading" ELSE "unborn"]
    /\ life = [w \in Workers |-> "none"]
    /\ stop = {} /\ late = {} /\ hung = {} /\ ready = {}
    /\ stopEvent = FALSE
    /\ redirects \in BOOLEAN
    /\ at = [c \in Connections |-> "away"]
    /\ home = [c \in Connections |-> Master]
    /\ listed = {}

-----------------------------------------------------------------------------
\* Startup.

\* A worker asks its application to start, unless it only redirects.
Opens(w) ==
    IF w = Master /\ redirects
    THEN /\ phase' = [phase EXCEPT ![w] = "serving"]
         /\ UNCHANGED life
    ELSE /\ phase' = [phase EXCEPT ![w] = "starting"]
         /\ life' = [life EXCEPT ![w] = "asked"]

\* The sockets are bound: the master starts the others and blocks its loop until
\* they have reported in, a child reports in and accepts.
MasterListens ==
    /\ phase[Master] = "loading" /\ Runs(Master)
    /\ phase' = [w \in Workers |-> IF w = Master THEN "waiting" ELSE "loading"]
    /\ UNCHANGED <<life, stop, late, processes, connections>>
ChildListens(w) ==
    /\ w # Master /\ phase[w] = "loading" /\ Runs(w)
    /\ ready' = ready \cup {w}
    /\ Opens(w)
    /\ UNCHANGED <<stop, late, hung, stopEvent, redirects, connections>>

\* No application, no configuration, no socket.
FailsToLoad(w) ==
    /\ phase[w] = "loading" /\ Runs(w)
    /\ phase' = [phase EXCEPT ![w] = "gone"]
    /\ UNCHANGED <<life, stop, late, processes, connections>>

AllReady ==
    /\ phase[Master] = "waiting" /\ ready = Children
    /\ Opens(Master)
    /\ UNCHANGED <<stop, late, processes, connections>>
\* The deadline of the group; that a child is dead is not looked at before it.
NotAllReady ==
    /\ phase[Master] = "waiting" /\ ready # Children
    /\ phase' = [phase EXCEPT ![Master] = "reaping"]
    /\ UNCHANGED <<life, stop, late, processes, connections>>

AppStarts(w) ==
    /\ phase[w] = "starting" /\ life[w] = "asked" /\ Runs(w)
    /\ \E answer \in {"started", "declined"} : life' = [life EXCEPT ![w] = answer]
    /\ UNCHANGED <<phase, stop, late, processes, connections>>
\* An application that does not answer in time is served, and never told again.
Starts(w) ==
    /\ phase[w] = "starting" /\ Runs(w)
    /\ phase' = [phase EXCEPT ![w] = "serving"]
    /\ life' = [life EXCEPT ![w] = IF @ = "asked" THEN "declined" ELSE @]
    /\ UNCHANGED <<stop, late, processes, connections>>

-----------------------------------------------------------------------------
\* Connections.

Becomes(c, what) == at' = [at EXCEPT ![c] = what]
\* A connection that is closed is forgotten, once.
Ends(c) ==
    /\ Becomes(c, "over")
    /\ listed' = listed \ {c}
    /\ UNCHANGED home

\* A connection counts from here on, before its TLS handshake.
Accept(w, c) ==
    /\ Accepts(w) /\ at[c] = "away"
    /\ Becomes(c, "opening")
    /\ home' = [home EXCEPT ![c] = w]
    /\ listed' = listed \cup {c}
    /\ UNCHANGED <<phase, life, stop, late, processes>>

OverLimit(w) == Cardinality(Listed(w)) > MaxConnections
Made(c) ==
    /\ at[c] = "opening" /\ Runs(home[c])
    /\ IF OverLimit(home[c])
       THEN Ends(c)
       ELSE /\ Becomes(c, "quiet")
            /\ UNCHANGED <<home, listed>>
    /\ UNCHANGED <<phase, life, stop, late, processes>>
ToRedirect(c) == redirects /\ home[c] = Master
\* asyncio never tells the protocol: the connection stays listed.
HandshakeFails(c) ==
    /\ at[c] = "opening" /\ Runs(home[c])
    /\ ~ToRedirect(c)
    /\ Becomes(c, "over")
    /\ UNCHANGED <<phase, life, stop, late, processes, home, listed>>

Request(c) ==
    /\ at[c] = "quiet" /\ Runs(home[c]) /\ ~ToRedirect(c)
    /\ Becomes(c, "busy")
    /\ UNCHANGED <<phase, life, stop, late, processes, home, listed>>
\* A redirect, or a refusal, is written and its connection closed in one step.
Redirect(c) ==
    /\ at[c] = "quiet" /\ Runs(home[c]) /\ ToRedirect(c)
    /\ Ends(c)
    /\ UNCHANGED <<phase, life, stop, late, processes>>

\* Mutant: a session is no longer a connection of the server.
RespondAndForget(c) ==
    /\ at[c] = "busy" /\ Runs(home[c])
    /\ \E next \in {"quiet", "session"} :
        /\ Becomes(c, next)
        /\ listed' = IF next = "session" THEN listed \ {c} ELSE listed
    /\ UNCHANGED <<phase, life, stop, late, processes, home>>
Respond(c) ==
    /\ at[c] = "busy" /\ Runs(home[c])
    /\ \E next \in {"quiet", "session"} : Becomes(c, next)
    /\ UNCHANGED <<phase, life, stop, late, processes, home, listed>>
\* The peer leaves, a deadline of the connection passes, or it closes itself.
Lost(c) ==
    /\ at[c] \in Served /\ Runs(home[c])
    /\ Ends(c)
    /\ UNCHANGED <<phase, life, stop, late, processes>>

-----------------------------------------------------------------------------
\* Shutdown of a worker.

\* Mutant: a request in flight is not waited for.
IsIdleAnyway(c) == c \in listed
\* A handshake, a connection between two requests, a session: all are idle.
IsIdle(c) == at[c] # "busy"

\* shutdown() of the connections of cs: a session sends its close frame first,
\* and is closed like any other the second time it is asked.  Coarser than the code:
\* one in its TLS handshake has no transport to close, and stays open and unlisted,
\* with whatever it sends ignored, until its peer or the process goes
\* (server.py:323-333, 406-410).  Nothing is served on it, and here it is over.
ShutDown(cs) ==
    LET told == {c \in cs : at[c] = "session"}
    IN  /\ at' = [c \in Connections |->
                    CASE c \in told -> "parting"
                      [] c \in cs \ told /\ at[c] = "busy" -> "cut"
                      [] c \in cs \ told /\ at[c] # "busy" -> "over"
                      [] OTHER -> at[c]]
        /\ listed' = listed \ (cs \ told)
        /\ UNCHANGED home

\* Mutant: the parent is not looked at.
WatchEvent(w) ==
    /\ w # Master /\ phase[w] = "serving" /\ Runs(w) /\ w \notin stop
    /\ stopEvent
    /\ stop' = stop \cup {w}
    /\ UNCHANGED <<phase, life, late, processes, connections>>
\* The watcher of a child polls the shared event and its parent.
Watch(w) ==
    /\ w # Master /\ phase[w] = "serving" /\ Runs(w) /\ w \notin stop
    /\ stopEvent \/ Dead(Master)
    /\ stop' = stop \cup {w}
    /\ UNCHANGED <<phase, life, late, processes, connections>>

\* The listeners close and the first round of the drain runs (there is one if
\* graceful_timeout is not 0).
BeginsShutdown(w) ==
    /\ phase[w] = "serving" /\ w \in stop /\ Runs(w)
    /\ phase' = [phase EXCEPT ![w] = "draining"]
    /\ ShutDown({c \in Listed(w) : IsIdle(c)})
    /\ UNCHANGED <<life, stop, late, processes>>
DrainRound(w) ==
    /\ phase[w] = "draining" /\ w \notin late /\ Runs(w)
    /\ \E c \in Listed(w) : IsIdle(c)
    /\ ShutDown({c \in Listed(w) : IsIdle(c)})
    /\ UNCHANGED <<phase, life, stop, late, processes>>
GraceEnds(w) ==
    /\ phase[w] = "draining" /\ w \notin late /\ Runs(w)
    /\ late' = late \cup {w}
    /\ UNCHANGED <<phase, life, stop, processes, connections>>

\* The application is told once, if it took part in the protocol.
Tells(w, next) ==
    /\ phase' = [phase EXCEPT ![w] = next]
    /\ life' = [life EXCEPT ![w] =
                    IF next = "ending" /\ @ = "started" THEN "told" ELSE @]
\* Mutant: sessions that say goodbye are not waited for.
EndsDrainAtOnce(w) ==
    /\ phase[w] = "draining" /\ Runs(w)
    /\ w \in late \/ Listed(w) = {}
    /\ ShutDown(Listed(w))
    /\ Tells(w, "ending")
    /\ UNCHANGED <<stop, late, processes>>
\* All that are left are closed; a session that only begins to close by then
\* has what is left of the grace period, which is nothing but a turn of the loop.
EndsDrain(w) ==
    /\ phase[w] = "draining" /\ Runs(w)
    /\ w \in late \/ Listed(w) = {}
    /\ ShutDown(Listed(w))
    /\ Tells(w, IF \E c \in Listed(w) : at[c] = "session" THEN "forcing" ELSE "ending")
    /\ UNCHANGED <<stop, late, processes>>
Aborts(w) ==
    /\ phase[w] = "forcing" /\ Runs(w)
    /\ at' = [c \in Connections |-> IF c \in Listed(w) THEN "over" ELSE at[c]]
    /\ listed' = listed \ Listed(w)
    /\ Tells(w, "ending")
    /\ UNCHANGED <<stop, late, processes, home>>

\* The application answered, or its time is over and it was cancelled, which is
\* assumed to end it; serve() then raises CancelledError.  Assumed, not modelled:
\* that the master passes through WorkerGroup.stop all the same, by the finally
\* clause at server.py:1306-1308.
EndsServing(w) ==
    /\ phase[w] = "ending" /\ Runs(w)
    /\ phase' = [phase EXCEPT ![w] = IF w = Master THEN "reaping" ELSE "gone"]
    /\ life' = [life EXCEPT ![w] = "over"]
    /\ UNCHANGED <<stop, late, processes, connections>>

-----------------------------------------------------------------------------
\* Shutdown of the group, by a master that has stopped serving.

\* A signal before the handlers are in place, or after they are gone, kills.
Signalled(ws) ==
    /\ stop' = stop \cup {w \in ws : Handles(w)}
    /\ phase' = [w \in Workers |->
                    IF w \in ws /\ Alive(w) /\ ~Handles(w) THEN "killed" ELSE phase[w]]

AsksChildren ==
    /\ phase[Master] = "reaping" /\ ~stopEvent
    /\ stopEvent' = TRUE
    /\ Signalled(Children)
    /\ UNCHANGED <<life, late, hung, ready, redirects, connections>>
\* The deadline of WorkerGroup.stop.
KillsChildren ==
    /\ phase[Master] = "reaping" /\ stopEvent
    /\ \E w \in Children : Alive(w)
    /\ phase' = [w \in Workers |->
                    IF w \in Children /\ Alive(w) THEN "killed" ELSE phase[w]]
    /\ UNCHANGED <<life, stop, late, processes, connections>>
MasterLeaves ==
    /\ phase[Master] = "reaping" /\ stopEvent
    /\ \A w \in Children : ~Alive(w)
    /\ phase' = [phase EXCEPT ![Master] = "gone"]
    /\ UNCHANGED <<life, stop, late, processes, connections>>

-----------------------------------------------------------------------------
\* What happens to the processes: a signal to stop, a crash or a SIGKILL, and an
\* application that does not give the event loop back.

Terminate(w) ==
    /\ Alive(w) /\ w \notin stop
    /\ Signalled({w})
    /\ UNCHANGED <<life, late, processes, connections>>
Kill(w) ==
    /\ Alive(w)
    /\ phase' = [phase EXCEPT ![w] = "killed"]
    /\ hung' = hung \ {w}
    /\ UNCHANGED <<life, stop, late, ready, stopEvent, redirects, connections>>
Hang(w) ==
    /\ Runs(w) /\ (phase[w] = "loading" \/ Handles(w))
    /\ ~(w = Master /\ redirects)
    /\ hung' = hung \cup {w}
    /\ UNCHANGED <<phase, life, stop, late, ready, stopEvent, redirects, connections>>

Steps(w) ==
    \/ ChildListens(w) \/ Starts(w) \/ Watch(w)
    \/ BeginsShutdown(w) \/ DrainRound(w) \/ EndsDrain(w) \/ Aborts(w) \/ EndsServing(w)
GroupSteps == AllReady \/ NotAllReady \/ AsksChildren \/ KillsChildren \/ MasterLeaves

Next ==
    \/ MasterListens \/ GroupSteps
    \/ \E w \in Workers :
        \/ Steps(w) \/ GraceEnds(w) \/ FailsToLoad(w) \/ AppStarts(w)
        \/ Terminate(w) \/ Kill(w) \/ Hang(w)
    \/ \E w \in Workers, c \in Connections : Accept(w, c)
    \/ \E c \in Connections :
        \/ Made(c) \/ HandshakeFails(c)
        \/ Request(c) \/ Redirect(c) \/ Respond(c) \/ Lost(c)

\* A worker that is not hung goes on, and its deadlines pass.  Nothing is asked
\* of the peers, of the applications, or of whoever sends the signals.
Fairness ==
    /\ WF_vars(GroupSteps)
    /\ \A w \in Workers : WF_vars(Steps(w)) /\ WF_vars(GraceEnds(w))

Spec == Init /\ [][Next]_vars /\ Fairness

-----------------------------------------------------------------------------
\* Every variable holds a value of its type, and every connection that is being
\* served is in the list that the shutdown goes through (server.py:314-321).
TypeOK ==
    /\ phase \in [Workers -> Phases]
    /\ life \in [Workers -> {"none", "asked", "started", "declined", "told", "over"}]
    /\ stop \subseteq Workers /\ late \subseteq Workers /\ hung \subseteq Workers
    /\ ready \subseteq Children /\ stopEvent \in BOOLEAN /\ redirects \in BOOLEAN
    /\ at \in [Connections -> Served \cup {"away", "opening", "cut", "over"}]
    /\ home \in [Connections -> Workers]
    /\ listed \subseteq Connections
    /\ \A c \in Connections : at[c] \in Served => c \in listed

\* When a worker gives up its counters and tells its application to stop, none of
\* its connections is served any more, whatever they were doing when the shutdown
\* began, and no more than max_connections ever were at once
\* (server.py:241-245, 314-321, 958-1019; redirect.py:137-141).
DrainedFirst ==
    \A w \in Workers :
        LET served == {c \in Connections : home[c] = w /\ at[c] \in Served}
        IN  /\ phase[w] = "ending" => served = {}
            /\ Cardinality(served) <= MaxConnections

\* A worker that shuts down cuts a request only once its grace period is over:
\* "only connections with an in-flight request get the full grace period"
\* (server.py:958-995).
GraceKept ==
    [][\A c \in Connections :
        at[c] # "cut" /\ at'[c] = "cut" => home[c] \in late]_vars

\* Once the master is asked to stop, or dies, no process of the server is left:
\* not one that is still starting, that was started by a master killed since, or
\* that is busy.  Only an application that holds its event loop can keep a process
\* up, and not against a master that stops in order (server.py:132-148, 1204-1230,
\* 1300-1315).
ServerEnds ==
    stop \cap {Master} # {} \/ Dead(Master) ~>
        \/ Master \in hung
        \/ \A w \in Workers : ~Alive(w) \/ (w \in hung /\ phase[Master] = "killed")
=============================================================================
