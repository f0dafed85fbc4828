---------------------------- MODULE ServerProofs ----------------------------
(***************************************************************************)
(* What Server guarantees for any group of workers, any number of          *)
(* connections and any limit on them: a worker has closed every connection *)
(* before it tells its application to stop, never serves more than its     *)
(* limit, and cuts no request before its grace period is over.             *)
(***************************************************************************)
EXTENDS Server, TLAPS, FiniteSetTheorems

-----------------------------------------------------------------------------
\* The inductive invariant, and the types it starts from.

Lives == {"none", "asked", "started", "declined", "told", "over"}
Conditions == Served \cup {"away", "opening", "cut", "over"}
Processes ==
    /\ phase \in [Workers -> Phases] /\ life \in [Workers -> Lives]
    /\ stop \subseteq Workers /\ late \subseteq Workers /\ hung \subseteq Workers
    /\ ready \subseteq Children /\ stopEvent \in BOOLEAN /\ redirects \in BOOLEAN
Sockets ==
    /\ at \in [Connections -> Conditions] /\ home \in [Connections -> Workers]
    /\ listed \subseteq Connections

\* A connection that is served, or will be as soon as its handshake is over.
Coming == Served \cup {"opening"}

\* A connection is listed from the moment it is accepted: one whose handshake is
\* not over would be served by a worker that did not see it in its list.
AllListed == \A c \in Connections : at[c] \in Coming => c \in listed

\* A worker that tells its application to stop has no connection left, not even
\* one in its handshake, and takes no new one.
Emptied == \A c \in Connections : phase[home[c]] = "ending" => at[c] \notin Coming

\* The limit is kept by the connections that are served, not by those listed.
ServedBy(w) == {c \in Connections : home[c] = w /\ at[c] \in Served}
Limited == \A w \in Workers : Cardinality(ServedBy(w)) <= MaxConnections

IInv == Processes /\ Sockets /\ AllListed /\ Emptied /\ Limited

-----------------------------------------------------------------------------
\* A worker serves a finite set of connections, and fewer when it serves a part.
LEMMA Fewer ==
    ASSUME NEW S \in SUBSET Connections, NEW T \in SUBSET S
    PROVE  /\ IsFiniteSet(S) /\ Cardinality(S) \in Nat /\ Cardinality(T) \in Nat
           /\ Cardinality(T) <= Cardinality(S)
<1>1. IsFiniteSet(S)
  BY FS_Subset, ServerAssumption
<1>2. IsFiniteSet(T) /\ Cardinality(T) <= Cardinality(S)
  BY <1>1, FS_Subset
<1> QED BY <1>1, <1>2, FS_CardinalityType

\* The limit is one on the connections a worker begins to serve: where none is
\* added it is kept.
LEMMA StaysLimited ==
    ASSUME Limited, \A w \in Workers : ServedBy(w)' \subseteq ServedBy(w)
    PROVE  Limited'
<1> SUFFICES ASSUME NEW w \in Workers
             PROVE  Cardinality(ServedBy(w)') <= MaxConnections
  BY DEF Limited, Workers
<1>1. Cardinality(ServedBy(w)) <= MaxConnections
  BY DEF Limited
<1>2. ServedBy(w) \subseteq Connections /\ ServedBy(w)' \subseteq ServedBy(w)
  BY DEF ServedBy
<1> HIDE DEF ServedBy
<1>3. /\ Cardinality(ServedBy(w)) \in Nat /\ Cardinality(ServedBy(w)') \in Nat
      /\ Cardinality(ServedBy(w)') <= Cardinality(ServedBy(w))
  BY <1>2, Fewer
<1> QED BY <1>1, <1>3, ServerAssumption

\* A step that accepts no connection and begins to serve none keeps the invariant,
\* if those that go on stay in the list and a worker that ends has none left.
LEMMA NothingBegins ==
    ASSUME IInv, Processes', Sockets', home' = home,
           \A c \in Connections : at'[c] \in Coming =>
               /\ at[c] \in Coming /\ (at'[c] \in Served => at[c] \in Served)
               /\ c \in listed => c \in listed',
           \A w \in Workers : phase'[w] = "ending" =>
               \/ phase[w] = "ending"
               \/ \A c \in Connections : home[c] = w => at'[c] \notin Coming
    PROVE  IInv'
<1>1. AllListed'
  BY DEF IInv, AllListed
<1>2. Emptied'
  BY DEF IInv, Emptied, Sockets
<1>3. \A w \in Workers : ServedBy(w)' \subseteq ServedBy(w)
  BY DEF ServedBy, Coming
<1>4. Limited'
  BY <1>3, StaysLimited DEF IInv
<1> QED BY <1>1, <1>2, <1>4 DEF IInv

\* The same, for the steps that touch no connection.
LEMMA NoConnectionMoves ==
    ASSUME IInv, Processes', UNCHANGED connections,
           \A w \in Workers : phase'[w] = "ending" => phase[w] = "ending"
    PROVE  IInv'
<1>1. Sockets'
  BY DEF IInv, Sockets, connections
<1> QED BY <1>1, NothingBegins DEF connections

\* What a shutdown leaves of the connections it is asked to close: sessions that
\* send their close frame, and those of others.
LEMMA ShutDownCloses ==
    ASSUME IInv, NEW cs \in SUBSET Connections, ShutDown(cs)
    PROVE  /\ Sockets' /\ home' = home
           /\ \A c \in Connections : at'[c] \in Coming =>
                 /\ at[c] \in Coming /\ (at'[c] \in Served => at[c] \in Served)
                 /\ c \in listed => c \in listed'
           /\ \A c \in cs : at'[c] \in Coming => at[c] = "session"
           /\ \A c \in Connections :
                 at[c] # "cut" /\ at'[c] = "cut" => c \in cs /\ at[c] = "busy"
<1> DEFINE told == {c \in cs : at[c] = "session"}
<1>1. /\ at \in [Connections -> Conditions] /\ home \in [Connections -> Workers]
      /\ listed \subseteq Connections
  BY DEF IInv, Sockets
<1>2. /\ at' = [c \in Connections |->
                  CASE c \in told -> "parting"
                    [] c \in cs \ told /\ at[c] = "busy" -> "cut"
                    [] c \in cs \ told /\ at[c] # "busy" -> "over"
                    [] OTHER -> at[c]]
      /\ listed' = listed \ (cs \ told)
      /\ home' = home
  BY DEF ShutDown
<1>3. ASSUME NEW c \in Connections
      PROVE  /\ c \in cs /\ at[c] = "session" => at'[c] = "parting"
             /\ c \in cs /\ at[c] = "busy" => at'[c] = "cut"
             /\ c \in cs /\ at[c] # "session" /\ at[c] # "busy" => at'[c] = "over"
             /\ c \notin cs => at'[c] = at[c]
  BY <1>2
<1>4. /\ DOMAIN at' = Connections /\ at' = [c \in Connections |-> at'[c]]
      /\ \A c \in Connections : at'[c] \in Conditions
  BY <1>1, <1>2, <1>3 DEF Conditions, Served
<1>5. at' \in [Connections -> Conditions]
  BY <1>4
<1> HIDE DEF told
<1>6. ASSUME NEW c \in Connections, at'[c] \in Coming
      PROVE  /\ at[c] \in Coming /\ (at'[c] \in Served => at[c] \in Served)
             /\ c \in cs => at[c] = "session"
  BY <1>3, <1>6 DEF Coming, Served
<1>7. ASSUME NEW c \in Connections, at'[c] \in Coming, c \in listed
      PROVE  c \in listed'
  BY <1>2, <1>6, <1>7 DEF told
<1>8. ASSUME NEW c \in Connections, at[c] # "cut", at'[c] = "cut"
      PROVE  c \in cs /\ at[c] = "busy"
  BY <1>3, <1>8
<1>9. Sockets'
  BY <1>1, <1>2, <1>5 DEF Sockets
<1> QED BY <1>2, <1>6, <1>7, <1>8, <1>9

\* A connection that ends is no longer served.
LEMMA EndStep ==
    ASSUME IInv, NEW c \in Connections, Ends(c),
           UNCHANGED <<phase, life, stop, late, processes>>
    PROVE  IInv'
<1>1. /\ at \in [Connections -> Conditions] /\ home \in [Connections -> Workers]
      /\ listed \subseteq Connections /\ Processes
  BY DEF IInv, Sockets
<1>2. at' = [at EXCEPT ![c] = "over"] /\ listed' = listed \ {c} /\ home' = home
  BY DEF Ends, Becomes
<1>3. Processes'
  BY <1>1 DEF Processes, processes
<1>4. Sockets'
  BY <1>1, <1>2 DEF Sockets, Conditions
<1>5. \A d \in Connections : at'[d] \in Coming => d # c /\ at'[d] = at[d]
  BY <1>1, <1>2 DEF Coming, Served
<1>6. \A d \in Connections : at'[d] \in Coming =>
          /\ at[d] \in Coming /\ (at'[d] \in Served => at[d] \in Served)
          /\ d \in listed => d \in listed'
  BY <1>2, <1>5
<1> QED BY <1>2, <1>3, <1>4, <1>6, NothingBegins

\* A connection that is served, or was never told, goes from one thing to another.
LEMMA GoesOnStep ==
    ASSUME IInv, NEW c \in Connections, NEW what \in Conditions, Becomes(c, what),
           \/ at[c] \in Served /\ what \in Served
           \/ what = "over",
           UNCHANGED <<phase, life, stop, late, processes, home, listed>>
    PROVE  IInv'
<1>1. /\ at \in [Connections -> Conditions] /\ home \in [Connections -> Workers]
      /\ listed \subseteq Connections /\ Processes
  BY DEF IInv, Sockets
<1>2. at' = [at EXCEPT ![c] = what]
  BY DEF Becomes
<1>3. Processes'
  BY <1>1 DEF Processes, processes
<1>4. Sockets'
  BY <1>1, <1>2 DEF Sockets
<1>5. \A d \in Connections : at'[d] \in Coming =>
          /\ at[d] \in Coming /\ (at'[d] \in Served => at[d] \in Served)
          /\ d \in listed => d \in listed'
  BY <1>1, <1>2 DEF Coming, Served
<1> QED BY <1>3, <1>4, <1>5, NothingBegins

\* A worker that accepts has not begun to end.
LEMMA AcceptStep ==
    ASSUME IInv, NEW w \in Workers, NEW c \in Connections, Accept(w, c)
    PROVE  IInv'
<1>1. /\ at \in [Connections -> Conditions] /\ home \in [Connections -> Workers]
      /\ listed \subseteq Connections /\ Processes
  BY DEF IInv, Sockets
<1>2. /\ at' = [at EXCEPT ![c] = "opening"] /\ home' = [home EXCEPT ![c] = w]
      /\ listed' = listed \cup {c} /\ at[c] = "away"
      /\ phase' = phase /\ phase[w] # "ending"
  BY DEF Accept, Accepts, Becomes
<1>3. Processes'
  BY <1>1 DEF Accept, Processes, processes
<1>4. Sockets'
  BY <1>1, <1>2 DEF Sockets, Conditions
<1>5. AllListed'
  BY <1>1, <1>2 DEF IInv, AllListed
<1>6. Emptied'
  BY <1>1, <1>2 DEF IInv, Emptied
<1>7. \A v \in Workers : ServedBy(v)' \subseteq ServedBy(v)
  BY <1>1, <1>2 DEF ServedBy, Served
<1>8. Limited'
  BY <1>7, StaysLimited DEF IInv
<1> QED BY <1>3, <1>4, <1>5, <1>6, <1>8 DEF IInv

\* A connection that would be one too many is closed as soon as it is made.
LEMMA MadeStep ==
    ASSUME IInv, NEW c \in Connections, Made(c)
    PROVE  IInv'
<1>1. /\ at \in [Connections -> Conditions] /\ home \in [Connections -> Workers]
      /\ listed \subseteq Connections /\ Processes
  BY DEF IInv, Sockets
<1>2. CASE OverLimit(home[c])
  BY <1>2, EndStep DEF Made
<1>3. CASE ~ OverLimit(home[c])
  <2>1. /\ at' = [at EXCEPT ![c] = "quiet"] /\ at[c] = "opening"
        /\ home' = home /\ listed' = listed /\ phase' = phase
    BY <1>3 DEF Made, Becomes
  <2>2. Processes'
    BY <1>1 DEF Made, Processes, processes
  <2>3. Sockets'
    BY <1>1, <2>1 DEF Sockets, Conditions, Served
  <2>4. AllListed'
    BY <1>1, <2>1 DEF IInv, AllListed, Coming
  <2>5. Emptied'
    BY <1>1, <2>1 DEF IInv, Emptied, Coming
  <2>6. ASSUME NEW w \in Workers
        PROVE  Cardinality(ServedBy(w)') <= MaxConnections
    <3>1. CASE w = home[c]
      <4>1. ServedBy(w)' \subseteq Listed(w) /\ Listed(w) \subseteq Connections
        BY <1>1, <2>1 DEF IInv, AllListed, ServedBy, Listed, Coming
      <4>2. ~ (Cardinality(Listed(w)) > MaxConnections)
        BY <1>3, <3>1 DEF OverLimit
      <4> HIDE DEF Listed, ServedBy
      <4>3. /\ Cardinality(ServedBy(w)') \in Nat /\ Cardinality(Listed(w)) \in Nat
            /\ Cardinality(ServedBy(w)') <= Cardinality(Listed(w))
        BY <4>1, Fewer
      <4> QED BY <4>2, <4>3, ServerAssumption
    <3>2. CASE w # home[c]
      <4>1. ServedBy(w)' = ServedBy(w)
        BY <1>1, <2>1, <3>2 DEF ServedBy
      <4> QED BY <4>1 DEF IInv, Limited
    <3> QED BY <3>1, <3>2
  <2> QED BY <2>2, <2>3, <2>4, <2>5, <2>6 DEF IInv, Limited, Workers
<1> QED BY <1>2, <1>3

\* A worker that asks its application to start is not one that ends.
LEMMA OpensTypes ==
    ASSUME Processes, NEW w \in Workers, Opens(w)
    PROVE  /\ phase' \in [Workers -> Phases] /\ life' \in [Workers -> Lives]
           /\ \A v \in Workers : phase'[v] = "ending" => phase[v] = "ending"
<1>1. phase \in [Workers -> Phases] /\ life \in [Workers -> Lives]
  BY DEF Processes
<1>2. /\ phase' = [phase EXCEPT ![w] = "serving"] \/ phase' = [phase EXCEPT ![w] = "starting"]
      /\ life' = life \/ life' = [life EXCEPT ![w] = "asked"]
  BY DEF Opens
<1> QED BY <1>1, <1>2 DEF Phases, Lives

\* The startup of a worker, the crash of one and its being stopped touch no
\* connection.
LEMMA ProcessStep ==
    ASSUME IInv, NEW w \in Workers,
           \/ MasterListens \/ GroupSteps \/ ChildListens(w) \/ FailsToLoad(w)
           \/ AppStarts(w) \/ Starts(w) \/ Watch(w) \/ GraceEnds(w)
           \/ EndsServing(w) \/ Terminate(w) \/ Kill(w) \/ Hang(w)
    PROVE  IInv'
<1>1. /\ Processes /\ phase \in [Workers -> Phases] /\ life \in [Workers -> Lives]
      /\ Master \in Workers /\ Children \subseteq Workers
  BY DEF IInv, Processes, Workers
<1>2. ASSUME \/ MasterListens \/ FailsToLoad(w) \/ AppStarts(w) \/ Starts(w)
             \/ Watch(w) \/ GraceEnds(w) \/ EndsServing(w) \/ Hang(w) \/ Kill(w)
             \/ NotAllReady \/ KillsChildren \/ MasterLeaves
      PROVE  /\ Processes' /\ UNCHANGED connections
             /\ \A v \in Workers : phase'[v] = "ending" => phase[v] = "ending"
  <2>1. CASE MasterListens
    BY <1>1, <2>1 DEF MasterListens, Processes, processes, Phases
  <2>2. CASE FailsToLoad(w)
    BY <1>1, <2>2 DEF FailsToLoad, Processes, processes, Phases
  <2>3. CASE AppStarts(w)
    BY <1>1, <2>3 DEF AppStarts, Processes, processes, Lives
  <2>4. CASE Starts(w)
    BY <1>1, <2>4 DEF Starts, Processes, processes, Phases, Lives
  <2>5. CASE Watch(w)
    BY <1>1, <2>5 DEF Watch, Processes, processes
  <2>6. CASE GraceEnds(w)
    BY <1>1, <2>6 DEF GraceEnds, Processes, processes
  <2>7. CASE EndsServing(w)
    BY <1>1, <2>7 DEF EndsServing, Processes, processes, Phases, Lives
  <2>8. CASE Hang(w)
    BY <1>1, <2>8 DEF Hang, Processes
  <2>9. CASE Kill(w)
    BY <1>1, <2>9 DEF Kill, Processes, Phases
  <2>10. CASE NotAllReady
    BY <1>1, <2>10 DEF NotAllReady, Processes, processes, Phases
  <2>11. CASE KillsChildren
    BY <1>1, <2>11 DEF KillsChildren, Processes, processes, Phases
  <2>12. CASE MasterLeaves
    BY <1>1, <2>12 DEF MasterLeaves, Processes, processes, Phases
  <2> QED BY <1>2, <2>1, <2>2, <2>3, <2>4, <2>5, <2>6, <2>7, <2>8, <2>9, <2>10,
             <2>11, <2>12
<1>3. ASSUME AllReady \/ ChildListens(w)
      PROVE  /\ Processes' /\ UNCHANGED connections
             /\ \A v \in Workers : phase'[v] = "ending" => phase[v] = "ending"
  <2>1. PICK v \in Workers : Opens(v)
    BY <1>1, <1>3 DEF AllReady, ChildListens
  <2>2. /\ phase' \in [Workers -> Phases] /\ life' \in [Workers -> Lives]
        /\ \A u \in Workers : phase'[u] = "ending" => phase[u] = "ending"
    BY <1>1, <2>1, OpensTypes
  <2>3. /\ UNCHANGED <<stop, late, hung, stopEvent, redirects, connections>>
        /\ ready' = ready \/ (w # Master /\ ready' = ready \cup {w})
    BY <1>3 DEF AllReady, ChildListens, processes
  <2>4. ready' \subseteq Children
    BY <1>1, <2>3 DEF Processes, Workers
  <2> QED BY <1>1, <2>2, <2>3, <2>4 DEF Processes
<1>4. ASSUME AsksChildren \/ Terminate(w)
      PROVE  /\ Processes' /\ UNCHANGED connections
             /\ \A v \in Workers : phase'[v] = "ending" => phase[v] = "ending"
  <2>1. PICK ws \in SUBSET Workers : Signalled(ws)
    BY <1>1, <1>4 DEF AsksChildren, Terminate
  <2>2. /\ stop' = stop \cup {v \in ws : Handles(v)}
        /\ phase' = [v \in Workers |->
                        IF v \in ws /\ Alive(v) /\ ~Handles(v) THEN "killed" ELSE phase[v]]
    BY <2>1 DEF Signalled
  <2>3. stop' \subseteq Workers
    BY <1>1, <2>2 DEF Processes
  <2>4. /\ phase' \in [Workers -> Phases]
        /\ \A v \in Workers : phase'[v] = "ending" => phase[v] = "ending"
    BY <1>1, <2>2 DEF Phases
  <2>5. /\ UNCHANGED <<life, late, hung, ready, redirects, connections>>
        /\ stopEvent' = stopEvent \/ stopEvent' = TRUE
    BY <1>4 DEF AsksChildren, Terminate, processes
  <2> QED BY <1>1, <2>3, <2>4, <2>5 DEF Processes
<1> QED BY <1>2, <1>3, <1>4, NoConnectionMoves DEF GroupSteps

\* A round of the drain closes idle connections, and leaves the others.
LEMMA DrainStep ==
    ASSUME IInv, NEW w \in Workers, BeginsShutdown(w) \/ DrainRound(w)
    PROVE  IInv'
<1> DEFINE cs == {c \in Listed(w) : IsIdle(c)}
<1>1. cs \in SUBSET Connections /\ ShutDown(cs)
  BY DEF BeginsShutdown, DrainRound, Listed, IInv, Sockets
<1> HIDE DEF cs
<1>2. /\ Sockets' /\ home' = home
      /\ \A c \in Connections : at'[c] \in Coming =>
            /\ at[c] \in Coming /\ (at'[c] \in Served => at[c] \in Served)
            /\ c \in listed => c \in listed'
  BY <1>1, ShutDownCloses
<1>3. /\ phase' = phase \/ phase' = [phase EXCEPT ![w] = "draining"]
      /\ UNCHANGED <<life, stop, late, processes>>
  BY DEF BeginsShutdown, DrainRound
<1>4. /\ Processes'
      /\ \A v \in Workers : phase'[v] = "ending" => phase[v] = "ending"
  BY <1>3 DEF IInv, Processes, processes, Phases
<1> QED BY <1>2, <1>4, NothingBegins

\* What a worker that ends its drain is told to do next has a place in its life.
LEMMA TellsTypes ==
    ASSUME Processes, NEW w \in Workers, NEW next \in {"ending", "forcing"},
           Tells(w, next), UNCHANGED <<stop, late, processes>>
    PROVE  /\ Processes' /\ phase'[w] = next
           /\ \A v \in Workers : v # w => phase'[v] = phase[v]
<1>1. phase \in [Workers -> Phases] /\ life \in [Workers -> Lives]
  BY DEF Processes
<1>2. /\ phase' = [phase EXCEPT ![w] = next]
      /\ life' = life \/ life' = [life EXCEPT ![w] = "told"]
  BY <1>1 DEF Tells
<1> QED BY <1>1, <1>2 DEF Processes, processes, Phases, Lives

\* What is left at the end of the drain is closed, but for sessions that have just
\* begun to close: a worker that has one of those does not end yet.
LEMMA EndsDrainStep ==
    ASSUME IInv, NEW w \in Workers, EndsDrain(w)
    PROVE  IInv'
<1> DEFINE next == IF \E c \in Listed(w) : at[c] = "session" THEN "forcing" ELSE "ending"
<1>1. /\ Listed(w) \in SUBSET Connections /\ ShutDown(Listed(w)) /\ Tells(w, next)
      /\ next \in {"ending", "forcing"} /\ UNCHANGED <<stop, late, processes>>
  BY DEF EndsDrain, Listed, IInv, Sockets
<1>2. /\ Sockets' /\ home' = home
      /\ \A c \in Connections : at'[c] \in Coming =>
            /\ at[c] \in Coming /\ (at'[c] \in Served => at[c] \in Served)
            /\ c \in listed => c \in listed'
      /\ \A c \in Listed(w) : at'[c] \in Coming => at[c] = "session"
  BY <1>1, ShutDownCloses
<1>3. Processes' /\ phase'[w] = next /\ \A v \in Workers : v # w => phase'[v] = phase[v]
  <2> HIDE DEF next
  <2> QED BY <1>1, TellsTypes DEF IInv
<1>4. ASSUME next = "ending", NEW c \in Connections, home[c] = w
      PROVE  at'[c] \notin Coming
  BY <1>2, <1>4 DEF IInv, AllListed, Listed
<1> HIDE DEF next
<1>5. \A v \in Workers : phase'[v] = "ending" =>
          \/ phase[v] = "ending"
          \/ \A c \in Connections : home[c] = v => at'[c] \notin Coming
  BY <1>3, <1>4
<1> QED BY <1>2, <1>3, <1>5, NothingBegins

\* The sessions that did not close in time are closed, and nothing is left.
LEMMA AbortsStep ==
    ASSUME IInv, NEW w \in Workers, Aborts(w)
    PROVE  IInv'
<1>1. /\ at \in [Connections -> Conditions] /\ home \in [Connections -> Workers]
      /\ listed \subseteq Connections /\ Processes
  BY DEF IInv, Sockets
<1>2. /\ at' = [c \in Connections |-> IF c \in Listed(w) THEN "over" ELSE at[c]]
      /\ listed' = listed \ Listed(w) /\ home' = home
  BY DEF Aborts
<1>3. Processes' /\ phase'[w] = "ending" /\ \A v \in Workers : v # w => phase'[v] = phase[v]
  BY <1>1, TellsTypes DEF Aborts
<1>4. Sockets'
  BY <1>1, <1>2 DEF Sockets, Conditions
<1>5. \A c \in Connections : at'[c] \in Coming => c \notin Listed(w) /\ at'[c] = at[c]
  BY <1>2 DEF Coming, Served
<1>6. \A c \in Connections : home[c] = w => at'[c] \notin Coming
  BY <1>5 DEF IInv, AllListed, Listed
<1>7. \A c \in Connections : at'[c] \in Coming =>
          /\ at[c] \in Coming /\ (at'[c] \in Served => at[c] \in Served)
          /\ c \in listed => c \in listed'
  BY <1>2, <1>5
<1>8. \A v \in Workers : phase'[v] = "ending" =>
          \/ phase[v] = "ending"
          \/ \A c \in Connections : home[c] = v => at'[c] \notin Coming
  BY <1>3, <1>6
<1> QED BY <1>2, <1>3, <1>4, <1>7, <1>8, NothingBegins

-----------------------------------------------------------------------------
\* At the start no worker has a connection,
LEMMA InitIInv ==
    ASSUME Init
    PROVE  IInv
<1>1. Master \in Workers /\ Master \notin Children
  BY ServerAssumption DEF Workers
<1>2. Processes
  BY <1>1 DEF Init, Processes, Phases, Lives
<1>3. Sockets
  BY <1>1 DEF Init, Sockets, Conditions
<1>4. \A c \in Connections : at[c] \notin Coming
  BY DEF Init, Coming, Served
<1>5. ASSUME NEW w \in Workers
      PROVE  Cardinality(ServedBy(w)) <= MaxConnections
  <2>1. ServedBy(w) = {}
    BY <1>4 DEF ServedBy, Coming
  <2> QED BY <2>1, FS_EmptySet, ServerAssumption
<1> QED BY <1>2, <1>3, <1>4, <1>5 DEF IInv, AllListed, Emptied, Limited

\* every step keeps the invariant,
LEMMA NextIInv ==
    ASSUME IInv, [Next]_vars
    PROVE  IInv'
<1>1. ASSUME MasterListens \/ GroupSteps
      PROVE  IInv'
  BY <1>1, ProcessStep DEF Workers
<1>2. ASSUME NEW w \in Workers,
             \/ Steps(w) \/ GraceEnds(w) \/ FailsToLoad(w) \/ AppStarts(w)
             \/ Terminate(w) \/ Kill(w) \/ Hang(w)
      PROVE  IInv'
  BY <1>2, ProcessStep, DrainStep, EndsDrainStep, AbortsStep DEF Steps
<1>3. ASSUME NEW w \in Workers, NEW c \in Connections, Accept(w, c)
      PROVE  IInv'
  BY <1>3, AcceptStep
<1>4. ASSUME NEW c \in Connections,
             \/ Made(c) \/ HandshakeFails(c)
             \/ Request(c) \/ Redirect(c) \/ Respond(c) \/ Lost(c)
      PROVE  IInv'
  <2>1. CASE Made(c)
    BY <2>1, MadeStep
  <2>2. CASE HandshakeFails(c)
    BY <2>2, GoesOnStep DEF HandshakeFails, Conditions
  <2>3. CASE Request(c)
    BY <2>3, GoesOnStep DEF Request, Conditions, Served
  <2>4. CASE Redirect(c)
    BY <2>4, EndStep DEF Redirect
  <2>5. CASE Respond(c)
    BY <2>5, GoesOnStep DEF Respond, Conditions, Served
  <2>6. CASE Lost(c)
    BY <2>6, EndStep DEF Lost
  <2> QED BY <1>4, <2>1, <2>2, <2>3, <2>4, <2>5, <2>6
<1>5. CASE UNCHANGED vars
  BY <1>5 DEF vars, connections, processes, IInv, Processes, Sockets, AllListed,
     Emptied, Limited, ServedBy
<1> QED BY <1>1, <1>2, <1>3, <1>4, <1>5 DEF Next

\* and so it always holds.
LEMMA Invariant == Spec => []IInv
<1>1. Init => IInv
  BY InitIInv
<1>2. IInv /\ [Next]_vars => IInv'
  BY NextIInv
<1> QED BY <1>1, <1>2, PTL DEF Spec

\* Every variable of the server keeps its type, and what is served is listed.
THEOREM TypeCorrect == Spec => []TypeOK
<1>1. IInv => TypeOK
  BY DEF IInv, Processes, Sockets, AllListed, Coming, TypeOK, Lives, Conditions
<1> QED BY <1>1, Invariant, PTL

\* A worker that tells its application to stop serves nobody any more, and none
\* ever serves more connections than its limit: whatever the number of workers,
\* the order in which they are stopped, and whoever of them crashes or hangs.
THEOREM ApplicationsStopLast == Spec => []DrainedFirst
<1>1. ASSUME IInv, NEW w \in Workers
      PROVE  /\ phase[w] = "ending" => ServedBy(w) = {}
             /\ Cardinality(ServedBy(w)) <= MaxConnections
  BY <1>1 DEF IInv, Emptied, Limited, ServedBy, Coming
<1>2. IInv => DrainedFirst
  BY <1>1 DEF DrainedFirst, ServedBy
<1> QED BY <1>2, Invariant, PTL

\* A step that cuts a request is one of a worker whose grace period is over.
LEMMA CutsLate ==
    ASSUME IInv, [Next]_vars, NEW c \in Connections, at[c] # "cut", at'[c] = "cut"
    PROVE  home[c] \in late
<1>1. at \in [Connections -> Conditions] /\ listed \subseteq Connections
  BY DEF IInv, Sockets
<1>2. ASSUME NEW w \in Workers, NEW d \in Connections, Accept(w, d)
      PROVE  FALSE
  BY <1>1, <1>2 DEF Accept, Becomes
<1>3. ASSUME NEW d \in Connections,
             \/ Made(d) \/ HandshakeFails(d)
             \/ Request(d) \/ Redirect(d) \/ Respond(d) \/ Lost(d)
      PROVE  FALSE
  BY <1>1, <1>3 DEF Made, HandshakeFails, Request, Redirect, Respond, Lost, Ends,
     Becomes
<1>4. ASSUME NEW w \in Workers, BeginsShutdown(w) \/ DrainRound(w)
      PROVE  FALSE
  <2> DEFINE cs == {d \in Listed(w) : IsIdle(d)}
  <2>1. cs \in SUBSET Connections /\ ShutDown(cs)
    BY <1>1, <1>4 DEF BeginsShutdown, DrainRound, Listed
  <2>2. \A d \in cs : at[d] # "busy"
    BY DEF IsIdle
  <2> HIDE DEF cs
  <2>3. c \in cs /\ at[c] = "busy"
    BY <2>1, ShutDownCloses
  <2> QED BY <2>2, <2>3
<1>5. ASSUME NEW w \in Workers, EndsDrain(w)
      PROVE  home[c] \in late
  <2>1. Listed(w) \in SUBSET Connections /\ ShutDown(Listed(w))
    BY <1>1, <1>5 DEF EndsDrain, Listed
  <2>2. c \in Listed(w)
    BY <2>1, ShutDownCloses
  <2>3. w \in late
    BY <1>5, <2>2 DEF EndsDrain
  <2> QED BY <2>2, <2>3 DEF Listed
<1>6. ASSUME NEW w \in Workers, Aborts(w)
      PROVE  FALSE
  BY <1>1, <1>6 DEF Aborts
<1>7. ASSUME NEW w \in Workers,
             \/ MasterListens \/ GroupSteps \/ ChildListens(w) \/ FailsToLoad(w)
             \/ AppStarts(w) \/ Starts(w) \/ Watch(w) \/ GraceEnds(w)
             \/ EndsServing(w) \/ Terminate(w) \/ Kill(w) \/ Hang(w)
      PROVE  at' = at
  BY <1>7 DEF MasterListens, GroupSteps, AllReady, NotAllReady, AsksChildren,
     KillsChildren, MasterLeaves, ChildListens, FailsToLoad, AppStarts, Starts, Watch,
     GraceEnds, EndsServing, Terminate, Kill, Hang, connections
<1>8. CASE UNCHANGED vars
  BY <1>8 DEF vars, connections
<1>9. \E w \in Workers : TRUE
  BY DEF Workers
<1> QED BY <1>2, <1>3, <1>4, <1>5, <1>6, <1>7, <1>8, <1>9 DEF Next, Steps

\* A worker that shuts down, by itself or because it is told to, cuts a request
\* only after the grace period, in every step and with any number of workers.
THEOREM RequestsKeepTheirGrace == Spec => GraceKept
<1>1. IInv /\ [Next]_vars =>
          [\A c \in Connections :
              at[c] # "cut" /\ at'[c] = "cut" => home[c] \in late]_vars
  BY CutsLate
<1> QED BY <1>1, Invariant, PTL DEF Spec, GraceKept
=============================================================================
