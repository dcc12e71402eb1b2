--------------------------- MODULE FlightSessions ---------------------------
(***************************************************************************)
(* Live flight sessions: taps on a phone record off block, takeoff,        *)
(* landing and on block in a session row, and the last one turns it into a *)
(* flight.  A tap reads the open session, changes its copy and writes the  *)
(* whole row back; going on block first creates the flight and then writes *)
(* the session.  Taps are repeated by the phone, and the server may die    *)
(* between two statements.                                                 *)
(***************************************************************************)
EXTENDS Integers, Sequences, FiniteSets

CONSTANTS Taps,          \* requests served at the same time
          LastTime,      \* bound on the clock, in minutes
          MaxSkew,       \* maxEventClockSkew: how far ahead a phone's clock may be
          DayLength,     \* minutes of a day
          MaxDuration,   \* models.MaxFlightSessionDuration
          MaxSessions,   \* bound on the sessions of a behaviour
          MaxFlights,    \* bound on the flights of a behaviour
          MaxTaps        \* bound on the taps of a behaviour

VARIABLES sessions,   \* flight_sessions, in the order of their creation
          flown,      \* the flights made from sessions (buildFlight)
          now,
          tap,        \* the taps being served
          begun,      \* taps that have begun
          disturbed   \* ghost: sessions that two taps worked on at once, or one left half done

sessionVars == <<sessions, flown, now, tap, begun, disturbed>>

Unset == 0
Events == <<"offblock", "takeoff", "landing", "onblock">>
Latest == LastTime + MaxSkew
Session == [status : {"open", "completed", "discarded"}, reg : BOOLEAN,
            at : [1 .. 4 -> 0 .. Latest], flight : 0 .. MaxFlights]
Ids == 1 .. Len(sessions)

\* GetOpenByUserID: the open session, or Unset.
GetOpenByUserID == IF \E i \in Ids : sessions[i].status = "open"
                   THEN CHOOSE i \in Ids : sessions[i].status = "open" ELSE Unset

Waiting == [step |-> "idle", id |-> Unset]
Answer(t) == tap' = [tap EXCEPT ![t] = Waiting]
Working(i) == {t \in Taps : tap[t].id = i /\ i # Unset}

\* ValidateEventOrder: the recorded instants are in the order of the events.
ValidateEventOrder(s) == \A i, j \in 1 .. 4 : i < j /\ s.at[i] # Unset /\ s.at[j] # Unset => s.at[i] <= s.at[j]
BlockDuration(s) == IF s.at[1] = Unset \/ s.at[4] = Unset THEN 0 ELSE s.at[4] - s.at[1]

\* Create: at most one session of a user is open.
Create(s) == IF GetOpenByUserID # Unset THEN sessions' = sessions ELSE sessions' = Append(sessions, s)
\* Update writes every column by id; the same index refuses to open a second session.
Update(i, s) == IF s.status = "open" /\ GetOpenByUserID \notin {Unset, i} THEN sessions' = sessions
                ELSE sessions' = [sessions EXCEPT ![i] = s]

-----------------------------------------------------------------------------
\* resolveOccurredAt: the server's time, or the phone's, as long as it is not
\* too far ahead.
OccurredAt == 1 .. now + MaxSkew

\* The first tap of a kind sets its instant, and the registration is filled in once.
applyEvent(s, e, at, reg) == [s EXCEPT !.at[e] = IF @ = Unset THEN at ELSE @, !.reg = @ \/ reg]

\* RecordEvent reads the open session and decides.
RecordEvent(t) == \E e \in 1 .. 4, at \in OccurredAt, reg \in BOOLEAN :
  LET i == GetOpenByUserID IN
    /\ tap[t] = Waiting /\ begun < MaxTaps /\ begun' = begun + 1
    /\ disturbed' = IF Working(i) # {} THEN disturbed \cup {i} ELSE disturbed
    /\ UNCHANGED <<sessions, flown, now>>
    /\ \/ /\ e = 1 /\ i = Unset /\ Len(sessions) < MaxSessions
          /\ tap' = [tap EXCEPT ![t] = [step |-> "open", id |-> Unset, at |-> at, reg |-> reg]]
       \/ /\ e \in {2, 3} /\ i # Unset /\ sessions[i].at[e] = Unset
          /\ LET s == applyEvent(sessions[i], e, at, reg) IN
               ValidateEventOrder(s) /\ tap' = [tap EXCEPT ![t] = [step |-> "save", id |-> i, row |-> s]]
       \/ /\ e = 4 /\ i # Unset
          /\ LET s == applyEvent(sessions[i], e, at, reg) IN
               /\ ValidateEventOrder(s) /\ BlockDuration(s) > 0 /\ BlockDuration(s) <= MaxDuration /\ s.reg
               /\ tap' = [tap EXCEPT ![t] = [step |-> "fly", id |-> i, row |-> s]]

openSession(t) ==
  /\ tap[t].step = "open"
  /\ Create([status |-> "open", reg |-> tap[t].reg, at |-> [e \in 1 .. 4 |-> IF e = 1 THEN tap[t].at ELSE Unset], flight |-> Unset])
  /\ Answer(t) /\ UNCHANGED <<flown, now, begun, disturbed>>

saveOrdered(t) == /\ tap[t].step = "save" /\ Update(tap[t].id, tap[t].row)
                  /\ Answer(t) /\ UNCHANGED <<flown, now, begun, disturbed>>

\* timeOfDay: what a flight keeps of an instant.
timeOfDay(t) == t % DayLength
\* buildFlight: the date of off block, the block times as times of day, and the
\* duration, of at least a minute here.
buildFlight(i, s) == [session |-> i, date |-> s.at[1] \div DayLength, off |-> timeOfDay(s.at[1]),
                      on |-> timeOfDay(s.at[4]), total |-> BlockDuration(s), reg |-> s.reg]
\* completeSession: the flight first, then the session, which points to it.
completeSession(t) ==
  /\ tap[t].step = "fly" /\ Len(flown) < MaxFlights
  /\ flown' = Append(flown, buildFlight(tap[t].id, tap[t].row))
  /\ tap' = [tap EXCEPT ![t].step = "close", ![t].row.status = "completed", ![t].row.flight = Len(flown) + 1]
  /\ UNCHANGED <<sessions, now, begun, disturbed>>
\* Mutant: the session is closed without its instants.
closeEmpty(t) == /\ tap[t].step = "close"
                 /\ Update(tap[t].id, [sessions[tap[t].id] EXCEPT !.status = "completed", !.flight = tap[t].row.flight])
                 /\ Answer(t) /\ UNCHANGED <<flown, now, begun, disturbed>>
closeSession(t) == /\ tap[t].step = "close" /\ Update(tap[t].id, tap[t].row)
                   /\ Answer(t) /\ UNCHANGED <<flown, now, begun, disturbed>>

\* Discard reads the open session and writes it back as discarded.
Discard(t) == LET i == GetOpenByUserID IN
  /\ tap[t] = Waiting /\ begun < MaxTaps /\ begun' = begun + 1 /\ i # Unset
  /\ tap' = [tap EXCEPT ![t] = [step |-> "save", id |-> i, row |-> [sessions[i] EXCEPT !.status = "discarded"]]]
  /\ disturbed' = IF Working(i) # {} THEN disturbed \cup {i} ELSE disturbed
  /\ UNCHANGED <<sessions, flown, now>>

\* The request dies between two statements; the phone may tap again.
Dies(t) == /\ tap[t].step \in {"open", "save", "fly", "close"} /\ Answer(t)
           /\ disturbed' = IF tap[t].step = "close" THEN disturbed \cup {tap[t].id} ELSE disturbed
           /\ UNCHANGED <<sessions, flown, now, begun>>

Clock == now < LastTime /\ now' = now + 1 /\ UNCHANGED <<sessions, flown, tap, begun, disturbed>>

SessionsInit == /\ sessions = <<>> /\ flown = <<>> /\ now = 1 /\ begun = 0 /\ disturbed = {}
                /\ tap = [t \in Taps |-> Waiting]
SessionsNext == \/ \E t \in Taps : \/ RecordEvent(t) \/ openSession(t) \/ saveOrdered(t)
                                   \/ completeSession(t) \/ closeSession(t) \/ Discard(t) \/ Dies(t)
                \/ Clock
SessionsSpec == SessionsInit /\ [][SessionsNext]_sessionVars

-----------------------------------------------------------------------------
\* Sessions are well-formed and at most one is open, under double taps and stale writes (the
\* unique index under Create and Update).
SessionsTypeOK == /\ sessions \in Seq(Session) /\ Cardinality({i \in Ids : sessions[i].status = "open"}) <= 1
                  /\ \A k \in 1 .. Len(flown) : flown[k].session \in Ids
                  /\ disturbed \subseteq Ids

\* The flight tells the same block times as the session: its date and off-block time are the
\* instant of off block, its duration leads to that of on block, also past midnight.
Tells(f, s) == LET off == f.date * DayLength + f.off IN
                 off = s.at[1] /\ off + f.total = s.at[4] /\ f.on = timeOfDay(s.at[4])

\* A session whose taps did not overlap and did not die half done makes one flight, and it
\* shows the block times of that flight (completeSession, buildFlight).
OneFlightPerSession ==
  \A i \in Ids \ disturbed :
    LET F == {k \in 1 .. Len(flown) : flown[k].session = i} IN
      /\ Cardinality(F) <= 1
      /\ sessions[i].status = "completed" =>
           F = {sessions[i].flight} /\ \A k \in F : Tells(flown[k], sessions[i])

\* No flight from a session ends before it begins, is longer than a day or has no aircraft,
\* whatever overlaps (completeSession validates the copy that it writes).
FlightsPlausible ==
  \A k \in 1 .. Len(flown) : flown[k].reg /\ flown[k].total > 0 /\ flown[k].total <= MaxDuration
=============================================================================
